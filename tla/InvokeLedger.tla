---------------------------- MODULE InvokeLedger ----------------------------
(***************************************************************************)
(* The invoke rows of ops.request_logs: what RequestLogService and         *)
(* InvokeAttemptLogService do to one row, as functions of the whole table. *)
(*                                                                         *)
(* A row is named by <<logical_request_id, attempt_no>>.  ext says that    *)
(* response_body carries the vendor's external_task_id.  preflight[l] is   *)
(* the code of the row with attempt_no NULL that a failure before any      *)
(* dispatch leaves behind, None when there is none.                        *)
(***************************************************************************)
EXTENDS TaskRow

RowStatuses == {"absent", "pending", "success", "error", "cancelled", "timeout"}

RowType == [st : RowStatuses, ext : BOOLEAN, code : Codes \cup {None}]

LedgerType == [Requests -> RowType]

NoRow == [st |-> "absent", ext |-> FALSE, code |-> None]

EmptyLedger == [r \in Requests |-> NoRow]

Settled(row) == row.st \notin {"absent", "pending"}

\* Mutant: the attempt is logged later, or never.
BeginLater(lg, r) == lg

\* begin: the pending row every physical attempt starts with.
Begin(lg, r) == [lg EXCEPT ![r] = [st |-> "pending", ext |-> FALSE, code |-> None]]

\* updatePending with the vendor's job id.
RecordExternal(lg, r) == [lg EXCEPT ![r].ext = TRUE]

\* Mutant: the last write wins.
FinalizeAny(lg, r, st, code) == [lg EXCEPT ![r].st = st, ![r].code = code]

\* finalizePending: only a pending row changes, and it changes once.
FinalizePending(lg, r, st, code) ==
    IF lg[r].st = "pending" THEN [lg EXCEPT ![r].st = st, ![r].code = code] ELSE lg

\* The rows of a logical invocation, and the one with the highest attempt_no.
RowsOf(lg, l) == {r \in Requests : r[1] = l /\ lg[r].st # "absent"}

Newest(lg, l, r) == r \in RowsOf(lg, l) /\ \A q \in RowsOf(lg, l) : q[2] <= r[2]

\* nextAttemptNo: MAX(attempt_no) + 1.
NextAttemptNo(lg, l, n) ==
    /\ n = 1 \/ <<l, n - 1>> \in RowsOf(lg, l)
    /\ \A r \in RowsOf(lg, l) : r[2] < n

\* The newest pending row that carries an external job: what recovery adopts.
AcceptedRow(lg, l, r) ==
    /\ r \in RowsOf(lg, l) /\ lg[r].st = "pending" /\ lg[r].ext
    /\ \A q \in RowsOf(lg, l) : lg[q].st = "pending" /\ lg[q].ext => q[2] <= r[2]

\* Mutant: lists the orphans of working Tasks only.
OrphanOfWorking(lg, t, r) ==
    lg[r].st = "pending" /\ lg[r].ext /\ t.status \in {"queued", "running"}

\* listAcceptedInvokeOrphans; the Task's columns come along.
AcceptedOrphan(lg, t, r) == lg[r].st = "pending" /\ lg[r].ext

HasAccepted(lg, l) == \E r \in RowsOf(lg, l) : lg[r].st = "pending" /\ lg[r].ext

HasUnresolvedInvoke(lg, l) == \E r \in RowsOf(lg, l) : lg[r].st = "pending"

\* listAbandonedUnknownInvokes, past the abandon window.
Abandoned(lg, t, r) ==
    /\ lg[r].st = "pending" /\ ~lg[r].ext
    /\ t.logical = r[1]
    /\ \/ t.status = "cancelled"
       \/ t.status = "failed" /\ t.error = "INVOKE_OUTCOME_UNKNOWN"

\* RequestLogReconcilerService.reconcileOnce, past its grace period: a row
\* of an invocation its Task has left behind.  The candidate query skips the
\* rows of the Task's current invocation, those with an external job, and,
\* since NOT (NULL = x) is not true, every row of a Task without invocation.
Detached(lg, t, r) ==
    /\ lg[r].st = "pending" /\ ~lg[r].ext
    /\ t.logical \notin {None, r[1]}
    /\ LeaseFree(t)

\* Mutant: the Task's status, copied.
CopyStatus(t) == t.status

DetachedStatus(t) ==
    CASE t.status = "cancelled" -> "cancelled"
      [] t.status = "failed"    -> "error"
      [] OTHER                  -> "timeout"
============================================================================
