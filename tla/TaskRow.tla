------------------------------ MODULE TaskRow ------------------------------
(***************************************************************************)
(* One row of canvas.tasks and the guarded SQL statements that change it.  *)
(*                                                                         *)
(* Every statement of TaskExecutionStore, TaskTerminalService and          *)
(* TaskRetryService is a compare-and-set: a WHERE clause over the current  *)
(* row and a SET list.  Here the WHERE clause is an operator named         *)
(* May<Statement> and the SET list an operator that returns the new row,   *)
(* so that TaskLifecycle only says who runs which statement and when.      *)
(*                                                                         *)
(* Columns that are NULL together are one field:                           *)
(*   lease    lease_token; live says lease_expires_at > NOW()              *)
(*   logical  invoke_logical_request_id and invoke_prepared_at             *)
(*   req      invoke_request_id, external_task_id and the pinned route     *)
(*            (ck_tasks_external_correlation); the vendor's job is named   *)
(*            after the ledger row whose dispatch created it               *)
(* Deadlines (next_poll_at, started_at plus the running timeout) are not   *)
(* columns of the model: a step that waits for one may happen at any time  *)
(* after it was set.  error is the code a failed Task shows; the transient *)
(* errors of a Task that is still retried are left out.                    *)
(***************************************************************************)
EXTENDS Naturals

CONSTANTS
    Tokens,       \* lease tokens; one execution (run or pollOne) owns each
    Logicals,     \* logical invocation ids a prepare step may draw
    MaxFailover,  \* physical attempts one logical invocation may use
    MaxAttempts,  \* retry_count at which decideRetry stops
    None          \* SQL NULL

ASSUME FailoverAssumption == MaxFailover \in Nat \ {0}
ASSUME AttemptsAssumption == MaxAttempts \in Nat
ASSUME NoneAssumption     == None \notin Tokens /\ None \notin Logicals

Attempts == 1..MaxFailover

\* A ledger row of a logical invocation: the database keeps
\* (logical_request_id, attempt_no) unique, so the pair names the row.
Requests == Logicals \X Attempts

ASSUME NullAssumption == None \notin Requests

\* Representatives of isRetryable's list, and of everything outside it.  A row
\* the sweepers settle with a code of their own has None here.
RetryableCodes == {"VENDOR_UNAVAILABLE", "VENDOR_TIMEOUT", "ASSET_DOWNLOAD_FAILED"}
FinalCodes == {"VENDOR_REJECTED", "CREDENTIAL_INVALID", "ADAPTER_INTERNAL",
               "INTERNAL_ERROR", "INVOKE_OUTCOME_UNKNOWN", "INVOKE_RESULT_LOST"}
Codes == RetryableCodes \cup FinalCodes

ASSUME ErrorAssumption == None \notin Codes

Statuses == {"pending", "queued", "running", "succeeded", "failed", "cancelled"}
Terminal == {"succeeded", "failed", "cancelled"}

TaskType ==
    [status : Statuses, lease : Tokens \cup {None}, live : BOOLEAN,
     logical : Logicals \cup {None}, req : Requests \cup {None},
     retry : Nat, attempt : Nat, error : Codes \cup {None}]

\* What create() inserts.
NewTask ==
    [status |-> "pending", lease |-> None, live |-> FALSE, logical |-> None,
     req |-> None, retry |-> 0, attempt |-> 0, error |-> None]

LeaseFree(t) == t.lease = None \/ ~t.live

\* Mutant: any error is dispatched again.
RetryAnyCode(code, retries) == retries < MaxAttempts

(***************************************************************************)
(* decideRetry: the codes that may be dispatched again, up to MaxAttempts. *)
(***************************************************************************)
DecideRetry(code, retries) == code \in RetryableCodes /\ retries < MaxAttempts

(***************************************************************************)
(* Claims.                                                                 *)
(***************************************************************************)
\* Mutant: running Tasks with an expired lease are not claimed.
MayClaimQueuedOnly(t) ==
    /\ t.req = None
    /\ \/ t.status = "pending"
       \/ t.status = "queued" /\ LeaseFree(t)

MayClaimPending(t) ==
    /\ t.req = None
    /\ \/ t.status = "pending"
       \/ t.status \in {"queued", "running"} /\ LeaseFree(t)

\* Mutant: attempt_no is set by the first claim only.
ClaimFirstOnly(t, k) ==
    [t EXCEPT !.status = "queued", !.lease = k, !.live = TRUE,
              !.attempt = IF @ = 0 THEN 1 ELSE @]

ClaimPending(t, k) ==
    [t EXCEPT !.status = "queued", !.lease = k, !.live = TRUE,
              !.attempt = IF t.lease = None /\ t.logical = None THEN @ + 1 ELSE @]

MayClaimDuePoll(t) == t.status = "running" /\ t.req # None /\ LeaseFree(t)

ClaimDuePoll(t, k) == [t EXCEPT !.lease = k, !.live = TRUE]

(***************************************************************************)
(* Statements of the execution that holds token k.  None of them looks at  *)
(* the expiry: an expired lease nobody took over is still the holder's.    *)
(***************************************************************************)
\* Mutant: the status alone, without the token.
HeldByAnyone(t, k) == t.status \in {"queued", "running"}

HeldBy(t, k) == t.lease = k /\ t.status \in {"queued", "running"}

RenewLease(t) == [t EXCEPT !.live = TRUE]

MayStart(t, k) == t.lease = k /\ t.status = "queued"

StartClaimed(t) == [t EXCEPT !.status = "running", !.live = TRUE]

MayPrepare(t, k, l) ==
    /\ t.lease = k /\ t.status = "running"
    /\ t.req = None
    /\ t.logical \in {None, l}

PrepareInvokeAttempt(t, l) == [t EXCEPT !.logical = l]

MaySaveExternal(t, k, r) ==
    /\ t.lease = k /\ t.status = "running"
    /\ t.req = None
    /\ t.logical = r[1]

SaveExternalResult(t, r) == [t EXCEPT !.req = r, !.lease = None, !.live = FALSE]

MayDefer(t, k) ==
    t.lease = k /\ t.status = "running" /\ t.logical # None /\ t.req = None

DeferInvokeRecovery(t) ==
    [t EXCEPT !.status = "queued", !.lease = None, !.live = FALSE]

MayRelease(t, k) == t.lease = k /\ t.status = "running"

ReleasePoll(t) == [t EXCEPT !.lease = None, !.live = FALSE]

SchedulePollRetry(t) == [t EXCEPT !.retry = @ + 1, !.lease = None, !.live = FALSE]

ScheduleRetry(t) ==
    [t EXCEPT !.status = "queued", !.req = None, !.logical = None,
              !.retry = @ + 1, !.lease = None, !.live = FALSE]

\* updateTerminal and the UPDATE of cancelByOwner.
Finish(t, status, code) ==
    [t EXCEPT !.status = status, !.error = code, !.lease = None, !.live = FALSE]

(***************************************************************************)
(* Statements of actors without a lease.                                   *)
(***************************************************************************)
\* Mutant: attaches under somebody's unexpired lease.
MayAttachLeased(t, r) ==
    /\ t.logical = r[1]
    /\ t.req = None /\ t.status \in {"queued", "running"}

MayAttachRecovered(t, r) ==
    /\ t.logical = r[1]
    /\ t.req = None /\ t.status \in {"queued", "running"}
    /\ LeaseFree(t)

AttachRecovered(t, r) ==
    [t EXCEPT !.status = "running", !.req = r, !.lease = None, !.live = FALSE]

MayUserRetry(t) == t.status \in {"failed", "cancelled"}

UserRetry(t) ==
    [t EXCEPT !.status = "queued", !.req = None, !.logical = None, !.error = None,
              !.retry = @ + 1, !.lease = None, !.live = FALSE]
============================================================================
