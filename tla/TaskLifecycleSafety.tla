------------------------ MODULE TaskLifecycleSafety ------------------------
(***************************************************************************)
(* The types and the safety theorems of TaskLifecycle, for every value of  *)
(* the constants, from the inductive invariant.                            *)
(*                                                                         *)
(* Most steps do nothing to an invocation on its way to the vendor: they   *)
(* settle pending rows, end jobs that the vendor has taken, let go of the  *)
(* lease, or send an execution to a step from which it never dispatches    *)
(* again.  These are the quiet steps, and one lemma shows that they keep   *)
(* the invariant.  The other steps (claim, start, prepare, and those of    *)
(* the dispatch loop) have a lemma each.                                   *)
(***************************************************************************)
EXTENDS TaskLifecycleInv, TLAPS

(***************************************************************************)
(* The statements on the row return rows.                                  *)
(***************************************************************************)

\* The codes that the steps name are codes.
LEMMA NamedCodes ==
    /\ RejectCodes \subseteq Codes /\ PollCodes \subseteq Codes
    /\ {"VENDOR_TIMEOUT", "VENDOR_REJECTED", "ASSET_DOWNLOAD_FAILED", "ADAPTER_INTERNAL",
        "INTERNAL_ERROR", "INVOKE_OUTCOME_UNKNOWN", "INVOKE_RESULT_LOST"} \subseteq Codes
BY CodesAssumption DEF Codes, RetryableCodes, FinalCodes

\* Claims.
LEMMA ClaimsType ==
    \A t \in TaskType, k \in Tokens :
        ClaimPending(t, k) \in TaskType /\ ClaimDuePoll(t, k) \in TaskType
<1> SUFFICES ASSUME NEW t \in TaskType, NEW k \in Tokens
             PROVE  ClaimPending(t, k) \in TaskType /\ ClaimDuePoll(t, k) \in TaskType
  OBVIOUS
<1>1. PICK n \in Nat :
        ClaimPending(t, k) = [t EXCEPT !.status = "queued", !.lease = k, !.live = TRUE,
                                       !.attempt = n]
  <2>1. t.attempt \in Nat /\ t.attempt + 1 \in Nat  BY DEF TaskType
  <2>2. QED  BY <2>1 DEF ClaimPending
<1>2. ClaimPending(t, k) \in TaskType  BY <1>1 DEF TaskType, Statuses
<1>3. ClaimDuePoll(t, k) \in TaskType  BY DEF ClaimDuePoll, TaskType
<1>4. QED  BY <1>2, <1>3

\* Statements that count nothing.
LEMMA PlainType ==
    \A t \in TaskType :
        /\ RenewLease(t) \in TaskType
        /\ StartClaimed(t) \in TaskType
        /\ DeferInvokeRecovery(t) \in TaskType
        /\ ReleasePoll(t) \in TaskType
        /\ [t EXCEPT !.live = FALSE] \in TaskType
<1> SUFFICES ASSUME NEW t \in TaskType
             PROVE  /\ RenewLease(t) \in TaskType
                    /\ StartClaimed(t) \in TaskType
                    /\ DeferInvokeRecovery(t) \in TaskType
                    /\ ReleasePoll(t) \in TaskType
                    /\ [t EXCEPT !.live = FALSE] \in TaskType
  OBVIOUS
<1> USE DEF TaskType, Statuses
<1>1. RenewLease(t) \in TaskType  BY DEF RenewLease
<1>2. StartClaimed(t) \in TaskType  BY DEF StartClaimed
<1>3. DeferInvokeRecovery(t) \in TaskType  BY DEF DeferInvokeRecovery
<1>4. ReleasePoll(t) \in TaskType  BY DEF ReleasePoll
<1>5. [t EXCEPT !.live = FALSE] \in TaskType  OBVIOUS
<1>6. QED  BY <1>1, <1>2, <1>3, <1>4, <1>5

LEMMA PrepareType ==
    \A t \in TaskType, l \in Logicals : PrepareInvokeAttempt(t, l) \in TaskType
BY DEF PrepareInvokeAttempt, TaskType

LEMMA AttachType ==
    \A t \in TaskType, r \in Requests :
        SaveExternalResult(t, r) \in TaskType /\ AttachRecovered(t, r) \in TaskType
BY DEF SaveExternalResult, AttachRecovered, TaskType, Statuses

LEMMA FinishType ==
    \A t \in TaskType, st \in Statuses, c \in Codes \cup {None} :
        Finish(t, st, c) \in TaskType
BY DEF Finish, TaskType

\* Statements that count a retry.
LEMMA RetryType ==
    \A t \in TaskType :
        /\ SchedulePollRetry(t) \in TaskType
        /\ ScheduleRetry(t) \in TaskType
        /\ UserRetry(t) \in TaskType
<1> SUFFICES ASSUME NEW t \in TaskType
             PROVE  /\ SchedulePollRetry(t) \in TaskType
                    /\ ScheduleRetry(t) \in TaskType
                    /\ UserRetry(t) \in TaskType
  OBVIOUS
<1> USE DEF TaskType, Statuses
<1>1. PICK n \in Nat : n = t.retry + 1  OBVIOUS
<1>2. SchedulePollRetry(t) \in TaskType
  <2>1. SchedulePollRetry(t) = [t EXCEPT !.retry = n, !.lease = None, !.live = FALSE]
    BY <1>1 DEF SchedulePollRetry
  <2>2. QED  BY <2>1
<1>3. ScheduleRetry(t) \in TaskType
  <2>1. ScheduleRetry(t) =
          [t EXCEPT !.status = "queued", !.req = None, !.logical = None,
                    !.retry = n, !.lease = None, !.live = FALSE]
    BY <1>1 DEF ScheduleRetry
  <2>2. QED  BY <2>1
<1>4. UserRetry(t) \in TaskType
  <2>1. UserRetry(t) =
          [t EXCEPT !.status = "queued", !.req = None, !.logical = None, !.error = None,
                    !.retry = n, !.lease = None, !.live = FALSE]
    BY <1>1 DEF UserRetry
  <2>2. QED  BY <2>1
<1>5. QED  BY <1>2, <1>3, <1>4

(***************************************************************************)
(* The statements on the ledger return ledgers.                            *)
(***************************************************************************)
LEMMA BeginType ==
    \A lg \in LedgerType, r \in Requests : Begin(lg, r) \in LedgerType
BY DEF LedgerType, RowType, RowStatuses, Begin

LEMMA RecordType ==
    \A lg \in LedgerType, r \in Requests : RecordExternal(lg, r) \in LedgerType
BY DEF LedgerType, RowType, RecordExternal

LEMMA FinalizeType ==
    \A lg \in LedgerType, r \in Requests, st \in RowStatuses, c \in Codes \cup {None} :
        FinalizePending(lg, r, st, c) \in LedgerType
<1> SUFFICES ASSUME NEW lg \in LedgerType, NEW r \in Requests, NEW st \in RowStatuses,
                    NEW c \in Codes \cup {None}
             PROVE  FinalizePending(lg, r, st, c) \in LedgerType
  OBVIOUS
<1> DEFINE row == [lg[r] EXCEPT !.st = st, !.code = c]
<1>1. row \in RowType  BY DEF LedgerType, RowType
<1>2. [lg EXCEPT ![r] = row] \in LedgerType  BY <1>1 DEF LedgerType
<1>3. [lg EXCEPT ![r].st = st, ![r].code = c] = [lg EXCEPT ![r] = row]
  BY DEF LedgerType, RowType
<1>4. QED  BY <1>2, <1>3 DEF FinalizePending

\* A row that FinalizePending changes was pending and gets the new status; the
\* recorded job stays.
LEMMA FinalizeOnce ==
    ASSUME NEW lg \in LedgerType, NEW r \in Requests, NEW c \in Codes \cup {None},
           NEW st \in RowStatuses
    PROVE  /\ lg[r].st = "pending" => FinalizePending(lg, r, st, c)[r].st = st
           /\ \A q \in Requests :
                /\ FinalizePending(lg, r, st, c)[q].ext = lg[q].ext
                /\ FinalizePending(lg, r, st, c)[q] # lg[q]
                     => q = r /\ lg[q].st = "pending"
                              /\ FinalizePending(lg, r, st, c)[q].st = st
BY DEF LedgerType, RowType, RowStatuses, FinalizePending

(***************************************************************************)
(* Executions go from one well-shaped record to the next.                  *)
(***************************************************************************)
LEMMA Here ==
    ASSUME Shape, NEW k \in Tokens
    PROVE  exec[k] \in ExecType /\ Shaped(exec[k])
BY DEF Shape, TypeOK, ExecShape

LEMMA GotoShape ==
    ASSUME Shape, NEW k \in Tokens, NEW e \in ExecType, Shaped(e), Goto(k, e)
    PROVE  exec' \in [Tokens -> ExecType] /\ ExecShape'
BY DEF Shape, TypeOK, ExecShape, Goto

LEMMA IdleTo == Idle \in ExecType /\ Shaped(Idle)
BY DEF ExecType, Idle, Steps, Shaped, DispatchSteps, JobSteps

LEMMA FailTo ==
    ASSUME NEW e \in ExecType, NEW c \in Codes \cup {None}, NEW again \in BOOLEAN
    PROVE  FailWith(e, c, again) \in ExecType /\ Shaped(FailWith(e, c, again))
<1>1. FailWith(e, c, again) \in ExecType  BY DEF ExecType, FailWith, Steps
<1>2. FailWith(e, c, again).at = "failed"  BY DEF ExecType, FailWith
<1>3. QED  BY <1>1, <1>2 DEF Shaped, DispatchSteps, JobSteps

\* The same on the poll path, where the answer is kept.
LEMMA PollFailTo ==
    ASSUME NEW e \in ExecType, NEW c \in Codes \cup {None}
    PROVE  LET f == [FailWith(e, c, FALSE) EXCEPT !.answer = "failed"]
           IN  f \in ExecType /\ Shaped(f) /\ f.at = "failed" /\ f.logical = e.logical
<1>1. FailWith(e, c, FALSE) \in ExecType /\ FailWith(e, c, FALSE).at = "failed"
      /\ FailWith(e, c, FALSE).logical = e.logical
  BY DEF ExecType, FailWith, Steps
<1>2. QED  BY <1>1 DEF ExecType, Answers, Shaped, DispatchSteps, JobSteps

(***************************************************************************)
(* Shape is inductive.                                                     *)
(***************************************************************************)
LEMMA CancelType ==
    ASSUME Shape, NEW r \in Requests, CancelJob(r)
    PROVE  vendor' \in [Requests -> VendorStates] /\ faults' \in Nat
BY DEF CancelJob, Shape, TypeOK, VendorStates, Fault, NoFault

LEMMA SettleType ==
    ASSUME Shape, NEW st \in RowStatuses, NEW c \in Codes \cup {None},
           SettleAttached(task, st, c)
    PROVE  ledger' \in LedgerType
<1>1. task.req \in Requests \cup {None}  BY DEF Shape, TypeOK, TaskType
<1>2. QED  BY <1>1, FinalizeType DEF SettleAttached, Shape, TypeOK

LEMMA CancelAttachedType ==
    ASSUME Shape, CancelAttached(task)
    PROVE  vendor' \in [Requests -> VendorStates] /\ faults' \in Nat
<1>1. task.req \in Requests \cup {None}  BY DEF Shape, TypeOK, TaskType
<1>2. QED  BY <1>1, CancelType DEF CancelAttached, Shape, TypeOK, NoFault

LEMMA TerminalFailType ==
    ASSUME Shape, NEW k \in Tokens, NEW c \in Codes \cup {None}, TerminalFail(k, c)
    PROVE  /\ task' \in TaskType /\ ledger' \in LedgerType
           /\ vendor' \in [Requests -> VendorStates] /\ faults' \in Nat
<1>1. CASE HeldBy(task, k) /\ MaySettle(task)
  <2>1. task' \in TaskType
    BY <1>1, FinishType DEF TerminalFail, Shape, TypeOK, Statuses
  <2>2. ledger' \in LedgerType
    BY <1>1, SettleType DEF TerminalFail, RowStatuses
  <2>3. QED  BY <1>1, <2>1, <2>2, CancelAttachedType DEF TerminalFail
<1>2. CASE ~(HeldBy(task, k) /\ MaySettle(task))
  BY <1>2 DEF TerminalFail, Shape, TypeOK, NoFault
<1>3. QED  BY <1>1, <1>2

LEMMA TerminalSucceedType ==
    ASSUME Shape, NEW k \in Tokens, TerminalSucceed(k)
    PROVE  task' \in TaskType /\ ledger' \in LedgerType
<1>1. CASE HeldBy(task, k)
  <2>1. task' \in TaskType
    BY <1>1, FinishType DEF TerminalSucceed, Shape, TypeOK, Statuses
  <2>2. QED  BY <1>1, <2>1, SettleType DEF TerminalSucceed, RowStatuses
<1>2. CASE ~HeldBy(task, k)
  BY <1>2 DEF TerminalSucceed, Shape, TypeOK
<1>3. QED  BY <1>1, <1>2

\* Passes.
LEMMA NoPassTo == NoPass \in PassType /\ NoPass.at = "idle"
BY DEF NoPass, PassType, NewTask, TaskType, Statuses

\* One step per action.
LEMMA ShapeNext == Shape /\ [Next]_vars => Shape'
<1> SUFFICES ASSUME Shape, [Next]_vars PROVE Shape'
  OBVIOUS
<1>0. ASSUME NEW k \in Tokens PROVE exec[k] \in ExecType /\ Shaped(exec[k])
  BY Here
<1>1. ASSUME NEW k \in Tokens, ClaimInvoke(k) PROVE Shape'
  <2>1. task' \in TaskType
    BY <1>0, <1>1, ClaimsType DEF ClaimInvoke, Shape, TypeOK
  <2>2. [Idle EXCEPT !.at = "claimed"] \in ExecType /\ Shaped([Idle EXCEPT !.at = "claimed"])
    BY DEF Idle, ExecType, Steps, Shaped, DispatchSteps, JobSteps
  <2>3. exec' \in [Tokens -> ExecType] /\ ExecShape'
    BY <1>0, <1>1, <2>1, <2>2, GotoShape DEF ClaimInvoke
  <2>4. QED
    BY <1>1, <2>1, <2>3
       DEF ClaimInvoke, Shape, TypeOK, db, PassShape
<1>2. ASSUME NEW k \in Tokens, ClaimPoll(k) PROVE Shape'
  <2>1. task' \in TaskType
    BY <1>0, <1>2, ClaimsType DEF ClaimPoll, Shape, TypeOK
  <2>2. task.req \in Requests /\ task.retry \in Nat
    BY <1>0, <1>2, <2>1 DEF ClaimPoll, MayClaimDuePoll, Shape, TypeOK, TaskType
  <2>3. LET e == [Idle EXCEPT !.at = "poll", !.req = task.req, !.retry = task.retry]
        IN  e \in ExecType /\ Shaped(e)
    BY <1>0, <1>2, <2>1, <2>2 DEF ClaimPoll, Idle, ExecType, Steps, Shaped, DispatchSteps,
         JobSteps
  <2>4. exec' \in [Tokens -> ExecType] /\ ExecShape'
    BY <1>0, <1>2, <2>1, <2>2, <2>3, GotoShape DEF ClaimPoll
  <2>5. QED
    BY <1>2, <2>1, <2>4
       DEF ClaimPoll, Shape, TypeOK, db, PassShape
<1>3. ASSUME NEW k \in Tokens, Start(k) PROVE Shape'
  <2>1. task' \in TaskType
    BY <1>0, <1>3, PlainType DEF Start, Shape, TypeOK
  <2>2. task.logical \in Logicals \cup {None} /\ task.retry \in Nat
    BY DEF Shape, TypeOK, TaskType
  <2>3. LET e == [exec[k] EXCEPT !.at = "prepare", !.logical = task.logical, !.retry = task.retry]
        IN  e \in ExecType /\ Shaped(e)
    BY <1>0, <1>3, <2>1, <2>2 DEF Start, ExecType, Steps, Shaped, DispatchSteps, JobSteps
  <2>4. exec' \in [Tokens -> ExecType] /\ ExecShape'
    BY <1>0, <1>3, <2>1, <2>2, <2>3, GotoShape, IdleTo DEF Start
  <2>5. QED
    BY <1>3, <2>1, <2>4
       DEF Start, Shape, TypeOK, db, PassShape
<1>4. ASSUME NEW k \in Tokens, Prepare(k) PROVE Shape'
  <2>1. PICK l \in Logicals :
          /\ task' = PrepareInvokeAttempt(task, l)
          /\ key' = [key EXCEPT ![l] = task.attempt]
          /\ Goto(k, [exec[k] EXCEPT !.logical = l, !.at = AfterPrepare(exec[k].logical)])
    BY <1>4 DEF Prepare
  <2>2. task' \in TaskType
    BY <2>1, PrepareType DEF Shape, TypeOK
  <2>3. AfterPrepare(exec[k].logical) \in {"preflight", "recover"}
    BY DEF AfterPrepare
  <2>4. LET e == [exec[k] EXCEPT !.logical = l, !.at = AfterPrepare(exec[k].logical)]
        IN  e \in ExecType /\ Shaped(e)
    BY <1>0, <2>3 DEF ExecType, Steps, Shaped, DispatchSteps, JobSteps
  <2>5. exec' \in [Tokens -> ExecType] /\ ExecShape'
    BY <2>1, <2>4, GotoShape
  <2>6. key' \in [Logicals -> Nat]
    BY <2>1 DEF Shape, TypeOK, TaskType
  <2>7. QED
    BY <1>4, <2>2, <2>5, <2>6 DEF Prepare, Shape, TypeOK, PassShape
<1>5. ASSUME NEW k \in Tokens, PrepareMisses(k) PROVE Shape'
  <2>1. exec' \in [Tokens -> ExecType] /\ ExecShape'
    BY <1>0, <1>5, GotoShape, IdleTo DEF PrepareMisses
  <2>2. QED
    BY <1>5, <2>1
       DEF PrepareMisses, Shape, TypeOK, db, PassShape
<1>6. ASSUME NEW k \in Tokens, Preflight(k) PROVE Shape'
  <2>1. PICK n \in Attempts :
          Goto(k, [exec[k] EXCEPT !.at = "begin", !.req = <<exec[k].logical, n>>])
    BY <1>6 DEF Preflight
  <2>2. exec[k].logical \in Logicals
    BY <1>0, <1>6 DEF Preflight, At, Shaped, DispatchSteps
  <2>3. LET e == [exec[k] EXCEPT !.at = "begin", !.req = <<exec[k].logical, n>>]
        IN  e \in ExecType /\ Shaped(e)
    BY <1>0, <2>2 DEF ExecType, Steps, Shaped, DispatchSteps, JobSteps, Requests
  <2>4. exec' \in [Tokens -> ExecType] /\ ExecShape'
    BY <2>1, <2>3, GotoShape
  <2>5. QED
    BY <1>6, <2>4 DEF Preflight, Shape, TypeOK, PassShape, db
<1>7. ASSUME NEW k \in Tokens, PreflightFails(k) PROVE Shape'
  <2>1. exec' \in [Tokens -> ExecType] /\ ExecShape'
    BY <1>0, <1>7, GotoShape, FailTo, NamedCodes DEF PreflightFails
  <2>2. preflight' \in [Logicals -> Codes \cup {None}]
    BY <1>0, <1>7, <2>1, NamedCodes DEF PreflightFails, Shape, TypeOK
  <2>3. QED
    BY <1>7, <2>1, <2>2
       DEF PreflightFails, Shape, TypeOK, db, PassShape, Fault, NoFault
<1>8. ASSUME NEW k \in Tokens, BeginAttempt(k) PROVE Shape'
  <2>1. exec[k].req \in Requests
    BY <1>0, <1>8 DEF BeginAttempt, Shaped, JobSteps, At
  <2>2. exec' \in [Tokens -> ExecType] /\ ExecShape'
    BY <1>0, <1>8, <2>1, GotoShape DEF BeginAttempt, ExecType, Steps, Shaped, DispatchSteps,
         JobSteps, At
  <2>3. ledger' \in LedgerType
    BY <1>0, <1>8, <2>1, <2>2, BeginType DEF BeginAttempt, Shape, TypeOK
  <2>4. QED
    BY <1>8, <2>2, <2>3
       DEF BeginAttempt, Shape, TypeOK, db, PassShape
<1>9. ASSUME NEW k \in Tokens, BeginFails(k) PROVE Shape'
  <2>1. exec[k].req \in Requests
    BY <1>0, <1>9 DEF BeginFails, Shaped, JobSteps, At
  <2>2. exec' \in [Tokens -> ExecType] /\ ExecShape'
    BY <1>0, <1>9, <2>1, GotoShape, FailTo, NamedCodes DEF BeginFails
  <2>3. ledger' \in LedgerType
    BY <1>0, <1>9, <2>1, <2>2, BeginType DEF BeginFails, Shape, TypeOK
  <2>4. QED
    BY <1>9, <2>2, <2>3
       DEF BeginFails, Shape, TypeOK, db, PassShape, Fault, NoFault
<1>10. ASSUME NEW k \in Tokens, Dispatch(k) PROVE Shape'
  <2>1. exec[k].req \in Requests
    BY <1>0, <1>10 DEF Dispatch, Shaped, JobSteps, At
  <2>2. exec' \in [Tokens -> ExecType] /\ ExecShape'
    BY ZenonT(30), <1>0, <1>10, <2>1, GotoShape, NamedCodes DEF Dispatch, ExecType, Steps, Shaped,
         DispatchSteps, JobSteps, At
  <2>3. \A a \in Answers : VendorEffect(a) \in VendorStates
    BY DEF VendorEffect, Answers, VendorStates
  <2>4. vendor' \in [Requests -> VendorStates]
    BY <1>0, <1>10, <2>1, <2>2, <2>3 DEF Dispatch, Shape, TypeOK, VendorStates
  <2>5. QED
    BY <1>10, <2>2, <2>4
       DEF Dispatch, Shape, TypeOK, db, PassShape
<1>11. ASSUME NEW k \in Tokens, DispatchUnknown(k) PROVE Shape'
  <2>1. exec[k].req \in Requests
    BY <1>0, <1>11 DEF DispatchUnknown, Shaped, JobSteps, At
  <2>2. exec' \in [Tokens -> ExecType] /\ ExecShape'
    BY <1>0, <1>11, <2>1, GotoShape, FailTo, NamedCodes DEF DispatchUnknown
  <2>3. vendor' \in [Requests -> VendorStates]
    BY <1>0, <1>11, <2>1, <2>2 DEF DispatchUnknown, Shape, TypeOK, VendorStates
  <2>4. QED
    BY <1>11, <2>2, <2>3
       DEF DispatchUnknown, Shape, TypeOK, db, PassShape, Fault, NoFault
<1>12. ASSUME NEW k \in Tokens, LogRejected(k) PROVE Shape'
  <2>1. /\ exec[k].req \in Requests /\ exec[k].logical \in Logicals
        /\ exec[k].req[1] = exec[k].logical /\ exec[k].code \in Codes \cup {None}
    BY <1>0, <1>12 DEF LogRejected, At, Shaped, JobSteps, DispatchSteps, ExecType
  <2>2. exec' \in [Tokens -> ExecType] /\ ExecShape'
    <3>1. CASE Goto(k, FailWith(exec[k], exec[k].code, TRUE))
      BY <3>1, <1>0, <2>1, FailTo, GotoShape
    <3>2. CASE /\ exec[k].req[2] < MaxFailover
               /\ Goto(k, [exec[k] EXCEPT !.at = "begin", !.code = None, !.answer = None,
                                          !.req = <<exec[k].logical, exec[k].req[2] + 1>>])
      <4>1. <<exec[k].logical, exec[k].req[2] + 1>> \in Requests
        BY <2>1, <3>2, FailoverAssumption DEF Requests, Attempts
      <4>2. LET e == [exec[k] EXCEPT !.at = "begin", !.code = None, !.answer = None,
                                     !.req = <<exec[k].logical, exec[k].req[2] + 1>>]
            IN  e \in ExecType /\ Shaped(e)
        BY <1>0, <2>1, <4>1 DEF ExecType, Steps, Shaped, DispatchSteps, JobSteps
      <4>3. QED  BY <3>2, <4>2, GotoShape
    <3>3. QED  BY <1>12, <3>1, <3>2 DEF LogRejected
  <2>3. ledger' \in LedgerType
    BY <1>12, <2>1, FinalizeType DEF LogRejected, Shape, TypeOK, RowStatuses
  <2>4. QED
    BY <1>12, <2>2, <2>3 DEF LogRejected, Shape, TypeOK, PassShape
<1>13. ASSUME NEW k \in Tokens, LogRunning(k) PROVE Shape'
  <2>1. exec[k].req \in Requests
    BY <1>0, <1>13 DEF LogRunning, Shaped, JobSteps, At
  <2>2. exec' \in [Tokens -> ExecType] /\ ExecShape'
    BY <1>0, <1>13, <2>1, GotoShape DEF LogRunning, ExecType, Steps, Shaped, DispatchSteps,
         JobSteps, At
  <2>3. ledger' \in LedgerType
    BY <1>0, <1>13, <2>1, <2>2, RecordType DEF LogRunning, Shape, TypeOK
  <2>4. QED
    BY <1>13, <2>2, <2>3
       DEF LogRunning, Shape, TypeOK, db, PassShape
<1>14. ASSUME NEW k \in Tokens, LogIncomplete(k) PROVE Shape'
  <2>1. exec[k].req \in Requests
    BY <1>0, <1>14 DEF LogIncomplete, Shaped, JobSteps, At
  <2>2. exec' \in [Tokens -> ExecType] /\ ExecShape'
    BY <1>0, <1>14, <2>1, GotoShape, FailTo, NamedCodes DEF LogIncomplete
  <2>3. ledger' \in LedgerType
    BY <1>0, <1>14, <2>1, <2>2, FinalizeType, NamedCodes DEF LogIncomplete, Shape, TypeOK,
         RowStatuses
  <2>4. QED
    BY <1>14, <2>2, <2>3
       DEF LogIncomplete, Shape, TypeOK, db, PassShape
<1>15. ASSUME NEW k \in Tokens, LogSuccess(k) PROVE Shape'
  <2>1. exec[k].req \in Requests
    BY <1>0, <1>15 DEF LogSuccess, Shaped, JobSteps, At
  <2>2. exec' \in [Tokens -> ExecType] /\ ExecShape'
    BY <1>0, <1>15, <2>1, GotoShape DEF LogSuccess, ExecType, Steps, Shaped, DispatchSteps,
         JobSteps, At
  <2>3. ledger' \in LedgerType
    BY <1>0, <1>15, <2>1, <2>2, FinalizeType, NamedCodes DEF LogSuccess, Shape, TypeOK,
         RowStatuses
  <2>4. QED
    BY <1>15, <2>2, <2>3
       DEF LogSuccess, Shape, TypeOK, db, PassShape
<1>16. ASSUME NEW k \in Tokens, LogFailed(k) PROVE Shape'
  <2>1. exec[k].req \in Requests
    BY <1>0, <1>16 DEF LogFailed, Shaped, JobSteps, At
  <2>2. exec[k].code \in Codes \cup {None}
    BY <1>0, <1>16, <2>1 DEF LogFailed, ExecType
  <2>3. exec' \in [Tokens -> ExecType] /\ ExecShape'
    BY <1>0, <1>16, <2>1, <2>2, GotoShape, FailTo DEF LogFailed
  <2>4. ledger' \in LedgerType
    BY <1>0, <1>16, <2>1, <2>2, <2>3, FinalizeType, NamedCodes DEF LogFailed, Shape, TypeOK,
         RowStatuses
  <2>5. QED
    BY <1>16, <2>3, <2>4
       DEF LogFailed, Shape, TypeOK, db, PassShape
<1>17. ASSUME NEW k \in Tokens, LogIngestFailure(k) PROVE Shape'
  <2>1. exec[k].req \in Requests
    BY <1>0, <1>17 DEF LogIngestFailure, Shaped, JobSteps, At
  <2>2. exec[k].code \in Codes \cup {None}
    BY <1>0, <1>17, <2>1 DEF LogIngestFailure, ExecType
  <2>3. exec' \in [Tokens -> ExecType] /\ ExecShape'
    BY <1>0, <1>17, <2>1, <2>2, GotoShape, FailTo DEF LogIngestFailure
  <2>4. ledger' \in LedgerType
    BY <1>0, <1>17, <2>1, <2>2, <2>3, FinalizeType, NamedCodes DEF LogIngestFailure, Shape,
         TypeOK, RowStatuses
  <2>5. QED
    BY <1>17, <2>3, <2>4
       DEF LogIngestFailure, Shape, TypeOK, db, PassShape
<1>18. ASSUME NEW k \in Tokens, LogFails(k) PROVE Shape'
  <2>1. exec[k].req \in Requests
    BY <1>0, <1>18 DEF LogFails, Shaped, JobSteps, At
  <2>2. LogFailureCodes(exec[k].answer) \subseteq Codes
    BY <1>0, <1>18, <2>1, NamedCodes DEF LogFails, LogFailureCodes
  <2>3. exec' \in [Tokens -> ExecType] /\ ExecShape'
    BY <1>0, <1>18, <2>1, <2>2, GotoShape, FailTo DEF LogFails
  <2>4. vendor' \in [Requests -> VendorStates]
    BY <1>0, <1>18, <2>1, <2>2, <2>3 DEF LogFails, Shape, TypeOK, VendorStates, CancelTried
  <2>5. QED
    BY <1>18, <2>3, <2>4
       DEF LogFails, Shape, TypeOK, db, PassShape, Fault, NoFault
<1>19. ASSUME NEW k \in Tokens, SaveExternal(k) PROVE Shape'
  <2>1. exec[k].req \in Requests
    BY <1>0, <1>19 DEF SaveExternal, Shaped, JobSteps, At
  <2>2. task' \in TaskType
    BY <1>0, <1>19, <2>1, AttachType DEF SaveExternal, Shape, TypeOK
  <2>3. exec' \in [Tokens -> ExecType] /\ ExecShape'
    BY <1>0, <1>19, <2>1, <2>2, GotoShape, IdleTo DEF SaveExternal, ExecType, Steps, Shaped,
         DispatchSteps, JobSteps, At
  <2>4. QED
    BY <1>19, <2>2, <2>3
       DEF SaveExternal, Shape, TypeOK, db, PassShape
<1>20. ASSUME NEW k \in Tokens, SaveExternalThrows(k) PROVE Shape'
  <2>1. exec[k].req \in Requests
    BY <1>0, <1>20 DEF SaveExternalThrows, Shaped, JobSteps, At
  <2>2. exec' \in [Tokens -> ExecType] /\ ExecShape'
    BY <1>0, <1>20, <2>1, GotoShape, FailTo, NamedCodes DEF SaveExternalThrows
  <2>3. ledger' \in LedgerType
    BY <1>0, <1>20, <2>1, <2>2, FinalizeType, NamedCodes DEF SaveExternalThrows, Shape,
         TypeOK, RowStatuses
  <2>4. vendor' \in [Requests -> VendorStates]
    BY <1>0, <1>20, <2>1, <2>2, <2>3 DEF SaveExternalThrows, Shape, TypeOK, VendorStates,
         CancelTried
  <2>5. QED
    BY <1>20, <2>2, <2>3, <2>4
       DEF SaveExternalThrows, Shape, TypeOK, db, PassShape, Fault, NoFault
<1>21. ASSUME NEW k \in Tokens, Discard(k) PROVE Shape'
  <2>1. exec[k].req \in Requests
    BY <1>0, <1>21 DEF Discard, Shaped, JobSteps, At
  <2>2. exec' \in [Tokens -> ExecType] /\ ExecShape'
    BY <1>0, <1>21, <2>1, GotoShape, IdleTo DEF Discard
  <2>3. ledger' \in LedgerType
    BY <1>0, <1>21, <2>1, <2>2, FinalizeType, NamedCodes DEF Discard, Shape, TypeOK,
         RowStatuses
  <2>4. vendor' \in [Requests -> VendorStates]
    BY <1>0, <1>21, <2>1, <2>2, <2>3 DEF Discard, Shape, TypeOK, VendorStates, CancelJob,
         NoFault
  <2>5. QED
    BY <1>21, <2>2, <2>3, <2>4
       DEF Discard, Shape, TypeOK, db, PassShape, CancelJob, Fault, NoFault
<1>22. ASSUME NEW k \in Tokens, HandleFailed(k) PROVE Shape'
  <2>1. exec' \in [Tokens -> ExecType] /\ ExecShape'
    BY <1>22, GotoShape, IdleTo DEF HandleFailed
  <2>2. CASE RetryDecided(k)
    BY <1>22, <2>1, <2>2, RetryType DEF HandleFailed, Shape, TypeOK, PassShape
  <2>3. CASE TerminalFail(k, exec[k].code)
    BY <1>22, <1>0, <2>1, <2>3, TerminalFailType DEF HandleFailed, Shape, TypeOK, PassShape,
         ExecType
  <2>4. QED  BY <1>22, <2>2, <2>3 DEF HandleFailed
<1>23. ASSUME NEW k \in Tokens, Succeed(k) PROVE Shape'
  <2>1. exec' \in [Tokens -> ExecType] /\ ExecShape'
    BY <1>23, GotoShape, IdleTo DEF Succeed
  <2>2. QED
    BY <1>23, <2>1, TerminalSucceedType DEF Succeed, Shape, TypeOK, PassShape
<1>24. ASSUME NEW k \in Tokens, SucceedThrows(k) PROVE Shape'
  <2>1. exec' \in [Tokens -> ExecType] /\ ExecShape'
    BY <1>0, <1>24, GotoShape, FailTo, NamedCodes DEF SucceedThrows
  <2>2. QED
    BY <1>24, <2>1
       DEF SucceedThrows, Shape, TypeOK, db, PassShape, Fault, NoFault
<1>25. ASSUME NEW k \in Tokens, RecoverAccepted(k) PROVE Shape'
  <2>1. PICK r \in Requests :
          /\ AcceptedRow(ledger, exec[k].logical, r)
          /\ Goto(k, [exec[k] EXCEPT !.at = "adopt", !.req = r])
    BY <1>25 DEF RecoverAccepted
  <2>2. exec[k].logical \in Logicals /\ r[1] = exec[k].logical
    BY <1>0, <1>25, <2>1 DEF RecoverAccepted, At, Shaped, AcceptedRow, RowsOf
  <2>3. LET e == [exec[k] EXCEPT !.at = "adopt", !.req = r]
        IN  e \in ExecType /\ Shaped(e)
    BY <1>0, <2>2 DEF ExecType, Steps, Shaped, DispatchSteps, JobSteps
  <2>4. exec' \in [Tokens -> ExecType] /\ ExecShape'
    BY <2>1, <2>3, GotoShape
  <2>5. QED
    BY <1>25, <2>4 DEF RecoverAccepted, Shape, TypeOK, PassShape, db
<1>26. ASSUME NEW k \in Tokens, RecoverSettled(k) PROVE Shape'
  <2>1. exec[k].logical \in Logicals
    BY <1>0, <1>26 DEF RecoverSettled, At, Shaped
  <2>2. RecoveredCodes(exec[k].logical) \subseteq Codes
    <3>1. preflight[exec[k].logical] \in Codes \cup {None}
      BY <2>1 DEF Shape, TypeOK
    <3>2. ASSUME NEW r \in Requests PROVE RowCode(ledger[r]) \in Codes
      BY NamedCodes DEF RowCode, Shape, TypeOK, LedgerType, RowType
    <3>3. QED  BY <3>1, <3>2 DEF RecoveredCodes
  <2>3. exec' \in [Tokens -> ExecType] /\ ExecShape'
    BY <1>0, <1>26, <2>2, FailTo, GotoShape DEF RecoverSettled
  <2>4. QED
    BY <1>26, <2>3 DEF RecoverSettled, Shape, TypeOK, PassShape, db
<1>27. ASSUME NEW k \in Tokens, RecoverExpired(k) PROVE Shape'
  <2>1. exec' \in [Tokens -> ExecType] /\ ExecShape'
    BY <1>0, <1>27, GotoShape, FailTo, NamedCodes DEF RecoverExpired
  <2>2. QED
    BY <1>27, <2>1
       DEF RecoverExpired, Shape, TypeOK, db, PassShape
<1>28. ASSUME NEW k \in Tokens, RecoverDefers(k) PROVE Shape'
  <2>1. task' \in TaskType
    BY <1>0, <1>28, PlainType DEF RecoverDefers, Shape, TypeOK
  <2>2. exec' \in [Tokens -> ExecType] /\ ExecShape'
    BY <1>0, <1>28, <2>1, GotoShape, IdleTo DEF RecoverDefers
  <2>3. QED
    BY <1>28, <2>1, <2>2
       DEF RecoverDefers, Shape, TypeOK, db, PassShape
<1>29. ASSUME NEW k \in Tokens, Adopt(k) PROVE Shape'
  <2>1. exec[k].req \in Requests
    BY <1>0, <1>29 DEF Adopt, Shaped, JobSteps, At
  <2>2. task' \in TaskType
    BY <1>0, <1>29, <2>1, AttachType DEF Adopt, Shape, TypeOK
  <2>3. exec' \in [Tokens -> ExecType] /\ ExecShape'
    BY <1>0, <1>29, <2>1, <2>2, GotoShape, IdleTo DEF Adopt, ExecType, Steps, Shaped,
         DispatchSteps, JobSteps, At
  <2>4. QED
    BY <1>29, <2>2, <2>3
       DEF Adopt, Shape, TypeOK, db, PassShape
<1>30. ASSUME NEW k \in Tokens, AdoptMissed(k) PROVE Shape'
  <2>1. exec[k].req \in Requests
    BY <1>0, <1>30 DEF AdoptMissed, Shaped, JobSteps, At
  <2>2. exec' \in [Tokens -> ExecType] /\ ExecShape'
    BY <1>0, <1>30, <2>1, GotoShape, IdleTo DEF AdoptMissed
  <2>3. ledger' \in LedgerType
    BY <1>0, <1>30, <2>1, <2>2, FinalizeType, NamedCodes DEF AdoptMissed, Compensate, Shape,
         TypeOK, RowStatuses
  <2>4. vendor' \in [Requests -> VendorStates]
    BY <1>0, <1>30, <2>1, <2>2, <2>3 DEF AdoptMissed, Shape, TypeOK, VendorStates,
         Compensate
  <2>5. QED
    BY <1>30, <2>2, <2>3, <2>4
       DEF AdoptMissed, Shape, TypeOK, db, PassShape, Compensate, Fault, NoFault
<1>31. ASSUME NEW k \in Tokens, PollAgain(k) PROVE Shape'
  <2>1. task' \in TaskType
    BY <1>0, <1>31, PlainType DEF PollAgain, Shape, TypeOK
  <2>2. exec' \in [Tokens -> ExecType] /\ ExecShape'
    BY <1>0, <1>31, <2>1, GotoShape, IdleTo DEF PollAgain
  <2>3. QED
    BY <1>31, <2>1, <2>2
       DEF PollAgain, Shape, TypeOK, db, PassShape
<1>32. ASSUME NEW k \in Tokens, PollIngestFails(k) PROVE Shape'
  <2>1. task' \in TaskType
    BY <1>0, <1>32, RetryType DEF PollIngestFails, Shape, TypeOK
  <2>2. exec' \in [Tokens -> ExecType] /\ ExecShape'
    BY <1>0, <1>32, <2>1, GotoShape, IdleTo DEF PollIngestFails
  <2>3. vendor' \in [Requests -> VendorStates]
    BY <1>0, <1>32, <2>1, <2>2 DEF PollIngestFails, Shape, TypeOK, VendorStates
  <2>4. QED
    BY <1>32, <2>1, <2>2, <2>3
       DEF PollIngestFails, Shape, TypeOK, db, PassShape
<1>33. ASSUME NEW k \in Tokens, PollSucceeded(k) PROVE Shape'
  <2>1. exec' \in [Tokens -> ExecType] /\ ExecShape'
    BY <1>33, GotoShape, IdleTo DEF PollSucceeded
  <2>2. vendor' \in [Requests -> VendorStates]
    BY <1>33 DEF PollSucceeded, Shape, TypeOK, VendorStates
  <2>3. QED
    BY <1>33, <2>1, <2>2, TerminalSucceedType DEF PollSucceeded, Shape, TypeOK, PassShape
<1>34. ASSUME NEW k \in Tokens, PollFailed(k) PROVE Shape'
  <2>1. exec[k].req \in Requests
    BY <1>0, <1>34 DEF PollFailed, At, Shaped, JobSteps
  <2>2. LET e == [exec[k] EXCEPT !.at = "reschedule"]
        IN  e \in ExecType /\ Shaped(e)
    BY <1>0, <2>1 DEF ExecType, Steps, Shaped, DispatchSteps, JobSteps
  <2>3. exec' \in [Tokens -> ExecType] /\ ExecShape'
    <3>1. CASE Goto(k, [exec[k] EXCEPT !.at = "reschedule"])
      BY <2>2, <3>1, GotoShape
    <3>2. ASSUME NEW c \in PollCodes,
                 Goto(k, [FailWith(exec[k], c, FALSE) EXCEPT !.answer = "failed"])
          PROVE  exec' \in [Tokens -> ExecType] /\ ExecShape'
      BY <1>0, <3>2, PollFailTo, CodesAssumption, GotoShape
    <3>3. QED  BY <1>34, <3>1, <3>2 DEF PollFailed
  <2>4. ledger' \in LedgerType
    BY <1>34, <2>1, FinalizeType, NamedCodes DEF PollFailed, Shape, TypeOK, RowStatuses
  <2>5. vendor' \in [Requests -> VendorStates]
    BY <1>34 DEF PollFailed, Shape, TypeOK, VendorStates
  <2>6. QED
    BY <1>34, <2>3, <2>4, <2>5 DEF PollFailed, Shape, TypeOK, PassShape
<1>35. ASSUME NEW k \in Tokens, Reschedule(k) PROVE Shape'
  <2>1. task' \in TaskType
    BY <1>0, <1>35, RetryType DEF Reschedule, Shape, TypeOK
  <2>2. exec' \in [Tokens -> ExecType] /\ ExecShape'
    BY <1>0, <1>35, <2>1, GotoShape, IdleTo DEF Reschedule
  <2>3. QED
    BY <1>35, <2>1, <2>2
       DEF Reschedule, Shape, TypeOK, db, PassShape
<1>36. ASSUME NEW k \in Tokens, PollGivesUp(k) PROVE Shape'
  <2>1. exec' \in [Tokens -> ExecType] /\ ExecShape'
    BY <1>0, <1>36, GotoShape, FailTo, NamedCodes DEF PollGivesUp
  <2>2. QED
    BY <1>36, <2>1
       DEF PollGivesUp, Shape, TypeOK, db, PassShape
<1>37. ASSUME NEW k \in Tokens, Heartbeat(k) PROVE Shape'
  <2>1. task' \in TaskType
    BY <1>0, <1>37, PlainType DEF Heartbeat, Shape, TypeOK
  <2>2. QED
    BY <1>37, <2>1
       DEF Heartbeat, Shape, TypeOK, db, PassShape, ExecShape
<1>38. ASSUME NEW k \in Tokens, Crash(k) PROVE Shape'
  <2>1. exec' \in [Tokens -> ExecType] /\ ExecShape'
    BY <1>0, <1>38, GotoShape, IdleTo DEF Crash
  <2>2. QED
    BY <1>38, <2>1
       DEF Crash, Shape, TypeOK, db, PassShape, Fault, NoFault
<1>39. ASSUME NEW i \in Instances, NEW r \in Requests, ListOrphan(i, r) PROVE Shape'
  <2>1. [at |-> "listed", req |-> r, seen |-> task] \in PassType
    BY DEF Shape, TypeOK, PassType
  <2>2. pass' \in [Instances -> PassType] /\ PassShape'
    BY <1>39, <2>1 DEF ListOrphan, SetPass, Shape, TypeOK, PassShape
  <2>3. QED
    BY <1>39, <2>2
       DEF ListOrphan, Shape, TypeOK, db, ExecShape
<1>40. ASSUME NEW i \in Instances, OrphanAttached(i) PROVE Shape'
  <2>1. pass' \in [Instances -> PassType] /\ PassShape'
    BY <1>40, NoPassTo DEF OrphanAttached, SetPass, Shape, TypeOK, PassShape
  <2>2. pass[i] \in PassType /\ pass[i].req \in Requests
    BY <1>40, <2>1 DEF OrphanAttached, Shape, TypeOK, PassShape
  <2>3. \A st \in {"success", "cancelled", "error"} : st \in RowStatuses
    BY DEF RowStatuses
  <2>4. pass[i].seen.error \in Codes \cup {None} /\ (pass[i].seen.status \in Terminal => pass[i].seen.status \in {"succeeded", "cancelled", "failed"})
    BY <1>40, <2>1, <2>2, <2>3 DEF OrphanAttached, PassType, TaskType, Terminal
  <2>5. ledger' \in LedgerType
    BY <1>40, <2>1, <2>2, <2>3, <2>4, FinalizeType DEF OrphanAttached, Shape, TypeOK
  <2>6. QED
    BY <1>40, <2>1, <2>5
       DEF OrphanAttached, Shape, TypeOK, db, ExecShape
<1>41. ASSUME NEW i \in Instances, OrphanOwned(i) PROVE Shape'
  <2>1. pass' \in [Instances -> PassType] /\ PassShape'
    BY <1>41, NoPassTo DEF OrphanOwned, SetPass, Shape, TypeOK, PassShape
  <2>2. QED
    BY <1>41, <2>1
       DEF OrphanOwned, Shape, TypeOK, db, ExecShape
<1>42. ASSUME NEW i \in Instances, OrphanAttach(i) PROVE Shape'
  <2>1. pass[i] \in PassType /\ pass[i].req \in Requests
    BY <1>42 DEF OrphanAttach, Shape, TypeOK, PassShape
  <2>2. pass' \in [Instances -> PassType] /\ PassShape'
    BY <1>42, <2>1, NoPassTo DEF OrphanAttach, SetPass, Shape, TypeOK, PassShape, PassType
  <2>3. task' \in TaskType
    BY <1>42, <2>1, <2>2, AttachType DEF OrphanAttach, Shape, TypeOK
  <2>4. QED
    BY <1>42, <2>2, <2>3
       DEF OrphanAttach, Shape, TypeOK, db, ExecShape, Fault, NoFault
<1>43. ASSUME NEW i \in Instances, OrphanMissed(i) PROVE Shape'
  <2>1. pass[i] \in PassType /\ pass[i].req \in Requests
    BY <1>43 DEF OrphanMissed, Shape, TypeOK, PassShape
  <2>2. pass' \in [Instances -> PassType] /\ PassShape'
    BY <1>43, <2>1, NoPassTo DEF OrphanMissed, SetPass, Shape, TypeOK, PassShape, PassType
  <2>3. QED
    BY <1>43, <2>2
       DEF OrphanMissed, Shape, TypeOK, db, ExecShape
<1>44. ASSUME NEW i \in Instances, OrphanForeign(i) PROVE Shape'
  <2>1. pass[i] \in PassType /\ pass[i].req \in Requests
    BY <1>44 DEF OrphanForeign, Shape, TypeOK, PassShape
  <2>2. pass' \in [Instances -> PassType] /\ PassShape'
    BY <1>44, <2>1, NoPassTo DEF OrphanForeign, SetPass, Shape, TypeOK, PassShape, PassType
  <2>3. QED
    BY <1>44, <2>2
       DEF OrphanForeign, Shape, TypeOK, db, ExecShape
<1>45. ASSUME NEW i \in Instances, OrphanCompensate(i) PROVE Shape'
  <2>1. pass[i] \in PassType /\ pass[i].req \in Requests
    BY <1>45 DEF OrphanCompensate, Shape, TypeOK, PassShape
  <2>2. pass' \in [Instances -> PassType] /\ PassShape'
    BY <1>45, <2>1, NoPassTo DEF OrphanCompensate, SetPass, Shape, TypeOK, PassShape
  <2>3. ledger' \in LedgerType
    BY <1>45, <2>1, <2>2, FinalizeType DEF OrphanCompensate, Compensate, Shape, TypeOK,
         RowStatuses
  <2>4. vendor' \in [Requests -> VendorStates]
    BY <1>45, <2>1, <2>2, <2>3 DEF OrphanCompensate, Shape, TypeOK, VendorStates, Compensate
  <2>5. QED
    BY <1>45, <2>2, <2>3, <2>4
       DEF OrphanCompensate, Shape, TypeOK, db, ExecShape, Compensate, Fault, NoFault
<1>46. ASSUME NEW i \in Instances, OrphanCompensateFails(i) PROVE Shape'
  <2>1. pass' \in [Instances -> PassType] /\ PassShape'
    BY <1>46, NoPassTo DEF OrphanCompensateFails, SetPass, Shape, TypeOK, PassShape
  <2>2. QED
    BY <1>46, <2>1
       DEF OrphanCompensateFails, Shape, TypeOK, db, ExecShape, Fault, NoFault
<1>47. ASSUME NEW i \in Instances, CrashPass(i) PROVE Shape'
  <2>1. pass' \in [Instances -> PassType] /\ PassShape'
    BY <1>47, NoPassTo DEF CrashPass, SetPass, Shape, TypeOK, PassShape
  <2>2. QED
    BY <1>47, <2>1
       DEF CrashPass, Shape, TypeOK, db, ExecShape, Fault, NoFault
<1>48. ASSUME NEW r \in Requests, Abandon(r) PROVE Shape'
  <2>1. ledger' \in LedgerType
    BY <1>48, FinalizeType DEF Abandon, Shape, TypeOK, RowStatuses
  <2>2. QED
    BY <1>48, <2>1
       DEF Abandon, Shape, TypeOK, db, PassShape, ExecShape
<1>49. ASSUME NEW r \in Requests, SweepDetached(r) PROVE Shape'
  <2>1. DetachedStatus(task) \in RowStatuses
    BY DEF DetachedStatus, RowStatuses
  <2>2. ledger' \in LedgerType
    BY <1>49, <2>1, FinalizeType DEF SweepDetached, Shape, TypeOK
  <2>3. QED
    BY <1>49, <2>2
       DEF SweepDetached, Shape, TypeOK, db, PassShape, ExecShape
<1>50. ASSUME Cancel PROVE Shape'
  <2>1. task' \in TaskType
    BY <1>50, FinishType DEF Cancel, Shape, TypeOK, Statuses
  <2>2. ledger' \in LedgerType
    BY <1>50, <2>1, SettleType DEF Cancel, RowStatuses
  <2>3. vendor' \in [Requests -> VendorStates] /\ faults' \in Nat
    BY <1>50, <2>1, <2>2, CancelAttachedType DEF Cancel
  <2>4. QED
    BY <1>50, <2>1, <2>2, <2>3
       DEF Cancel, Shape, TypeOK, db, PassShape, ExecShape
<1>51. ASSUME RetryCheck PROVE Shape'
  <2>1. owner' \in {"idle", "checked"}
    BY <1>51 DEF RetryCheck
  <2>2. QED
    BY <1>51, <2>1
       DEF RetryCheck, Shape, TypeOK, db, PassShape, ExecShape
<1>52. ASSUME RetryUpdate PROVE Shape'
  <2>1. task' \in TaskType
    BY <1>52, RetryType DEF RetryUpdate, Shape, TypeOK
  <2>2. QED
    BY <1>52, <2>1
       DEF RetryUpdate, Shape, TypeOK, db, PassShape, ExecShape
<1>53. ASSUME LeaseExpires PROVE Shape'
  <2>1. task' \in TaskType
    BY <1>53, PlainType DEF LeaseExpires, Shape, TypeOK
  <2>2. QED
    BY <1>53, <2>1
       DEF LeaseExpires, Shape, TypeOK, db, PassShape, ExecShape
<1>54. ASSUME Stall PROVE Shape'
  <2>1. task' \in TaskType
    BY <1>54, PlainType DEF Stall, Shape, TypeOK
  <2>2. QED
    BY <1>54, <2>1
       DEF Stall, Shape, TypeOK, db, PassShape, ExecShape, Fault, NoFault
<1>57. ASSUME NEW k \in Tokens, PollFailThrows(k) PROVE Shape'
  <2>1. task' \in TaskType
    BY <1>0, <1>57, PlainType DEF PollFailThrows, Shape, TypeOK
  <2>2. exec' \in [Tokens -> ExecType] /\ ExecShape'
    BY <1>0, <1>57, <2>1, GotoShape, IdleTo DEF PollFailThrows
  <2>3. QED
    BY <1>57, <2>1, <2>2
       DEF PollFailThrows, Shape, TypeOK, db, PassShape
<1>55. CASE UNCHANGED vars
  BY <1>55 DEF vars, Shape, TypeOK, ExecShape, PassShape
<1>56. QED
  BY <1>1, <1>2, <1>3, <1>4, <1>5, <1>6, <1>7, <1>8, <1>9, <1>10, <1>11, <1>12, <1>13,
       <1>14, <1>15, <1>16, <1>17, <1>18, <1>19, <1>20, <1>21, <1>22, <1>23, <1>24, <1>25,
       <1>26, <1>27, <1>28, <1>29, <1>30, <1>31, <1>32, <1>33, <1>34, <1>35, <1>36, <1>37,
       <1>38, <1>39, <1>40, <1>41, <1>42, <1>43, <1>44, <1>45, <1>46, <1>47, <1>48, <1>49,
       <1>50, <1>51, <1>52, <1>53, <1>54, <1>55,
       <1>57
     DEF Next, Claim, Work, Invoke, Recover, Poll, ActOnOrphan, Sweep, Owner

LEMMA ShapeInit == Init => Shape
<1> SUFFICES ASSUME Init PROVE Shape
  OBVIOUS
<1>1. task \in TaskType
  BY DEF Init, NewTask, TaskType, Statuses
<1>2. ledger \in LedgerType
  BY DEF Init, EmptyLedger, LedgerType, NoRow, RowType, RowStatuses
<1>3. exec \in [Tokens -> ExecType] /\ ExecShape
  BY IdleTo DEF Init, ExecShape
<1>4. pass \in [Instances -> PassType] /\ PassShape
  BY NoPassTo DEF Init, PassShape
<1>5. QED
  BY <1>1, <1>2, <1>3, <1>4 DEF Init, Shape, TypeOK, VendorStates

LEMMA ShapeCorrect == Spec => []Shape
BY ShapeInit, ShapeNext, PTL DEF Spec

\* The row, the ledger, and what executions and passes remember keep their
\* types: no statement, crash or answer produces a value outside them.
THEOREM TypeCorrect == Spec => []TypeOK
<1>1. Shape => TypeOK  BY DEF Shape
<1>2. QED  BY <1>1, ShapeCorrect, PTL

-----------------------------------------------------------------------------

ExecQuiet ==
    \A k \in Tokens :
        \/ exec'[k] = exec[k]
        \/ /\ exec'[k].at \notin DispatchSteps \cup {"prepare"}
           /\ exec'[k].logical \in {None, exec[k].logical}

VendorQuiet ==
    \A r \in Requests :
        vendor'[r] # vendor[r] => vendor[r] \in Accepted /\ vendor'[r] \in Accepted

LedgerQuiet ==
    \A r \in Requests :
        /\ ledger[r].ext => ledger'[r].ext
        /\ ledger'[r] # ledger[r] => ledger[r].st = "pending" /\ ledger'[r].st # "absent"

RowQuiet ==
    /\ task'.attempt = task.attempt
    /\ task'.status = "pending" => task.status = "pending"
    /\ task'.status \in Terminal => task.status \in Terminal \/ task'.lease = None
    /\ task'.req # None => task'.logical = task'.req[1]
    /\ \/ task'.lease = task.lease /\ task'.logical = task.logical
       \/ task'.lease = None /\ task'.logical \in {None, task.logical}

\* Nothing but the row moves on an invocation's way to the vendor.
Still == UNCHANGED key /\ ExecQuiet /\ VendorQuiet /\ LedgerQuiet

Quiet == Still /\ RowQuiet

(***************************************************************************)
(* Quiet steps keep the invariant.                                         *)
(***************************************************************************)
LEMMA LogicalOfFreeIsNone ==
    ASSUME Shape, NEW k \in Tokens, Dispatching(k)
    PROVE  exec[k].logical \in Logicals /\ exec[k].logical # None
BY Here, NoneAssumption DEF Shaped, Dispatching

LEMMA QuietRow ==
    ASSUME Core, Quiet, Shape'
    PROVE  RowShape' /\ StartedOnRow'
<1>1. RowShape'
  BY DEF Core, Quiet, RowQuiet, RowShape
<1>2. StartedOnRow'
  <2> SUFFICES ASSUME NEW k \in Tokens, exec'[k].at = "prepare", task'.lease = k
               PROVE  task'.logical = exec'[k].logical
    BY DEF StartedOnRow
  <2>1. exec'[k] = exec[k]
    BY DEF Quiet, Still, ExecQuiet
  <2>2. task'.lease = task.lease /\ task'.logical = task.logical
    BY NoneAssumption DEF Quiet, RowQuiet
  <2>3. QED  BY <2>1, <2>2 DEF Core, StartedOnRow
<1>3. QED  BY <1>1, <1>2

LEMMA QuietKeys ==
    ASSUME Core, Quiet, Shape'
    PROVE  KeysBelowAttempt' /\ KeysDistinct'
<1>1. key' = key /\ task'.attempt = task.attempt
  BY DEF Quiet, Still, RowQuiet
<1>2. KeysDistinct'
  BY <1>1 DEF Core, KeysDistinct
<1>3. task'.logical # None => task'.logical = task.logical
  BY DEF Quiet, RowQuiet
<1>4. task'.logical = None /\ task'.lease # None => task.logical = None /\ task.lease # None
  BY DEF Quiet, RowQuiet
<1>5. KeysBelowAttempt'
  BY <1>1, <1>3, <1>4 DEF Core, KeysBelowAttempt
<1>6. QED  BY <1>2, <1>5

LEMMA StillDispatch ==
    ASSUME Core, Still, Shape'
    PROVE  FreshUntouched' /\ OneDispatcher' /\ DispatchOrder'
<1>1. ASSUME NEW k \in Tokens, exec'[k].at \in DispatchSteps
      PROVE  exec'[k] = exec[k]
  BY <1>1 DEF Still, ExecQuiet
<1>2. ASSUME NEW r \in Requests
      PROVE  (ledger'[r].st = "absent") <=> (ledger[r].st = "absent")
  BY DEF Still, LedgerQuiet
<1>3. FreshUntouched'
  <2> SUFFICES ASSUME NEW l \in Logicals, key'[l] = 0
               PROVE  /\ \A k \in Tokens : exec'[k].logical # l
                      /\ \A r \in Requests : r[1] = l => ledger'[r].st = "absent"
    BY DEF FreshUntouched
  <2>1. key[l] = 0  BY DEF Still
  <2>2. ASSUME NEW k \in Tokens PROVE exec'[k].logical # l
    BY <2>1, NoneAssumption DEF Still, ExecQuiet, Core, FreshUntouched
  <2>3. ASSUME NEW r \in Requests, r[1] = l PROVE ledger'[r].st = "absent"
    BY <1>2, <2>1, <2>3 DEF Core, FreshUntouched
  <2>4. QED  BY <2>2, <2>3
<1>4. OneDispatcher'
  BY <1>1 DEF OneDispatcher, Dispatching, Core
<1>5. DispatchOrder'
  <2> SUFFICES ASSUME NEW k \in Tokens, NEW r \in Requests, r[1] = exec'[k].logical,
                      exec'[k].at \in DispatchSteps
               PROVE  /\ exec'[k].at = "begin" /\ r[2] >= exec'[k].req[2]
                            => ledger'[r].st = "absent"
                      /\ exec'[k].at \in {"dispatch", "log"} /\ r[2] > exec'[k].req[2]
                            => ledger'[r].st = "absent"
                      /\ exec'[k].at \in {"dispatch", "log"} /\ r = exec'[k].req
                            => ledger'[r].st # "absent"
    BY DEF DispatchOrder, InOrder, DispatchSteps
  <2>1. QED  BY <1>1, <1>2 DEF Core, DispatchOrder, InOrder
<1>6. QED  BY <1>3, <1>4, <1>5

LEMMA StillVendor ==
    ASSUME Core, Still, Shape'
    PROVE  /\ NothingTakenYet' /\ NoJobWithoutRow'
           /\ LedgerBeforeDispatch' /\ AtMostOncePerInvocation'
<1>1. ASSUME NEW k \in Tokens, exec'[k].at \in DispatchSteps
      PROVE  exec'[k] = exec[k]
  BY <1>1 DEF Still, ExecQuiet
<1>2. ASSUME NEW r \in Requests
      PROVE  (vendor'[r] \in Accepted) <=> (vendor[r] \in Accepted)
  BY DEF Still, VendorQuiet
<1>3. NothingTakenYet'
  <2> SUFFICES ASSUME NEW k \in Tokens, NEW r \in Requests, r[1] = exec'[k].logical,
                      \/ exec'[k].at \in {"preflight", "begin", "dispatch"}
                      \/ exec'[k].at = "log" /\ exec'[k].answer = "rejected"
               PROVE  vendor'[r] \notin Accepted
    BY DEF NothingTakenYet, Untaken
  <2>1. exec'[k] = exec[k]  BY <1>1 DEF DispatchSteps
  <2>2. QED  BY <1>2, <2>1 DEF Core, NothingTakenYet, Untaken
<1>4. NoJobWithoutRow'
  BY DEF Core, Still, LedgerQuiet, NoJobWithoutRow
<1>5. LedgerBeforeDispatch'
  <2> SUFFICES ASSUME NEW r \in Requests, vendor'[r] # "none"
               PROVE  ledger'[r].st # "absent"
    BY DEF LedgerBeforeDispatch
  <2>1. vendor[r] # "none"  BY DEF Still, VendorQuiet, Accepted
  <2>2. QED  BY <2>1 DEF Core, LedgerBeforeDispatch, Still, LedgerQuiet
<1>6. AtMostOncePerInvocation'
  BY <1>2 DEF Core, AtMostOncePerInvocation
<1>7. QED  BY <1>3, <1>4, <1>5, <1>6

LEMMA QuietKeeps ==
    ASSUME Core, Quiet, Shape'
    PROVE  Core'
BY QuietRow, QuietKeys, StillDispatch, StillVendor DEF Core, Quiet

(***************************************************************************)
(* The quiet steps.                                                        *)
(***************************************************************************)
LEMMA GotoQuiet ==
    ASSUME Shape, NEW k \in Tokens, NEW e, Goto(k, e),
           e.at \notin DispatchSteps \cup {"prepare"}, e.logical \in {None, exec[k].logical}
    PROVE  ExecQuiet
BY DEF Goto, ExecQuiet, Shape, TypeOK

LEMMA IdleQuiet ==
    ASSUME Shape, NEW k \in Tokens, Goto(k, Idle)
    PROVE  ExecQuiet
BY GotoQuiet DEF Idle, DispatchSteps

LEMMA FailQuiet ==
    ASSUME Shape, NEW k \in Tokens, NEW c, NEW again, Goto(k, FailWith(exec[k], c, again))
    PROVE  ExecQuiet
<1>1. exec[k] \in ExecType  BY Here
<1>2. /\ FailWith(exec[k], c, again).at = "failed"
      /\ FailWith(exec[k], c, again).logical = exec[k].logical
  BY <1>1 DEF FailWith, ExecType
<1>3. QED  BY <1>2, GotoQuiet DEF DispatchSteps

LEMMA AtQuiet ==
    ASSUME Shape, NEW k \in Tokens, NEW at \in Steps \ (DispatchSteps \cup {"prepare"}),
           Goto(k, [exec[k] EXCEPT !.at = at])
    PROVE  ExecQuiet
<1>1. exec[k] \in ExecType  BY Here
<1>2. QED  BY <1>1, GotoQuiet DEF ExecType

\* Settling a row as anything but pending.
SettledStatuses == {"success", "error", "cancelled", "timeout"}

LEMMA FinalizeQuiet ==
    ASSUME Shape, NEW r \in Requests, NEW st \in SettledStatuses, NEW c \in Codes \cup {None},
           ledger' = FinalizePending(ledger, r, st, c)
    PROVE  LedgerQuiet
<1>1. ledger \in LedgerType /\ st \in RowStatuses
  BY DEF Shape, TypeOK, SettledStatuses, RowStatuses
<1>2. \A q \in Requests :
        /\ ledger'[q].ext = ledger[q].ext
        /\ ledger'[q] # ledger[q] => ledger[q].st = "pending" /\ ledger'[q].st = st
  BY <1>1, FinalizeOnce
<1>3. QED  BY <1>2 DEF LedgerQuiet, SettledStatuses

LEMMA SettleQuiet ==
    ASSUME Shape, NEW st \in SettledStatuses, NEW c \in Codes \cup {None},
           SettleAttached(task, st, c)
    PROVE  LedgerQuiet
<1>1. task.req \in Requests \cup {None}  BY DEF Shape, TypeOK, TaskType
<1>2. QED  BY <1>1, FinalizeQuiet DEF SettleAttached, LedgerQuiet

LEMMA CancelJobQuiet ==
    ASSUME Shape, NEW r \in Requests, CancelJob(r) \/ CancelTried(r)
    PROVE  VendorQuiet
BY DEF CancelJob, CancelTried, VendorQuiet, Accepted, Shape, TypeOK

LEMMA CompensateQuiet ==
    ASSUME Shape, NEW r \in Requests, Compensate(r)
    PROVE  VendorQuiet /\ LedgerQuiet
<1>1. VendorQuiet
  BY DEF Compensate, VendorQuiet, Accepted, Shape, TypeOK
<1>2. LedgerQuiet
  BY FinalizeQuiet DEF Compensate, SettledStatuses
<1>3. QED  BY <1>1, <1>2

LEMMA CancelAttachedQuiet ==
    ASSUME Shape, CancelAttached(task)
    PROVE  VendorQuiet
<1>1. task.req \in Requests \cup {None}  BY DEF Shape, TypeOK, TaskType
<1>2. QED  BY <1>1, CancelJobQuiet DEF CancelAttached, VendorQuiet

\* The SET lists that let go of the lease or leave it alone.
LEMMA RowStatementsQuiet ==
    ASSUME Shape, RowShape, NEW st \in Terminal, NEW c \in Codes \cup {None},
           task' \in {task, RenewLease(task), [task EXCEPT !.live = FALSE],
                      DeferInvokeRecovery(task), ReleasePoll(task),
                      SchedulePollRetry(task), ScheduleRetry(task), UserRetry(task),
                      Finish(task, st, c)}
    PROVE  RowQuiet
<1> USE NoneAssumption DEF RowQuiet, RowShape, TaskType, Terminal
<1>1. task \in TaskType  BY DEF Shape, TypeOK
<1>2. task' = task \/ task' = RenewLease(task) \/ task' = [task EXCEPT !.live = FALSE]
        => RowQuiet
  BY <1>1 DEF RenewLease
<1>3. task' = DeferInvokeRecovery(task) => RowQuiet
  BY <1>1 DEF DeferInvokeRecovery
<1>4. task' = ReleasePoll(task) \/ task' = SchedulePollRetry(task) => RowQuiet
  BY <1>1 DEF ReleasePoll, SchedulePollRetry
<1>5. task' = ScheduleRetry(task) => RowQuiet
  BY <1>1 DEF ScheduleRetry
<1>6. task' = UserRetry(task) => RowQuiet
  BY <1>1 DEF UserRetry
<1>7. task' = Finish(task, st, c) => RowQuiet
  BY <1>1 DEF Finish
<1>8. QED  BY <1>2, <1>3, <1>4, <1>5, <1>6, <1>7

LEMMA AttachQuiet ==
    ASSUME Shape, RowShape, NEW r \in Requests, task.logical = r[1],
           task' \in {SaveExternalResult(task, r), AttachRecovered(task, r)}
    PROVE  RowQuiet
<1>1. task \in TaskType  BY DEF Shape, TypeOK
<1>2. task' = SaveExternalResult(task, r) => RowQuiet
  BY <1>1 DEF RowQuiet, TaskType, SaveExternalResult
<1>3. task' = AttachRecovered(task, r) => RowQuiet
  BY <1>1 DEF RowQuiet, TaskType, AttachRecovered
<1>4. QED  BY <1>2, <1>3

LEMMA TerminalFailQuiet ==
    ASSUME Shape, RowShape, NEW k \in Tokens, NEW c \in Codes \cup {None}, TerminalFail(k, c)
    PROVE  RowQuiet /\ LedgerQuiet /\ VendorQuiet
<1>1. CASE HeldBy(task, k) /\ MaySettle(task)
  <2>1. RowQuiet
    BY <1>1, RowStatementsQuiet DEF TerminalFail, Terminal
  <2>2. LedgerQuiet
    BY <1>1, SettleQuiet DEF TerminalFail, SettledStatuses
  <2>3. QED  BY <1>1, <2>1, <2>2, CancelAttachedQuiet DEF TerminalFail
<1>2. CASE ~(HeldBy(task, k) /\ MaySettle(task))
  BY <1>2, RowStatementsQuiet DEF TerminalFail, LedgerQuiet, VendorQuiet, Terminal
<1>3. QED  BY <1>1, <1>2

LEMMA TerminalSucceedQuiet ==
    ASSUME Shape, RowShape, NEW k \in Tokens, TerminalSucceed(k)
    PROVE  RowQuiet /\ LedgerQuiet
<1>1. CASE HeldBy(task, k)
  <2>1. RowQuiet
    BY <1>1, RowStatementsQuiet DEF TerminalSucceed, Terminal
  <2>2. QED  BY <1>1, <2>1, SettleQuiet DEF TerminalSucceed, SettledStatuses
<1>2. CASE ~HeldBy(task, k)
  BY <1>2, RowStatementsQuiet DEF TerminalSucceed, LedgerQuiet, Terminal
<1>3. QED  BY <1>1, <1>2

\* A step that leaves the row, the ledger or the vendor alone.
LEMMA NothingQuiet ==
    ASSUME Shape, RowShape
    PROVE  /\ UNCHANGED task => RowQuiet
           /\ UNCHANGED ledger => LedgerQuiet
           /\ UNCHANGED vendor => VendorQuiet
           /\ UNCHANGED exec => ExecQuiet
BY RowStatementsQuiet DEF LedgerQuiet, VendorQuiet, ExecQuiet, Terminal

LEMMA PrepareMissesQuiet ==
    ASSUME Shape, RowShape, NEW k \in Tokens, PrepareMisses(k)
    PROVE  Quiet
<1>0. exec[k] \in ExecType /\ Shaped(exec[k])
  BY Here
<1>1. ExecQuiet
  BY <1>0, IdleQuiet DEF PrepareMisses
<1>2. QED
  BY <1>1, NothingQuiet DEF PrepareMisses, Quiet, Still, db

LEMMA PreflightFailsQuiet ==
    ASSUME Shape, RowShape, NEW k \in Tokens, PreflightFails(k)
    PROVE  Quiet
<1>0. exec[k] \in ExecType /\ Shaped(exec[k])
  BY Here
<1>1. ExecQuiet
  BY <1>0, FailQuiet DEF PreflightFails
<1>2. QED
  BY <1>1, NothingQuiet DEF PreflightFails, Quiet, Still, db

LEMMA LogRunningQuiet ==
    ASSUME Shape, RowShape, NEW k \in Tokens, LogRunning(k)
    PROVE  Quiet
<1>0. exec[k] \in ExecType /\ Shaped(exec[k])
  BY Here
<1>1. exec[k].req \in Requests
  BY <1>0 DEF LogRunning, Shaped, JobSteps, At
<1>2. ExecQuiet
  BY <1>0, <1>1, AtQuiet DEF LogRunning, At, Steps, DispatchSteps
<1>3. LedgerQuiet
  BY <1>0, <1>1 DEF LogRunning, RecordExternal, RowOpen, LedgerQuiet, Shape, TypeOK,
       LedgerType, RowType
<1>4. QED
  BY <1>1, <1>2, <1>3, NothingQuiet DEF LogRunning, Quiet, Still, db

LEMMA LogIncompleteQuiet ==
    ASSUME Shape, RowShape, NEW k \in Tokens, LogIncomplete(k)
    PROVE  Quiet
<1>0. exec[k] \in ExecType /\ Shaped(exec[k])
  BY Here
<1>1. exec[k].req \in Requests
  BY <1>0 DEF LogIncomplete, Shaped, JobSteps, At
<1>2. ExecQuiet
  BY <1>0, <1>1, FailQuiet DEF LogIncomplete
<1>3. LedgerQuiet
  BY <1>0, <1>1, FinalizeQuiet, NamedCodes DEF LogIncomplete, SettledStatuses
<1>4. QED
  BY <1>1, <1>2, <1>3, NothingQuiet DEF LogIncomplete, Quiet, Still, db

LEMMA LogSuccessQuiet ==
    ASSUME Shape, RowShape, NEW k \in Tokens, LogSuccess(k)
    PROVE  Quiet
<1>0. exec[k] \in ExecType /\ Shaped(exec[k])
  BY Here
<1>1. exec[k].req \in Requests
  BY <1>0 DEF LogSuccess, Shaped, JobSteps, At
<1>2. ExecQuiet
  BY <1>0, <1>1, AtQuiet DEF LogSuccess, At, Steps, DispatchSteps
<1>3. LedgerQuiet
  BY <1>0, <1>1, FinalizeQuiet, NamedCodes DEF LogSuccess, SettledStatuses
<1>4. QED
  BY <1>1, <1>2, <1>3, NothingQuiet DEF LogSuccess, Quiet, Still, db

LEMMA LogFailedQuiet ==
    ASSUME Shape, RowShape, NEW k \in Tokens, LogFailed(k)
    PROVE  Quiet
<1>0. exec[k] \in ExecType /\ Shaped(exec[k])
  BY Here
<1>1. exec[k].req \in Requests
  BY <1>0 DEF LogFailed, Shaped, JobSteps, At
<1>2. exec[k].code \in Codes \cup {None}
  BY <1>0, <1>1 DEF LogFailed, ExecType
<1>3. ExecQuiet
  BY <1>0, <1>1, <1>2, FailQuiet DEF LogFailed
<1>4. LedgerQuiet
  BY <1>0, <1>1, <1>2, FinalizeQuiet, NamedCodes DEF LogFailed, SettledStatuses
<1>5. QED
  BY <1>1, <1>2, <1>3, <1>4, NothingQuiet DEF LogFailed, Quiet, Still, db

LEMMA LogIngestFailureQuiet ==
    ASSUME Shape, RowShape, NEW k \in Tokens, LogIngestFailure(k)
    PROVE  Quiet
<1>0. exec[k] \in ExecType /\ Shaped(exec[k])
  BY Here
<1>1. exec[k].req \in Requests
  BY <1>0 DEF LogIngestFailure, Shaped, JobSteps, At
<1>2. exec[k].code \in Codes \cup {None}
  BY <1>0, <1>1 DEF LogIngestFailure, ExecType
<1>3. ExecQuiet
  BY <1>0, <1>1, <1>2, FailQuiet DEF LogIngestFailure
<1>4. LedgerQuiet
  BY <1>0, <1>1, <1>2, FinalizeQuiet, NamedCodes DEF LogIngestFailure, SettledStatuses
<1>5. QED
  BY <1>1, <1>2, <1>3, <1>4, NothingQuiet DEF LogIngestFailure, Quiet, Still, db

LEMMA LogFailsQuiet ==
    ASSUME Shape, RowShape, NEW k \in Tokens, LogFails(k)
    PROVE  Quiet
<1>0. exec[k] \in ExecType /\ Shaped(exec[k])
  BY Here
<1>1. exec[k].req \in Requests
  BY <1>0 DEF LogFails, Shaped, JobSteps, At
<1>2. ExecQuiet
  BY <1>0, <1>1, FailQuiet DEF LogFails
<1>3. VendorQuiet
  BY <1>0, <1>1, CancelJobQuiet, NothingQuiet DEF LogFails
<1>4. QED
  BY <1>1, <1>2, <1>3, NothingQuiet DEF LogFails, Quiet, Still, db

LEMMA SaveExternalQuiet ==
    ASSUME Shape, RowShape, NEW k \in Tokens, SaveExternal(k)
    PROVE  Quiet
<1>0. exec[k] \in ExecType /\ Shaped(exec[k])
  BY Here
<1>1. exec[k].req \in Requests
  BY <1>0 DEF SaveExternal, Shaped, JobSteps, At
<1>2. MaySaveExternal(task, k, exec[k].req) => task.logical = exec[k].req[1]
  BY <1>0, <1>1 DEF SaveExternal, MaySaveExternal
<1>3. ExecQuiet
  BY <1>0, <1>1, <1>2, IdleQuiet, AtQuiet DEF SaveExternal, At, Steps, DispatchSteps
<1>4. RowQuiet
  BY <1>0, <1>1, <1>2, AttachQuiet, NothingQuiet DEF SaveExternal
<1>5. QED
  BY <1>1, <1>2, <1>3, <1>4, NothingQuiet DEF SaveExternal, Quiet, Still, db

LEMMA SaveExternalThrowsQuiet ==
    ASSUME Shape, RowShape, NEW k \in Tokens, SaveExternalThrows(k)
    PROVE  Quiet
<1>0. exec[k] \in ExecType /\ Shaped(exec[k])
  BY Here
<1>1. exec[k].req \in Requests
  BY <1>0 DEF SaveExternalThrows, Shaped, JobSteps, At
<1>2. ExecQuiet
  BY <1>0, <1>1, FailQuiet DEF SaveExternalThrows
<1>3. LedgerQuiet
  BY <1>0, <1>1, FinalizeQuiet, NamedCodes DEF SaveExternalThrows, SettledStatuses
<1>4. VendorQuiet
  BY <1>0, <1>1, CancelJobQuiet DEF SaveExternalThrows
<1>5. QED
  BY <1>1, <1>2, <1>3, <1>4, NothingQuiet DEF SaveExternalThrows, Quiet, Still, db

LEMMA DiscardQuiet ==
    ASSUME Shape, RowShape, NEW k \in Tokens, Discard(k)
    PROVE  Quiet
<1>0. exec[k] \in ExecType /\ Shaped(exec[k])
  BY Here
<1>1. exec[k].req \in Requests
  BY <1>0 DEF Discard, Shaped, JobSteps, At
<1>2. ExecQuiet
  BY <1>0, <1>1, IdleQuiet DEF Discard
<1>3. LedgerQuiet
  BY <1>0, <1>1, FinalizeQuiet, NamedCodes DEF Discard, SettledStatuses
<1>4. VendorQuiet
  BY <1>0, <1>1, CancelJobQuiet DEF Discard
<1>5. QED
  BY <1>1, <1>2, <1>3, <1>4, NothingQuiet DEF Discard, Quiet, Still, db

LEMMA HandleFailedQuiet ==
    ASSUME Shape, RowShape, NEW k \in Tokens, HandleFailed(k)
    PROVE  Quiet
<1>0. exec[k] \in ExecType /\ Shaped(exec[k])
  BY Here
<1>1. exec[k].code \in Codes \cup {None}
  BY <1>0 DEF HandleFailed, ExecType
<1>2. ExecQuiet
  BY <1>0, <1>1, IdleQuiet DEF HandleFailed
<1>3. RowQuiet /\ LedgerQuiet /\ VendorQuiet
  BY <1>0, <1>1, RowStatementsQuiet, TerminalFailQuiet, NothingQuiet DEF HandleFailed,
       Terminal
<1>4. QED
  BY <1>1, <1>2, <1>3, NothingQuiet DEF HandleFailed, Quiet, Still, db

LEMMA SucceedQuiet ==
    ASSUME Shape, RowShape, NEW k \in Tokens, Succeed(k)
    PROVE  Quiet
<1>0. exec[k] \in ExecType /\ Shaped(exec[k])
  BY Here
<1>1. ExecQuiet
  BY <1>0, IdleQuiet DEF Succeed
<1>2. RowQuiet /\ LedgerQuiet
  BY <1>0, TerminalSucceedQuiet DEF Succeed
<1>3. QED
  BY <1>1, <1>2, NothingQuiet DEF Succeed, Quiet, Still, db

LEMMA SucceedThrowsQuiet ==
    ASSUME Shape, RowShape, NEW k \in Tokens, SucceedThrows(k)
    PROVE  Quiet
<1>0. exec[k] \in ExecType /\ Shaped(exec[k])
  BY Here
<1>1. ExecQuiet
  BY <1>0, FailQuiet DEF SucceedThrows
<1>2. QED
  BY <1>1, NothingQuiet DEF SucceedThrows, Quiet, Still, db

LEMMA RecoverAcceptedQuiet ==
    ASSUME Shape, RowShape, NEW k \in Tokens, RecoverAccepted(k)
    PROVE  Quiet
<1>0. exec[k] \in ExecType /\ Shaped(exec[k])
  BY Here
<1>1. ASSUME NEW r \in Requests, Goto(k, [exec[k] EXCEPT !.at = "adopt", !.req = r])
      PROVE  ExecQuiet
  BY <1>0, GotoQuiet DEF RecoverAccepted, ExecType, DispatchSteps
<1>2. ExecQuiet
  BY <1>0, <1>1 DEF RecoverAccepted
<1>3. QED
  BY <1>1, <1>2, NothingQuiet DEF RecoverAccepted, Quiet, Still, db

LEMMA RecoverSettledQuiet ==
    ASSUME Shape, RowShape, NEW k \in Tokens, RecoverSettled(k)
    PROVE  Quiet
<1>0. exec[k] \in ExecType /\ Shaped(exec[k])
  BY Here
<1>1. ExecQuiet
  BY <1>0, FailQuiet DEF RecoverSettled
<1>2. QED
  BY <1>1, NothingQuiet DEF RecoverSettled, Quiet, Still, db

LEMMA RecoverExpiredQuiet ==
    ASSUME Shape, RowShape, NEW k \in Tokens, RecoverExpired(k)
    PROVE  Quiet
<1>0. exec[k] \in ExecType /\ Shaped(exec[k])
  BY Here
<1>1. ExecQuiet
  BY <1>0, FailQuiet DEF RecoverExpired
<1>2. QED
  BY <1>1, NothingQuiet DEF RecoverExpired, Quiet, Still, db

LEMMA RecoverDefersQuiet ==
    ASSUME Shape, RowShape, NEW k \in Tokens, RecoverDefers(k)
    PROVE  Quiet
<1>0. exec[k] \in ExecType /\ Shaped(exec[k])
  BY Here
<1>1. ExecQuiet
  BY <1>0, IdleQuiet DEF RecoverDefers
<1>2. RowQuiet
  BY <1>0, RowStatementsQuiet DEF RecoverDefers, Terminal
<1>3. QED
  BY <1>1, <1>2, NothingQuiet DEF RecoverDefers, Quiet, Still, db

LEMMA AdoptQuiet ==
    ASSUME Shape, RowShape, NEW k \in Tokens, Adopt(k)
    PROVE  Quiet
<1>0. exec[k] \in ExecType /\ Shaped(exec[k])
  BY Here
<1>1. exec[k].req \in Requests
  BY <1>0 DEF Adopt, Shaped, JobSteps, At
<1>2. MaySaveExternal(task, k, exec[k].req) => task.logical = exec[k].req[1]
  BY <1>0, <1>1 DEF Adopt, MaySaveExternal
<1>3. ExecQuiet
  BY <1>0, <1>1, <1>2, IdleQuiet, AtQuiet DEF Adopt, At, Steps, DispatchSteps
<1>4. RowQuiet
  BY <1>0, <1>1, <1>2, AttachQuiet, NothingQuiet DEF Adopt
<1>5. QED
  BY <1>1, <1>2, <1>3, <1>4, NothingQuiet DEF Adopt, Quiet, Still, db

LEMMA AdoptMissedQuiet ==
    ASSUME Shape, RowShape, NEW k \in Tokens, AdoptMissed(k)
    PROVE  Quiet
<1>0. exec[k] \in ExecType /\ Shaped(exec[k])
  BY Here
<1>1. exec[k].req \in Requests
  BY <1>0 DEF AdoptMissed, Shaped, JobSteps, At
<1>2. ExecQuiet
  BY <1>0, <1>1, IdleQuiet DEF AdoptMissed
<1>3. VendorQuiet /\ LedgerQuiet
  BY <1>0, <1>1, CompensateQuiet, NothingQuiet DEF AdoptMissed
<1>4. QED
  BY <1>1, <1>2, <1>3, NothingQuiet DEF AdoptMissed, Quiet, Still, db

LEMMA PollAgainQuiet ==
    ASSUME Shape, RowShape, NEW k \in Tokens, PollAgain(k)
    PROVE  Quiet
<1>0. exec[k] \in ExecType /\ Shaped(exec[k])
  BY Here
<1>1. ExecQuiet
  BY <1>0, IdleQuiet DEF PollAgain
<1>2. RowQuiet
  BY <1>0, RowStatementsQuiet DEF PollAgain, Terminal
<1>3. QED
  BY <1>1, <1>2, NothingQuiet DEF PollAgain, Quiet, Still, db

LEMMA PollIngestFailsQuiet ==
    ASSUME Shape, RowShape, NEW k \in Tokens, PollIngestFails(k)
    PROVE  Quiet
<1>0. exec[k] \in ExecType /\ Shaped(exec[k])
  BY Here
<1>1. ExecQuiet
  BY <1>0, IdleQuiet DEF PollIngestFails
<1>2. RowQuiet
  BY <1>0, RowStatementsQuiet DEF PollIngestFails, Terminal
<1>3. VendorQuiet
  BY <1>0 DEF PollIngestFails, VendorQuiet, Alive, Accepted, Shape, TypeOK
<1>4. QED
  BY <1>1, <1>2, <1>3, NothingQuiet DEF PollIngestFails, Quiet, Still, db

LEMMA PollSucceededQuiet ==
    ASSUME Shape, RowShape, NEW k \in Tokens, PollSucceeded(k)
    PROVE  Quiet
<1>0. exec[k] \in ExecType /\ Shaped(exec[k])
  BY Here
<1>1. ExecQuiet
  BY <1>0, IdleQuiet DEF PollSucceeded
<1>2. RowQuiet /\ LedgerQuiet
  BY <1>0, TerminalSucceedQuiet DEF PollSucceeded
<1>3. VendorQuiet
  BY <1>0, <1>2 DEF PollSucceeded, VendorQuiet, Alive, Accepted, Shape, TypeOK
<1>4. QED
  BY <1>1, <1>2, <1>3, NothingQuiet DEF PollSucceeded, Quiet, Still, db

LEMMA PollFailedQuiet ==
    ASSUME Shape, RowShape, NEW k \in Tokens, PollFailed(k)
    PROVE  Quiet
<1>0. exec[k] \in ExecType /\ Shaped(exec[k])
  BY Here
<1>1. exec[k].req \in Requests
  BY <1>0 DEF PollFailed, Shaped, JobSteps, At
<1>2. ExecQuiet
  <2>1. CASE Goto(k, [exec[k] EXCEPT !.at = "reschedule"])
    BY <2>1, AtQuiet DEF Steps, DispatchSteps
  <2>2. ASSUME NEW c \in PollCodes,
               Goto(k, [FailWith(exec[k], c, FALSE) EXCEPT !.answer = "failed"])
        PROVE  ExecQuiet
    BY <1>0, <2>2, PollFailTo, CodesAssumption, GotoQuiet DEF DispatchSteps
  <2>3. QED  BY <2>1, <2>2 DEF PollFailed
<1>3. LedgerQuiet
  BY <1>0, <1>1, FinalizeQuiet, NothingQuiet, NamedCodes DEF PollFailed, SettledStatuses
<1>4. VendorQuiet
  BY <1>0, <1>1, NothingQuiet DEF PollFailed, VendorQuiet, Alive, Accepted, Shape, TypeOK
<1>5. QED
  BY <1>1, <1>2, <1>3, <1>4, NothingQuiet DEF PollFailed, Quiet, Still, db

LEMMA PollFailThrowsQuiet ==
    ASSUME Shape, RowShape, NEW k \in Tokens, PollFailThrows(k)
    PROVE  Quiet
<1>1. ExecQuiet
  BY IdleQuiet DEF PollFailThrows
<1>2. RowQuiet
  BY RowStatementsQuiet DEF PollFailThrows, Terminal
<1>3. QED
  BY <1>1, <1>2, NothingQuiet DEF PollFailThrows, Quiet, Still, db

LEMMA RescheduleQuiet ==
    ASSUME Shape, RowShape, NEW k \in Tokens, Reschedule(k)
    PROVE  Quiet
<1>0. exec[k] \in ExecType /\ Shaped(exec[k])
  BY Here
<1>1. ExecQuiet
  BY <1>0, IdleQuiet DEF Reschedule
<1>2. RowQuiet
  BY <1>0, RowStatementsQuiet DEF Reschedule, Terminal
<1>3. QED
  BY <1>1, <1>2, NothingQuiet DEF Reschedule, Quiet, Still, db

LEMMA PollGivesUpQuiet ==
    ASSUME Shape, RowShape, NEW k \in Tokens, PollGivesUp(k)
    PROVE  Quiet
<1>0. exec[k] \in ExecType /\ Shaped(exec[k])
  BY Here
<1>1. ExecQuiet
  BY <1>0, FailQuiet DEF PollGivesUp
<1>2. QED
  BY <1>1, NothingQuiet DEF PollGivesUp, Quiet, Still, db

LEMMA HeartbeatQuiet ==
    ASSUME Shape, RowShape, NEW k \in Tokens, Heartbeat(k)
    PROVE  Quiet
<1>0. exec[k] \in ExecType /\ Shaped(exec[k])
  BY Here
<1>1. RowQuiet
  BY <1>0, RowStatementsQuiet DEF Heartbeat, Terminal
<1>2. QED
  BY <1>1, NothingQuiet DEF Heartbeat, Quiet, Still, db

LEMMA CrashQuiet ==
    ASSUME Shape, RowShape, NEW k \in Tokens, Crash(k)
    PROVE  Quiet
<1>0. exec[k] \in ExecType /\ Shaped(exec[k])
  BY Here
<1>1. ExecQuiet
  BY <1>0, IdleQuiet DEF Crash
<1>2. QED
  BY <1>1, NothingQuiet DEF Crash, Quiet, Still, db

LEMMA ListOrphanQuiet ==
    ASSUME Shape, RowShape, NEW i \in Instances, NEW r \in Requests, ListOrphan(i, r)
    PROVE  Quiet
<1>1. QED
  BY NothingQuiet DEF ListOrphan, Quiet, Still, db

LEMMA OrphanAttachedQuiet ==
    ASSUME Shape, RowShape, NEW i \in Instances, OrphanAttached(i)
    PROVE  Quiet
<1>1. pass[i].req \in Requests /\ pass[i].seen \in TaskType
  BY DEF OrphanAttached, Shape, TypeOK, PassShape, PassType
<1>2. pass[i].seen.error \in Codes \cup {None}
      /\ (pass[i].seen.status \in Terminal => pass[i].seen.status \in {"succeeded", "cancelled", "failed"})
  BY <1>1 DEF OrphanAttached, TaskType, Terminal
<1>3. LedgerQuiet
  BY <1>1, <1>2, FinalizeQuiet, NothingQuiet DEF OrphanAttached, SettledStatuses
<1>4. QED
  BY <1>1, <1>2, <1>3, NothingQuiet DEF OrphanAttached, Quiet, Still, db

LEMMA OrphanOwnedQuiet ==
    ASSUME Shape, RowShape, NEW i \in Instances, OrphanOwned(i)
    PROVE  Quiet
<1>1. QED
  BY NothingQuiet DEF OrphanOwned, Quiet, Still, db

LEMMA OrphanAttachQuiet ==
    ASSUME Shape, RowShape, NEW i \in Instances, OrphanAttach(i)
    PROVE  Quiet
<1>1. pass[i].req \in Requests
  BY DEF OrphanAttach, Shape, PassShape
<1>2. MayAttachRecovered(task, pass[i].req) => task.logical = pass[i].req[1]
  BY <1>1 DEF OrphanAttach, MayAttachRecovered
<1>3. RowQuiet
  BY <1>1, <1>2, AttachQuiet, NothingQuiet DEF OrphanAttach
<1>4. QED
  BY <1>1, <1>2, <1>3, NothingQuiet DEF OrphanAttach, Quiet, Still, db

LEMMA OrphanMissedQuiet ==
    ASSUME Shape, RowShape, NEW i \in Instances, OrphanMissed(i)
    PROVE  Quiet
<1>1. QED
  BY NothingQuiet DEF OrphanMissed, Quiet, Still, db

LEMMA OrphanForeignQuiet ==
    ASSUME Shape, RowShape, NEW i \in Instances, OrphanForeign(i)
    PROVE  Quiet
<1>1. QED
  BY NothingQuiet DEF OrphanForeign, Quiet, Still, db

LEMMA OrphanCompensateQuiet ==
    ASSUME Shape, RowShape, NEW i \in Instances, OrphanCompensate(i)
    PROVE  Quiet
<1>1. pass[i].req \in Requests
  BY DEF OrphanCompensate, Shape, PassShape
<1>2. VendorQuiet /\ LedgerQuiet
  BY <1>1, CompensateQuiet DEF OrphanCompensate
<1>3. QED
  BY <1>1, <1>2, NothingQuiet DEF OrphanCompensate, Quiet, Still, db

LEMMA OrphanCompensateFailsQuiet ==
    ASSUME Shape, RowShape, NEW i \in Instances, OrphanCompensateFails(i)
    PROVE  Quiet
<1>1. QED
  BY NothingQuiet DEF OrphanCompensateFails, Quiet, Still, db

LEMMA CrashPassQuiet ==
    ASSUME Shape, RowShape, NEW i \in Instances, CrashPass(i)
    PROVE  Quiet
<1>1. QED
  BY NothingQuiet DEF CrashPass, Quiet, Still, db

LEMMA AbandonQuiet ==
    ASSUME Shape, RowShape, NEW r \in Requests, Abandon(r)
    PROVE  Quiet
<1>1. LedgerQuiet
  BY FinalizeQuiet DEF Abandon, SettledStatuses
<1>2. QED
  BY <1>1, NothingQuiet DEF Abandon, Quiet, Still, db

LEMMA SweepDetachedQuiet ==
    ASSUME Shape, RowShape, NEW r \in Requests, SweepDetached(r)
    PROVE  Quiet
<1>1. DetachedStatus(task) \in SettledStatuses
  BY DEF SweepDetached, DetachedStatus, SettledStatuses
<1>2. LedgerQuiet
  BY <1>1, FinalizeQuiet DEF SweepDetached
<1>3. QED
  BY <1>1, <1>2, NothingQuiet DEF SweepDetached, Quiet, Still, db

LEMMA CancelQuiet ==
    ASSUME Shape, RowShape, Cancel
    PROVE  Quiet
<1>1. RowQuiet
  BY RowStatementsQuiet DEF Cancel, Terminal
<1>2. LedgerQuiet
  BY SettleQuiet DEF Cancel, SettledStatuses
<1>3. VendorQuiet
  BY CancelAttachedQuiet DEF Cancel
<1>4. QED
  BY <1>1, <1>2, <1>3, NothingQuiet DEF Cancel, Quiet, Still, db

LEMMA RetryCheckQuiet ==
    ASSUME Shape, RowShape, RetryCheck
    PROVE  Quiet
<1>1. QED
  BY NothingQuiet DEF RetryCheck, Quiet, Still, db

LEMMA RetryUpdateQuiet ==
    ASSUME Shape, RowShape, RetryUpdate
    PROVE  Quiet
<1>1. RowQuiet
  BY RowStatementsQuiet DEF RetryUpdate, Terminal
<1>2. QED
  BY <1>1, NothingQuiet DEF RetryUpdate, Quiet, Still, db

LEMMA LeaseExpiresQuiet ==
    ASSUME Shape, RowShape, LeaseExpires
    PROVE  Quiet
<1>1. RowQuiet
  BY RowStatementsQuiet DEF LeaseExpires, Terminal
<1>2. QED
  BY <1>1, NothingQuiet DEF LeaseExpires, Quiet, Still, db

LEMMA StallQuiet ==
    ASSUME Shape, RowShape, Stall
    PROVE  Quiet
<1>1. RowQuiet
  BY RowStatementsQuiet DEF Stall, Terminal
<1>2. QED
  BY <1>1, NothingQuiet DEF Stall, Quiet, Still, db

(***************************************************************************)
(* Claims and start: only the row and the execution change.                *)
(***************************************************************************)
LEMMA ClaimRow ==
    ASSUME Core, NEW k \in Tokens, MayClaimPending(task), task' = ClaimPending(task, k)
    PROVE  RowShape' /\ (UNCHANGED key => KeysBelowAttempt')
<1>1. task \in TaskType /\ key \in [Logicals -> Nat]  BY DEF Core, Shape, TypeOK
<1>2. /\ task'.status = "queued" /\ task'.lease = k
      /\ task'.logical = task.logical /\ task'.req = None
      /\ task'.attempt = IF task.lease = None /\ task.logical = None
                         THEN task.attempt + 1 ELSE task.attempt
  BY <1>1 DEF ClaimPending, MayClaimPending, TaskType
<1>3. task.attempt \in Nat /\ (task.attempt = 0 => task.lease = None /\ task.logical = None)
  BY <1>1 DEF TaskType, Core, RowShape
<1>4. RowShape'
  BY <1>2, <1>3 DEF RowShape, Terminal
<1>5. ASSUME UNCHANGED key PROVE KeysBelowAttempt'
  BY <1>1, <1>2, <1>3, <1>5, NoneAssumption DEF Core, KeysBelowAttempt
<1>6. QED  BY <1>4, <1>5

LEMMA ClaimInvokeKeeps ==
    ASSUME Core, Shape', NEW k \in Tokens, ClaimInvoke(k)
    PROVE  Core' /\ Still
<1>1. /\ exec' = [exec EXCEPT ![k] = [Idle EXCEPT !.at = "claimed"]]
      /\ exec \in [Tokens -> ExecType]
  BY DEF ClaimInvoke, Goto, Core, Shape, TypeOK
<1>2. ExecQuiet
  BY <1>1 DEF ExecQuiet, Idle, DispatchSteps
<1>3. Still
  BY <1>2 DEF ClaimInvoke, Still, VendorQuiet, LedgerQuiet
<1>4. StartedOnRow'
  BY <1>1 DEF ClaimInvoke, ClaimPending, StartedOnRow, Core, Shape, TypeOK, TaskType, Idle
<1>5. RowShape' /\ KeysBelowAttempt'
  BY ClaimRow DEF ClaimInvoke
<1>6. KeysDistinct'
  BY DEF ClaimInvoke, KeysDistinct, Core
<1>7. QED  BY <1>3, <1>4, <1>5, <1>6, StillDispatch, StillVendor DEF Core

LEMMA ClaimPollKeeps ==
    ASSUME Core, Shape', NEW k \in Tokens, ClaimPoll(k)
    PROVE  Core' /\ Still
<1>1. /\ exec' = [exec EXCEPT ![k] = [Idle EXCEPT !.at = "poll", !.req = task.req,
                                                  !.retry = task.retry]]
      /\ exec \in [Tokens -> ExecType] /\ task \in TaskType /\ key \in [Logicals -> Nat]
  BY DEF ClaimPoll, Goto, Core, Shape, TypeOK
<1>2. ExecQuiet
  BY <1>1 DEF ExecQuiet, Idle, DispatchSteps
<1>3. Still
  BY <1>2 DEF ClaimPoll, Still, VendorQuiet, LedgerQuiet
<1>4. /\ task'.status = "running" /\ task'.lease = k /\ task'.attempt = task.attempt
      /\ task'.logical = task.logical /\ task'.req = task.req
      /\ task.req # None /\ task.logical = task.req[1]
  BY <1>1 DEF ClaimPoll, ClaimDuePoll, MayClaimDuePoll, TaskType, Core, RowShape
<1>5. StartedOnRow'
  BY <1>1, <1>4 DEF StartedOnRow, Idle
<1>6. task.logical # None
  BY <1>1, <1>4, NoneAssumption DEF TaskType, Requests
<1>7. RowShape'
  BY <1>4, <1>6 DEF RowShape, Core, Terminal
<1>8. KeysBelowAttempt' /\ KeysDistinct'
  BY <1>4, <1>6 DEF ClaimPoll, KeysBelowAttempt, KeysDistinct, Core
<1>9. QED  BY <1>3, <1>5, <1>7, <1>8, StillDispatch, StillVendor DEF Core

LEMMA StartKeeps ==
    ASSUME Core, Shape', NEW k \in Tokens, Start(k), MayStart(task, k)
    PROVE  Core'
<1>1. /\ exec' = [exec EXCEPT ![k] = [exec[k] EXCEPT !.at = "prepare",
                                        !.logical = task.logical, !.retry = task.retry]]
      /\ exec \in [Tokens -> ExecType] /\ task \in TaskType /\ key \in [Logicals -> Nat]
      /\ UNCHANGED <<ledger, vendor, key>>
  BY DEF Start, Goto, Core, Shape, TypeOK
<1>2. /\ exec'[k].at = "prepare" /\ exec'[k].logical = task.logical
      /\ \A j \in Tokens \ {k} : exec'[j] = exec[j]
  BY <1>1 DEF ExecType
<1>3. /\ task.lease = k
      /\ task'.status = "running" /\ task'.lease = k /\ task'.attempt = task.attempt
      /\ task'.logical = task.logical /\ task'.req = task.req
  BY <1>1 DEF Start, StartClaimed, MayStart, TaskType
<1>4. RowShape' /\ StartedOnRow'
  BY <1>2, <1>3 DEF RowShape, StartedOnRow, Core, Terminal
<1>5. KeysBelowAttempt' /\ KeysDistinct'
  BY <1>1, <1>3 DEF KeysBelowAttempt, KeysDistinct, Core
<1>6. FreshUntouched'
  <2> SUFFICES ASSUME NEW l \in Logicals, key[l] = 0
               PROVE  /\ \A j \in Tokens : exec'[j].logical # l
                      /\ \A r \in Requests : r[1] = l => ledger[r].st = "absent"
    BY <1>1 DEF FreshUntouched
  <2>1. task.attempt # 0
    BY <1>3, NoneAssumption DEF Core, RowShape
  <2>2. task.logical # l
    BY <2>1, NoneAssumption DEF Core, KeysBelowAttempt
  <2>3. QED  BY <1>2, <2>2 DEF Core, FreshUntouched
<1>7. \A j \in Tokens : exec'[j].at \in DispatchSteps => exec'[j] = exec[j]
  BY <1>2 DEF DispatchSteps
<1>8. OneDispatcher'
  BY <1>7 DEF OneDispatcher, Dispatching, Core
<1>9. \A j \in Tokens : InOrder(j)' /\ Untaken(j)'
  BY <1>1, <1>7 DEF InOrder, Untaken, Core, DispatchOrder, NothingTakenYet, DispatchSteps
<1>10. DispatchOrder' /\ NothingTakenYet'
  BY <1>9 DEF DispatchOrder, NothingTakenYet
<1>11. NoJobWithoutRow' /\ LedgerBeforeDispatch' /\ AtMostOncePerInvocation'
  BY <1>1 DEF NoJobWithoutRow, LedgerBeforeDispatch, AtMostOncePerInvocation, Core
<1>12. QED  BY <1>4, <1>5, <1>6, <1>8, <1>10, <1>11 DEF Core

LEMMA StartMissesQuiet ==
    ASSUME Shape, RowShape, NEW k \in Tokens, Start(k), ~MayStart(task, k)
    PROVE  Quiet
<1>1. ExecQuiet
  BY IdleQuiet DEF Start
<1>2. QED  BY <1>1, NothingQuiet DEF Start, Quiet, Still

(***************************************************************************)
(* Prepare: a reclaimed invocation is not dispatched again, a fresh one    *)
(* has left no trace anywhere.                                             *)
(***************************************************************************)
LEMMA PrepareReclaimedQuiet ==
    ASSUME Core, NEW k \in Tokens, Prepare(k), exec[k].logical # None
    PROVE  Quiet
<1>0. /\ exec \in [Tokens -> ExecType] /\ task \in TaskType /\ key \in [Logicals -> Nat]
      /\ exec[k].at = "prepare" /\ exec[k].logical \in Logicals
  BY DEF Core, Shape, TypeOK, Prepare, At, ExecType
<1>1. /\ MayPrepare(task, k, exec[k].logical)
      /\ task' = PrepareInvokeAttempt(task, exec[k].logical)
      /\ key' = [key EXCEPT ![exec[k].logical] = task.attempt]
      /\ Goto(k, [exec[k] EXCEPT !.logical = exec[k].logical,
                                 !.at = AfterPrepare(exec[k].logical)])
  BY <1>0 DEF Prepare
<1>2. task.logical = exec[k].logical
  BY <1>0, <1>1 DEF MayPrepare, Core, StartedOnRow
<1>3. task' = task
  BY <1>0, <1>1, <1>2 DEF PrepareInvokeAttempt, TaskType
<1>4. key' = key
  BY <1>0, <1>1, <1>2 DEF Core, KeysBelowAttempt
<1>5. ExecQuiet
  BY <1>0, <1>1, GotoQuiet DEF AfterPrepare, ExecType, DispatchSteps, Core
<1>6. QED
  BY <1>3, <1>4, <1>5, NothingQuiet DEF Prepare, Quiet, Still, Core

LEMMA PrepareFreshKeeps ==
    ASSUME Core, Shape', NEW k \in Tokens, Prepare(k), exec[k].logical = None
    PROVE  Core' /\ LedgerQuiet
<1>0. PICK l \in Logicals :
        /\ key[l] = 0 /\ MayPrepare(task, k, l)
        /\ task' = PrepareInvokeAttempt(task, l)
        /\ key' = [key EXCEPT ![l] = task.attempt]
        /\ Goto(k, [exec[k] EXCEPT !.logical = l, !.at = AfterPrepare(None)])
  BY DEF Prepare, FreshLogical
<1>1. /\ exec \in [Tokens -> ExecType] /\ task \in TaskType /\ key \in [Logicals -> Nat]
      /\ UNCHANGED <<ledger, vendor>> /\ l # None
  BY NoneAssumption DEF Core, Shape, TypeOK, Prepare
<1>2. /\ exec'[k].at = "preflight" /\ exec'[k].logical = l
      /\ \A j \in Tokens \ {k} : exec'[j] = exec[j]
  BY <1>0, <1>1 DEF Goto, AfterPrepare, ExecType
<1>3. exec[k].at = "prepare"
  BY DEF Prepare, At
<1>4. task.lease = k /\ task.logical = None
  BY <1>0, <1>3 DEF MayPrepare, Core, StartedOnRow
<1>5. /\ task'.status = "running" /\ task'.lease = k /\ task'.attempt = task.attempt
      /\ task'.logical = l /\ task'.req = None
  BY <1>0, <1>1 DEF PrepareInvokeAttempt, MayPrepare, TaskType
<1>6. task.attempt \in Nat /\ task.attempt # 0
  BY <1>1, <1>4, NoneAssumption DEF TaskType, Core, RowShape
<1>7. \A m \in Logicals : key[m] < task.attempt
  BY <1>4, NoneAssumption DEF Core, KeysBelowAttempt
<1>8. key'[l] = task.attempt /\ \A m \in Logicals \ {l} : key'[m] = key[m]
  BY <1>0, <1>1
<1>9. /\ \A j \in Tokens : exec[j].logical # l
      /\ \A r \in Requests : r[1] = l => ledger[r].st = "absent" /\ vendor[r] = "none"
  BY <1>0 DEF Core, FreshUntouched, LedgerBeforeDispatch
<1>10. RowShape' /\ StartedOnRow'
  BY <1>2, <1>5, <1>6 DEF RowShape, StartedOnRow, Terminal
<1>11. KeysBelowAttempt'
  BY <1>1, <1>5, <1>6, <1>7, <1>8 DEF KeysBelowAttempt
<1>12. KeysDistinct'
  BY <1>1, <1>7, <1>8 DEF KeysDistinct, Core
<1>13. FreshUntouched'
  BY <1>1, <1>2, <1>6, <1>8 DEF FreshUntouched, Core
<1>14. OneDispatcher'
  BY <1>2, <1>9 DEF OneDispatcher, Dispatching, Core
<1>15. ASSUME NEW j \in Tokens PROVE InOrder(j)' /\ Untaken(j)'
  <2>1. CASE j = k
    BY <1>1, <1>2, <1>9, <2>1 DEF InOrder, Untaken, Accepted
  <2>2. CASE j # k
    BY <1>1, <1>2, <2>2 DEF InOrder, Untaken, Core, DispatchOrder, NothingTakenYet
  <2>3. QED  BY <2>1, <2>2
<1>16. DispatchOrder' /\ NothingTakenYet'
  BY <1>15 DEF DispatchOrder, NothingTakenYet
<1>17. NoJobWithoutRow' /\ LedgerBeforeDispatch' /\ AtMostOncePerInvocation'
  BY <1>1 DEF NoJobWithoutRow, LedgerBeforeDispatch, AtMostOncePerInvocation, Core
<1>18. LedgerQuiet
  BY <1>1 DEF LedgerQuiet
<1>19. QED
  BY <1>10, <1>11, <1>12, <1>13, <1>14, <1>16, <1>17, <1>18 DEF Core

(***************************************************************************)
(* The dispatch loop.  A step of it changes one invocation, the one of its *)
(* execution, and what it does to that invocation is left to show.         *)
(***************************************************************************)
Advances(k) ==
    /\ Dispatching(k) /\ UNCHANGED <<task, key>>
    /\ \A j \in Tokens \ {k} : exec'[j] = exec[j]
    /\ exec'[k].logical = exec[k].logical
    /\ exec'[k].at \in DispatchSteps \cup {"failed"}
    /\ \A r \in Requests :
         r[1] # exec[k].logical => ledger'[r] = ledger[r] /\ vendor'[r] = vendor[r]

RowsFirst(l) ==
    \A r \in Requests :
        r[1] = l /\ (vendor[r] # "none" \/ ledger[r].ext) => ledger[r].st # "absent"

AtMostOne(l) ==
    \A r, q \in Requests :
        r[1] = l /\ q[1] = l /\ vendor[r] \in Accepted /\ vendor[q] \in Accepted => r = q

LEMMA AdvanceOthers ==
    ASSUME Core, NEW k \in Tokens, Advances(k), NEW j \in Tokens \ {k}
    PROVE  InOrder(j)' /\ Untaken(j)'
<1>1. exec'[j] = exec[j]
  BY DEF Advances
<1>2. CASE exec[j].at \notin DispatchSteps
  BY <1>1, <1>2 DEF InOrder, Untaken, DispatchSteps
<1>3. CASE exec[j].at \in DispatchSteps
  <2>1. exec[j].logical # exec[k].logical
    BY <1>3 DEF Core, OneDispatcher, Dispatching, Advances
  <2>2. \A r \in Requests :
          r[1] = exec[j].logical => ledger'[r] = ledger[r] /\ vendor'[r] = vendor[r]
    BY <2>1 DEF Advances
  <2>3. InOrder(j) /\ Untaken(j)
    BY DEF Core, DispatchOrder, NothingTakenYet
  <2>4. QED  BY <1>1, <2>2, <2>3 DEF InOrder, Untaken
<1>4. QED  BY <1>2, <1>3

LEMMA AdvanceKeeps ==
    ASSUME Core, Shape', NEW k \in Tokens, Advances(k),
           InOrder(k)', Untaken(k)', NEW l \in Logicals, l = exec[k].logical,
           RowsFirst(l)', AtMostOne(l)'
    PROVE  Core'
<1>1. DispatchOrder' /\ NothingTakenYet'
  BY AdvanceOthers DEF DispatchOrder, NothingTakenYet
<1>2. RowShape' /\ KeysBelowAttempt' /\ KeysDistinct'
  BY DEF Core, Advances, RowShape, KeysBelowAttempt, KeysDistinct
<1>3. StartedOnRow'
  <2>1. exec'[k].at # "prepare"
    BY DEF Advances, DispatchSteps
  <2>2. QED  BY <2>1 DEF Core, Advances, StartedOnRow
<1>4. FreshUntouched'
  <2> SUFFICES ASSUME NEW m \in Logicals, key[m] = 0
               PROVE  /\ \A j \in Tokens : exec'[j].logical # m
                      /\ \A r \in Requests : r[1] = m => ledger'[r].st = "absent"
    BY DEF FreshUntouched, Advances
  <2>1. \A j \in Tokens : exec[j].logical # m
    BY DEF Core, FreshUntouched
  <2>2. \A r \in Requests : r[1] = m => ledger[r].st = "absent"
    BY DEF Core, FreshUntouched
  <2>3. \A j \in Tokens : exec'[j].logical # m
    BY <2>1 DEF Advances
  <2>4. \A r \in Requests : r[1] = m => ledger'[r] = ledger[r]
    BY <2>1 DEF Advances
  <2>5. QED  BY <2>2, <2>3, <2>4
<1>5. OneDispatcher'
  BY DEF Core, OneDispatcher, Dispatching, Advances
<1>6. NoJobWithoutRow' /\ LedgerBeforeDispatch'
  BY DEF Core, Advances, NoJobWithoutRow, LedgerBeforeDispatch, RowsFirst
<1>7. AtMostOncePerInvocation'
  BY DEF Core, Advances, AtMostOncePerInvocation, AtMostOne
<1>8. QED
  BY <1>1, <1>2, <1>3, <1>4, <1>5, <1>6, <1>7 DEF Core

\* What a dispatching execution knows when it is at one of its steps.
LEMMA Loop ==
    ASSUME Core, NEW k \in Tokens, Dispatching(k)
    PROVE  /\ exec \in [Tokens -> ExecType] /\ ledger \in LedgerType
           /\ vendor \in [Requests -> VendorStates]
           /\ exec[k].logical \in Logicals
           /\ exec[k].at # "preflight" =>
                /\ exec[k].req \in Requests /\ exec[k].req[1] = exec[k].logical
                /\ exec[k].req[2] \in Nat
           /\ InOrder(k) /\ Untaken(k) /\ RowsFirst(exec[k].logical)
           /\ AtMostOne(exec[k].logical)
<1>1. Shape /\ Shaped(exec[k])
  BY Here DEF Core
<1>2. /\ exec[k].logical \in Logicals
      /\ exec[k].at # "preflight" => exec[k].req \in Requests /\ exec[k].req[1] = exec[k].logical
  BY <1>1 DEF Shaped, Dispatching, DispatchSteps, JobSteps
<1>3. \A r \in Requests : r[2] \in Nat
  BY FailoverAssumption DEF Requests, Attempts
<1>4. QED
  BY <1>1, <1>2, <1>3
     DEF Core, DispatchOrder, NothingTakenYet, RowsFirst, AtMostOne, NoJobWithoutRow,
         LedgerBeforeDispatch, AtMostOncePerInvocation, Shape, TypeOK

LEMMA PreflightKeeps ==
    ASSUME Core, Shape', NEW k \in Tokens, Preflight(k)
    PROVE  Core' /\ LedgerQuiet
<1>0. Dispatching(k) /\ exec[k].at = "preflight"
  BY DEF Preflight, Dispatching, DispatchSteps, At
<1>1. PICK n \in Attempts :
        /\ NextAttemptNo(ledger, exec[k].logical, n)
        /\ Goto(k, [exec[k] EXCEPT !.at = "begin", !.req = <<exec[k].logical, n>>])
  BY DEF Preflight
<1>2. UNCHANGED <<task, ledger, vendor, key>>
  BY DEF Preflight, db
<1>3. /\ exec'[k].at = "begin" /\ exec'[k].logical = exec[k].logical
      /\ exec'[k].req[2] = n
      /\ \A j \in Tokens \ {k} : exec'[j] = exec[j]
  BY <1>0, <1>1, Loop DEF Goto, ExecType
<1>4. Advances(k)
  BY <1>0, <1>2, <1>3 DEF Advances, DispatchSteps
<1>5. \A r \in Requests :
        r[1] = exec[k].logical /\ r[2] >= n => ledger[r].st = "absent"
  <2> SUFFICES ASSUME NEW r \in Requests, r[1] = exec[k].logical, ledger[r].st # "absent"
               PROVE  ~(r[2] >= n)
    OBVIOUS
  <2>1. r[2] < n
    BY <1>1 DEF NextAttemptNo, RowsOf
  <2>2. r[2] \in Nat /\ n \in Nat
    BY FailoverAssumption DEF Requests, Attempts
  <2>3. QED  BY <2>1, <2>2
<1>6. InOrder(k)'
  BY <1>2, <1>3, <1>5 DEF InOrder
<1>7. Untaken(k)'
  BY <1>0, <1>2, <1>3, Loop DEF Untaken
<1>8. RowsFirst(exec[k].logical)' /\ AtMostOne(exec[k].logical)'
  BY <1>0, <1>2, <1>3, Loop DEF RowsFirst, AtMostOne
<1>9. PICK l \in Logicals : l = exec[k].logical
  BY <1>0, Loop
<1>10. RowsFirst(l)' /\ AtMostOne(l)'
  BY <1>3, <1>8, <1>9 DEF RowsFirst, AtMostOne
<1>11. LedgerQuiet
  BY <1>2 DEF LedgerQuiet
<1>12. QED  BY <1>4, <1>6, <1>7, <1>9, <1>10, <1>11, AdvanceKeeps

\* The row of a new attempt was not there before.
Appends(k) ==
    /\ exec[k].req \in Requests /\ ledger[exec[k].req].st = "absent"
    /\ ledger' = Begin(ledger, exec[k].req)

LEMMA BeginKeeps ==
    ASSUME Core, Shape', NEW k \in Tokens, exec[k].at = "begin",
           ledger' = Begin(ledger, exec[k].req), UNCHANGED <<task, vendor, key>>,
           \A j \in Tokens \ {k} : exec'[j] = exec[j],
           exec'[k].at \in {"dispatch", "failed"},
           exec'[k].logical = exec[k].logical, exec'[k].req = exec[k].req
    PROVE  Core' /\ Appends(k)
<1>0. Dispatching(k)
  BY DEF Dispatching, DispatchSteps
<1>1. /\ exec[k].req \in Requests /\ exec[k].req[1] = exec[k].logical
      /\ exec[k].req[2] \in Nat
  BY <1>0, Loop
<1>2. \A r \in Requests : r[2] \in Nat
  BY FailoverAssumption DEF Requests, Attempts
<1>3. /\ ledger'[exec[k].req].st = "pending" /\ ~ledger'[exec[k].req].ext
      /\ \A r \in Requests \ {exec[k].req} : ledger'[r] = ledger[r]
  BY <1>0, <1>1, Loop DEF Begin, LedgerType
<1>4. \A r \in Requests :
        r[1] = exec[k].logical /\ r[2] >= exec[k].req[2] => ledger[r].st = "absent"
  BY <1>0, Loop DEF InOrder
<1>5. Advances(k)
  BY <1>0, <1>1, <1>3 DEF Advances, DispatchSteps
<1>6. InOrder(k)'
  BY <1>1, <1>2, <1>3, <1>4 DEF InOrder
<1>7. Untaken(k)'
  BY <1>0, Loop DEF Untaken
<1>8. PICK l \in Logicals : l = exec[k].logical
  BY <1>0, Loop
<1>9. RowsFirst(l)'
  BY <1>0, <1>3, <1>8, Loop DEF RowsFirst
<1>10. AtMostOne(l)'
  BY <1>0, <1>8, Loop DEF AtMostOne
<1>11. Appends(k)
  BY <1>1, <1>4 DEF Appends
<1>12. QED  BY <1>5, <1>6, <1>7, <1>8, <1>9, <1>10, <1>11, AdvanceKeeps

LEMMA BeginAttemptKeeps ==
    ASSUME Core, Shape', NEW k \in Tokens, BeginAttempt(k)
    PROVE  Core' /\ Appends(k)
<1>1. /\ exec[k].at = "begin" /\ exec \in [Tokens -> ExecType]
      /\ exec' = [exec EXCEPT ![k] = [exec[k] EXCEPT !.at = "dispatch"]]
  BY DEF BeginAttempt, At, Goto, Core, Shape, TypeOK
<1>2. /\ exec'[k].at = "dispatch"
      /\ exec'[k].logical = exec[k].logical /\ exec'[k].req = exec[k].req
      /\ \A j \in Tokens \ {k} : exec'[j] = exec[j]
  BY <1>1 DEF ExecType
<1>3. QED  BY <1>1, <1>2, BeginKeeps DEF BeginAttempt

LEMMA BeginFailsKeeps ==
    ASSUME Core, Shape', NEW k \in Tokens, BeginFails(k)
    PROVE  Core' /\ (Quiet \/ Appends(k))
<1>1. /\ exec[k].at = "begin" /\ exec \in [Tokens -> ExecType]
      /\ exec' = [exec EXCEPT ![k] = FailWith(exec[k], "ADAPTER_INTERNAL", TRUE)]
  BY DEF BeginFails, At, Goto, Core, Shape, TypeOK
<1>2. /\ exec'[k].at = "failed"
      /\ exec'[k].logical = exec[k].logical /\ exec'[k].req = exec[k].req
      /\ \A j \in Tokens \ {k} : exec'[j] = exec[j]
  BY <1>1 DEF ExecType, FailWith
<1>3. CASE ledger' = ledger
  <2>1. ExecQuiet
    BY FailQuiet DEF BeginFails, Core
  <2>2. Quiet
    BY <1>3, <2>1, NothingQuiet DEF BeginFails, Quiet, Still, Core
  <2>3. QED  BY <2>2, QuietKeeps
<1>4. CASE ledger' = Begin(ledger, exec[k].req)
  BY <1>1, <1>2, <1>4, BeginKeeps DEF BeginFails
<1>5. QED  BY <1>3, <1>4 DEF BeginFails

\* The vendor hears of one attempt of an invocation it has not taken yet.
LEMMA HeardKeeps ==
    ASSUME Core, Shape', NEW k \in Tokens, exec[k].at = "dispatch",
           NEW s \in VendorStates, vendor' = [vendor EXCEPT ![exec[k].req] = s],
           UNCHANGED <<task, ledger, key>>,
           \A j \in Tokens \ {k} : exec'[j] = exec[j],
           exec'[k].logical = exec[k].logical, exec'[k].req = exec[k].req,
           \/ exec'[k].at = "failed"
           \/ exec'[k].at = "log" /\ (exec'[k].answer = "rejected" => s = "rejected")
    PROVE  Core'
<1>0. Dispatching(k)
  BY DEF Dispatching, DispatchSteps
<1>1. exec[k].req \in Requests /\ exec[k].req[1] = exec[k].logical
  BY <1>0, Loop
<1>2. /\ vendor'[exec[k].req] = s
      /\ \A r \in Requests \ {exec[k].req} : vendor'[r] = vendor[r]
  BY <1>0, <1>1, Loop
<1>3. \A r \in Requests : r[1] = exec[k].logical => vendor[r] \notin Accepted
  BY <1>0, Loop DEF Untaken
<1>4. Advances(k)
  BY <1>0, <1>1, <1>2 DEF Advances, DispatchSteps
<1>5. InOrder(k)'
  BY <1>0, Loop DEF InOrder
<1>6. Untaken(k)'
  <2>1. CASE exec'[k].at = "failed"
    BY <2>1 DEF Untaken
  <2>2. CASE s = "rejected"
    BY <1>2, <1>3, <2>2 DEF Untaken, Accepted
  <2>3. CASE exec'[k].at = "log" /\ exec'[k].answer # "rejected"
    BY <2>3 DEF Untaken
  <2>4. QED  BY <2>1, <2>2, <2>3
<1>7. PICK l \in Logicals : l = exec[k].logical
  BY <1>0, Loop
<1>8. ledger[exec[k].req].st # "absent"
  BY <1>0, <1>1, Loop DEF InOrder
<1>9. RowsFirst(l)'
  BY <1>0, <1>2, <1>7, <1>8, Loop DEF RowsFirst
<1>10. AtMostOne(l)'
  BY <1>2, <1>3, <1>7 DEF AtMostOne
<1>11. QED  BY <1>4, <1>5, <1>6, <1>7, <1>9, <1>10, AdvanceKeeps

LEMMA DispatchKeeps ==
    ASSUME Core, Shape', NEW k \in Tokens, Dispatch(k)
    PROVE  Core' /\ LedgerQuiet
<1>1. exec[k].at = "dispatch" /\ exec \in [Tokens -> ExecType]
      /\ UNCHANGED <<task, ledger, key>>
  BY DEF Dispatch, At, Core, Shape, TypeOK, db
<1>2. PICK a \in Answers, c \in RejectCodes :
        /\ vendor' = [vendor EXCEPT ![exec[k].req] = VendorEffect(a)]
        /\ exec' = [exec EXCEPT ![k] =
                      [exec[k] EXCEPT !.at = "log", !.answer = a,
                        !.code = CASE a \in {"rejected", "failed"} -> c
                                   [] a = "ingest" -> "ASSET_DOWNLOAD_FAILED"
                                   [] OTHER -> None]]
  BY DEF Dispatch, Goto
<1>3. /\ exec'[k].at = "log" /\ exec'[k].answer = a
      /\ exec'[k].logical = exec[k].logical /\ exec'[k].req = exec[k].req
      /\ \A j \in Tokens \ {k} : exec'[j] = exec[j]
  BY <1>1, <1>2 DEF ExecType
<1>4. VendorEffect(a) \in VendorStates /\ (a = "rejected" => VendorEffect(a) = "rejected")
  BY DEF VendorEffect, Answers, VendorStates
<1>5. Core'
  BY <1>1, <1>2, <1>3, <1>4, HeardKeeps
<1>6. QED  BY <1>1, <1>5 DEF LedgerQuiet

LEMMA DispatchUnknownKeeps ==
    ASSUME Core, Shape', NEW k \in Tokens, DispatchUnknown(k)
    PROVE  Core' /\ LedgerQuiet
<1>1. exec[k].at = "dispatch" /\ exec \in [Tokens -> ExecType]
      /\ UNCHANGED <<task, ledger, key>>
  BY DEF DispatchUnknown, At, Core, Shape, TypeOK, db
<1>2. PICK s \in {"none", "live", "done"} : vendor' = [vendor EXCEPT ![exec[k].req] = s]
  BY DEF DispatchUnknown
<1>3. exec' = [exec EXCEPT ![k] = FailWith(exec[k], "INVOKE_OUTCOME_UNKNOWN", TRUE)]
  BY DEF DispatchUnknown, Goto
<1>4. /\ exec'[k].at = "failed"
      /\ exec'[k].logical = exec[k].logical /\ exec'[k].req = exec[k].req
      /\ \A j \in Tokens \ {k} : exec'[j] = exec[j]
  BY <1>1, <1>3 DEF ExecType, FailWith
<1>5. s \in VendorStates
  BY DEF VendorStates
<1>6. Core'
  BY <1>1, <1>2, <1>4, <1>5, HeardKeeps
<1>7. QED  BY <1>1, <1>6 DEF LedgerQuiet

LEMMA LogRejectedKeeps ==
    ASSUME Core, Shape', NEW k \in Tokens, LogRejected(k)
    PROVE  Core' /\ LedgerQuiet
<1>1. /\ exec[k].at = "log" /\ exec[k].answer = "rejected"
      /\ ledger' = FinalizePending(ledger, exec[k].req, "error", exec[k].code)
      /\ exec[k].code \in Codes \cup {None} /\ exec \in [Tokens -> ExecType]
      /\ UNCHANGED <<task, vendor, key>>
  BY DEF LogRejected, At, Core, Shape, TypeOK, ExecType
<1>2. Dispatching(k)
  BY <1>1 DEF Dispatching, DispatchSteps
<1>3. exec[k].req \in Requests /\ exec[k].req[1] = exec[k].logical /\ exec[k].req[2] \in Nat
  BY <1>1, <1>2, Loop
<1>4. LedgerQuiet
  BY <1>1, <1>3, FinalizeQuiet DEF SettledStatuses, Core
<1>5. CASE Goto(k, FailWith(exec[k], exec[k].code, TRUE))
  <2>1. ExecQuiet
    BY <1>5, FailQuiet DEF Core
  <2>2. Quiet
    BY <1>1, <1>4, <2>1, NothingQuiet DEF Quiet, Still, Core
  <2>3. QED  BY <1>4, <2>2, QuietKeeps
<1>6. CASE Goto(k, [exec[k] EXCEPT !.at = "begin", !.code = None, !.answer = None,
                                   !.req = <<exec[k].logical, exec[k].req[2] + 1>>])
  <2>1. /\ exec'[k].at = "begin" /\ exec'[k].logical = exec[k].logical
        /\ exec'[k].req[2] = exec[k].req[2] + 1
        /\ \A j \in Tokens \ {k} : exec'[j] = exec[j]
    BY <1>1, <1>6 DEF Goto, ExecType
  <2>2. \A r \in Requests :
          r # exec[k].req => ledger'[r] = ledger[r]
    BY <1>1, <1>2, <1>3, Loop DEF FinalizePending, LedgerType
  <2>3. Advances(k)
    BY <1>1, <1>2, <1>3, <2>1, <2>2 DEF Advances, DispatchSteps
  <2>4. \A r \in Requests : r[2] \in Nat
    BY FailoverAssumption DEF Requests, Attempts
  <2>5. \A r \in Requests :
          r[1] = exec[k].logical /\ r[2] > exec[k].req[2] => ledger[r].st = "absent"
    BY <1>1, <1>2, Loop DEF InOrder
  <2>6. InOrder(k)'
    <3> SUFFICES ASSUME NEW r \in Requests, r[1] = exec[k].logical,
                        r[2] >= exec[k].req[2] + 1
                 PROVE  ledger'[r].st = "absent"
      BY <2>1 DEF InOrder
    <3>1. r[2] > exec[k].req[2] /\ r # exec[k].req
      BY <1>3, <2>4
    <3>2. QED  BY <2>2, <2>5, <3>1
  <2>7. Untaken(k)'
    BY <1>1, <1>2, <2>1, Loop DEF Untaken
  <2>8. PICK l \in Logicals : l = exec[k].logical
    BY <1>2, Loop
  <2>9. RowsFirst(l)
    BY <1>2, <2>8, Loop
  <2>10. \A r \in Requests :
           /\ ledger[r].st # "absent" => ledger'[r].st # "absent"
           /\ ledger'[r].ext => ledger[r].ext
    BY <1>1, <1>2, <1>3, <2>2, Loop DEF FinalizePending, LedgerType, RowType
  <2>11. RowsFirst(l)'
    BY <1>1, <2>9, <2>10 DEF RowsFirst
  <2>12. AtMostOne(l)'
    BY <1>1, <1>2, <2>8, Loop DEF AtMostOne
  <2>13. Core'
    BY <2>3, <2>6, <2>7, <2>8, <2>11, <2>12, AdvanceKeeps
  <2>14. QED  BY <1>4, <2>13
<1>7. QED  BY <1>5, <1>6 DEF LogRejected

(***************************************************************************)
(* Every step keeps the invariant, and changes in the ledger only pending  *)
(* rows and the row of a new attempt.                                      *)
(***************************************************************************)
Kept == Core' /\ (LedgerQuiet \/ \E k \in Tokens : Appends(k))

LEMMA QuietKept ==
    ASSUME Core, Shape', Quiet
    PROVE  Kept
BY QuietKeeps DEF Kept, Quiet, Still

LEMMA DispatchKept ==
    ASSUME Core, Shape', NEW k \in Tokens,
           \/ Preflight(k) \/ BeginAttempt(k) \/ BeginFails(k)
           \/ Dispatch(k) \/ DispatchUnknown(k) \/ LogRejected(k)
    PROVE  Kept
<1>1. CASE Preflight(k)  BY <1>1, PreflightKeeps DEF Kept
<1>2. CASE BeginAttempt(k)  BY <1>2, BeginAttemptKeeps DEF Kept
<1>3. CASE BeginFails(k)
  BY <1>3, BeginFailsKeeps DEF Kept, Quiet, Still
<1>4. CASE Dispatch(k)  BY <1>4, DispatchKeeps DEF Kept
<1>5. CASE DispatchUnknown(k)  BY <1>5, DispatchUnknownKeeps DEF Kept
<1>6. CASE LogRejected(k)  BY <1>6, LogRejectedKeeps DEF Kept
<1>7. QED  BY <1>1, <1>2, <1>3, <1>4, <1>5, <1>6

LEMMA ClaimKept ==
    ASSUME Core, Shape', NEW k \in Tokens, Claim(k) \/ Start(k) \/ Prepare(k)
    PROVE  Kept
<1>1. CASE ClaimInvoke(k)  BY <1>1, ClaimInvokeKeeps DEF Kept, Still
<1>2. CASE ClaimPoll(k)  BY <1>2, ClaimPollKeeps DEF Kept, Still
<1>3. CASE Start(k) /\ MayStart(task, k)
  <2>1. LedgerQuiet  BY <1>3 DEF Start, LedgerQuiet
  <2>2. QED  BY <1>3, <2>1, StartKeeps DEF Kept
<1>4. CASE Start(k) /\ ~MayStart(task, k)
  BY <1>4, StartMissesQuiet, QuietKept DEF Core
<1>5. CASE Prepare(k) /\ exec[k].logical = None
  BY <1>5, PrepareFreshKeeps DEF Kept
<1>6. CASE Prepare(k) /\ exec[k].logical # None
  BY <1>6, PrepareReclaimedQuiet, QuietKept
<1>7. QED  BY <1>1, <1>2, <1>3, <1>4, <1>5, <1>6 DEF Claim

LEMMA InvokeQuiet ==
    ASSUME Shape, RowShape, NEW k \in Tokens,
           \/ PrepareMisses(k) \/ PreflightFails(k)
           \/ LogRunning(k) \/ LogIncomplete(k) \/ LogSuccess(k)
           \/ LogFailed(k) \/ LogIngestFailure(k) \/ LogFails(k)
           \/ SaveExternal(k) \/ SaveExternalThrows(k) \/ Discard(k)
           \/ HandleFailed(k) \/ Succeed(k) \/ SucceedThrows(k)
    PROVE  Quiet
BY PrepareMissesQuiet, PreflightFailsQuiet, LogRunningQuiet, LogIncompleteQuiet,
   LogSuccessQuiet, LogFailedQuiet, LogIngestFailureQuiet, LogFailsQuiet, SaveExternalQuiet,
   SaveExternalThrowsQuiet, DiscardQuiet, HandleFailedQuiet, SucceedQuiet, SucceedThrowsQuiet

LEMMA LaterQuiet ==
    ASSUME Shape, RowShape, NEW k \in Tokens,
           Recover(k) \/ Poll(k) \/ Heartbeat(k) \/ Crash(k)
    PROVE  Quiet
BY RecoverAcceptedQuiet, RecoverSettledQuiet, RecoverExpiredQuiet, RecoverDefersQuiet,
   AdoptQuiet, AdoptMissedQuiet, PollAgainQuiet, PollIngestFailsQuiet, PollSucceededQuiet,
   PollFailedQuiet, PollFailThrowsQuiet, RescheduleQuiet, PollGivesUpQuiet, HeartbeatQuiet, CrashQuiet
   DEF Recover, Poll

LEMMA PassQuiet ==
    ASSUME Shape, RowShape, NEW i \in Instances, ActOnOrphan(i) \/ CrashPass(i)
    PROVE  Quiet
BY OrphanAttachedQuiet, OrphanOwnedQuiet, OrphanAttachQuiet, OrphanMissedQuiet,
   OrphanForeignQuiet, OrphanCompensateQuiet, OrphanCompensateFailsQuiet, CrashPassQuiet
   DEF ActOnOrphan

LEMMA StutterQuiet ==
    ASSUME Shape, RowShape, UNCHANGED vars
    PROVE  Quiet
BY NothingQuiet DEF vars, Quiet, Still

LEMMA CoreNext ==
    ASSUME Core, [Next]_vars
    PROVE  Kept
<1>1. Shape'  BY ShapeNext DEF Core
<1>2. Shape /\ RowShape  BY DEF Core
<1>3. ASSUME NEW k \in Tokens, Claim(k) \/ Work(k) \/ Heartbeat(k) \/ Crash(k)
      PROVE  Kept
  <2>1. CASE Claim(k) \/ Start(k) \/ Prepare(k)
    BY <1>1, <2>1, ClaimKept
  <2>2. CASE \/ Preflight(k) \/ BeginAttempt(k) \/ BeginFails(k)
             \/ Dispatch(k) \/ DispatchUnknown(k) \/ LogRejected(k)
    BY <1>1, <2>2, DispatchKept
  <2>3. CASE \/ PrepareMisses(k) \/ PreflightFails(k)
             \/ LogRunning(k) \/ LogIncomplete(k) \/ LogSuccess(k)
             \/ LogFailed(k) \/ LogIngestFailure(k) \/ LogFails(k)
             \/ SaveExternal(k) \/ SaveExternalThrows(k) \/ Discard(k)
             \/ HandleFailed(k) \/ Succeed(k) \/ SucceedThrows(k)
    BY <1>1, <1>2, <2>3, InvokeQuiet, QuietKept
  <2>4. CASE Recover(k) \/ Poll(k) \/ Heartbeat(k) \/ Crash(k)
    BY <1>1, <1>2, <2>4, LaterQuiet, QuietKept
  <2>5. QED  BY <1>3, <2>1, <2>2, <2>3, <2>4 DEF Work, Invoke
<1>4. ASSUME NEW i \in Instances,
             ActOnOrphan(i) \/ CrashPass(i) \/ \E r \in Requests : ListOrphan(i, r)
      PROVE  Kept
  BY <1>1, <1>2, <1>4, PassQuiet, ListOrphanQuiet, QuietKept
<1>5. ASSUME NEW r \in Requests, Sweep(r) PROVE Kept
  BY <1>1, <1>2, <1>5, AbandonQuiet, SweepDetachedQuiet, QuietKept DEF Sweep
<1>6. CASE Owner \/ LeaseExpires \/ Stall \/ UNCHANGED vars
  BY <1>1, <1>2, <1>6, CancelQuiet, RetryCheckQuiet, RetryUpdateQuiet, LeaseExpiresQuiet,
     StallQuiet, StutterQuiet, QuietKept DEF Owner
<1>7. QED  BY <1>3, <1>4, <1>5, <1>6 DEF Next

LEMMA CoreInit == Init => Core
<1> SUFFICES ASSUME Init PROVE Core
  OBVIOUS
<1>1. Shape  BY ShapeInit
<1>2. RowShape /\ StartedOnRow
  BY NoneAssumption DEF Init, NewTask, RowShape, StartedOnRow, Idle, Terminal
<1>3. KeysBelowAttempt /\ KeysDistinct
  BY DEF Init, NewTask, KeysBelowAttempt, KeysDistinct
<1>4. FreshUntouched /\ NoJobWithoutRow
  BY NoneAssumption DEF Init, FreshUntouched, NoJobWithoutRow, Idle, EmptyLedger, NoRow
<1>5. OneDispatcher /\ DispatchOrder /\ NothingTakenYet
  BY DEF Init, OneDispatcher, Dispatching, DispatchSteps, DispatchOrder, InOrder,
         NothingTakenYet, Untaken, Idle
<1>6. LedgerBeforeDispatch /\ AtMostOncePerInvocation
  BY DEF Init, LedgerBeforeDispatch, AtMostOncePerInvocation, Accepted
<1>7. QED  BY <1>1, <1>2, <1>3, <1>4, <1>5, <1>6 DEF Core

LEMMA CoreCorrect == Spec => []Core
<1>1. Core /\ [Next]_vars => Core'
  BY CoreNext DEF Kept
<1>2. QED  BY <1>1, CoreInit, PTL DEF Spec

(***************************************************************************)
(* The theorems.                                                           *)
(***************************************************************************)
\* The vendor accepts at most one physical attempt of a logical invocation,
\* for any number of executions, instances, candidates and faults.
THEOREM AtMostOnceCorrect == Spec => []AtMostOncePerInvocation
<1>1. Core => AtMostOncePerInvocation  BY DEF Core
<1>2. QED  BY <1>1, CoreCorrect, PTL

\* No vendor call without a ledger row written before it.
THEOREM LedgerFirstCorrect == Spec => []LedgerBeforeDispatch
<1>1. Core => LedgerBeforeDispatch  BY DEF Core
<1>2. QED  BY <1>1, CoreCorrect, PTL

\* Two logical invocations of a Task never share an idempotency key.
THEOREM KeysDistinctCorrect == Spec => []KeysDistinct
<1>1. Core => KeysDistinct  BY DEF Core
<1>2. QED  BY <1>1, CoreCorrect, PTL

\* A ledger row is settled once, whoever wins the race to settle it.
THEOREM SettledOnceCorrect == Spec => SettledOnce
<1>1. ASSUME Core, [Next]_vars, NEW r \in Requests
      PROVE  /\ Settled(ledger[r]) => ledger'[r] = ledger[r]
             /\ ledger[r].ext => ledger'[r].ext
  <2>1. CASE LedgerQuiet
    BY <2>1 DEF LedgerQuiet, Settled
  <2>2. ASSUME NEW k \in Tokens, Appends(k)
        PROVE  /\ Settled(ledger[r]) => ledger'[r] = ledger[r]
               /\ ledger[r].ext => ledger'[r].ext
    <3>1. ledger[exec[k].req].st = "absent" /\ ~ledger[exec[k].req].ext
      BY <1>1, <2>2 DEF Appends, Core, NoJobWithoutRow
    <3>2. r # exec[k].req => ledger'[r] = ledger[r]
      BY <1>1, <2>2 DEF Appends, Begin, Core, Shape, TypeOK, LedgerType
    <3>3. QED  BY <3>1, <3>2 DEF Settled
  <2>3. QED  BY <1>1, <2>1, <2>2, CoreNext DEF Kept
<1>2. Core /\ [Next]_vars =>
        \A r \in Requests :
          /\ Settled(ledger[r]) => ledger'[r] = ledger[r]
          /\ ledger[r].ext => ledger'[r].ext
  BY <1>1
<1>3. QED  BY <1>2, CoreCorrect, PTL DEF Spec, SettledOnce

(***************************************************************************)
(* The row of the Task: whoever changes it under a live lease is the       *)
(* execution that holds the lease (or the owner's cancel), and whoever     *)
(* ends it settles the ledger row of the attached job.                     *)
(***************************************************************************)

\* The holder of the lease moves, nobody holds it, or the owner cancels.
Fenced ==
    \/ LeaseFree(task)
    \/ task' \in {task, [task EXCEPT !.live = FALSE]}
    \/ exec'[task.lease] # exec[task.lease]
    \/ task'.status = "cancelled"

\* The Task does not end here, or its job's row is settled in the same step.
EndsSettled ==
    \/ task'.status = task.status /\ task'.req = task.req
    \/ task'.status \notin Terminal
    \/ TerminalSettlesLedger'

RowStep == Fenced /\ EndsSettled

LEMMA Moves ==
    ASSUME Core, NEW k \in Tokens, NEW e, Goto(k, e), e.at # exec[k].at
    PROVE  exec'[k] # exec[k]
BY DEF Goto, Core, Shape, TypeOK

LEMMA IdleMoves ==
    ASSUME Core, NEW k \in Tokens, Goto(k, Idle), exec[k].at # "idle"
    PROVE  exec'[k] # exec[k]
BY Moves DEF Idle

LEMMA RowUntouched ==
    ASSUME Core, UNCHANGED task
    PROVE  RowStep
BY DEF RowStep, Fenced, EndsSettled

\* Settling the attached row along with the end of the Task.
LEMMA FinishSettles ==
    ASSUME Core, MaySettle(task), NEW status \in Terminal, NEW code \in Codes \cup {None},
           NEW st \in SettledStatuses, SettleAttached(task, st, code),
           NEW c, task' = Finish(task, status, c),
           \/ status = "succeeded" /\ st = "success"
           \/ status = "cancelled" /\ st = "cancelled"
           \/ status = "failed" /\ st \in {"error", "timeout"}
    PROVE  EndsSettled
<1>1. /\ task \in TaskType /\ ledger \in LedgerType
      /\ task'.status = status /\ task'.req = task.req
  BY DEF Core, Shape, TypeOK, Finish, TaskType
<1>2. CASE task.req = None
  BY <1>1, <1>2 DEF EndsSettled, TerminalSettlesLedger
<1>3. CASE task.req # None
  <2>1. task.req \in Requests /\ ledger[task.req].st = "pending"
    BY <1>1, <1>3 DEF TaskType, MaySettle
  <2>2. ledger'[task.req].st = st
    BY <1>1, <1>3, <2>1 DEF SettleAttached, FinalizePending, LedgerType, RowType
  <2>3. QED
    BY <1>1, <2>2 DEF EndsSettled, TerminalSettlesLedger, Terminal
<1>4. QED  BY <1>2, <1>3

(***************************************************************************)
(* The steps that change the row.                                          *)
(***************************************************************************)
LEMMA ClaimInvokeRow ==
    ASSUME Core, NEW k \in Tokens, ClaimInvoke(k)
    PROVE  RowStep
<1>1. LeaseFree(task)
  BY DEF ClaimInvoke, MayClaimPending, LeaseFree, Core, RowShape
<1>2. task'.status \notin Terminal
  BY DEF ClaimInvoke, ClaimPending, Core, Shape, TypeOK, TaskType, Terminal
<1>3. QED  BY <1>1, <1>2 DEF RowStep, Fenced, EndsSettled

LEMMA ClaimPollRow ==
    ASSUME Core, NEW k \in Tokens, ClaimPoll(k)
    PROVE  RowStep
<1>1. LeaseFree(task)
  BY DEF ClaimPoll, MayClaimDuePoll
<1>2. task'.status = task.status /\ task'.req = task.req
  BY DEF ClaimPoll, ClaimDuePoll, Core, Shape, TypeOK, TaskType
<1>3. QED  BY <1>1, <1>2 DEF RowStep, Fenced, EndsSettled

LEMMA StartRow ==
    ASSUME Core, NEW k \in Tokens, Start(k)
    PROVE  RowStep
<1>1. CASE MayStart(task, k)
  <2>1. exec[k] \in ExecType /\ exec[k].at = "claimed"
    BY Here DEF Start, At, Core
  <2>2. exec'[k] # exec[k]
    BY <1>1, <2>1, Moves DEF Start, ExecType
  <2>3. task'.status \notin Terminal /\ task.lease = k
    BY <1>1 DEF Start, MayStart, StartClaimed, Core, Shape, TypeOK, TaskType, Terminal
  <2>4. QED  BY <2>2, <2>3 DEF RowStep, Fenced, EndsSettled
<1>2. CASE ~MayStart(task, k)
  BY <1>2, RowUntouched DEF Start
<1>3. QED  BY <1>1, <1>2

LEMMA PrepareRow ==
    ASSUME Core, NEW k \in Tokens, Prepare(k)
    PROVE  RowStep
<1>1. PICK l \in Logicals :
        /\ MayPrepare(task, k, l) /\ task' = PrepareInvokeAttempt(task, l)
        /\ Goto(k, [exec[k] EXCEPT !.logical = l, !.at = AfterPrepare(exec[k].logical)])
  BY DEF Prepare
<1>2. exec[k] \in ExecType /\ exec[k].at = "prepare"
  BY Here DEF Prepare, At, Core
<1>3. AfterPrepare(exec[k].logical) # "prepare"
  BY DEF AfterPrepare
<1>4. exec'[k] # exec[k]
  BY <1>1, <1>2, <1>3, Moves DEF ExecType
<1>5. task.lease = k /\ task'.status = task.status /\ task'.req = task.req
  BY <1>1 DEF MayPrepare, PrepareInvokeAttempt, Core, Shape, TypeOK, TaskType
<1>6. QED  BY <1>4, <1>5 DEF RowStep, Fenced, EndsSettled

LEMMA AttachRow ==
    ASSUME Core, NEW k \in Tokens, SaveExternal(k) \/ Adopt(k)
    PROVE  RowStep
<1>1. CASE MaySaveExternal(task, k, exec[k].req)
  <2>1. /\ task' = SaveExternalResult(task, exec[k].req) /\ Goto(k, Idle)
        /\ exec[k].at # "idle"
    BY <1>1 DEF SaveExternal, Adopt, At
  <2>2. exec'[k] # exec[k]
    BY <2>1, IdleMoves
  <2>3. task.lease = k /\ task'.status \notin Terminal
    BY <1>1, <2>1 DEF MaySaveExternal, SaveExternalResult, Core, Shape, TypeOK, TaskType, Terminal
  <2>4. QED  BY <2>2, <2>3 DEF RowStep, Fenced, EndsSettled
<1>2. CASE ~MaySaveExternal(task, k, exec[k].req)
  BY <1>2, RowUntouched DEF SaveExternal, Adopt
<1>3. QED  BY <1>1, <1>2

LEMMA HandleFailedRow ==
    ASSUME Core, NEW k \in Tokens, HandleFailed(k)
    PROVE  RowStep
<1>1. exec'[k] # exec[k] /\ exec[k] \in ExecType /\ task \in TaskType
  BY IdleMoves, Here DEF HandleFailed, At, Core, Shape, TypeOK
<1>2. CASE RetryDecided(k) /\ HeldBy(task, k)
  <2>1. task'.status \notin Terminal /\ task.lease = k
    BY <1>1, <1>2 DEF HandleFailed, HeldBy, ScheduleRetry, TaskType, Terminal
  <2>2. QED  BY <1>1, <2>1 DEF RowStep, Fenced, EndsSettled
<1>3. CASE ~RetryDecided(k) /\ HeldBy(task, k) /\ MaySettle(task)
  <2>1. task.lease = k
    BY <1>3 DEF HeldBy
  <2>2. EndsSettled
    BY <1>1, <1>3, FinishSettles
       DEF HandleFailed, TerminalFail, Terminal, SettledStatuses, ExecType
  <2>3. QED  BY <1>1, <2>1, <2>2 DEF RowStep, Fenced
<1>4. CASE ~HeldBy(task, k) \/ (~RetryDecided(k) /\ ~MaySettle(task))
  <2>1. UNCHANGED task
    BY <1>4 DEF HandleFailed, TerminalFail
  <2>2. QED  BY <2>1, RowUntouched
<1>5. QED  BY <1>2, <1>3, <1>4

LEMMA SucceedRow ==
    ASSUME Core, NEW k \in Tokens, Succeed(k) \/ PollSucceeded(k)
    PROVE  RowStep
<1>1. exec'[k] # exec[k] /\ TerminalSucceed(k) /\ ~Unsettleable(k)
  BY IdleMoves DEF Succeed, PollSucceeded, At
<1>2. CASE HeldBy(task, k)
  <2>1. task.lease = k /\ MaySettle(task)
    BY <1>1, <1>2 DEF HeldBy, Unsettleable
  <2>2. EndsSettled
    BY <1>1, <1>2, <2>1, FinishSettles DEF TerminalSucceed, Terminal, SettledStatuses
  <2>3. QED  BY <1>1, <2>1, <2>2 DEF RowStep, Fenced
<1>3. CASE ~HeldBy(task, k)
  BY <1>1, <1>3, RowUntouched DEF TerminalSucceed
<1>4. QED  BY <1>2, <1>3

\* The holder lets go of the lease without ending the Task.
LEMMA LetsGoRow ==
    ASSUME Core, NEW k \in Tokens, Goto(k, Idle), exec[k].at # "idle",
           \/ MayDefer(task, k) /\ task' = DeferInvokeRecovery(task)
           \/ MayRelease(task, k) /\ task' = ReleasePoll(task)
           \/ MayRelease(task, k) /\ task' = SchedulePollRetry(task)
           \/ HeldBy(task, k) /\ task' = ScheduleRetry(task)
    PROVE  RowStep
<1>1. task.lease = k
  BY DEF MayDefer, MayRelease, HeldBy
<1>2. task'.status \notin Terminal
  BY DEF MayDefer, MayRelease, DeferInvokeRecovery, ReleasePoll, SchedulePollRetry,
         ScheduleRetry, Core, Shape, TypeOK, TaskType, Terminal
<1>3. QED  BY <1>1, <1>2, IdleMoves DEF RowStep, Fenced, EndsSettled

LEMMA ReleasesRow ==
    ASSUME Core, NEW k \in Tokens,
           \/ RecoverDefers(k) \/ PollAgain(k) \/ PollIngestFails(k)
           \/ PollFailThrows(k) \/ Reschedule(k)
    PROVE  RowStep
<1>1. CASE RecoverDefers(k)
  BY <1>1, LetsGoRow, RowUntouched DEF RecoverDefers, Undetermined, At
<1>2. CASE PollAgain(k)
  BY <1>2, LetsGoRow, RowUntouched DEF PollAgain, At
<1>3. CASE PollIngestFails(k)
  BY <1>3, LetsGoRow, RowUntouched DEF PollIngestFails, At
<1>4. CASE Reschedule(k)
  BY <1>4, LetsGoRow, RowUntouched DEF Reschedule, At
<1>5. CASE PollFailThrows(k)
  BY <1>5, LetsGoRow, RowUntouched DEF PollFailThrows, At
<1>6. QED  BY <1>1, <1>2, <1>3, <1>4, <1>5

LEMMA LeaseRow ==
    ASSUME Core, LeaseExpires \/ Stall \/ \E k \in Tokens : Heartbeat(k)
    PROVE  RowStep
<1>1. /\ task'.status = task.status /\ task'.req = task.req
      /\ LeaseFree(task) \/ task' = [task EXCEPT !.live = FALSE]
  BY DEF LeaseExpires, Stall, Heartbeat, RenewLease, LeaseFree, Core, Shape, TypeOK, TaskType
<1>2. QED  BY <1>1 DEF RowStep, Fenced, EndsSettled

LEMMA OrphanAttachRow ==
    ASSUME Core, NEW i \in Instances, OrphanAttach(i)
    PROVE  RowStep
<1>1. CASE MayAttachRecovered(task, pass[i].req)
  <2>1. LeaseFree(task)
    BY <1>1 DEF MayAttachRecovered
  <2>2. task'.status \notin Terminal
    BY <1>1 DEF OrphanAttach, AttachRecovered, Core, Shape, TypeOK, TaskType, Terminal
  <2>3. QED  BY <2>1, <2>2 DEF RowStep, Fenced, EndsSettled
<1>2. CASE ~MayAttachRecovered(task, pass[i].req)
  BY <1>2, RowUntouched DEF OrphanAttach
<1>3. QED  BY <1>1, <1>2

LEMMA CancelRow ==
    ASSUME Core, Cancel
    PROVE  RowStep
<1>1. task'.status = "cancelled"
  BY DEF Cancel, Finish, Core, Shape, TypeOK, TaskType
<1>2. EndsSettled
  BY FinishSettles DEF Cancel, Terminal, SettledStatuses
<1>3. QED  BY <1>1, <1>2 DEF RowStep, Fenced

LEMMA RetryUpdateRow ==
    ASSUME Core, RetryUpdate
    PROVE  RowStep
<1>1. CASE MayUserRetry(task)
  <2>1. LeaseFree(task)
    BY <1>1 DEF MayUserRetry, Core, RowShape, Terminal, LeaseFree
  <2>2. task'.status \notin Terminal
    BY <1>1 DEF RetryUpdate, UserRetry, Core, Shape, TypeOK, TaskType, Terminal
  <2>3. QED  BY <2>1, <2>2 DEF RowStep, Fenced, EndsSettled
<1>2. CASE ~MayUserRetry(task)
  BY <1>2, RowUntouched DEF RetryUpdate
<1>3. QED  BY <1>1, <1>2

(***************************************************************************)
(* The steps that leave it alone.                                          *)
(***************************************************************************)
LEMMA InvokeRow ==
    ASSUME Core, NEW k \in Tokens, Invoke(k)
    PROVE  RowStep
<1>1. CASE \/ Start(k) \/ Prepare(k) \/ SaveExternal(k)
           \/ HandleFailed(k) \/ Succeed(k)
  BY <1>1, StartRow, PrepareRow, AttachRow, HandleFailedRow, SucceedRow
<1>2. CASE \/ PrepareMisses(k) \/ Preflight(k) \/ PreflightFails(k)
           \/ BeginAttempt(k) \/ BeginFails(k) \/ Dispatch(k) \/ DispatchUnknown(k)
  BY <1>2, RowUntouched
     DEF PrepareMisses, Preflight, PreflightFails, BeginAttempt, BeginFails, Dispatch,
         DispatchUnknown, db
<1>3. CASE \/ LogRejected(k) \/ LogRunning(k) \/ LogIncomplete(k) \/ LogSuccess(k)
           \/ LogFailed(k) \/ LogIngestFailure(k) \/ LogFails(k)
  BY <1>3, RowUntouched
     DEF LogRejected, LogRunning, LogIncomplete, LogSuccess, LogFailed, LogIngestFailure,
         LogFails, db
<1>4. CASE SaveExternalThrows(k) \/ Discard(k) \/ SucceedThrows(k)
  BY <1>4, RowUntouched DEF SaveExternalThrows, Discard, SucceedThrows, db
<1>5. QED  BY <1>1, <1>2, <1>3, <1>4 DEF Invoke

LEMMA LaterRow ==
    ASSUME Core, NEW k \in Tokens, Recover(k) \/ Poll(k) \/ Crash(k)
    PROVE  RowStep
<1>1. CASE \/ RecoverDefers(k) \/ Adopt(k)
           \/ PollAgain(k) \/ PollIngestFails(k) \/ PollSucceeded(k)
           \/ PollFailThrows(k) \/ Reschedule(k)
  BY <1>1, ReleasesRow, AttachRow, SucceedRow
<1>2. CASE \/ RecoverAccepted(k) \/ RecoverSettled(k) \/ RecoverExpired(k) \/ AdoptMissed(k)
           \/ PollFailed(k) \/ PollGivesUp(k) \/ Crash(k)
  BY <1>2, RowUntouched
     DEF RecoverAccepted, RecoverSettled, RecoverExpired, AdoptMissed, PollFailed,
         PollGivesUp, Crash, db
<1>3. QED  BY <1>1, <1>2 DEF Recover, Poll

LEMMA PassRow ==
    ASSUME Core, NEW i \in Instances,
           ActOnOrphan(i) \/ CrashPass(i) \/ \E r \in Requests : ListOrphan(i, r)
    PROVE  RowStep
<1>1. CASE OrphanAttach(i)  BY <1>1, OrphanAttachRow
<1>2. CASE \/ OrphanAttached(i) \/ OrphanOwned(i) \/ OrphanMissed(i) \/ OrphanForeign(i)
           \/ OrphanCompensate(i) \/ OrphanCompensateFails(i)
           \/ CrashPass(i) \/ \E r \in Requests : ListOrphan(i, r)
  BY <1>2, RowUntouched
     DEF OrphanAttached, OrphanOwned, OrphanMissed, OrphanForeign, OrphanCompensate,
         OrphanCompensateFails, CrashPass, ListOrphan, db
<1>3. QED  BY <1>1, <1>2 DEF ActOnOrphan

LEMMA NextRow ==
    ASSUME Core, [Next]_vars
    PROVE  RowStep
<1>1. ASSUME NEW k \in Tokens, Claim(k) \/ Work(k) \/ Heartbeat(k) \/ Crash(k)
      PROVE  RowStep
  BY <1>1, ClaimInvokeRow, ClaimPollRow, InvokeRow, LaterRow, LeaseRow DEF Claim, Work
<1>2. ASSUME NEW i \in Instances,
             ActOnOrphan(i) \/ CrashPass(i) \/ \E r \in Requests : ListOrphan(i, r)
      PROVE  RowStep
  BY <1>2, PassRow
<1>3. ASSUME NEW r \in Requests, Sweep(r) PROVE RowStep
  BY <1>3, RowUntouched DEF Sweep, Abandon, SweepDetached
<1>4. CASE Owner
  BY <1>4, CancelRow, RetryUpdateRow, RowUntouched DEF Owner, RetryCheck, db
<1>5. CASE LeaseExpires \/ Stall
  BY <1>5, LeaseRow
<1>6. CASE UNCHANGED vars
  BY <1>6, RowUntouched DEF vars
<1>7. QED  BY <1>1, <1>2, <1>3, <1>4, <1>5, <1>6 DEF Next

(***************************************************************************)
(* The theorems.                                                           *)
(***************************************************************************)
\* Under a live lease only its holder, the owner's cancel or the expiry
\* changes the row.
THEOREM LeaseFencesCorrect == Spec => LeaseFences
<1>1. Core /\ [Next]_vars =>
        (/\ task.lease # None /\ task.live
         /\ task' # task /\ task' # [task EXCEPT !.live = FALSE]
         => \/ exec'[task.lease] # exec[task.lease]
            \/ task'.status = "cancelled")
  BY NextRow DEF RowStep, Fenced, LeaseFree
<1>2. QED  BY <1>1, CoreCorrect, PTL DEF Spec, LeaseFences

LEMMA SettledStays ==
    ASSUME Core, [Next]_vars, NEW r \in Requests, Settled(ledger[r])
    PROVE  ledger'[r] = ledger[r]
<1>1. CASE LedgerQuiet
  BY <1>1 DEF LedgerQuiet, Settled
<1>2. ASSUME NEW k \in Tokens, Appends(k) PROVE ledger'[r] = ledger[r]
  BY <1>2 DEF Appends, Begin, Settled, Core, Shape, TypeOK, LedgerType
<1>3. QED  BY <1>1, <1>2, CoreNext DEF Kept

LEMMA TerminalNext ==
    ASSUME Core, TerminalSettlesLedger, [Next]_vars
    PROVE  TerminalSettlesLedger'
<1>1. EndsSettled
  BY NextRow DEF RowStep
<1>2. CASE task'.status = task.status /\ task'.req = task.req
  <2> SUFFICES ASSUME task'.status \in Terminal, task'.req # None
               PROVE  ledger'[task.req] = ledger[task.req]
    BY <1>2 DEF TerminalSettlesLedger
  <2>1. task.req \in Requests
    BY <1>2 DEF Core, Shape, TypeOK, TaskType
  <2>2. Settled(ledger[task.req])
    BY <1>2 DEF TerminalSettlesLedger, Settled, Terminal
  <2>3. QED  BY <2>1, <2>2, SettledStays
<1>3. CASE task'.status \notin Terminal
  BY <1>3 DEF TerminalSettlesLedger
<1>4. QED  BY <1>1, <1>2, <1>3 DEF EndsSettled

\* A Task that ends settles the ledger row of its attached job the same way.
THEOREM TerminalSettlesCorrect == Spec => []TerminalSettlesLedger
<1>1. Init => TerminalSettlesLedger
  BY DEF Init, NewTask, TerminalSettlesLedger, Terminal
<1>2. QED  BY <1>1, CoreCorrect, TerminalNext, PTL DEF Spec
============================================================================
