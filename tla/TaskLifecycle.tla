--------------------------- MODULE TaskLifecycle ---------------------------
(***************************************************************************)
(* The life of one Task of canvas-api: its row, the ledger of its invoke   *)
(* attempts, the vendor, and everyone who acts on them.                    *)
(*                                                                         *)
(*   executions    one per claim, named by its lease token: executor.run   *)
(*                 (with InvokeService.invoke inlined) or poller.pollOne.  *)
(*                 An execution that lost its lease keeps running until it *)
(*                 next touches the row.                                   *)
(*   orphan passes reconcileAcceptedOrphans, one slot per API instance,    *)
(*                 which works on a snapshot of the row and the Task.      *)
(*   sweepers      reconcileAbandonedUnknowns and the request log's        *)
(*                 reconcileOnce.                                          *)
(*   the owner     cancels, and retries in two steps: check, then update.  *)
(*                                                                         *)
(* A step is one database statement or transaction, or one vendor call.    *)
(* Crashes, stalls that outlive a lease and failed writes may come between *)
(* any two steps; faults counts them and MaxFaults bounds them.            *)
(***************************************************************************)
EXTENDS InvokeLedger, FiniteSets

CONSTANTS
    Instances,    \* API instances that run the orphan pass
    RejectCodes,  \* codes of an attempt the vendor definitely rejected
    PollCodes,    \* codes a failed poll answer or a throwing poll may carry
    MaxRetry,     \* bound: the owner retries only below this retry_count
    MaxFaults     \* bound: crashes, stalls and failed writes in a behaviour

ASSUME CodesAssumption  == RejectCodes \subseteq Codes /\ PollCodes \subseteq Codes
ASSUME BoundsAssumption == MaxRetry \in Nat /\ MaxFaults \in Nat

VARIABLES
    task,       \* the row of canvas.tasks
    ledger,     \* the invoke rows of ops.request_logs
    preflight,  \* the attempt-less failure row of each logical invocation
    exec,       \* what the execution holding each token does next
    pass,       \* the orphan pass of each instance
    owner,      \* the owner's retry request
    vendor,     \* what became of each dispatch at the vendor
    key,        \* attempt_no in the idempotency key of each invocation
    faults      \* faults so far

vars == <<task, ledger, preflight, exec, pass, owner, vendor, key, faults>>

db == <<task, ledger, preflight>>

(***************************************************************************)
(* The vendor.  A dispatch is rejected, creates a job (live), or completes *)
(* in the call (done).  A job ends done, failed, or after a cancel call;   *)
(* uncancelled is a job whose best-effort cancel failed or was never sent. *)
(***************************************************************************)
VendorStates == {"none", "rejected", "live", "done", "failed", "cancelled", "uncancelled"}

Accepted == {"live", "done", "failed", "cancelled", "uncancelled"}

Steps == {"idle", "claimed", "prepare", "preflight", "begin", "dispatch", "log",
          "save", "discard", "succeed", "failed", "recover", "adopt", "mismatch",
          "poll", "reschedule"}

Answers == {"rejected", "running", "incomplete", "success", "failed", "ingest"}

ExecType ==
    [at : Steps, logical : Logicals \cup {None}, req : Requests \cup {None},
     answer : Answers \cup {None}, code : Codes \cup {None}, again : BOOLEAN,
     retry : Nat]

Idle == [at |-> "idle", logical |-> None, req |-> None, answer |-> None,
         code |-> None, again |-> FALSE, retry |-> 0]

PassType ==
    [at : {"idle", "listed", "missed", "compensate"}, req : Requests \cup {None},
     seen : TaskType]

NoPass == [at |-> "idle", req |-> None, seen |-> NewTask]

TypeOK ==
    /\ task \in TaskType
    /\ ledger \in LedgerType
    /\ preflight \in [Logicals -> Codes \cup {None}]
    /\ exec \in [Tokens -> ExecType]
    /\ pass \in [Instances -> PassType]
    /\ owner \in {"idle", "checked"}
    /\ vendor \in [Requests -> VendorStates]
    /\ key \in [Logicals -> Nat]
    /\ faults \in Nat

Init ==
    /\ task = NewTask
    /\ ledger = EmptyLedger
    /\ preflight = [l \in Logicals |-> None]
    /\ exec = [k \in Tokens |-> Idle]
    /\ pass = [i \in Instances |-> NoPass]
    /\ owner = "idle"
    /\ vendor = [r \in Requests |-> "none"]
    /\ key = [l \in Logicals |-> 0]
    /\ faults = 0

(***************************************************************************)
(* Helpers of the steps.                                                   *)
(***************************************************************************)
Goto(k, e) == exec' = [exec EXCEPT ![k] = e]

At(k, step) == exec[k].at = step

\* One more fault, within the bound.
Fault == faults < MaxFaults /\ faults' = faults + 1

NoFault == UNCHANGED faults

\* A cancel of the job of r on a path that is a fault itself: sent or failed.
CancelTried(r) ==
    IF vendor[r] # "live" THEN UNCHANGED vendor
    ELSE \E s \in {"cancelled", "uncancelled"} : vendor' = [vendor EXCEPT ![r] = s]

\* Mutant: forgets the cancel.
SkipCancel(r) == UNCHANGED vendor /\ NoFault

\* A best-effort cancel of the job of r: sent, or (a fault) failed.
CancelJob(r) ==
    IF vendor[r] # "live"
    THEN UNCHANGED vendor /\ NoFault
    ELSE \/ vendor' = [vendor EXCEPT ![r] = "cancelled"] /\ NoFault
         \/ vendor' = [vendor EXCEPT ![r] = "uncancelled"] /\ Fault

\* compensate: cancel the job, then settle its row.
Compensate(r) ==
    /\ vendor' = IF vendor[r] = "live" THEN [vendor EXCEPT ![r] = "cancelled"] ELSE vendor
    /\ ledger' = FinalizePending(ledger, r, "cancelled", None)
    /\ NoFault

\* handleFailed is next, with this code; again is allowRedispatch.
FailWith(e, code, again) == [e EXCEPT !.at = "failed", !.code = code, !.again = again]

(***************************************************************************)
(* Claims: TaskRunnerService's tick and pollRunning.  A token is fresh: no *)
(* execution has it and the row does not hold it.                          *)
(***************************************************************************)
Fresh(k) == At(k, "idle") /\ task.lease # k

ClaimInvoke(k) ==
    /\ Fresh(k) /\ MayClaimPending(task)
    /\ task' = ClaimPending(task, k)
    /\ Goto(k, [Idle EXCEPT !.at = "claimed"])
    /\ UNCHANGED <<ledger, preflight, pass, owner, vendor, key, faults>>

ClaimPoll(k) ==
    /\ Fresh(k) /\ MayClaimDuePoll(task)
    /\ task' = ClaimDuePoll(task, k)
    /\ Goto(k, [Idle EXCEPT !.at = "poll", !.req = task.req, !.retry = task.retry])
    /\ UNCHANGED <<ledger, preflight, pass, owner, vendor, key, faults>>

(***************************************************************************)
(* executor.run                                                            *)
(***************************************************************************)
Start(k) ==
    /\ At(k, "claimed")
    /\ IF MayStart(task, k)
       THEN /\ task' = StartClaimed(task)
            /\ Goto(k, [exec[k] EXCEPT !.at = "prepare", !.logical = task.logical,
                                       !.retry = task.retry])
       ELSE Goto(k, Idle) /\ UNCHANGED task
    /\ UNCHANGED <<ledger, preflight, pass, owner, vendor, key, faults>>

\* randomUUID: a logical id nobody has drawn.
FreshLogical(l) == key[l] = 0

\* Mutant: a reclaimed invocation is dispatched again.
AlwaysDispatch(before) == "preflight"

\* reclaimed: the row had a logical id before this execution.
AfterPrepare(before) == IF before = None THEN "preflight" ELSE "recover"

Prepare(k) ==
    /\ At(k, "prepare")
    /\ \E l \in Logicals :
         /\ IF exec[k].logical = None THEN FreshLogical(l) ELSE l = exec[k].logical
         /\ MayPrepare(task, k, l)
         /\ task' = PrepareInvokeAttempt(task, l)
         /\ key' = [key EXCEPT ![l] = task.attempt]
         /\ Goto(k, [exec[k] EXCEPT !.logical = l,
                                           !.at = AfterPrepare(exec[k].logical)])
    /\ UNCHANGED <<ledger, preflight, pass, owner, vendor, faults>>

PrepareMisses(k) ==
    /\ At(k, "prepare") /\ ~MayPrepare(task, k, exec[k].logical)
    /\ Goto(k, Idle)
    /\ UNCHANGED <<db, pass, owner, vendor, key, faults>>

(***************************************************************************)
(* InvokeService.invoke: resolution, then one ledger row and one vendor    *)
(* call per candidate.                                                     *)
(***************************************************************************)
Preflight(k) ==
    /\ At(k, "preflight")
    /\ \E n \in Attempts :
         /\ NextAttemptNo(ledger, exec[k].logical, n)
         /\ Goto(k, [exec[k] EXCEPT !.at = "begin", !.req = <<exec[k].logical, n>>])
    /\ UNCHANGED <<db, pass, owner, vendor, key, faults>>

\* Input resolution, registry or channel resolution fails: no attempt exists.
\* The attempt-less row is written best effort.
PreflightFails(k) ==
    /\ At(k, "preflight")
    /\ \E c \in RejectCodes :
         /\ Goto(k, FailWith(exec[k], c, TRUE))
         /\ \/ preflight' = [preflight EXCEPT ![exec[k].logical] = c] /\ NoFault
            \/ UNCHANGED preflight /\ Fault
    /\ UNCHANGED <<task, ledger, pass, owner, vendor, key>>

BeginAttempt(k) ==
    /\ At(k, "begin")
    /\ ledger' = Begin(ledger, exec[k].req)
    /\ Goto(k, [exec[k] EXCEPT !.at = "dispatch"])
    /\ UNCHANGED <<task, preflight, pass, owner, vendor, key, faults>>

\* The insert fails, or commits and its acknowledgement is lost: no dispatch.
BeginFails(k) ==
    /\ At(k, "begin") /\ Fault
    /\ ledger' \in {ledger, Begin(ledger, exec[k].req)}
    /\ Goto(k, FailWith(exec[k], "ADAPTER_INTERNAL", TRUE))
    /\ UNCHANGED <<task, preflight, pass, owner, vendor, key>>

\* What the vendor makes of a dispatch whose answer reaches the client.
VendorEffect(answer) ==
    CASE answer = "rejected"                -> "rejected"
      [] answer \in {"running", "incomplete"} -> "live"
      [] answer = "failed"                  -> "failed"
      [] answer \in {"success", "ingest"}   -> "done"

Dispatch(k) ==
    /\ At(k, "dispatch")
    /\ \E a \in Answers, c \in RejectCodes :
         /\ vendor' = [vendor EXCEPT ![exec[k].req] = VendorEffect(a)]
         /\ Goto(k, [exec[k] EXCEPT !.at = "log", !.answer = a,
                      !.code = CASE a \in {"rejected", "failed"} -> c
                                 [] a = "ingest" -> "ASSET_DOWNLOAD_FAILED"
                                 [] OTHER -> None])
    /\ UNCHANGED <<db, pass, owner, key, faults>>

\* Time-out, broken connection, aborted request: the vendor may or may not
\* have taken it.  The row stays pending, and no other candidate is tried.
DispatchUnknown(k) ==
    /\ At(k, "dispatch") /\ Fault
    /\ \E s \in {"none", "live", "done"} : vendor' = [vendor EXCEPT ![exec[k].req] = s]
    /\ Goto(k, FailWith(exec[k], "INVOKE_OUTCOME_UNKNOWN", TRUE))
    /\ UNCHANGED <<db, pass, owner, key>>

(***************************************************************************)
(* The ledger write that follows an answer.  It needs the row to be still  *)
(* pending: assertUpdated throws when it is not, as a failed write does.   *)
(***************************************************************************)
Failoverable(code) == code \in RetryableCodes \/ code = "CREDENTIAL_INVALID"

RowOpen(k) == ledger[exec[k].req].st = "pending"

LogRejected(k) ==
    /\ At(k, "log") /\ exec[k].answer = "rejected" /\ RowOpen(k)
    /\ ledger' = FinalizePending(ledger, exec[k].req, "error", exec[k].code)
    /\ \/ Goto(k, FailWith(exec[k], exec[k].code, TRUE))
       \/ /\ Failoverable(exec[k].code) /\ exec[k].req[2] < MaxFailover
          /\ Goto(k, [exec[k] EXCEPT !.at = "begin", !.code = None, !.answer = None,
                                     !.req = <<exec[k].logical, exec[k].req[2] + 1>>])
    /\ UNCHANGED <<task, preflight, pass, owner, vendor, key, faults>>

LogRunning(k) ==
    /\ At(k, "log") /\ exec[k].answer = "running" /\ RowOpen(k)
    /\ ledger' = RecordExternal(ledger, exec[k].req)
    /\ Goto(k, [exec[k] EXCEPT !.at = "save"])
    /\ UNCHANGED <<task, preflight, pass, owner, vendor, key, faults>>

\* A running answer without a job id: handleRunning settles the row at once.
LogIncomplete(k) ==
    /\ At(k, "log") /\ exec[k].answer = "incomplete" /\ RowOpen(k)
    /\ ledger' = FinalizePending(ledger, exec[k].req, "error", "VENDOR_REJECTED")
    /\ Goto(k, FailWith(exec[k], "VENDOR_REJECTED", TRUE))
    /\ UNCHANGED <<task, preflight, pass, owner, vendor, key, faults>>

LogSuccess(k) ==
    /\ At(k, "log") /\ exec[k].answer = "success" /\ RowOpen(k)
    /\ ledger' = FinalizePending(ledger, exec[k].req, "success", None)
    /\ Goto(k, [exec[k] EXCEPT !.at = "succeed"])
    /\ UNCHANGED <<task, preflight, pass, owner, vendor, key, faults>>

LogFailed(k) ==
    /\ At(k, "log") /\ exec[k].answer = "failed" /\ RowOpen(k)
    /\ ledger' = FinalizePending(ledger, exec[k].req, "error", exec[k].code)
    /\ Goto(k, FailWith(exec[k], exec[k].code, TRUE))
    /\ UNCHANGED <<task, preflight, pass, owner, vendor, key, faults>>

\* The vendor completed in the call and only the local download failed: the
\* attempt is settled as a success and the Task may not be dispatched again.
LogIngestFailure(k) ==
    /\ At(k, "log") /\ exec[k].answer = "ingest" /\ RowOpen(k)
    /\ ledger' = FinalizePending(ledger, exec[k].req, "success", exec[k].code)
    /\ Goto(k, FailWith(exec[k], exec[k].code, FALSE))
    /\ UNCHANGED <<task, preflight, pass, owner, vendor, key, faults>>

\* The write fails.  What the vendor did not reject is treated as accepted: a
\* job is cancelled when its id is known, and nothing is dispatched again.
\* (An incomplete answer is written twice; its second write throws plainly.)
LogFailureCodes(answer) ==
    CASE answer = "rejected"   -> {"ADAPTER_INTERNAL"}
      [] answer = "incomplete" -> {"INVOKE_OUTCOME_UNKNOWN", "INTERNAL_ERROR"}
      [] OTHER                 -> {"INVOKE_OUTCOME_UNKNOWN"}

LogFails(k) ==
    /\ At(k, "log")
    /\ IF RowOpen(k) THEN Fault ELSE NoFault
    /\ IF exec[k].answer = "running" THEN CancelTried(exec[k].req) ELSE UNCHANGED vendor
    /\ \E c \in LogFailureCodes(exec[k].answer) : Goto(k, FailWith(exec[k], c, TRUE))
    /\ UNCHANGED <<db, pass, owner, key>>

(***************************************************************************)
(* executor.handleRunning: attach the job, or undo it.                     *)
(***************************************************************************)
SaveExternal(k) ==
    /\ At(k, "save")
    /\ IF MaySaveExternal(task, k, exec[k].req)
       THEN task' = SaveExternalResult(task, exec[k].req) /\ Goto(k, Idle)
       ELSE Goto(k, [exec[k] EXCEPT !.at = "discard"]) /\ UNCHANGED task
    /\ UNCHANGED <<ledger, preflight, pass, owner, vendor, key, faults>>

\* The update throws: cancel, settle the row, fail the Task.
SaveExternalThrows(k) ==
    /\ At(k, "save") /\ Fault
    /\ CancelTried(exec[k].req)
    /\ ledger' = FinalizePending(ledger, exec[k].req, "error", "INTERNAL_ERROR")
    /\ Goto(k, FailWith(exec[k], "INTERNAL_ERROR", TRUE))
    /\ UNCHANGED <<task, preflight, pass, owner, key>>

\* Cancellation or another execution won: cancel the job, settle the row.
Discard(k) ==
    /\ At(k, "discard")
    /\ CancelJob(exec[k].req)
    /\ ledger' = FinalizePending(ledger, exec[k].req, "cancelled", None)
    /\ Goto(k, Idle)
    /\ UNCHANGED <<task, preflight, pass, owner, key>>

(***************************************************************************)
(* executor.handleFailed and TaskTerminalService                           *)
(***************************************************************************)
RetryDecided(k) == exec[k].again /\ DecideRetry(exec[k].code, exec[k].retry)

\* Mutant: the finalization is not asserted.
SettleUnchecked(t) == TRUE

\* assertInvokeFinalized: the terminal transaction commits only when it also
\* settles the attached row, which must still be pending.
MaySettle(t) == t.req # None => ledger[t.req].st = "pending"

SettleAttached(t, st, code) ==
    IF t.req = None THEN UNCHANGED ledger ELSE ledger' = FinalizePending(ledger, t.req, st, code)

CancelAttached(t) == IF t.req = None THEN UNCHANGED vendor /\ NoFault ELSE CancelJob(t.req)

\* terminal.fail.  A lost lease changes nothing; an unsettled row throws and
\* rolls everything back, and the runner only logs it.
TerminalFail(k, code) ==
    IF HeldBy(task, k) /\ MaySettle(task)
    THEN /\ task' = Finish(task, "failed", code)
         /\ SettleAttached(task, IF code = "VENDOR_TIMEOUT" THEN "timeout" ELSE "error", code)
         /\ CancelAttached(task)
    ELSE UNCHANGED <<task, ledger, vendor>> /\ NoFault

Unsettleable(k) == HeldBy(task, k) /\ ~MaySettle(task)

\* That throw happens inside pollOne's try when the vendor reported the failure.
Caught(k) == ~exec[k].again /\ exec[k].answer = "failed" /\ Unsettleable(k)

HandleFailed(k) ==
    /\ At(k, "failed") /\ ~Caught(k)
    /\ IF RetryDecided(k)
       THEN /\ task' = IF HeldBy(task, k) THEN ScheduleRetry(task) ELSE task
            /\ UNCHANGED <<ledger, vendor, faults>>
       ELSE TerminalFail(k, exec[k].code)
    /\ Goto(k, Idle)
    /\ UNCHANGED <<preflight, pass, owner, key>>

\* terminal.succeed; a lost lease changes nothing.
TerminalSucceed(k) ==
    IF HeldBy(task, k)
    THEN task' = Finish(task, "succeeded", None) /\ SettleAttached(task, "success", None)
    ELSE UNCHANGED <<task, ledger>>

\* The synchronous result.
Succeed(k) ==
    /\ At(k, "succeed") /\ ~Unsettleable(k)
    /\ TerminalSucceed(k)
    /\ Goto(k, Idle)
    /\ UNCHANGED <<preflight, pass, owner, vendor, key, faults>>

\* The transaction fails and rolls back: run's catch fails the Task instead.
SucceedThrows(k) ==
    /\ At(k, "succeed")
    /\ IF Unsettleable(k) THEN NoFault ELSE Fault
    /\ Goto(k, FailWith(exec[k], "INTERNAL_ERROR", TRUE))
    /\ UNCHANGED <<db, pass, owner, vendor, key>>

(***************************************************************************)
(* TaskInvokeRecoveryService.recoverClaimed: what a reclaimed invocation   *)
(* does instead of a dispatch.                                             *)
(***************************************************************************)
RecoverAccepted(k) ==
    /\ At(k, "recover")
    /\ \E r \in Requests :
         /\ AcceptedRow(ledger, exec[k].logical, r)
         /\ Goto(k, [exec[k] EXCEPT !.at = "adopt", !.req = r])
    /\ UNCHANGED <<db, pass, owner, vendor, key, faults>>

RowCode(row) ==
    IF row.st = "success" THEN "INVOKE_RESULT_LOST"
    ELSE IF row.code = None THEN "VENDOR_REJECTED" ELSE row.code

\* What recovery learns of l: the outcome of its newest attempt once that is
\* settled, otherwise the preflight failure, otherwise nothing.
RecoveredCodes(l) ==
    LET settled == {r \in Requests : Newest(ledger, l, r) /\ Settled(ledger[r])}
    IN  IF settled # {} THEN {RowCode(ledger[r]) : r \in settled}
        ELSE {preflight[l]} \ {None}

RecoverSettled(k) ==
    /\ At(k, "recover") /\ ~HasAccepted(ledger, exec[k].logical)
    /\ \E c \in RecoveredCodes(exec[k].logical) : Goto(k, FailWith(exec[k], c, TRUE))
    /\ UNCHANGED <<db, pass, owner, vendor, key, faults>>

Undetermined(k) ==
    /\ At(k, "recover") /\ ~HasAccepted(ledger, exec[k].logical)
    /\ RecoveredCodes(exec[k].logical) = {}

\* Past invoke_prepared_at plus the recovery timeout.
RecoverExpired(k) ==
    /\ Undetermined(k)
    /\ Goto(k, FailWith(exec[k], "INVOKE_OUTCOME_UNKNOWN", TRUE))
    /\ UNCHANGED <<db, pass, owner, vendor, key, faults>>

RecoverDefers(k) ==
    /\ Undetermined(k)
    /\ task' = IF MayDefer(task, k) THEN DeferInvokeRecovery(task) ELSE task
    /\ Goto(k, Idle)
    /\ UNCHANGED <<ledger, preflight, pass, owner, vendor, key, faults>>

Adopt(k) ==
    /\ At(k, "adopt")
    /\ IF MaySaveExternal(task, k, exec[k].req)
       THEN task' = SaveExternalResult(task, exec[k].req) /\ Goto(k, Idle)
       ELSE Goto(k, [exec[k] EXCEPT !.at = "mismatch"]) /\ UNCHANGED task
    /\ UNCHANGED <<ledger, preflight, pass, owner, vendor, key, faults>>

\* findInternal: somebody attached the same job, or the job is compensated.
AdoptMissed(k) ==
    /\ At(k, "mismatch")
    /\ IF task.req = exec[k].req
       THEN UNCHANGED <<ledger, vendor, faults>>
       ELSE \/ Compensate(exec[k].req)
            \/ Fault /\ UNCHANGED <<ledger, vendor>>
    /\ Goto(k, Idle)
    /\ UNCHANGED <<task, preflight, pass, owner, key>>

(***************************************************************************)
(* poller.pollOne                                                          *)
(***************************************************************************)
Alive(r) == vendor[r] \in {"live", "uncancelled"}

\* The vendor is still working, or a poll threw a transient error and the
\* streak is below its limit: try again later.
PollAgain(k) ==
    /\ At(k, "poll")
    /\ task' = IF MayRelease(task, k) THEN ReleasePoll(task) ELSE task
    /\ Goto(k, Idle)
    /\ UNCHANGED <<ledger, preflight, pass, owner, vendor, key, faults>>

\* The vendor finished, but the result could not be downloaded: keep the job
\* and poll again, up to the retry limit.
PollIngestFails(k) ==
    /\ At(k, "poll") /\ (Alive(exec[k].req) \/ vendor[exec[k].req] = "done")
    /\ DecideRetry("ASSET_DOWNLOAD_FAILED", exec[k].retry)
    /\ vendor' = [vendor EXCEPT ![exec[k].req] = "done"]
    /\ task' = IF MayRelease(task, k) /\ task.req # None THEN SchedulePollRetry(task) ELSE task
    /\ Goto(k, Idle)
    /\ UNCHANGED <<ledger, preflight, pass, owner, key, faults>>

PollSucceeded(k) ==
    /\ At(k, "poll") /\ (Alive(exec[k].req) \/ vendor[exec[k].req] = "done")
    /\ ~Unsettleable(k)
    /\ vendor' = [vendor EXCEPT ![exec[k].req] = "done"]
    /\ TerminalSucceed(k)
    /\ Goto(k, Idle)
    /\ UNCHANGED <<preflight, pass, owner, key, faults>>

\* The vendor reports failure: fail for good, or settle the row and, as a
\* second statement, put the Task back in the queue.
PollFailed(k) ==
    /\ At(k, "poll") /\ vendor[exec[k].req] # "done"
    /\ \E c \in PollCodes :
         IF DecideRetry(c, exec[k].retry)
         THEN /\ ledger' = FinalizePending(ledger, exec[k].req, "error", c)
              /\ Goto(k, [exec[k] EXCEPT !.at = "reschedule"])
         ELSE Goto(k, [FailWith(exec[k], c, FALSE) EXCEPT !.answer = "failed"]) /\ UNCHANGED ledger
    /\ vendor' = IF Alive(exec[k].req) THEN [vendor EXCEPT ![exec[k].req] = "failed"] ELSE vendor
    /\ UNCHANGED <<task, preflight, pass, owner, key, faults>>

\* terminal.fail throws: the catch takes it for a transient poll error.
PollFailThrows(k) ==
    /\ At(k, "failed") /\ Caught(k)
    /\ task' = IF MayRelease(task, k) THEN ReleasePoll(task) ELSE task
    /\ Goto(k, Idle)
    /\ UNCHANGED <<ledger, preflight, pass, owner, vendor, key, faults>>

Reschedule(k) ==
    /\ At(k, "reschedule")
    /\ task' = IF HeldBy(task, k) THEN ScheduleRetry(task) ELSE task
    /\ Goto(k, Idle)
    /\ UNCHANGED <<ledger, preflight, pass, owner, vendor, key, faults>>

\* failTerminal: the running timeout, a permanent error, or the last of
\* MAX_TRANSIENT_POLL_FAILS errors in a row.
PollGivesUp(k) ==
    /\ At(k, "poll")
    /\ \E c \in {"VENDOR_TIMEOUT"} \cup PollCodes : Goto(k, FailWith(exec[k], c, FALSE))
    /\ UNCHANGED <<db, pass, owner, vendor, key, faults>>

(***************************************************************************)
(* reconcileAcceptedOrphans: list a pending row with a job and its Task,   *)
(* then act on what was seen.                                              *)
(***************************************************************************)
SetPass(i, p) == pass' = [pass EXCEPT ![i] = p]

ListOrphan(i, r) ==
    /\ pass[i].at = "idle"
    /\ AcceptedOrphan(ledger, task, r)
    /\ SetPass(i, [at |-> "listed", req |-> r, seen |-> task])
    /\ UNCHANGED <<db, exec, owner, vendor, key, faults>>

\* Working on the row as its own invocation, in an unexpired lease.
SeenUnattached(i) ==
    /\ pass[i].seen.logical = pass[i].req[1]
    /\ pass[i].seen.req = None
    /\ pass[i].seen.status \in {"queued", "running"}

\* Date.now() passes an expiry that was still ahead when the row was listed.
SeenOwner(i) == SeenUnattached(i) /\ ~LeaseFree(pass[i].seen)

\* The row is attached to its Task: nothing to do until the Task is terminal,
\* and then the Task's transaction has settled the row already.
OrphanAttached(i) ==
    /\ pass[i].at = "listed" /\ pass[i].seen.req = pass[i].req
    /\ ledger' = IF pass[i].seen.status \in Terminal
                 THEN FinalizePending(ledger, pass[i].req,
                        CASE pass[i].seen.status = "succeeded" -> "success"
                          [] pass[i].seen.status = "cancelled" -> "cancelled"
                          [] pass[i].seen.status = "failed"    -> "error", pass[i].seen.error)
                 ELSE ledger
    /\ SetPass(i, NoPass)
    /\ UNCHANGED <<task, preflight, exec, owner, vendor, key, faults>>

OrphanOwned(i) ==
    /\ pass[i].at = "listed" /\ SeenOwner(i)
    /\ SetPass(i, NoPass)
    /\ UNCHANGED <<db, exec, owner, vendor, key, faults>>

OrphanAttach(i) ==
    /\ pass[i].at = "listed" /\ SeenUnattached(i)
    /\ IF SeenOwner(i) THEN Fault ELSE NoFault
    /\ IF MayAttachRecovered(task, pass[i].req)
       THEN task' = AttachRecovered(task, pass[i].req) /\ SetPass(i, NoPass)
       ELSE UNCHANGED task /\ SetPass(i, [pass[i] EXCEPT !.at = "missed"])
    /\ UNCHANGED <<ledger, preflight, exec, owner, vendor, key>>

\* findInternal after a miss: attached meanwhile, or to be compensated.
OrphanMissed(i) ==
    /\ pass[i].at = "missed"
    /\ SetPass(i, IF task.req = pass[i].req THEN NoPass ELSE [pass[i] EXCEPT !.at = "compensate"])
    /\ UNCHANGED <<db, exec, owner, vendor, key, faults>>

OrphanForeign(i) ==
    /\ pass[i].at = "listed"
    /\ pass[i].seen.req # pass[i].req /\ ~SeenUnattached(i)
    /\ SetPass(i, [pass[i] EXCEPT !.at = "compensate"])
    /\ UNCHANGED <<db, exec, owner, vendor, key, faults>>

OrphanCompensate(i) ==
    /\ pass[i].at = "compensate"
    /\ Compensate(pass[i].req)
    /\ SetPass(i, NoPass)
    /\ UNCHANGED <<task, preflight, exec, owner, key>>

\* The cancel call throws: the row stays for a later pass.
OrphanCompensateFails(i) ==
    /\ pass[i].at = "compensate" /\ Fault
    /\ SetPass(i, NoPass)
    /\ UNCHANGED <<db, exec, owner, vendor, key>>

(***************************************************************************)
(* The sweepers.  Listing and settling are one step: what makes a row a    *)
(* candidate stays true while it is pending without a job, and the update  *)
(* checks both again.                                                      *)
(***************************************************************************)
Abandon(r) ==
    /\ Abandoned(ledger, task, r)
    /\ ledger' = FinalizePending(ledger, r, "timeout", None)
    /\ UNCHANGED <<task, preflight, exec, pass, owner, vendor, key, faults>>

SweepDetached(r) ==
    /\ Detached(ledger, task, r)
    /\ ledger' = FinalizePending(ledger, r, DetachedStatus(task), None)
    /\ UNCHANGED <<task, preflight, exec, pass, owner, vendor, key, faults>>

(***************************************************************************)
(* The owner.                                                              *)
(***************************************************************************)
\* cancelByOwner: one transaction; it throws when the attached row is settled.
Cancel ==
    /\ task.status \notin Terminal /\ MaySettle(task)
    /\ task' = Finish(task, "cancelled", None)
    /\ SettleAttached(task, "cancelled", None)
    /\ CancelAttached(task)
    /\ UNCHANGED <<preflight, exec, pass, owner, key>>

\* TaskRetryService.retry reads the Task and its unresolved attempts ...
RetryCheck ==
    /\ owner = "idle" /\ task.retry < MaxRetry
    /\ MayUserRetry(task)
    /\ task.logical # None => ~HasUnresolvedInvoke(ledger, task.logical)
    /\ owner' = "checked"
    /\ UNCHANGED <<db, exec, pass, vendor, key, faults>>

\* ... and updates the row later, on its status alone.
RetryUpdate ==
    /\ owner = "checked"
    /\ task' = IF MayUserRetry(task) THEN UserRetry(task) ELSE task
    /\ owner' = "idle"
    /\ UNCHANGED <<ledger, preflight, exec, pass, vendor, key, faults>>

(***************************************************************************)
(* Leases and crashes.                                                     *)
(***************************************************************************)
Dead(k) == At(k, "idle")

\* The heartbeat of a working execution; it revives an expired lease that
\* nobody has taken over.
Heartbeat(k) ==
    /\ ~Dead(k) /\ HeldBy(task, k) /\ ~task.live
    /\ task' = RenewLease(task)
    /\ UNCHANGED <<ledger, preflight, exec, pass, owner, vendor, key, faults>>

\* The lease of a dead execution runs out ...
LeaseExpires ==
    /\ task.live /\ task.lease # None /\ Dead(task.lease)
    /\ task' = [task EXCEPT !.live = FALSE]
    /\ UNCHANGED <<ledger, preflight, exec, pass, owner, vendor, key, faults>>

\* ... that of a working one only when its process stalls.
Stall ==
    /\ task.live /\ task.lease # None /\ ~Dead(task.lease) /\ Fault
    /\ task' = [task EXCEPT !.live = FALSE]
    /\ UNCHANGED <<ledger, preflight, exec, pass, owner, vendor, key>>

\* An execution dies between two steps: process restart, or an error in its
\* own error handling, which the runner only logs.
Crash(k) ==
    /\ ~Dead(k) /\ Fault
    /\ Goto(k, Idle)
    /\ UNCHANGED <<db, pass, owner, vendor, key>>

CrashPass(i) ==
    /\ pass[i].at # "idle" /\ Fault
    /\ SetPass(i, NoPass)
    /\ UNCHANGED <<db, exec, owner, vendor, key>>

(***************************************************************************)
(* The specification.                                                      *)
(***************************************************************************)
Claim(k) == ClaimInvoke(k) \/ ClaimPoll(k)

Invoke(k) ==
    \/ Start(k) \/ Prepare(k) \/ PrepareMisses(k)
    \/ Preflight(k) \/ PreflightFails(k)
    \/ BeginAttempt(k) \/ BeginFails(k) \/ Dispatch(k) \/ DispatchUnknown(k)
    \/ LogRejected(k) \/ LogRunning(k) \/ LogIncomplete(k) \/ LogSuccess(k)
    \/ LogFailed(k) \/ LogIngestFailure(k) \/ LogFails(k)
    \/ SaveExternal(k) \/ SaveExternalThrows(k) \/ Discard(k)
    \/ HandleFailed(k) \/ Succeed(k) \/ SucceedThrows(k)

Recover(k) ==
    \/ RecoverAccepted(k) \/ RecoverSettled(k) \/ RecoverExpired(k) \/ RecoverDefers(k)
    \/ Adopt(k) \/ AdoptMissed(k)

Poll(k) ==
    \/ PollAgain(k) \/ PollIngestFails(k) \/ PollSucceeded(k) \/ PollFailed(k)
    \/ PollFailThrows(k) \/ Reschedule(k) \/ PollGivesUp(k)

Work(k) == Invoke(k) \/ Recover(k) \/ Poll(k)

ActOnOrphan(i) ==
    \/ OrphanAttached(i) \/ OrphanOwned(i) \/ OrphanAttach(i) \/ OrphanMissed(i)
    \/ OrphanForeign(i) \/ OrphanCompensate(i) \/ OrphanCompensateFails(i)

Sweep(r) == Abandon(r) \/ SweepDetached(r)

Owner == Cancel \/ RetryCheck \/ RetryUpdate

Next ==
    \/ \E k \in Tokens : Claim(k) \/ Work(k) \/ Heartbeat(k) \/ Crash(k)
    \/ \E i \in Instances : ActOnOrphan(i) \/ CrashPass(i) \/ \E r \in Requests : ListOrphan(i, r)
    \/ \E r \in Requests : Sweep(r)
    \/ Owner \/ LeaseExpires \/ Stall

Spec == Init /\ [][Next]_vars

(***************************************************************************)
(* Fairness.  Timers start the claims, the passes and the sweeps again and *)
(* again; every statement and vendor call of an execution returns, with a  *)
(* result or an error.  A pass lists every orphan row, so a row that keeps *)
(* being an orphan is acted on; and a recovery that is deferred again and  *)
(* again finds its deadline passed.  Nothing makes the vendor finish a job *)
(* or the owner act, and faults are finitely many.                         *)
(***************************************************************************)
Fairness ==
    /\ WF_vars(\E k \in Tokens : Claim(k))
    /\ \A k \in Tokens : WF_vars(Work(k))
    /\ SF_vars(\E k \in Tokens : RecoverExpired(k))
    /\ WF_vars(LeaseExpires)
    /\ \A i \in Instances :
         /\ WF_vars(ActOnOrphan(i))
         /\ \A r \in Requests : SF_vars(ListOrphan(i, r))
    /\ \A r \in Requests : WF_vars(Sweep(r))

FairSpec == Spec /\ Fairness

-----------------------------------------------------------------------------
(***************************************************************************)
(* Safety.                                                                 *)
(***************************************************************************)

\* The vendor accepts at most one of the physical attempts of a logical
\* invocation, whatever fails over, stalls, crashes or is reclaimed: InvokeService
\* goes on only after a definite rejection, and a reclaimed invocation is
\* recovered, never dispatched.
AtMostOncePerInvocation ==
    \A r, q \in Requests :
        r[1] = q[1] /\ vendor[r] \in Accepted /\ vendor[q] \in Accepted => r = q

\* Nothing reaches the vendor without a ledger row: begin precedes the call.
LedgerBeforeDispatch ==
    \A r \in Requests : vendor[r] # "none" => ledger[r].st # "absent"

\* Two invocations never carry the same idempotency key, so a vendor that
\* deduplicates by key never answers a retry with the attempt it replaces,
\* although an attempt reclaimed before it was prepared keeps its number.
KeysDistinct ==
    \A l, m \in Logicals : key[l] # 0 /\ key[l] = key[m] => l = m

\* A Task that ended with an attached job has settled the job's ledger row in
\* the same way: the terminal transaction writes both or neither.
TerminalSettlesLedger ==
    task.status \in Terminal /\ task.req # None =>
        ledger[task.req].st \in
            CASE task.status = "succeeded" -> {"success"}
              [] task.status = "cancelled" -> {"cancelled"}
              [] task.status = "failed"    -> {"error", "timeout"}

\* A Task succeeds only with a result of its current invocation that the
\* vendor completed and the ledger settled as a success: a late result of an
\* execution that lost its lease never lands on the Task.
SuccessHasResult ==
    task.status = "succeeded" =>
        \E r \in Requests :
            r[1] = task.logical /\ vendor[r] = "done" /\ ledger[r].st = "success"

\* A vendor job whose id reached the ledger is not forgotten: while it runs,
\* its row is pending and the recovery will find it; the row is settled only
\* after the job ended or a cancel was tried.
RecordedJobsAccountedFor ==
    \A r \in Requests : ledger[r].ext /\ Settled(ledger[r]) => vendor[r] # "live"

(***************************************************************************)
(* Steps.                                                                  *)
(***************************************************************************)

\* Under a live lease only the execution that holds it changes the row, apart
\* from the owner's cancel and the expiry itself.
LeaseFences ==
    [][/\ task.lease # None /\ task.live
       /\ task' # task /\ task' # [task EXCEPT !.live = FALSE]
       => \/ exec'[task.lease] # exec[task.lease]
          \/ task'.status = "cancelled"]_vars

\* A settled ledger row never changes again, and the job recorded in a row
\* stays recorded: the executor, the poller, the passes and the sweepers race
\* to settle it, and exactly one of them does.
SettledOnce ==
    [][\A r \in Requests :
         /\ Settled(ledger[r]) => ledger'[r] = ledger[r]
         /\ ledger[r].ext => ledger'[r].ext]_vars

(***************************************************************************)
(* The Task, its invocation and the vendor's part in it, as TaskMachine    *)
(* sees them.                                                              *)
(***************************************************************************)
Taken(l) == {r \in Requests : r[1] = l /\ vendor[r] \in Accepted}

Machine == INSTANCE TaskMachine WITH
    Runs <- Logicals,
    NoRun <- None,
    status <- task.status,
    run <- task.logical,
    outcome <- [l \in Logicals |->
                  IF key[l] = 0 THEN "unopened"
                  ELSE IF Taken(l) = {} THEN "open"
                  ELSE IF \E r \in Taken(l) : vendor[r] \in {"failed", "cancelled"}
                  THEN "ended" ELSE "taken"]

\* The leases, ledger and recovery together implement the declared state
\* machine with at-most-once invocations.
ImplementsTaskMachine == Machine!Spec

(***************************************************************************)
(* Liveness, under FairSpec.                                               *)
(***************************************************************************)

\* A job the ledger knows is attached to the Task or its row is settled, even
\* when the process dies between the two writes and however the passes and
\* the reclaiming execution interleave.
OrphansResolved ==
    \A r \in Requests :
        (ledger[r].st = "pending" /\ ledger[r].ext)
            ~> (ledger[r].st # "pending" \/ task.req = r)

\* No crash leaves an opened invocation undecided: the Task gets its job
\* attached, is put back in the queue without it, or ends.
InvocationsDecided ==
    \A l \in Logicals :
        (task.logical = l) ~> (task.logical # l \/ task.req # None \/ task.status \in Terminal)

(***************************************************************************)
(* What documentation and comments promise and the code does not keep.     *)
(***************************************************************************)

\* request-log.service.ts: the pending row lets a polling terminal transition
\* always reconcile.  The row attached to a Task that waits for its next poll
\* is pending.
PollCanReconcile ==
    task.status = "running" /\ task.req # None /\ task.lease = None
        => ledger[task.req].st = "pending"

\* task-invoke-recovery.service.ts: a reclaimed logical invocation is never
\* sent to the vendor a second time.  While another execution holds the
\* invocation, nobody sends one more of its attempts.
ReclaimedNeverSentAgain ==
    [][\A r, q \in Requests :
         /\ r[1] = q[1] /\ vendor[q] # "none"
         /\ vendor[r] = "none" /\ vendor'[r] # "none"
         /\ task.logical = r[1] /\ task.lease # None
         => exec[task.lease].req = r]_vars

\* docs/task-lifecycle.md: after the abandon window an unresolved attempt no
\* longer blocks the owner's retry.
UnresolvedAttemptsAbandoned ==
    \A r \in Requests :
        (/\ ledger[r].st = "pending" /\ ~ledger[r].ext
         /\ task.status = "failed" /\ task.logical = r[1])
            ~> (ledger[r].st # "pending" \/ task.status # "failed" \/ ledger[r].ext)
============================================================================
