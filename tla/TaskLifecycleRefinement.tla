---------------------- MODULE TaskLifecycleRefinement ----------------------
(***************************************************************************)
(* TaskLifecycle implements TaskMachine when an invocation has one         *)
(* candidate.  (With a second one, an invocation that failed over may be   *)
(* retried while the vendor of the second works on it: ReclaimedNeverSent- *)
(* Again and its counterexample.)  RetrySound is the invariant an          *)
(* automatic retry rests on; the rest maps steps to steps.                 *)
(***************************************************************************)
EXTENDS TaskLifecycleResults

\* What TaskMachine sees of the invocations.
Outcome ==
    [l \in Logicals |->
        IF key[l] = 0 THEN "unopened"
        ELSE IF Taken(l) = {} THEN "open"
        ELSE IF \E r \in Taken(l) : vendor[r] \in {"failed", "cancelled"}
        THEN "ended" ELSE "taken"]

\* At most one invocation that the vendor has taken ends.
OutcomeMoves ==
    \/ UNCHANGED Outcome
    \/ \E l \in Logicals : Outcome[l] = "taken" /\ Outcome' = [Outcome EXCEPT ![l] = "ended"]

\* The row moves along the table of the state machine, its invocation stays.
StatusMoves ==
    /\ task'.status \in Machine!Allowed[task.status] \cup {task.status}
    /\ task'.status = "succeeded" /\ task.status # "succeeded"
          => task.logical # None /\ Outcome[task.logical] = "taken"
    /\ task.status \in {"failed", "cancelled"} => task'.status = task.status
    /\ task'.logical = task.logical

LEMMA MoveMaps ==
    ASSUME StatusMoves, OutcomeMoves
    PROVE  Machine!Next
<1>1. Machine!SomeTakenMayEnd
  BY DEF OutcomeMoves, Outcome, Machine!SomeTakenMayEnd, Machine!MayEnd
<1>2. Machine!Move
  BY <1>1 DEF StatusMoves, Outcome, Machine!Move
<1>3. QED  BY <1>2 DEF Machine!Next

LEMMA OpenMaps ==
    ASSUME NEW l \in Logicals, task.status = "running", task.logical = None,
           Outcome[l] = "unopened", Outcome' = [Outcome EXCEPT ![l] = "open"],
           task'.status = task.status, task'.logical = l
    PROVE  Machine!Next
<1>1. Machine!Open(l)
  BY DEF Outcome, Machine!Open
<1>2. QED  BY <1>1 DEF Machine!Next

LEMMA TakeMaps ==
    ASSUME NEW l \in Logicals, Outcome[l] = "open",
           Outcome' \in {[Outcome EXCEPT ![l] = "taken"], [Outcome EXCEPT ![l] = "ended"]},
           task'.status = task.status, task'.logical = task.logical
    PROVE  Machine!Next
<1>1. Machine!Take(l)
  BY DEF Outcome, Machine!Take
<1>2. QED  BY <1>1 DEF Machine!Next

LEMMA RetryMaps ==
    ASSUME task.status = "running", task.logical # None, Outcome[task.logical] # "taken",
           task'.status = "queued", task'.logical = None, UNCHANGED Outcome
    PROVE  Machine!Next
<1>1. Machine!Retry
  BY DEF Outcome, Machine!Retry
<1>2. QED  BY <1>1 DEF Machine!Next

LEMMA OwnerRetryMaps ==
    ASSUME task.status \in {"failed", "cancelled"}, UNCHANGED Outcome,
           task'.status = "queued", task'.logical = None
    PROVE  Machine!Next
<1>1. Machine!OwnerRetry
  BY DEF Outcome, Machine!OwnerRetry
<1>2. QED  BY <1>1 DEF Machine!Next

LEMMA StutterMaps ==
    ASSUME task'.status = task.status, task'.logical = task.logical, UNCHANGED Outcome
    PROVE  UNCHANGED Machine!vars
BY DEF Outcome, Machine!vars

(***************************************************************************)
(* The vendor's part of a step.                                            *)
(***************************************************************************)
OneCandidate == MaxFailover = 1

LEMMA OneRow ==
    ASSUME OneCandidate
    PROVE  /\ \A r, q \in Requests : r[1] = q[1] => r = q
           /\ \A r \in Requests : r[2] = 1
BY DEF OneCandidate, Requests, Attempts

\* One job that the vendor works on moves.
JobMoves ==
    \E r \in Requests :
        /\ vendor[r] \in Promising
        /\ \E s \in Accepted : vendor' = [vendor EXCEPT ![r] = s]

VendorMoves == UNCHANGED vendor \/ JobMoves

LEMMA JobMovesTo ==
    ASSUME NEW r \in Requests, vendor[r] \in Promising, NEW s \in Accepted,
           vendor' = [vendor EXCEPT ![r] = s]
    PROVE  VendorMoves
BY DEF VendorMoves, JobMoves

LEMMA CancelMoves ==
    ASSUME NEW r \in Requests, CancelJob(r) \/ CancelTried(r) \/ Compensate(r)
    PROVE  VendorMoves
<1>1. CASE vendor[r] # "live"
  BY <1>1 DEF CancelJob, CancelTried, Compensate, VendorMoves
<1>2. CASE vendor[r] = "live"
  <2>1. \E s \in Accepted : vendor' = [vendor EXCEPT ![r] = s]
    BY <1>2 DEF CancelJob, CancelTried, Compensate, Accepted
  <2>2. vendor[r] \in Promising
    BY <1>2 DEF Promising
  <2>3. QED  BY <2>1, <2>2 DEF VendorMoves, JobMoves
<1>3. QED  BY <1>1, <1>2

LEMMA CancelAttachedMoves ==
    ASSUME Shape, CancelAttached(task)
    PROVE  VendorMoves
<1>1. task.req \in Requests \cup {None}
  BY DEF Shape, TypeOK, TaskType
<1>2. QED  BY <1>1, CancelMoves DEF CancelAttached, VendorMoves

LEMMA PollMoves ==
    ASSUME Shape, NEW k \in Tokens,
           PollIngestFails(k) \/ PollSucceeded(k) \/ PollFailed(k)
    PROVE  VendorMoves
<1>1. exec[k].req \in Requests
  BY WorksOn DEF PollIngestFails, PollSucceeded, PollFailed, At
<1>2. CASE PollIngestFails(k) \/ PollSucceeded(k)
  <2>1. /\ vendor[exec[k].req] \in Promising
        /\ vendor' = [vendor EXCEPT ![exec[k].req] = "done"]
    BY <1>2 DEF PollIngestFails, PollSucceeded, Alive, Promising
  <2>2. QED  BY <1>1, <2>1, JobMovesTo DEF Accepted
<1>3. CASE PollFailed(k) /\ Alive(exec[k].req)
  <2>1. /\ vendor[exec[k].req] \in Promising
        /\ vendor' = [vendor EXCEPT ![exec[k].req] = "failed"]
    BY <1>3 DEF PollFailed, Alive, Promising
  <2>2. QED  BY <1>1, <2>1, JobMovesTo DEF Accepted
<1>4. CASE PollFailed(k) /\ ~Alive(exec[k].req)
  BY <1>4 DEF PollFailed, VendorMoves
<1>5. QED  BY <1>2, <1>3, <1>4

LEMMA InvokeMoves ==
    ASSUME Shape, NEW k \in Tokens, Invoke(k), ~Dispatch(k), ~DispatchUnknown(k)
    PROVE  VendorMoves
<1>1. CASE LogFails(k) \/ SaveExternalThrows(k) \/ Discard(k)
  <2>1. exec[k].req \in Requests
    BY <1>1, WorksOn DEF LogFails, SaveExternalThrows, Discard, At, JobSteps
  <2>2. QED
    BY <1>1, <2>1, CancelMoves DEF LogFails, SaveExternalThrows, Discard, VendorMoves
<1>2. CASE HandleFailed(k)
  BY <1>2, CancelAttachedMoves DEF HandleFailed, TerminalFail, VendorMoves
<1>3. CASE \/ Start(k) \/ Prepare(k) \/ PrepareMisses(k) \/ Preflight(k) \/ PreflightFails(k)
           \/ BeginAttempt(k) \/ BeginFails(k)
  BY <1>3 DEF Start, Prepare, PrepareMisses, Preflight, PreflightFails, BeginAttempt,
              BeginFails, VendorMoves
<1>4. CASE \/ LogRejected(k) \/ LogRunning(k) \/ LogIncomplete(k) \/ LogSuccess(k)
           \/ LogFailed(k) \/ LogIngestFailure(k)
  BY <1>4 DEF LogRejected, LogRunning, LogIncomplete, LogSuccess, LogFailed,
              LogIngestFailure, VendorMoves
<1>5. CASE SaveExternal(k) \/ Succeed(k) \/ SucceedThrows(k)
  BY <1>5 DEF SaveExternal, Succeed, SucceedThrows, VendorMoves
<1>6. QED  BY <1>1, <1>2, <1>3, <1>4, <1>5 DEF Invoke

LEMMA LaterMoves ==
    ASSUME Shape, NEW k \in Tokens, Recover(k) \/ Poll(k) \/ Heartbeat(k) \/ Crash(k)
    PROVE  VendorMoves
<1>1. CASE AdoptMissed(k)
  <2>1. exec[k].req \in Requests
    BY <1>1, WorksOn DEF AdoptMissed, At, JobSteps
  <2>2. QED  BY <1>1, <2>1, CancelMoves DEF AdoptMissed, VendorMoves
<1>2. CASE PollIngestFails(k) \/ PollSucceeded(k) \/ PollFailed(k)
  BY <1>2, PollMoves
<1>3. CASE \/ RecoverAccepted(k) \/ RecoverSettled(k) \/ RecoverExpired(k)
           \/ RecoverDefers(k) \/ Adopt(k) \/ Heartbeat(k) \/ Crash(k)
  BY <1>3 DEF RecoverAccepted, RecoverSettled, RecoverExpired, RecoverDefers, Adopt,
              Heartbeat, Crash, VendorMoves
<1>4. CASE PollAgain(k) \/ PollFailThrows(k) \/ Reschedule(k) \/ PollGivesUp(k)
  BY <1>4 DEF PollAgain, PollFailThrows, Reschedule, PollGivesUp, VendorMoves
<1>5. QED  BY <1>1, <1>2, <1>3, <1>4 DEF Recover, Poll

LEMMA PassMoves ==
    ASSUME Shape, NEW i \in Instances,
           ActOnOrphan(i) \/ CrashPass(i) \/ \E r \in Requests : ListOrphan(i, r)
    PROVE  VendorMoves
<1>1. CASE OrphanCompensate(i)
  <2>1. pass[i].req \in Requests
    BY <1>1 DEF OrphanCompensate, Shape, PassShape
  <2>2. QED  BY <1>1, <2>1, CancelMoves DEF OrphanCompensate
<1>2. CASE \/ OrphanAttached(i) \/ OrphanOwned(i) \/ OrphanAttach(i) \/ OrphanMissed(i)
           \/ OrphanForeign(i) \/ OrphanCompensateFails(i)
           \/ CrashPass(i) \/ \E r \in Requests : ListOrphan(i, r)
  BY <1>2 DEF OrphanAttached, OrphanOwned, OrphanAttach, OrphanMissed, OrphanForeign,
              OrphanCompensateFails, CrashPass, ListOrphan, VendorMoves
<1>3. QED  BY <1>1, <1>2 DEF ActOnOrphan

LEMMA VendorNext ==
    ASSUME Shape, [Next]_vars, \A k \in Tokens : ~Dispatch(k) /\ ~DispatchUnknown(k)
    PROVE  VendorMoves
<1>1. ASSUME NEW k \in Tokens, Claim(k) \/ Work(k) \/ Heartbeat(k) \/ Crash(k)
      PROVE  VendorMoves
  BY <1>1, InvokeMoves, LaterMoves DEF Claim, ClaimInvoke, ClaimPoll, Work, VendorMoves
<1>2. ASSUME NEW r \in Requests, Sweep(r) PROVE VendorMoves
  BY <1>2 DEF Sweep, Abandon, SweepDetached, VendorMoves
<1>3. CASE Owner
  BY <1>3, CancelAttachedMoves DEF Owner, Cancel, RetryCheck, RetryUpdate, VendorMoves
<1>4. CASE LeaseExpires \/ Stall \/ UNCHANGED vars
  BY <1>4 DEF LeaseExpires, Stall, vars, VendorMoves
<1>5. QED  BY <1>1, <1>2, <1>3, <1>4, PassMoves DEF Next

LEMMA MovesKeep ==
    ASSUME Shape, VendorMoves, NEW r \in Requests
    PROVE  /\ vendor'[r] \in Promising => vendor[r] \in Promising
           /\ vendor[r] = "failed" => vendor'[r] = "failed"
           /\ vendor[r] \in Accepted <=> vendor'[r] \in Accepted
BY DEF VendorMoves, JobMoves, Promising, Accepted, Shape, TypeOK

\* A dispatch is heard of in its own row only.
LEMMA HeardOf ==
    ASSUME Core, NEW k \in Tokens, Dispatch(k) \/ DispatchUnknown(k)
    PROVE  /\ exec[k].at = "dispatch" /\ exec[k].req \in Requests
           /\ exec[k].req[1] = exec[k].logical /\ exec[k].logical \in Logicals
           /\ vendor[exec[k].req] \notin Accepted
           /\ \A r \in Requests \ {exec[k].req} : vendor'[r] = vendor[r]
<1>1. exec[k].at = "dispatch"
  BY DEF Dispatch, DispatchUnknown, At
<1>2. Dispatching(k)
  BY <1>1 DEF Dispatching, DispatchSteps
<1>3. QED
  BY <1>1, <1>2, Loop DEF Dispatch, DispatchUnknown, Untaken

(***************************************************************************)
(* Hopeless invocations stay hopeless.                                     *)
(***************************************************************************)
\* The steps that are not quiet.
Loud(k) ==
    \/ Claim(k) \/ Start(k) \/ Prepare(k) \/ Preflight(k) \/ BeginAttempt(k)
    \/ BeginFails(k) \/ Dispatch(k) \/ DispatchUnknown(k) \/ LogRejected(k)

LEMMA QuietOrLoud ==
    ASSUME Core, [Next]_vars
    PROVE  Quiet \/ \E k \in Tokens : Loud(k)
<1>1. Shape /\ RowShape
  BY DEF Core
<1>2. ASSUME NEW k \in Tokens, Claim(k) \/ Work(k) \/ Heartbeat(k) \/ Crash(k)
      PROVE  Quiet \/ Loud(k)
  <2>1. CASE Claim(k)
    BY <2>1 DEF Loud
  <2>2. CASE Invoke(k)
    BY <1>1, <2>2, InvokeQuiet DEF Invoke, Loud
  <2>3. CASE Recover(k) \/ Poll(k) \/ Heartbeat(k) \/ Crash(k)
    BY <1>1, <2>3, LaterQuiet
  <2>4. QED  BY <1>2, <2>1, <2>2, <2>3 DEF Work
<1>3. ASSUME NEW i \in Instances,
             ActOnOrphan(i) \/ CrashPass(i) \/ \E r \in Requests : ListOrphan(i, r)
      PROVE  Quiet
  BY <1>1, <1>3, PassQuiet, ListOrphanQuiet
<1>4. ASSUME NEW r \in Requests, Sweep(r) PROVE Quiet
  BY <1>1, <1>4, AbandonQuiet, SweepDetachedQuiet DEF Sweep
<1>5. CASE Owner \/ LeaseExpires \/ Stall \/ UNCHANGED vars
  BY <1>1, <1>5, CancelQuiet, RetryCheckQuiet, RetryUpdateQuiet, LeaseExpiresQuiet,
     StallQuiet, StutterQuiet DEF Owner
<1>6. QED  BY <1>2, <1>3, <1>4, <1>5 DEF Next

LEMMA KeyFrame ==
    ASSUME Core, [Next]_vars, \A k \in Tokens : ~Prepare(k)
    PROVE  UNCHANGED key
<1>1. CASE Quiet
  BY <1>1 DEF Quiet, Still
<1>2. ASSUME NEW k \in Tokens, Loud(k) PROVE UNCHANGED key
  BY <1>2 DEF Loud, Claim, ClaimInvoke, ClaimPoll, Start, Preflight, BeginAttempt,
              BeginFails, Dispatch, DispatchUnknown, LogRejected
<1>3. QED  BY <1>1, <1>2, QuietOrLoud

\* An invocation that is opened has been drawn by Prepare.
LEMMA KeyNext ==
    ASSUME Core, [Next]_vars, NEW l \in Logicals, key[l] # 0
    PROVE  key'[l] # 0
<1>1. CASE UNCHANGED key
  BY <1>1
<1>2. ASSUME NEW k \in Tokens, Prepare(k) PROVE key'[l] # 0
  <2>1. PICK m \in Logicals :
          MayPrepare(task, k, m) /\ key' = [key EXCEPT ![m] = task.attempt]
    BY <1>2 DEF Prepare
  <2>2. task.attempt # 0
    BY <2>1, NoneAssumption DEF MayPrepare, Core, RowShape
  <2>3. QED  BY <2>1, <2>2 DEF Core, Shape, TypeOK
<1>3. QED  BY <1>1, <1>2, KeyFrame

\* Executions on their way to the vendor were on it before, or just opened
\* their invocation.
OutwardKept ==
    \A k \in Tokens : exec'[k].at \in OutwardSteps =>
        \/ exec[k].at \in OutwardSteps /\ exec'[k].logical = exec[k].logical
        \/ key[exec'[k].logical] = 0

LEMMA QuietOutward ==
    ASSUME ExecQuiet
    PROVE  OutwardKept
BY DEF ExecQuiet, OutwardKept, OutwardSteps, DispatchSteps

\* One execution goes to another step of its invocation.
LEMMA OneOutward ==
    ASSUME Shape, NEW k \in Tokens, \A j \in Tokens \ {k} : exec'[j] = exec[j],
           \/ exec'[k].at \notin OutwardSteps
           \/ exec[k].at \in OutwardSteps /\ exec'[k].logical = exec[k].logical
           \/ key[exec'[k].logical] = 0
    PROVE  OutwardKept
BY DEF OutwardKept

LEMMA GotoAlone ==
    ASSUME Shape, NEW k \in Tokens, NEW e, Goto(k, e)
    PROVE  exec'[k] = e /\ \A j \in Tokens \ {k} : exec'[j] = exec[j]
BY DEF Goto, Shape, TypeOK

LEMMA PrepareGoes ==
    ASSUME Core, NEW k \in Tokens, Prepare(k)
    PROVE  \E l \in Logicals :
             /\ task' = [task EXCEPT !.logical = l] /\ key' = [key EXCEPT ![l] = task.attempt]
             /\ task.lease = k /\ task.status = "running" /\ task.req = None
             /\ task.attempt # 0
             /\ exec'[k].logical = l
             /\ \/ /\ exec'[k].at = "preflight" /\ key[l] = 0 /\ task.logical = None
                \/ /\ exec'[k].at = "recover" /\ task.logical = l /\ key[l] = task.attempt
             /\ \A j \in Tokens \ {k} : exec'[j] = exec[j]
<1>1. PICK l \in Logicals :
        /\ IF exec[k].logical = None THEN FreshLogical(l) ELSE l = exec[k].logical
        /\ MayPrepare(task, k, l)
        /\ task' = PrepareInvokeAttempt(task, l)
        /\ key' = [key EXCEPT ![l] = task.attempt]
        /\ Goto(k, [exec[k] EXCEPT !.logical = l, !.at = AfterPrepare(exec[k].logical)])
  BY DEF Prepare
<1>2. exec[k] \in ExecType /\ exec[k].at = "prepare"
  BY Here DEF Core, Prepare, At
<1>3. /\ exec'[k].logical = l /\ exec'[k].at = AfterPrepare(exec[k].logical)
      /\ \A j \in Tokens \ {k} : exec'[j] = exec[j]
  <2>1. exec'[k] = [exec[k] EXCEPT !.logical = l, !.at = AfterPrepare(exec[k].logical)]
        /\ \A j \in Tokens \ {k} : exec'[j] = exec[j]
    BY <1>1, GotoAlone DEF Core
  <2>2. QED  BY <1>2, <2>1 DEF ExecType
<1>4. task.lease = k /\ task.status = "running" /\ task.req = None /\ task.attempt # 0
  BY <1>1, NoneAssumption DEF MayPrepare, Core, RowShape
<1>5. task.logical = exec[k].logical
  BY <1>2, <1>4 DEF Core, StartedOnRow
<1>6. CASE exec[k].logical = None
  BY <1>1, <1>3, <1>4, <1>5, <1>6 DEF AfterPrepare, FreshLogical, PrepareInvokeAttempt
<1>7. CASE exec[k].logical # None
  <2>1. task.logical = l
    BY <1>1, <1>5, <1>7
  <2>2. key[l] = task.attempt
    BY <2>1, NoneAssumption DEF Core, KeysBelowAttempt
  <2>3. QED
    BY <1>1, <1>3, <1>4, <1>7, <2>1, <2>2 DEF AfterPrepare, PrepareInvokeAttempt
<1>8. QED  BY <1>6, <1>7

\* With one candidate a rejection ends the loop.
LEMMA RejectedEnds ==
    ASSUME OneCandidate, Core, NEW k \in Tokens, LogRejected(k)
    PROVE  Goto(k, FailWith(exec[k], exec[k].code, TRUE))
<1>1. exec[k].req \in Requests
  BY WorksOn DEF LogRejected, At, JobSteps, Core
<1>2. ~(exec[k].req[2] < MaxFailover)
  BY <1>1, OneRow DEF OneCandidate
<1>3. QED  BY <1>2 DEF LogRejected

LEMMA LoudOutward ==
    ASSUME OneCandidate, Core, NEW k \in Tokens, Loud(k)
    PROVE  OutwardKept
<1>1. Shape /\ exec[k] \in ExecType
  BY Here DEF Core
<1> USE DEF OutwardSteps
<1>2. CASE Claim(k)
  <2>1. CASE ClaimInvoke(k)
    BY <1>1, <2>1, GotoAlone, OneOutward DEF ClaimInvoke, Idle
  <2>2. CASE ClaimPoll(k)
    <3>1. exec'[k] = [Idle EXCEPT !.at = "poll", !.req = task.req, !.retry = task.retry]
          /\ \A j \in Tokens \ {k} : exec'[j] = exec[j]
      BY <1>1, <2>2, GotoAlone DEF ClaimPoll
    <3>2. exec'[k].at = "poll"
      BY <3>1 DEF Idle
    <3>3. QED  BY <1>1, <3>1, <3>2, OneOutward
  <2>3. QED  BY <1>2, <2>1, <2>2 DEF Claim
<1>3. CASE Start(k)
  <2>1. CASE MayStart(task, k)
    <3>1. exec'[k] = [exec[k] EXCEPT !.at = "prepare", !.logical = task.logical,
                                     !.retry = task.retry]
          /\ \A j \in Tokens \ {k} : exec'[j] = exec[j]
      BY <1>1, <1>3, <2>1, GotoAlone DEF Start
    <3>2. exec'[k].at = "prepare"
      BY <1>1, <3>1 DEF ExecType
    <3>3. QED  BY <1>1, <3>1, <3>2, OneOutward
  <2>2. CASE ~MayStart(task, k)
    BY <1>1, <1>3, <2>2, IdleQuiet, QuietOutward DEF Start
  <2>3. QED  BY <2>1, <2>2
<1>4. CASE Prepare(k)
  BY <1>1, <1>4, PrepareGoes, OneOutward
<1>5. CASE Preflight(k)
  BY <1>1, <1>5, OneOutward DEF Preflight, At, Goto, ExecType, Shape, TypeOK
<1>6. CASE BeginAttempt(k)
  BY <1>1, <1>6, OneOutward DEF BeginAttempt, At, Goto, ExecType, Shape, TypeOK
<1>7. CASE BeginFails(k) \/ DispatchUnknown(k) \/ LogRejected(k)
  BY <1>1, <1>7, FailQuiet, QuietOutward, RejectedEnds DEF BeginFails, DispatchUnknown
<1>8. CASE Dispatch(k)
  <2>1. exec'[k].at = "log" /\ \A j \in Tokens \ {k} : exec'[j] = exec[j]
    BY <1>1, <1>8 DEF Dispatch, Goto, ExecType, Shape, TypeOK
  <2>2. QED  BY <1>1, <2>1, OneOutward
<1>9. QED
  BY <1>2, <1>3, <1>4, <1>5, <1>6, <1>7, <1>8 DEF Loud

LEMMA OutwardNext ==
    ASSUME OneCandidate, Core, [Next]_vars
    PROVE  OutwardKept
BY QuietOrLoud, LoudOutward, QuietOutward DEF Quiet, Still

LEMMA HopelessStays ==
    ASSUME OneCandidate, Core, [Next]_vars, NEW l \in Logicals, Hopeless(l)
    PROVE  Hopeless(l)'
<1>1. key[l] # 0 /\ key'[l] # 0
  BY KeyNext DEF Hopeless
<1>2. ASSUME NEW r \in Requests, r[1] = l PROVE vendor'[r] \notin Promising
  <2>1. vendor[r] \notin Promising
    BY <1>2 DEF Hopeless
  <2>2. CASE VendorMoves
    BY <2>1, <2>2, MovesKeep DEF Core
  <2>3. ASSUME NEW k \in Tokens, Dispatch(k) \/ DispatchUnknown(k)
        PROVE  vendor'[r] \notin Promising
    <3>1. exec[k].req # r
      BY <1>2, <2>3, HeardOf DEF Hopeless, OutwardSteps
    <3>2. QED  BY <2>1, <2>3, <3>1, HeardOf
  <2>4. QED  BY <2>2, <2>3, VendorNext DEF Core
<1>3. ASSUME NEW k \in Tokens, exec'[k].at \in OutwardSteps PROVE exec'[k].logical # l
  BY <1>1, <1>3, OutwardNext DEF OutwardKept, Hopeless
<1>4. QED  BY <1>1, <1>2, <1>3 DEF Hopeless

(***************************************************************************)
(* Where an execution goes.                                                *)
(***************************************************************************)
Goes(k, at) == exec'[k].at = at /\ \A j \in Tokens \ {k} : exec'[j] = exec[j]

\* Only at and code and again change.
Ends(k, code, again) ==
    /\ Goes(k, "failed")
    /\ exec'[k].logical = exec[k].logical
    /\ exec'[k].code = code /\ exec'[k].again = again

LEMMA GoesIdle ==
    ASSUME Shape, NEW k \in Tokens, Goto(k, Idle)
    PROVE  Goes(k, "idle")
BY GotoAlone DEF Goes, Idle

LEMMA GoesAt ==
    ASSUME Shape, NEW k \in Tokens, NEW at, Goto(k, [exec[k] EXCEPT !.at = at])
    PROVE  /\ Goes(k, at)
           /\ exec'[k].logical = exec[k].logical /\ exec'[k].req = exec[k].req
<1>1. exec'[k] = [exec[k] EXCEPT !.at = at] /\ \A j \in Tokens \ {k} : exec'[j] = exec[j]
  BY GotoAlone
<1>2. exec[k] \in ExecType
  BY Here
<1>3. QED  BY <1>1, <1>2 DEF Goes, ExecType

LEMMA GoesFailed ==
    ASSUME Shape, NEW k \in Tokens, NEW c, NEW again, Goto(k, FailWith(exec[k], c, again))
    PROVE  Ends(k, c, again)
<1>1. exec'[k] = FailWith(exec[k], c, again) /\ \A j \in Tokens \ {k} : exec'[j] = exec[j]
  BY GotoAlone
<1>2. exec[k] \in ExecType
  BY Here
<1>3. QED  BY <1>1, <1>2 DEF Goes, Ends, FailWith, ExecType

\* The steps after which an execution has failed.
Failing(k) ==
    \/ PreflightFails(k) \/ BeginFails(k) \/ DispatchUnknown(k)
    \/ LogRejected(k) \/ LogIncomplete(k) \/ LogFailed(k) \/ LogIngestFailure(k) \/ LogFails(k)
    \/ SaveExternalThrows(k) \/ SucceedThrows(k) \/ RecoverSettled(k) \/ RecoverExpired(k)
    \/ PollFailed(k) \/ PollGivesUp(k)

\* Each step of an execution and where it leads.
Way(k) ==
    \/ Goes(k, "idle")
    \/ Goes(k, "claimed") /\ ClaimInvoke(k)
    \/ Goes(k, "poll") /\ ClaimPoll(k)
    \/ Goes(k, "prepare") /\ Start(k) /\ MayStart(task, k)
    \/ (Goes(k, "preflight") \/ Goes(k, "recover")) /\ Prepare(k)
    \/ Goes(k, "begin") /\ (Preflight(k) \/ LogRejected(k))
    \/ Goes(k, "dispatch") /\ BeginAttempt(k)
    \/ Goes(k, "log") /\ Dispatch(k)
    \/ Goes(k, "save") /\ LogRunning(k)
    \/ Goes(k, "discard") /\ SaveExternal(k)
    \/ Goes(k, "succeed") /\ LogSuccess(k)
    \/ Goes(k, "adopt") /\ RecoverAccepted(k)
    \/ Goes(k, "mismatch") /\ Adopt(k)
    \/ Goes(k, "reschedule") /\ PollFailed(k)
    \/ Goes(k, "failed") /\ Failing(k)

LEMMA ClaimWay ==
    ASSUME Core, NEW k \in Tokens, Claim(k) \/ Start(k) \/ Prepare(k) \/ PrepareMisses(k)
    PROVE  Way(k)
<1>1. Shape /\ exec[k] \in ExecType
  BY Here DEF Core
<1>2. CASE ClaimInvoke(k)
  <2>1. Goes(k, "claimed")
    BY <1>1, <1>2, GotoAlone DEF ClaimInvoke, Goes, Idle
  <2>2. QED  BY <1>2, <2>1 DEF Way
<1>3. CASE ClaimPoll(k)
  <2>1. exec'[k] = [Idle EXCEPT !.at = "poll", !.req = task.req, !.retry = task.retry]
        /\ \A j \in Tokens \ {k} : exec'[j] = exec[j]
    BY <1>1, <1>3, GotoAlone DEF ClaimPoll
  <2>2. Goes(k, "poll")
    BY <2>1 DEF Goes, Idle
  <2>3. QED  BY <1>3, <2>2 DEF Way
<1>4. CASE Start(k) /\ MayStart(task, k)
  <2>1. exec'[k] = [exec[k] EXCEPT !.at = "prepare", !.logical = task.logical,
                                   !.retry = task.retry]
        /\ \A j \in Tokens \ {k} : exec'[j] = exec[j]
    BY <1>1, <1>4, GotoAlone DEF Start
  <2>2. Goes(k, "prepare")
    BY <1>1, <2>1 DEF ExecType, Goes
  <2>3. QED  BY <1>4, <2>2 DEF Way
<1>5. CASE Start(k) /\ ~MayStart(task, k)
  BY <1>1, <1>5, GoesIdle DEF Start, Way
<1>6. CASE Prepare(k)
  BY <1>6, PrepareGoes DEF Way, Goes
<1>7. CASE PrepareMisses(k)
  BY <1>1, <1>7, GoesIdle DEF PrepareMisses, Way
<1>8. QED  BY <1>2, <1>3, <1>4, <1>5, <1>6, <1>7 DEF Claim

LEMMA LoopWay ==
    ASSUME Core, NEW k \in Tokens,
           \/ Preflight(k) \/ PreflightFails(k) \/ BeginAttempt(k) \/ BeginFails(k)
           \/ Dispatch(k) \/ DispatchUnknown(k)
    PROVE  Way(k)
<1>1. Shape /\ exec[k] \in ExecType /\ exec \in [Tokens -> ExecType]
  BY Here DEF Core, Shape, TypeOK
<1>2. CASE Preflight(k)
  <2>1. Goes(k, "begin")
    BY <1>1, <1>2 DEF Preflight, Goto, Goes, ExecType
  <2>2. QED  BY <1>2, <2>1 DEF Way
<1>3. CASE BeginAttempt(k)
  BY <1>1, <1>3, GoesAt DEF BeginAttempt, Way
<1>4. CASE Dispatch(k)
  <2>1. Goes(k, "log")
    BY <1>1, <1>4 DEF Dispatch, Goto, Goes, ExecType
  <2>2. QED  BY <1>4, <2>1 DEF Way
<1>5. CASE PreflightFails(k)
  BY <1>1, <1>5, GoesFailed DEF PreflightFails, Ends, Way, Failing
<1>6. CASE BeginFails(k)
  BY <1>1, <1>6, GoesFailed DEF BeginFails, Ends, Way, Failing
<1>7. CASE DispatchUnknown(k)
  BY <1>1, <1>7, GoesFailed DEF DispatchUnknown, Ends, Way, Failing
<1>8. QED  BY <1>2, <1>3, <1>4, <1>5, <1>6, <1>7

LEMMA LogWay ==
    ASSUME Core, NEW k \in Tokens,
           \/ LogRejected(k) \/ LogRunning(k) \/ LogIncomplete(k) \/ LogSuccess(k)
           \/ LogFailed(k) \/ LogIngestFailure(k) \/ LogFails(k)
    PROVE  Way(k)
<1>1. Shape /\ exec[k] \in ExecType /\ exec \in [Tokens -> ExecType]
  BY Here DEF Core, Shape, TypeOK
<1>2. CASE LogRejected(k)
  <2>1. CASE Goto(k, FailWith(exec[k], exec[k].code, TRUE))
    BY <1>1, <1>2, <2>1, GoesFailed DEF Ends, Way, Failing
  <2>2. CASE Goto(k, [exec[k] EXCEPT !.at = "begin", !.code = None, !.answer = None,
                                     !.req = <<exec[k].logical, exec[k].req[2] + 1>>])
    <3>1. Goes(k, "begin")
      BY <1>1, <2>2 DEF Goto, Goes, ExecType
    <3>2. QED  BY <1>2, <3>1 DEF Way
  <2>3. QED  BY <1>2, <2>1, <2>2 DEF LogRejected
<1>3. CASE LogRunning(k)
  BY <1>1, <1>3, GoesAt DEF LogRunning, Way
<1>4. CASE LogSuccess(k)
  BY <1>1, <1>4, GoesAt DEF LogSuccess, Way
<1>5. CASE LogIncomplete(k)
  BY <1>1, <1>5, GoesFailed DEF LogIncomplete, Ends, Way, Failing
<1>6. CASE LogFailed(k)
  BY <1>1, <1>6, GoesFailed DEF LogFailed, Ends, Way, Failing
<1>7. CASE LogIngestFailure(k)
  BY <1>1, <1>7, GoesFailed DEF LogIngestFailure, Ends, Way, Failing
<1>8. CASE LogFails(k)
  BY <1>1, <1>8, GoesFailed DEF LogFails, Ends, Way, Failing
<1>9. QED  BY <1>2, <1>3, <1>4, <1>5, <1>6, <1>7, <1>8

LEMMA EndWay ==
    ASSUME Core, NEW k \in Tokens,
           \/ SaveExternal(k) \/ SaveExternalThrows(k) \/ Discard(k)
           \/ HandleFailed(k) \/ Succeed(k) \/ SucceedThrows(k)
    PROVE  Way(k)
<1>1. Shape
  BY DEF Core
<1>2. CASE SaveExternal(k)
  BY <1>1, <1>2, GoesIdle, GoesAt DEF SaveExternal, Way
<1>3. CASE Discard(k) \/ HandleFailed(k) \/ Succeed(k)
  BY <1>1, <1>3, GoesIdle DEF Discard, HandleFailed, Succeed, Way
<1>4. CASE SaveExternalThrows(k)
  BY <1>1, <1>4, GoesFailed DEF SaveExternalThrows, Ends, Way, Failing
<1>5. CASE SucceedThrows(k)
  BY <1>1, <1>5, GoesFailed DEF SucceedThrows, Ends, Way, Failing
<1>6. QED  BY <1>2, <1>3, <1>4, <1>5

LEMMA PollWay ==
    ASSUME Core, NEW k \in Tokens, Recover(k) \/ Poll(k) \/ Crash(k)
    PROVE  Way(k)
<1>1. Shape /\ exec[k] \in ExecType /\ exec \in [Tokens -> ExecType]
  BY Here DEF Core, Shape, TypeOK
<1>2. CASE RecoverAccepted(k)
  <2>1. Goes(k, "adopt")
    BY <1>1, <1>2 DEF RecoverAccepted, Goto, Goes, ExecType
  <2>2. QED  BY <1>2, <2>1 DEF Way
<1>3. CASE RecoverSettled(k)
  BY <1>1, <1>3, GoesFailed DEF RecoverSettled, Ends, Way, Failing
<1>4. CASE RecoverExpired(k)
  BY <1>1, <1>4, GoesFailed DEF RecoverExpired, Ends, Way, Failing
<1>5. CASE Adopt(k)
  BY <1>1, <1>5, GoesIdle, GoesAt DEF Adopt, Way
<1>6. CASE \/ RecoverDefers(k) \/ AdoptMissed(k) \/ PollAgain(k) \/ PollIngestFails(k)
           \/ PollSucceeded(k) \/ PollFailThrows(k) \/ Reschedule(k) \/ Crash(k)
  BY <1>1, <1>6, GoesIdle
     DEF RecoverDefers, AdoptMissed, PollAgain, PollIngestFails, PollSucceeded,
         PollFailThrows, Reschedule, Crash, Way
<1>7. CASE PollGivesUp(k)
  BY <1>1, <1>7, GoesFailed DEF PollGivesUp, Ends, Way, Failing
<1>8. CASE PollFailed(k)
  <2>1. PICK c \in PollCodes :
          \/ Goto(k, [exec[k] EXCEPT !.at = "reschedule"])
          \/ Goto(k, [FailWith(exec[k], c, FALSE) EXCEPT !.answer = "failed"])
    BY <1>8 DEF PollFailed
  <2>2. CASE Goto(k, [exec[k] EXCEPT !.at = "reschedule"])
    BY <1>1, <1>8, <2>2, GoesAt DEF Way
  <2>3. CASE Goto(k, [FailWith(exec[k], c, FALSE) EXCEPT !.answer = "failed"])
    <3>1. [FailWith(exec[k], c, FALSE) EXCEPT !.answer = "failed"].at = "failed"
      BY <1>1, NamedCodes, PollFailTo
    <3>2. Goes(k, "failed")
      BY <1>1, <2>3, <3>1, GotoAlone DEF Goes
    <3>3. QED  BY <1>8, <3>2 DEF Way, Failing
  <2>4. QED  BY <2>1, <2>2, <2>3
<1>9. QED
  BY <1>2, <1>3, <1>4, <1>5, <1>6, <1>7, <1>8 DEF Recover, Poll

\* An execution that is not where it was took one of these steps.
LEMMA Ways ==
    ASSUME Core, [Next]_vars, NEW k \in Tokens, exec'[k] # exec[k]
    PROVE  Way(k) /\ (Claim(k) \/ Work(k) \/ Crash(k))
<1>1. ASSUME NEW j \in Tokens, Claim(j) \/ Work(j) \/ Crash(j)
      PROVE  Way(j)
  BY <1>1, ClaimWay, LoopWay, LogWay, EndWay, PollWay DEF Work, Invoke
<1>2. ASSUME NEW j \in Tokens, Way(j) PROVE j = k
  BY <1>2 DEF Way, Goes
<1>3. ASSUME NEW j \in Tokens, Heartbeat(j) PROVE FALSE
  BY <1>3 DEF Heartbeat
<1>4. ASSUME NEW i \in Instances,
             ActOnOrphan(i) \/ CrashPass(i) \/ \E r \in Requests : ListOrphan(i, r)
      PROVE  FALSE
  BY <1>4
     DEF ActOnOrphan, OrphanAttached, OrphanOwned, OrphanAttach, OrphanMissed, OrphanForeign,
         OrphanCompensate, OrphanCompensateFails, CrashPass, ListOrphan
<1>5. ASSUME NEW r \in Requests, Sweep(r) PROVE FALSE
  BY <1>5 DEF Sweep, Abandon, SweepDetached
<1>6. CASE Owner \/ LeaseExpires \/ Stall \/ UNCHANGED vars
  BY <1>6 DEF Owner, Cancel, RetryCheck, RetryUpdate, LeaseExpires, Stall, vars
<1>7. QED  BY <1>1, <1>2, <1>3, <1>4, <1>5, <1>6 DEF Next

(***************************************************************************)
(* The statements that change the row.                                     *)
(***************************************************************************)
Attaches(r) ==
    /\ task.req = None /\ task.logical = r[1] /\ task.status \in {"queued", "running"}
    /\ task' \in {SaveExternalResult(task, r), AttachRecovered(task, r)}
    /\ \/ \E k \in Tokens : (SaveExternal(k) \/ Adopt(k)) /\ r = exec[k].req /\ task.status = "running"
       \/ \E i \in Instances : OrphanAttach(i) /\ r = pass[i].req /\ task' = AttachRecovered(task, r)

Retries(k) ==
    /\ HeldBy(task, k) /\ task' = ScheduleRetry(task)
    /\ (HandleFailed(k) /\ RetryDecided(k)) \/ Reschedule(k)

Ended(status, code) ==
    /\ task' = Finish(task, status, code)
    /\ \/ /\ status = "cancelled" /\ task.status \notin Terminal
       \/ \E k \in Tokens :
            /\ HeldBy(task, k)
            /\ \/ status = "failed" /\ HandleFailed(k)
               \/ status = "succeeded" /\ (Succeed(k) \/ PollSucceeded(k))

LetsGo ==
    \/ \E k \in Tokens : MayDefer(task, k) /\ task' = DeferInvokeRecovery(task)
    \/ /\ task.status = "running" /\ task' \in {ReleasePoll(task), SchedulePollRetry(task)}
    \/ task' \in {RenewLease(task), [task EXCEPT !.live = FALSE]}

RowMoves ==
    \/ UNCHANGED task
    \/ \E k \in Tokens : Claim(k) \/ (Start(k) /\ MayStart(task, k)) \/ Prepare(k)
    \/ \E k \in Tokens : Attaches(exec[k].req)
    \/ \E i \in Instances : Attaches(pass[i].req)
    \/ \E k \in Tokens : Retries(k)
    \/ \E st \in Terminal, c \in Codes \cup {None} : Ended(st, c)
    \/ MayUserRetry(task) /\ task' = UserRetry(task) /\ UNCHANGED vendor
    \/ LetsGo

LEMMA InvokeRowMoves ==
    ASSUME Shape, NEW k \in Tokens, Invoke(k)
    PROVE  RowMoves
<1>1. CASE Start(k) \/ Prepare(k)
  BY <1>1 DEF Start, RowMoves
<1>2. CASE \/ PrepareMisses(k) \/ Preflight(k) \/ PreflightFails(k)
           \/ BeginAttempt(k) \/ BeginFails(k) \/ Dispatch(k) \/ DispatchUnknown(k)
  BY <1>2 DEF PrepareMisses, Preflight, PreflightFails, BeginAttempt, BeginFails, Dispatch,
              DispatchUnknown, db, RowMoves
<1>3. CASE \/ LogRejected(k) \/ LogRunning(k) \/ LogIncomplete(k) \/ LogSuccess(k)
           \/ LogFailed(k) \/ LogIngestFailure(k) \/ LogFails(k)
  BY <1>3 DEF LogRejected, LogRunning, LogIncomplete, LogSuccess, LogFailed,
              LogIngestFailure, LogFails, db, RowMoves
<1>4. CASE SaveExternal(k)
  <2>1. CASE MaySaveExternal(task, k, exec[k].req)
    <3>1. Attaches(exec[k].req)
      BY <1>4, <2>1 DEF SaveExternal, MaySaveExternal, Attaches
    <3>2. QED  BY <3>1 DEF RowMoves
  <2>2. CASE ~MaySaveExternal(task, k, exec[k].req)
    BY <1>4, <2>2 DEF SaveExternal, RowMoves
  <2>3. QED  BY <2>1, <2>2
<1>5. CASE SaveExternalThrows(k) \/ Discard(k) \/ SucceedThrows(k)
  BY <1>5 DEF SaveExternalThrows, Discard, SucceedThrows, db, RowMoves
<1>6. CASE HandleFailed(k)
  <2>1. exec[k].code \in Codes \cup {None}
    BY Here DEF ExecType
  <2>2. CASE RetryDecided(k)
    BY <1>6, <2>2 DEF HandleFailed, RowMoves, Retries
  <2>3. CASE ~RetryDecided(k)
    <3>1. \/ UNCHANGED task
          \/ HeldBy(task, k) /\ task' = Finish(task, "failed", exec[k].code)
      BY <1>6, <2>3 DEF HandleFailed, TerminalFail
    <3>2. UNCHANGED task \/ Ended("failed", exec[k].code)
      BY <1>6, <3>1 DEF Ended
    <3>3. QED  BY <2>1, <3>2 DEF RowMoves, Terminal
  <2>4. QED  BY <2>2, <2>3
<1>7. CASE Succeed(k)
  <2>1. UNCHANGED task \/ Ended("succeeded", None)
    BY <1>7 DEF Succeed, TerminalSucceed, Ended
  <2>2. QED  BY <2>1 DEF RowMoves, Terminal
<1>8. QED
  BY <1>1, <1>2, <1>3, <1>4, <1>5, <1>6, <1>7 DEF Invoke

LEMMA LaterRowMoves ==
    ASSUME Shape, NEW k \in Tokens, Recover(k) \/ Poll(k) \/ Heartbeat(k) \/ Crash(k)
    PROVE  RowMoves
<1>1. CASE \/ RecoverAccepted(k) \/ RecoverSettled(k) \/ RecoverExpired(k)
           \/ AdoptMissed(k) \/ PollFailed(k) \/ PollGivesUp(k) \/ Crash(k)
  BY <1>1 DEF RecoverAccepted, RecoverSettled, RecoverExpired, AdoptMissed, PollFailed,
              PollGivesUp, Crash, db, RowMoves
<1>2. CASE RecoverDefers(k)
  BY <1>2 DEF RecoverDefers, RowMoves, LetsGo
<1>3. CASE Adopt(k)
  <2>1. CASE MaySaveExternal(task, k, exec[k].req)
    <3>1. Attaches(exec[k].req)
      BY <1>3, <2>1 DEF Adopt, MaySaveExternal, Attaches
    <3>2. QED  BY <3>1 DEF RowMoves
  <2>2. CASE ~MaySaveExternal(task, k, exec[k].req)
    BY <1>3, <2>2 DEF Adopt, RowMoves
  <2>3. QED  BY <2>1, <2>2
<1>4. CASE PollAgain(k) \/ PollIngestFails(k) \/ PollFailThrows(k)
  <2>1. UNCHANGED task \/ LetsGo
    BY <1>4 DEF PollAgain, PollIngestFails, PollFailThrows, MayRelease, LetsGo
  <2>2. QED  BY <2>1 DEF RowMoves
<1>5. CASE PollSucceeded(k)
  <2>1. UNCHANGED task \/ Ended("succeeded", None)
    BY <1>5 DEF PollSucceeded, TerminalSucceed, Ended
  <2>2. QED  BY <2>1 DEF RowMoves, Terminal
<1>6. CASE Reschedule(k)
  BY <1>6 DEF Reschedule, RowMoves, Retries
<1>7. CASE Heartbeat(k)
  BY <1>7 DEF Heartbeat, RowMoves, LetsGo
<1>8. QED  BY <1>1, <1>2, <1>3, <1>4, <1>5, <1>6, <1>7 DEF Recover, Poll

LEMMA PassRowMoves ==
    ASSUME Shape, NEW i \in Instances,
           ActOnOrphan(i) \/ CrashPass(i) \/ \E r \in Requests : ListOrphan(i, r)
    PROVE  RowMoves
<1>1. CASE OrphanAttach(i)
  <2>1. CASE MayAttachRecovered(task, pass[i].req)
    <3>1. Attaches(pass[i].req)
      BY <1>1, <2>1 DEF OrphanAttach, MayAttachRecovered, Attaches
    <3>2. QED  BY <3>1 DEF RowMoves
  <2>2. CASE ~MayAttachRecovered(task, pass[i].req)
    BY <1>1, <2>2 DEF OrphanAttach, RowMoves
  <2>3. QED  BY <2>1, <2>2
<1>2. CASE \/ OrphanAttached(i) \/ OrphanOwned(i) \/ OrphanMissed(i) \/ OrphanForeign(i)
           \/ OrphanCompensate(i) \/ OrphanCompensateFails(i) \/ CrashPass(i)
           \/ \E r \in Requests : ListOrphan(i, r)
  BY <1>2 DEF OrphanAttached, OrphanOwned, OrphanMissed, OrphanForeign, OrphanCompensate,
              OrphanCompensateFails, CrashPass, ListOrphan, db, RowMoves
<1>3. QED  BY <1>1, <1>2 DEF ActOnOrphan

LEMMA RowStatement ==
    ASSUME Shape, [Next]_vars
    PROVE  RowMoves
<1>1. ASSUME NEW k \in Tokens, Claim(k) \/ Work(k) \/ Heartbeat(k) \/ Crash(k)
      PROVE  RowMoves
  <2>1. CASE Claim(k)
    BY <2>1 DEF RowMoves
  <2>2. CASE Work(k) \/ Heartbeat(k) \/ Crash(k)
    BY <2>2, InvokeRowMoves, LaterRowMoves DEF Work
  <2>3. QED  BY <1>1, <2>1, <2>2
<1>2. ASSUME NEW r \in Requests, Sweep(r) PROVE RowMoves
  BY <1>2 DEF Sweep, Abandon, SweepDetached, RowMoves
<1>3. CASE Owner
  <2>1. CASE Cancel
    <3>1. Ended("cancelled", None)
      BY <2>1 DEF Cancel, Ended
    <3>2. QED  BY <3>1 DEF RowMoves, Terminal
  <2>2. CASE RetryCheck \/ RetryUpdate
    BY <2>2 DEF RetryCheck, RetryUpdate, db, RowMoves
  <2>3. QED  BY <1>3, <2>1, <2>2 DEF Owner
<1>4. CASE LeaseExpires \/ Stall \/ UNCHANGED vars
  BY <1>4 DEF LeaseExpires, Stall, vars, RowMoves, LetsGo
<1>5. QED  BY <1>1, <1>2, <1>3, <1>4, PassRowMoves DEF Next

\* What the statements have in common: a lease is only taken by a claim, ...
LEMMA HolderNext ==
    ASSUME Shape, [Next]_vars
    PROVE  RowHolds \/ \E k \in Tokens : Claim(k) \/ (Start(k) /\ MayStart(task, k)) \/ Prepare(k)
<1> USE DEF RowHolds, TaskType
<1>1. task \in TaskType  BY DEF Shape, TypeOK
<1>2. CASE UNCHANGED task
  BY <1>2
<1>3. ASSUME NEW r, Attaches(r) PROVE RowHolds
  BY <1>1, <1>3 DEF Attaches, SaveExternalResult, AttachRecovered
<1>4. ASSUME NEW k \in Tokens, Retries(k) PROVE RowHolds
  BY <1>1, <1>4 DEF Retries, ScheduleRetry
<1>5. ASSUME NEW st \in Terminal, NEW c \in Codes \cup {None}, Ended(st, c) PROVE RowHolds
  BY <1>1, <1>5 DEF Ended, Finish
<1>6. CASE MayUserRetry(task) /\ task' = UserRetry(task)
  BY <1>1, <1>6 DEF UserRetry
<1>7. CASE LetsGo
  <2>1. ASSUME NEW k \in Tokens, task' = DeferInvokeRecovery(task) PROVE RowHolds
    BY <1>1, <2>1 DEF DeferInvokeRecovery
  <2>2. CASE task' \in {ReleasePoll(task), SchedulePollRetry(task)}
    BY <1>1, <2>2 DEF ReleasePoll, SchedulePollRetry
  <2>3. CASE task' \in {RenewLease(task), [task EXCEPT !.live = FALSE]}
    BY <1>1, <2>3 DEF RenewLease
  <2>4. QED  BY <1>7, <2>1, <2>2, <2>3 DEF LetsGo
<1>8. QED
  BY RowStatement, <1>2, <1>3, <1>4, <1>5, <1>6, <1>7 DEF RowMoves

\* ... an invocation is opened by Prepare, a finished Task stays finished
\* until its owner retries it, and a job is attached by who works on it.
RowKeeps ==
    /\ task'.logical \in {None, task.logical} \/ \E k \in Tokens : Prepare(k)
    /\ task.status \in Terminal => task'.logical = None \/ task'.status = task.status
    /\ \/ task'.req \in {None, task.req}
       \/ \E k \in Tokens : (SaveExternal(k) \/ Adopt(k)) /\ task'.req = exec[k].req
       \/ \E i \in Instances : OrphanAttach(i) /\ task'.req = pass[i].req

LEMMA RowNext ==
    ASSUME Core, [Next]_vars
    PROVE  RowKeeps
<1> USE DEF RowKeeps, TaskType, Terminal
<1>1. task \in TaskType /\ Shape  BY DEF Core, Shape, TypeOK
<1>2. CASE UNCHANGED task
  BY <1>2
<1>3. ASSUME NEW k \in Tokens, ClaimInvoke(k) PROVE RowKeeps
  BY <1>1, <1>3 DEF ClaimInvoke, ClaimPending, MayClaimPending
<1>4. ASSUME NEW k \in Tokens, ClaimPoll(k) PROVE RowKeeps
  BY <1>1, <1>4 DEF ClaimPoll, ClaimDuePoll, MayClaimDuePoll
<1>5. ASSUME NEW k \in Tokens, Start(k), MayStart(task, k) PROVE RowKeeps
  BY <1>1, <1>5 DEF Start, StartClaimed, MayStart
<1>6. ASSUME NEW k \in Tokens, Prepare(k) PROVE RowKeeps
  <2>1. PICK l \in Logicals : task' = [task EXCEPT !.logical = l]
    BY <1>6, PrepareGoes
  <2>2. QED  BY <1>1, <1>6, <2>1
<1>7. ASSUME NEW r, Attaches(r) PROVE RowKeeps
  <2>1. task'.logical = task.logical /\ task'.req = r /\ task.status \notin Terminal
    BY <1>1, <1>7 DEF Attaches, SaveExternalResult, AttachRecovered
  <2>2. QED  BY <1>7, <2>1 DEF Attaches
<1>8. ASSUME NEW k \in Tokens, Retries(k) PROVE RowKeeps
  BY <1>1, <1>8 DEF Retries, ScheduleRetry
<1>9. ASSUME NEW st \in Terminal, NEW c \in Codes \cup {None}, Ended(st, c) PROVE RowKeeps
  BY <1>1, <1>9 DEF Ended, Finish, HeldBy
<1>10. CASE MayUserRetry(task) /\ task' = UserRetry(task)
  BY <1>1, <1>10 DEF UserRetry
<1>11. CASE LetsGo
  <2>1. ASSUME NEW k \in Tokens, MayDefer(task, k), task' = DeferInvokeRecovery(task)
        PROVE  RowKeeps
    BY <1>1, <2>1 DEF MayDefer, DeferInvokeRecovery
  <2>2. CASE task' \in {ReleasePoll(task), SchedulePollRetry(task)}
    BY <1>1, <2>2 DEF ReleasePoll, SchedulePollRetry
  <2>3. CASE task' \in {RenewLease(task), [task EXCEPT !.live = FALSE]}
    BY <1>1, <2>3 DEF RenewLease
  <2>4. QED  BY <1>11, <2>1, <2>2, <2>3 DEF LetsGo
<1>12. QED
  BY RowStatement, <1>1, <1>2, <1>3, <1>4, <1>5, <1>6, <1>7, <1>8, <1>9, <1>10, <1>11
     DEF RowMoves, Claim

(***************************************************************************)
(* Passes and preflight rows.                                              *)
(***************************************************************************)
LEMMA PassNext ==
    ASSUME Core, Custody, [Next]_vars
    PROVE  PassKept \/ \E i \in Instances, r \in Requests : ListOrphan(i, r)
<1>1. ASSUME NEW k \in Tokens, Claim(k) \/ Invoke(k) PROVE UNCHANGED pass
  BY <1>1 DEF Claim, ClaimInvoke, ClaimPoll, Invoke, Start, Prepare, PrepareMisses, Preflight,
     PreflightFails, BeginAttempt, BeginFails, Dispatch, DispatchUnknown, LogRejected,
     LogRunning, LogIncomplete, LogSuccess, LogFailed, LogIngestFailure, LogFails,
     SaveExternal, SaveExternalThrows, Discard, HandleFailed, Succeed, SucceedThrows
<1>2. ASSUME NEW k \in Tokens, Recover(k) \/ Poll(k) \/ Heartbeat(k) \/ Crash(k)
      PROVE  UNCHANGED pass
  BY <1>2 DEF Recover, Poll, RecoverAccepted, RecoverSettled, RecoverExpired, RecoverDefers,
     Adopt, AdoptMissed, PollAgain, PollIngestFails, PollSucceeded, PollFailed,
     PollFailThrows, Reschedule, PollGivesUp, Heartbeat, Crash
<1>3. ASSUME NEW r \in Requests, Sweep(r) PROVE UNCHANGED pass
  BY <1>3 DEF Sweep, Abandon, SweepDetached
<1>4. ASSUME Owner \/ LeaseExpires \/ Stall \/ UNCHANGED vars PROVE UNCHANGED pass
  BY <1>4 DEF Owner, Cancel, RetryCheck, RetryUpdate, LeaseExpires, Stall, vars
<1>5. ASSUME NEW i \in Instances, ActOnOrphan(i) \/ CrashPass(i) PROVE PassKept
  BY <1>5, OrphanSteady DEF Core, Custody, Steady
<1>6. QED
  BY <1>1, <1>2, <1>3, <1>4, <1>5, NothingSteady DEF Next, Work

LEMMA PreflightNext ==
    ASSUME [Next]_vars, \A k \in Tokens : ~PreflightFails(k)
    PROVE  UNCHANGED preflight
<1>1. ASSUME NEW k \in Tokens, Claim(k) \/ Invoke(k) PROVE UNCHANGED preflight
  BY <1>1 DEF Claim, ClaimInvoke, ClaimPoll, Invoke, Start, Prepare, PrepareMisses, Preflight,
     BeginAttempt, BeginFails, Dispatch, DispatchUnknown, LogRejected,
     LogRunning, LogIncomplete, LogSuccess, LogFailed, LogIngestFailure, LogFails,
     SaveExternal, SaveExternalThrows, Discard, HandleFailed, Succeed, SucceedThrows, db
<1>2. ASSUME NEW k \in Tokens, Recover(k) \/ Poll(k) \/ Heartbeat(k) \/ Crash(k)
      PROVE  UNCHANGED preflight
  BY <1>2 DEF Recover, Poll, RecoverAccepted, RecoverSettled, RecoverExpired, RecoverDefers,
     Adopt, AdoptMissed, PollAgain, PollIngestFails, PollSucceeded, PollFailed,
     PollFailThrows, Reschedule, PollGivesUp, Heartbeat, Crash, db
<1>3. ASSUME NEW r \in Requests, Sweep(r) PROVE UNCHANGED preflight
  BY <1>3 DEF Sweep, Abandon, SweepDetached
<1>4. CASE Owner \/ LeaseExpires \/ Stall \/ UNCHANGED vars
  BY <1>4 DEF Owner, Cancel, RetryCheck, RetryUpdate, LeaseExpires, Stall, vars, db
<1>5. ASSUME NEW i \in Instances,
             ActOnOrphan(i) \/ CrashPass(i) \/ \E r \in Requests : ListOrphan(i, r)
      PROVE  UNCHANGED preflight
  BY <1>5
     DEF ActOnOrphan, OrphanAttached, OrphanOwned, OrphanAttach, OrphanMissed, OrphanForeign,
         OrphanCompensate, OrphanCompensateFails, CrashPass, ListOrphan, db
<1>6. QED  BY <1>1, <1>2, <1>3, <1>4, <1>5 DEF Next, Work

(***************************************************************************)
(* What a retry rests on: who knows that an invocation is hopeless.        *)
(***************************************************************************)
\* Nobody else is on the way to the vendor with the invocation of a dispatcher.
LEMMA AloneOutward ==
    ASSUME Core, NEW k \in Tokens, Dispatching(k), Goes(k, "failed"),
           NEW l \in Logicals, l = exec[k].logical, key'[l] # 0,
           \A r \in Requests : r[1] = l => vendor'[r] \notin Promising
    PROVE  Hopeless(l)'
<1>1. ASSUME NEW j \in Tokens, exec'[j].at \in OutwardSteps, exec'[j].logical = l
      PROVE  FALSE
  <2>1. j # k /\ exec'[j] = exec[j]
    BY <1>1 DEF Goes, OutwardSteps
  <2>2. Dispatching(j)
    BY <1>1, <2>1 DEF Dispatching, OutwardSteps, DispatchSteps
  <2>3. QED  BY <1>1, <2>1, <2>2 DEF Core, OneDispatcher
<1>2. QED  BY <1>1 DEF Hopeless

\* An invocation on its way has been drawn.
LEMMA Drawn ==
    ASSUME Core, [Next]_vars, NEW k \in Tokens, exec[k].logical \in Logicals
    PROVE  key[exec[k].logical] # 0 /\ key'[exec[k].logical] # 0
<1>1. key[exec[k].logical] # 0
  BY DEF Core, FreshUntouched
<1>2. QED  BY <1>1, KeyNext

LEMMA RefusedHopeless ==
    ASSUME OneCandidate, Core, [Next]_vars, NEW k \in Tokens,
           PreflightFails(k) \/ LogRejected(k)
    PROVE  /\ exec[k].at \in DispatchSteps /\ Goes(k, "failed")
           /\ exec'[k].logical = exec[k].logical
           /\ \A l \in Logicals : l = exec[k].logical => Hopeless(l)'
<1>1. Shape /\ Dispatching(k) /\ exec[k].at \in DispatchSteps /\ UNCHANGED vendor
  BY DEF Core, PreflightFails, LogRejected, At, Dispatching, DispatchSteps
<1>2. Goes(k, "failed") /\ exec'[k].logical = exec[k].logical
  BY <1>1, RejectedEnds, GoesFailed DEF PreflightFails, Ends
<1>3. exec[k].logical \in Logicals
  BY <1>1, Loop
<1>4. \A r \in Requests : r[1] = exec[k].logical => vendor'[r] \notin Promising
  <2>1. exec[k].at = "preflight" \/ (exec[k].at = "log" /\ exec[k].answer = "rejected")
    BY DEF PreflightFails, LogRejected, At
  <2>2. \A r \in Requests : r[1] = exec[k].logical => vendor[r] \notin Accepted
    BY <2>1 DEF Core, NothingTakenYet, Untaken
  <2>3. QED  BY <1>1, <2>2 DEF Promising, Accepted
<1>5. QED  BY <1>1, <1>2, <1>3, <1>4, Drawn, AloneOutward

LEMMA ToldHopeless ==
    ASSUME OneCandidate, Core, FailureTold, [Next]_vars, NEW k \in Tokens, LogFailed(k)
    PROVE  /\ exec[k].at \in DispatchSteps /\ Goes(k, "failed")
           /\ exec'[k].logical = exec[k].logical
           /\ \A l \in Logicals : l = exec[k].logical => Hopeless(l)'
<1>1. /\ Shape /\ Dispatching(k) /\ exec[k].at = "log" /\ exec[k].answer = "failed"
      /\ exec[k].at \in DispatchSteps /\ UNCHANGED vendor
  BY DEF Core, LogFailed, At, Dispatching, DispatchSteps
<1>2. Goes(k, "failed") /\ exec'[k].logical = exec[k].logical
  BY <1>1, GoesFailed DEF LogFailed, Ends
<1>3. /\ exec[k].logical \in Logicals
      /\ exec[k].req \in Requests /\ exec[k].req[1] = exec[k].logical
  BY <1>1, Loop
<1>4. vendor[exec[k].req] = "failed"
  BY <1>1 DEF FailureTold
<1>5. \A r \in Requests : r[1] = exec[k].logical => vendor'[r] \notin Promising
  BY <1>1, <1>3, <1>4, OneRow DEF Promising
<1>6. QED  BY <1>1, <1>2, <1>3, <1>5, Drawn, AloneOutward

\* Nobody is on the way to the vendor with an invocation whose job is recorded.
LEMMA RecordedInward ==
    ASSUME OneCandidate, Core, Custody, LoopStartsFresh, NEW r \in Requests, ledger[r].ext
    PROVE  /\ key[r[1]] # 0
           /\ \A j \in Tokens : exec[j].at \in OutwardSteps => exec[j].logical # r[1]
<1>1. r[1] \in Logicals /\ ledger[r].st # "absent"
  BY DEF Core, NoJobWithoutRow, Requests
<1>2. key[r[1]] # 0
  BY <1>1 DEF Core, FreshUntouched
<1>3. ASSUME NEW j \in Tokens, exec[j].at \in OutwardSteps, exec[j].logical = r[1]
      PROVE  FALSE
  <2>1. CASE exec[j].at = "preflight"
    BY <1>1, <1>3, <2>1 DEF LoopStartsFresh
  <2>2. Dispatching(j)
    BY <1>3 DEF Dispatching, OutwardSteps, DispatchSteps
  <2>3. CASE exec[j].at \in {"begin", "dispatch"}
    <3>1. exec[j].req \in Requests /\ exec[j].req[1] = r[1] /\ InOrder(j)
      BY <1>3, <2>2, <2>3, Loop
    <3>2. exec[j].req = r
      BY <3>1, OneRow
    <3>3. exec[j].at # "begin"
      <4>1. r[2] = 1
        BY OneRow
      <4>2. QED  BY <1>1, <1>3, <3>1, <3>2, <4>1 DEF InOrder
    <3>4. exec[j].at # "dispatch"
      BY <3>2 DEF Custody, RecordedAfterAnswer
    <3>5. QED  BY <2>3, <3>3, <3>4
  <2>4. QED  BY <1>3, <2>1, <2>3 DEF OutwardSteps
<1>4. QED  BY <1>2, <1>3

\* A poll that reports the failure of the job.
LEMMA PolledHopeless ==
    ASSUME OneCandidate, Core, Custody, RetrySound, [Next]_vars, NEW k \in Tokens, PollFailed(k)
    PROVE  /\ exec[k].req \in Requests
           /\ \A l \in Logicals : l = exec[k].req[1] => Hopeless(l)'
<1>1. exec[k].at = "poll" /\ exec[k].req \in Requests
  BY WorksOn DEF PollFailed, At, Core
<1>2. ledger[exec[k].req].ext
  BY <1>1 DEF RetrySound, JobsRecorded
<1>3. /\ key[exec[k].req[1]] # 0
      /\ \A j \in Tokens : exec[j].at \in OutwardSteps => exec[j].logical # exec[k].req[1]
  BY <1>1, <1>2, RecordedInward DEF RetrySound
<1>4. exec[k].req[1] \in Logicals
  BY <1>1 DEF Requests
<1>5. key'[exec[k].req[1]] # 0
  BY <1>3, <1>4, KeyNext
<1>6. vendor'[exec[k].req] \notin Promising
  BY <1>1 DEF PollFailed, Alive, Promising, Core, Shape, TypeOK
<1>7. \A r \in Requests : r[1] = exec[k].req[1] => vendor'[r] \notin Promising
  BY <1>1, <1>6, OneRow
<1>8. ASSUME NEW j \in Tokens, exec'[j].at \in OutwardSteps PROVE exec'[j].logical # exec[k].req[1]
  BY <1>3, <1>8, OutwardNext DEF OutwardKept
<1>9. QED  BY <1>1, <1>5, <1>7, <1>8 DEF Hopeless

(***************************************************************************)
(* RetrySound is kept, part by part.                                       *)
(***************************************************************************)
LEMMA ClaimHolds ==
    ASSUME Shape, NEW j \in Tokens,
           Claim(j) \/ (Start(j) /\ MayStart(task, j)) \/ Prepare(j)
    PROVE  /\ task'.lease = j
           /\ ClaimInvoke(j) \/ task'.status = "running"
<1> USE DEF TaskType
<1>1. task \in TaskType  BY DEF Shape, TypeOK
<1>2. CASE ClaimInvoke(j)
  BY <1>1, <1>2 DEF ClaimInvoke, ClaimPending
<1>3. CASE ClaimPoll(j)
  BY <1>1, <1>3 DEF ClaimPoll, ClaimDuePoll, MayClaimDuePoll
<1>4. CASE Start(j) /\ MayStart(task, j)
  BY <1>1, <1>4 DEF Start, MayStart, StartClaimed
<1>5. CASE Prepare(j)
  BY <1>1, <1>5 DEF Prepare, MayPrepare, PrepareInvokeAttempt
<1>6. QED  BY <1>2, <1>3, <1>4, <1>5 DEF Claim

\* Where the steps that take a lease lead.
LEMMA ClaimGoes ==
    ASSUME Core, NEW j \in Tokens,
           Claim(j) \/ (Start(j) /\ MayStart(task, j)) \/ Prepare(j)
    PROVE  /\ exec[j].at \in {"idle", "claimed", "prepare"}
           /\ exec'[j].at \in {"claimed", "poll", "prepare", "preflight", "recover"}
           /\ ClaimInvoke(j) => exec'[j].at = "claimed"
<1>1. Shape /\ exec[j] \in ExecType
  BY Here DEF Core
<1>2. CASE ClaimInvoke(j)
  BY <1>1, <1>2, GotoAlone DEF ClaimInvoke, Fresh, At, Idle
<1>3. CASE ClaimPoll(j)
  <2>1. exec'[j] = [Idle EXCEPT !.at = "poll", !.req = task.req, !.retry = task.retry]
    BY <1>1, <1>3, GotoAlone DEF ClaimPoll
  <2>2. exec'[j].at = "poll"
    BY <2>1 DEF Idle
  <2>3. QED  BY <1>3, <2>2 DEF ClaimPoll, ClaimInvoke, Fresh, At, MayClaimPending, MayClaimDuePoll
<1>4. CASE Start(j) /\ MayStart(task, j)
  <2>1. exec'[j] = [exec[j] EXCEPT !.at = "prepare", !.logical = task.logical,
                                   !.retry = task.retry]
    BY <1>1, <1>4, GotoAlone DEF Start
  <2>2. exec'[j].at = "prepare"
    BY <1>1, <2>1 DEF ExecType
  <2>3. QED  BY <1>4, <2>2 DEF Start, ClaimInvoke, Fresh, At
<1>5. CASE Prepare(j)
  BY <1>5, PrepareGoes DEF Prepare, ClaimInvoke, Fresh, At
<1>6. QED  BY <1>2, <1>3, <1>4, <1>5 DEF Claim

LEMMA RunsNext ==
    ASSUME Core, HolderRuns, [Next]_vars
    PROVE  HolderRuns'
<1> SUFFICES ASSUME NEW k \in Tokens, task'.lease = k, exec'[k].at \notin {"idle", "claimed"}
             PROVE  task'.status = "running"
  BY DEF HolderRuns
<1>1. Shape
  BY DEF Core
<1>2. ASSUME NEW j \in Tokens, Claim(j) \/ (Start(j) /\ MayStart(task, j)) \/ Prepare(j)
      PROVE  task'.status = "running"
  BY <1>1, <1>2, ClaimHolds, ClaimGoes
<1>3. CASE RowHolds
  <2>1. task.lease = k /\ task'.status = task.status
    BY <1>3, NoneAssumption DEF RowHolds
  <2>2. CASE exec[k].at \notin {"idle", "claimed"}
    BY <2>1, <2>2 DEF HolderRuns
  <2>3. CASE exec[k].at \in {"idle", "claimed"}
    <3>1. Way(k)
      BY <2>3, Ways
    <3>2. Claim(k) \/ (Start(k) /\ MayStart(task, k))
      BY <2>3, <3>1
         DEF Way, Goes, Claim, Prepare, Preflight, LogRejected, BeginAttempt, Dispatch, LogRunning,
             SaveExternal, LogSuccess, RecoverAccepted, Adopt, PollFailed, At, Failing,
             PreflightFails, BeginFails, DispatchUnknown, LogIncomplete, LogFailed,
             LogIngestFailure, LogFails, SaveExternalThrows, SucceedThrows, RecoverSettled,
             RecoverExpired, Undetermined, PollGivesUp
    <3>3. QED  BY <1>2, <3>2
  <2>4. QED  BY <2>2, <2>3
<1>4. QED  BY <1>1, <1>2, <1>3, HolderNext

LEMMA FreshNext ==
    ASSUME Core, LoopStartsFresh, [Next]_vars
    PROVE  LoopStartsFresh'
<1> SUFFICES ASSUME NEW k \in Tokens, exec'[k].at = "preflight",
                    NEW r \in Requests, r[1] = exec'[k].logical
             PROVE  ledger'[r].st = "absent"
  BY DEF LoopStartsFresh
<1>1. CASE exec'[k] # exec[k]
  <2>1. Prepare(k)
    BY <1>1, Ways DEF Way, Goes
  <2>2. key[r[1]] = 0 /\ r[1] \in Logicals
    BY <2>1, PrepareGoes DEF Requests
  <2>3. QED  BY <2>1, <2>2 DEF Core, FreshUntouched, Prepare
<1>2. CASE exec'[k] = exec[k]
  <2>1. ledger[r].st = "absent"
    BY <1>2 DEF LoopStartsFresh
  <2>2. CASE LedgerQuiet
    BY <2>1, <2>2 DEF LedgerQuiet
  <2>3. ASSUME NEW j \in Tokens, BeginAttempt(j) \/ BeginFails(j) PROVE ledger'[r] = ledger[r]
    <3>1. exec[j].at = "begin" /\ Dispatching(j) /\ Dispatching(k)
      BY <1>2, <2>3 DEF BeginAttempt, BeginFails, At, Dispatching, DispatchSteps
    <3>2. exec[j].logical # exec[k].logical
      BY <1>2, <3>1 DEF Core, OneDispatcher
    <3>3. exec[j].req \in Requests /\ exec[j].req # r
      BY <1>2, <3>1, <3>2, Loop
    <3>4. QED
      BY <2>3, <3>3 DEF BeginAttempt, BeginFails, Begin, Core, Shape, TypeOK, LedgerType
  <2>4. LedgerQuiet \/ \E j \in Tokens : BeginAttempt(j) \/ BeginFails(j)
    <3>1. CASE Quiet
      BY <3>1 DEF Quiet, Still
    <3>2. ASSUME NEW j \in Tokens, Loud(j), ~BeginAttempt(j), ~BeginFails(j) PROVE LedgerQuiet
      <4>1. CASE LogRejected(j)
        BY <4>1, ShapeNext, LogRejectedKeeps DEF Core
      <4>2. CASE ~LogRejected(j)
        BY <3>2, <4>2 DEF Loud, Claim, ClaimInvoke, ClaimPoll, Start, Prepare, Preflight, Dispatch,
                    DispatchUnknown, db, LedgerQuiet
      <4>3. QED  BY <4>1, <4>2
    <3>3. QED  BY <3>1, <3>2, QuietOrLoud
  <2>5. QED  BY <2>1, <2>2, <2>3, <2>4
<1>3. QED  BY <1>1, <1>2

LEMMA ToldNext ==
    ASSUME Core, FailureTold, [Next]_vars
    PROVE  FailureTold'
<1> SUFFICES ASSUME NEW k \in Tokens, exec'[k].at = "log", exec'[k].answer = "failed"
             PROVE  vendor'[exec'[k].req] = "failed"
  BY DEF FailureTold
<1>1. CASE exec'[k] # exec[k]
  <2>1. Dispatch(k) /\ exec[k].req \in Requests /\ exec[k] \in ExecType
        /\ exec \in [Tokens -> ExecType] /\ vendor \in [Requests -> VendorStates]
    <3>1. Dispatch(k)
      BY <1>1, Ways DEF Way, Goes
    <3>2. QED  BY <3>1, HeardOf, Here DEF Core, Shape, TypeOK
  <2>2. PICK a \in Answers, c \in RejectCodes :
          /\ vendor' = [vendor EXCEPT ![exec[k].req] = VendorEffect(a)]
          /\ Goto(k, [exec[k] EXCEPT !.at = "log", !.answer = a,
                       !.code = CASE a \in {"rejected", "failed"} -> c
                                  [] a = "ingest" -> "ASSET_DOWNLOAD_FAILED"
                                  [] OTHER -> None])
    BY <2>1 DEF Dispatch
  <2>3. exec'[k].answer = a /\ exec'[k].req = exec[k].req
    BY <2>1, <2>2 DEF Goto, ExecType
  <2>4. QED  BY <2>1, <2>2, <2>3 DEF VendorEffect
<1>2. CASE exec'[k] = exec[k]
  <2>1. exec[k].req \in Requests /\ vendor[exec[k].req] = "failed"
    BY <1>2, WorksOn DEF FailureTold, Core, JobSteps
  <2>2. CASE VendorMoves
    BY <1>2, <2>1, <2>2, MovesKeep DEF Core
  <2>3. ASSUME NEW j \in Tokens, Dispatch(j) \/ DispatchUnknown(j)
        PROVE  vendor'[exec[k].req] = vendor[exec[k].req]
    BY <2>1, <2>3, HeardOf DEF Accepted
  <2>4. QED  BY <1>2, <2>1, <2>2, <2>3, VendorNext DEF Core
<1>3. QED  BY <1>1, <1>2

LEMMA RecordStays ==
    ASSUME Core, [Next]_vars, NEW r \in Requests, ledger[r].ext
    PROVE  ledger'[r].ext
<1>1. CASE LedgerQuiet
  BY <1>1 DEF LedgerQuiet
<1>2. ASSUME NEW k \in Tokens, Appends(k) PROVE ledger'[r].ext
  <2>1. exec[k].req # r
    BY <1>2 DEF Appends, Core, NoJobWithoutRow
  <2>2. QED  BY <1>2, <2>1 DEF Appends, Begin, Core, Shape, TypeOK, LedgerType
<1>3. QED  BY <1>1, <1>2, CoreNext DEF Kept

\* The steps at which an execution works on a recorded job.
RecordedSteps == {"save", "discard", "adopt", "mismatch", "poll", "reschedule"}

LEMMA WorksOnRecorded ==
    ASSUME Core, JobsRecorded, [Next]_vars, NEW k \in Tokens, exec'[k].at \in RecordedSteps
    PROVE  exec'[k].req \in Requests /\ ledger'[exec'[k].req].ext
<1> USE DEF RecordedSteps
<1>1. Shape /\ exec[k] \in ExecType
  BY Here DEF Core
<1>2. CASE exec'[k] = exec[k]
  <2>1. exec[k].req \in Requests /\ ledger[exec[k].req].ext
    BY <1>1, <1>2, WorksOn DEF JobsRecorded, JobSteps
  <2>2. QED  BY <1>2, <2>1, RecordStays
<1>3. CASE exec'[k] # exec[k]
  <2>1. \/ LogRunning(k) \/ SaveExternal(k) \/ RecoverAccepted(k) \/ Adopt(k)
        \/ ClaimPoll(k) \/ PollFailed(k)
    BY <1>3, Ways DEF Way, Goes
  <2>2. CASE LogRunning(k)
    <3>1. exec[k].req \in Requests
      BY <1>1, <2>2, WorksOn DEF LogRunning, At, JobSteps
    <3>2. exec'[k].req = exec[k].req
      BY <1>1, <2>2, GoesAt DEF LogRunning
    <3>3. ledger'[exec[k].req].ext
      BY <1>1, <2>2, <3>1 DEF LogRunning, RecordExternal, Shape, TypeOK, LedgerType, RowType
    <3>4. QED  BY <3>1, <3>2, <3>3
  <2>3. CASE SaveExternal(k) \/ Adopt(k) \/ PollFailed(k)
    <3>1. exec[k].at \in {"save", "adopt", "poll"}
      BY <2>3 DEF SaveExternal, Adopt, PollFailed, At
    <3>2. exec[k].req \in Requests /\ ledger[exec[k].req].ext
      BY <1>1, <3>1, WorksOn DEF JobsRecorded, JobSteps
    <3>3. exec'[k].req = exec[k].req
      <4>1. CASE SaveExternal(k) \/ Adopt(k)
        BY <1>1, <4>1, GoesIdle, GoesAt DEF SaveExternal, Adopt, Goes
      <4>2. CASE PollFailed(k)
        <5>1. PICK c \in PollCodes :
                \/ Goto(k, [exec[k] EXCEPT !.at = "reschedule"])
                \/ Goto(k, [FailWith(exec[k], c, FALSE) EXCEPT !.answer = "failed"])
          BY <4>2 DEF PollFailed
        <5>2. [FailWith(exec[k], c, FALSE) EXCEPT !.answer = "failed"].at = "failed"
          BY <1>1, NamedCodes, PollFailTo
        <5>3. Goto(k, [exec[k] EXCEPT !.at = "reschedule"])
          BY <1>1, <5>1, <5>2, GotoAlone
        <5>4. QED  BY <1>1, <5>3, GoesAt
      <4>3. QED  BY <2>3, <4>1, <4>2
    <3>4. QED  BY <3>2, <3>3, RecordStays
  <2>4. CASE RecoverAccepted(k)
    <3>1. PICK r \in Requests :
            /\ AcceptedRow(ledger, exec[k].logical, r)
            /\ Goto(k, [exec[k] EXCEPT !.at = "adopt", !.req = r])
      BY <2>4 DEF RecoverAccepted
    <3>2. exec'[k] = [exec[k] EXCEPT !.at = "adopt", !.req = r]
      BY <1>1, <3>1, GotoAlone
    <3>3. exec'[k].req = r
      BY <1>1, <3>2 DEF ExecType
    <3>4. QED  BY <3>1, <3>3, RecordStays DEF AcceptedRow
  <2>5. CASE ClaimPoll(k)
    <3>1. exec'[k] = [Idle EXCEPT !.at = "poll", !.req = task.req, !.retry = task.retry]
      BY <1>1, <2>5, GotoAlone DEF ClaimPoll
    <3>2. exec'[k].req = task.req
      BY <3>1 DEF Idle
    <3>3. task.req # None /\ task.req \in Requests
      BY <1>1, <2>5 DEF ClaimPoll, MayClaimDuePoll, Shape, TypeOK, TaskType
    <3>4. QED  BY <3>2, <3>3, RecordStays DEF JobsRecorded
  <2>6. QED  BY <2>1, <2>2, <2>3, <2>4, <2>5
<1>4. QED  BY <1>2, <1>3

LEMMA RecordedNext ==
    ASSUME Core, Custody, JobsRecorded, [Next]_vars
    PROVE  JobsRecorded'
<1>1. ASSUME NEW k \in Tokens, exec'[k].at \in RecordedSteps PROVE ledger'[exec'[k].req].ext
  BY <1>1, WorksOnRecorded
<1>2. ASSUME task'.req # None PROVE ledger'[task'.req].ext
  <2>1. CASE task'.req = task.req
    <3>1. task.req \in Requests /\ ledger[task.req].ext
      BY <1>2, <2>1 DEF JobsRecorded, Core, Shape, TypeOK, TaskType
    <3>2. QED  BY <2>1, <3>1, RecordStays
  <2>2. ASSUME NEW k \in Tokens, SaveExternal(k) \/ Adopt(k), task'.req = exec[k].req
        PROVE  ledger'[task'.req].ext
    <3>1. exec[k].req \in Requests /\ ledger[exec[k].req].ext
      BY <2>2, WorksOn DEF SaveExternal, Adopt, At, Core, JobSteps, JobsRecorded
    <3>2. QED  BY <2>2, <3>1, RecordStays
  <2>3. ASSUME NEW i \in Instances, OrphanAttach(i), task'.req = pass[i].req
        PROVE  ledger'[task'.req].ext
    <3>1. pass[i].req \in Requests /\ ledger[pass[i].req].ext
      BY <2>3 DEF OrphanAttach, Core, Shape, PassShape, JobsRecorded
    <3>2. QED  BY <2>3, <3>1, RecordStays
  <2>4. QED  BY <1>2, <2>1, <2>2, <2>3, RowNext DEF RowKeeps
<1>3. ASSUME NEW i \in Instances, pass'[i].at # "idle" PROVE ledger'[pass'[i].req].ext
  <2>1. ASSUME pass[i].at # "idle", pass'[i].req = pass[i].req PROVE ledger'[pass'[i].req].ext
    <3>1. pass[i].req \in Requests /\ ledger[pass[i].req].ext
      BY <2>1 DEF Core, Shape, PassShape, JobsRecorded
    <3>2. QED  BY <2>1, <3>1, RecordStays
  <2>2. ASSUME NEW j \in Instances, NEW r \in Requests, ListOrphan(j, r)
        PROVE  ledger'[pass'[i].req].ext
    <3>1. /\ ledger[r].ext /\ UNCHANGED ledger
          /\ pass' = [pass EXCEPT ![j] = [at |-> "listed", req |-> r, seen |-> task]]
          /\ pass \in [Instances -> PassType]
      BY <2>2 DEF ListOrphan, AcceptedOrphan, SetPass, db, Core, Shape, TypeOK
    <3>2. CASE i = j
      BY <3>1, <3>2
    <3>3. CASE i # j
      BY <1>3, <2>1, <3>1, <3>3
    <3>4. QED  BY <3>2, <3>3
  <2>3. QED  BY <1>3, <2>1, <2>2, PassNext DEF PassKept
<1>4. QED  BY <1>1, <1>2, <1>3 DEF JobsRecorded, RecordedSteps

LEMMA PreflightHopelessNext ==
    ASSUME OneCandidate, Core, PreflightHopeless, [Next]_vars
    PROVE  PreflightHopeless'
<1> SUFFICES ASSUME NEW l \in Logicals, preflight'[l] # None PROVE Hopeless(l)'
  BY DEF PreflightHopeless
<1>1. CASE preflight[l] # None
  BY <1>1, HopelessStays DEF PreflightHopeless
<1>2. CASE preflight[l] = None
  <2>1. PICK k \in Tokens : PreflightFails(k)
    BY <1>2, PreflightNext
  <2>2. preflight \in [Logicals -> Codes \cup {None}]
    BY DEF Core, Shape, TypeOK
  <2>3. exec[k].logical = l
    BY <1>2, <2>1, <2>2 DEF PreflightFails
  <2>4. QED  BY <2>1, <2>3, RefusedHopeless
<1>3. QED  BY <1>1, <1>2

LEMMA RescheduledNext ==
    ASSUME OneCandidate, Core, Custody, RetrySound, [Next]_vars
    PROVE  RescheduledHopeless'
<1> SUFFICES ASSUME NEW k \in Tokens, exec'[k].at = "reschedule"
             PROVE  Hopeless(exec[k].req[1])'
  BY DEF RescheduledHopeless
<1>1. exec'[k].req \in Requests
  BY WorksOnRecorded DEF RecordedSteps, RetrySound
<1>2. CASE exec'[k] = exec[k]
  <2>1. exec[k].req[1] \in Logicals /\ Hopeless(exec[k].req[1])
    BY <1>1, <1>2 DEF Requests, RetrySound, RescheduledHopeless
  <2>2. \A l \in Logicals : Hopeless(l) => Hopeless(l)'
    BY HopelessStays
  <2>3. QED  BY <1>2, <2>1, <2>2
<1>3. CASE exec'[k] # exec[k]
  <2>1. PollFailed(k)
    BY <1>3, Ways DEF Way, Goes
  <2>2. PICK c \in PollCodes :
          \/ Goto(k, [exec[k] EXCEPT !.at = "reschedule"])
          \/ Goto(k, [FailWith(exec[k], c, FALSE) EXCEPT !.answer = "failed"])
    BY <2>1 DEF PollFailed
  <2>3. [FailWith(exec[k], c, FALSE) EXCEPT !.answer = "failed"].at = "failed"
    BY Here, NamedCodes, PollFailTo DEF Core
  <2>4. Goto(k, [exec[k] EXCEPT !.at = "reschedule"])
    BY <2>2, <2>3, GotoAlone DEF Core
  <2>5. exec'[k].req = exec[k].req
    BY <2>4, GoesAt DEF Core
  <2>6. exec[k].req[1] \in Logicals /\ \A l \in Logicals : l = exec[k].req[1] => Hopeless(l)'
    BY <2>1, PolledHopeless DEF Requests
  <2>7. QED  BY <2>5, <2>6
<1>4. QED  BY <1>2, <1>3

\* The rows that a step settles.
Settles(r) == ~Settled(ledger[r]) /\ Settled(ledger'[r])

\* A row settled with this code asks nobody to try again.
Final(row) == row.st = "success" \/ row.code \notin RetryableCodes

FinalOnly == \A r \in Requests : Settles(r) => Final(ledger'[r])

LEMMA FinalizedOnly ==
    ASSUME Shape, NEW q \in Requests, NEW st \in SettledStatuses, NEW c \in Codes \cup {None},
           ledger' = FinalizePending(ledger, q, st, c), NEW r \in Requests, Settles(r)
    PROVE  r = q /\ ledger'[r].st = st /\ ledger'[r].code = c
<1>1. ledger \in LedgerType
  BY DEF Shape, TypeOK
<1>2. ledger[q].st = "pending" /\ r = q
  BY <1>1 DEF FinalizePending, Settles, LedgerType
<1>3. ledger' = [ledger EXCEPT ![q] = [ledger[q] EXCEPT !.st = st, !.code = c]]
  BY <1>1, <1>2 DEF FinalizePending, LedgerType, RowType
<1>4. QED  BY <1>1, <1>2, <1>3 DEF LedgerType, RowType

LEMMA FinalizesFinal ==
    ASSUME Shape, NEW q \in Requests, NEW st \in SettledStatuses, NEW c \in Codes \cup {None},
           ledger' = FinalizePending(ledger, q, st, c),
           st = "success" \/ c \notin RetryableCodes
    PROVE  FinalOnly
BY FinalizedOnly DEF FinalOnly, Final

LEMMA FinalCodesFinal ==
    None \notin RetryableCodes /\ \A c \in FinalCodes : c \notin RetryableCodes
BY ErrorAssumption DEF Codes, RetryableCodes, FinalCodes

LEMMA SettleFinal ==
    ASSUME Shape, NEW st \in SettledStatuses, NEW c \in Codes \cup {None},
           SettleAttached(task, st, c), st = "success" \/ c \notin RetryableCodes
    PROVE  FinalOnly
<1>1. CASE task.req = None
  BY <1>1 DEF SettleAttached, FinalOnly, Settles
<1>2. CASE task.req # None
  <2>1. task.req \in Requests
    BY <1>2 DEF Shape, TypeOK, TaskType
  <2>2. QED  BY <1>2, <2>1, FinalizesFinal DEF SettleAttached
<1>3. QED  BY <1>1, <1>2

\* Nothing is settled: the ledger stays, a row is begun, or a job recorded.
LEMMA UnsettledFinal ==
    ASSUME Core, NEW k \in Tokens,
           \/ UNCHANGED ledger
           \/ exec[k].req \in Requests /\ ledger' = Begin(ledger, exec[k].req)
           \/ exec[k].req \in Requests /\ ledger' = RecordExternal(ledger, exec[k].req)
    PROVE  FinalOnly
<1>1. ledger \in LedgerType
  BY DEF Core, Shape, TypeOK
<1>2. \A r \in Requests : ~Settles(r)
  <2>1. CASE UNCHANGED ledger
    BY <2>1 DEF Settles
  <2>2. CASE exec[k].req \in Requests /\ ledger' = Begin(ledger, exec[k].req)
    BY <1>1, <2>2 DEF Settles, Settled, Begin, LedgerType
  <2>3. CASE exec[k].req \in Requests /\ ledger' = RecordExternal(ledger, exec[k].req)
    BY <1>1, <2>3 DEF Settles, Settled, RecordExternal, LedgerType, RowType
  <2>4. QED  BY <2>1, <2>2, <2>3
<1>3. QED  BY <1>2 DEF FinalOnly

LEMMA InvokeFinal ==
    ASSUME Core, NEW k \in Tokens, Invoke(k),
           ~LogRejected(k), ~LogFailed(k), ~HandleFailed(k)
    PROVE  FinalOnly
<1> USE FinalCodesFinal DEF SettledStatuses, FinalCodes
<1>0. Shape /\ exec[k].code \in Codes \cup {None} /\ "VENDOR_REJECTED" \in Codes /\ "INTERNAL_ERROR" \in Codes
  BY Here, NamedCodes DEF Core, ExecType
<1>1. CASE \/ Start(k) \/ Prepare(k) \/ PrepareMisses(k) \/ Preflight(k) \/ PreflightFails(k)
           \/ Dispatch(k) \/ DispatchUnknown(k) \/ LogFails(k) \/ SaveExternal(k) \/ SucceedThrows(k)
  <2>1. UNCHANGED ledger
    BY <1>1 DEF Start, Prepare, PrepareMisses, Preflight, PreflightFails, Dispatch,
                DispatchUnknown, LogFails, SaveExternal, SucceedThrows, db
  <2>2. QED  BY <2>1, UnsettledFinal
<1>2. CASE BeginAttempt(k) \/ BeginFails(k) \/ LogRunning(k)
  <2>1. exec[k].req \in Requests
    BY <1>0, <1>2, WorksOn DEF BeginAttempt, BeginFails, LogRunning, At, JobSteps
  <2>2. QED
    BY <1>2, <2>1, UnsettledFinal DEF BeginAttempt, BeginFails, LogRunning
<1>3. CASE \/ LogIncomplete(k) \/ LogSuccess(k) \/ LogIngestFailure(k)
           \/ SaveExternalThrows(k) \/ Discard(k)
  <2>1. exec[k].req \in Requests
    BY <1>0, <1>3, WorksOn
       DEF LogIncomplete, LogSuccess, LogIngestFailure, SaveExternalThrows, Discard, At, JobSteps
  <2>2. CASE LogIncomplete(k)
    BY <1>0, <2>1, <2>2, FinalizesFinal DEF LogIncomplete
  <2>3. CASE LogSuccess(k)
    BY <1>0, <2>1, <2>3, FinalizesFinal DEF LogSuccess
  <2>4. CASE LogIngestFailure(k)
    BY <1>0, <2>1, <2>4, FinalizesFinal DEF LogIngestFailure
  <2>5. CASE SaveExternalThrows(k)
    BY <1>0, <2>1, <2>5, FinalizesFinal DEF SaveExternalThrows
  <2>6. CASE Discard(k)
    BY <1>0, <2>1, <2>6, FinalizesFinal DEF Discard
  <2>7. QED  BY <1>3, <2>2, <2>3, <2>4, <2>5, <2>6
<1>4. CASE Succeed(k)
  BY <1>0, <1>4, SettleFinal, UnsettledFinal DEF Succeed, TerminalSucceed
<1>5. QED  BY <1>1, <1>2, <1>3, <1>4 DEF Invoke

LEMMA LaterFinal ==
    ASSUME Core, NEW k \in Tokens,
           Claim(k) \/ Recover(k) \/ Poll(k) \/ Heartbeat(k) \/ Crash(k), ~PollFailed(k)
    PROVE  FinalOnly
<1> USE FinalCodesFinal DEF SettledStatuses
<1>0. Shape
  BY DEF Core
<1>1. CASE \/ Claim(k) \/ RecoverAccepted(k) \/ RecoverSettled(k) \/ RecoverExpired(k)
           \/ RecoverDefers(k) \/ Adopt(k) \/ Heartbeat(k) \/ Crash(k)
  <2>1. UNCHANGED ledger
    BY <1>1 DEF Claim, ClaimInvoke, ClaimPoll, RecoverAccepted, RecoverSettled, RecoverExpired,
                RecoverDefers, Adopt, Heartbeat, Crash, db
  <2>2. QED  BY <2>1, UnsettledFinal
<1>2. CASE \/ PollAgain(k) \/ PollIngestFails(k) \/ PollFailThrows(k) \/ Reschedule(k)
           \/ PollGivesUp(k)
  <2>1. UNCHANGED ledger
    BY <1>2 DEF PollAgain, PollIngestFails, PollFailThrows, Reschedule, PollGivesUp, db
  <2>2. QED  BY <2>1, UnsettledFinal
<1>3. CASE AdoptMissed(k)
  <2>1. exec[k].req \in Requests
    BY <1>0, <1>3, WorksOn DEF AdoptMissed, At, JobSteps
  <2>2. QED
    BY <1>0, <1>3, <2>1, FinalizesFinal, UnsettledFinal DEF AdoptMissed, Compensate
<1>4. CASE PollSucceeded(k)
  BY <1>0, <1>4, SettleFinal, UnsettledFinal DEF PollSucceeded, TerminalSucceed
<1>5. QED  BY <1>1, <1>2, <1>3, <1>4 DEF Recover, Poll

LEMMA OthersFinal ==
    ASSUME Core, Custody,
           \/ \E i \in Instances :
                ActOnOrphan(i) \/ CrashPass(i) \/ \E r \in Requests : ListOrphan(i, r)
           \/ \E r \in Requests : Sweep(r)
           \/ Owner \/ LeaseExpires \/ Stall \/ UNCHANGED vars
    PROVE  FinalOnly
<1> USE FinalCodesFinal DEF SettledStatuses
<1>0. Shape
  BY DEF Core
<1>1. ASSUME UNCHANGED ledger PROVE FinalOnly
  BY <1>1 DEF FinalOnly, Settles
<1>2. ASSUME NEW i \in Instances,
             ActOnOrphan(i) \/ CrashPass(i) \/ \E r \in Requests : ListOrphan(i, r)
      PROVE  FinalOnly
  <2>1. CASE OrphanAttached(i)
    BY <1>1, <2>1 DEF OrphanAttached, Custody, SeenUnfinished
  <2>2. CASE OrphanCompensate(i)
    <3>1. pass[i].req \in Requests
      BY <1>0, <2>2 DEF OrphanCompensate, Shape, PassShape
    <3>2. QED  BY <1>0, <2>2, <3>1, FinalizesFinal DEF OrphanCompensate, Compensate
  <2>3. CASE \/ OrphanOwned(i) \/ OrphanAttach(i) \/ OrphanMissed(i) \/ OrphanForeign(i)
             \/ OrphanCompensateFails(i) \/ CrashPass(i) \/ \E r \in Requests : ListOrphan(i, r)
    BY <1>1, <2>3 DEF OrphanOwned, OrphanAttach, OrphanMissed, OrphanForeign,
                      OrphanCompensateFails, CrashPass, ListOrphan, db
  <2>4. QED  BY <1>2, <2>1, <2>2, <2>3 DEF ActOnOrphan
<1>3. ASSUME NEW r \in Requests, Sweep(r) PROVE FinalOnly
  BY <1>0, <1>3, FinalizesFinal DEF Sweep, Abandon, SweepDetached, DetachedStatus
<1>4. CASE Owner
  <2>1. CASE Cancel
    BY <1>0, <2>1, SettleFinal DEF Cancel
  <2>2. CASE RetryCheck \/ RetryUpdate
    BY <1>1, <2>2 DEF RetryCheck, RetryUpdate, db
  <2>3. QED  BY <1>4, <2>1, <2>2 DEF Owner
<1>5. CASE LeaseExpires \/ Stall \/ UNCHANGED vars
  BY <1>1, <1>5 DEF LeaseExpires, Stall, vars
<1>6. QED  BY <1>2, <1>3, <1>4, <1>5

\* A row that is settled with a code that allows a retry is of a hopeless
\* invocation, or ends the Task.
LEMMA NewlySettled ==
    ASSUME OneCandidate, Core, Custody, RetrySound, [Next]_vars,
           NEW r \in Requests, Settles(r), ~Final(ledger'[r]),
           NEW l \in Logicals, l = r[1]
    PROVE  Hopeless(l)' \/ task'.status \in Terminal
<1>1. Shape /\ ledger \in LedgerType /\ task \in TaskType
  BY DEF Core, Shape, TypeOK
<1>2. \/ \E k \in Tokens : LogRejected(k) \/ LogFailed(k) \/ HandleFailed(k) \/ PollFailed(k)
      \/ FinalOnly
  <2>1. ASSUME NEW k \in Tokens, Claim(k) \/ Work(k) \/ Heartbeat(k) \/ Crash(k)
        PROVE  LogRejected(k) \/ LogFailed(k) \/ HandleFailed(k) \/ PollFailed(k) \/ FinalOnly
    BY <2>1, InvokeFinal, LaterFinal DEF Work
  <2>2. QED  BY <2>1, OthersFinal DEF Next
<1>3. ASSUME NEW k \in Tokens, LogRejected(k) \/ LogFailed(k) PROVE Hopeless(l)'
  <2>1. exec[k].at = "log"
    BY <1>3 DEF LogRejected, LogFailed, At
  <2>2. /\ exec[k].code \in Codes \cup {None}
        /\ exec[k].req \in Requests /\ exec[k].req[1] = exec[k].logical
    BY <1>1, <2>1, Here, Loop DEF ExecType, Dispatching, DispatchSteps
  <2>3. r = exec[k].req
    BY <1>1, <1>3, <2>2, FinalizedOnly DEF LogRejected, LogFailed, SettledStatuses
  <2>4. QED
    BY <1>3, <2>2, <2>3, RefusedHopeless, ToldHopeless DEF RetrySound
<1>4. ASSUME NEW k \in Tokens, PollFailed(k) PROVE Hopeless(l)'
  <2>1. exec[k].req \in Requests /\ \A m \in Logicals : m = exec[k].req[1] => Hopeless(m)'
    BY <1>4, PolledHopeless
  <2>2. PICK c \in PollCodes :
          UNCHANGED ledger \/ ledger' = FinalizePending(ledger, exec[k].req, "error", c)
    BY <1>4 DEF PollFailed
  <2>3. r = exec[k].req
    BY <1>1, <2>1, <2>2, NamedCodes, FinalizedOnly DEF Settles, SettledStatuses
  <2>4. QED  BY <2>1, <2>3
<1>5. ASSUME NEW k \in Tokens, HandleFailed(k) PROVE task'.status \in Terminal
  <2>1. ledger' # ledger
    BY DEF Settles
  <2>2. task' = Finish(task, "failed", exec[k].code)
    BY <1>5, <2>1 DEF HandleFailed, TerminalFail
  <2>3. QED  BY <1>1, <2>2 DEF Finish, TaskType, Terminal
<1>6. QED  BY <1>2, <1>3, <1>4, <1>5 DEF FinalOnly

LEMMA RowsHopelessNext ==
    ASSUME OneCandidate, Core, Custody, RetrySound, [Next]_vars
    PROVE  RowsHopeless'
<1> SUFFICES ASSUME NEW r \in Requests, Settled(ledger'[r]), ~Final(ledger'[r]),
                    NEW l \in Logicals, l = r[1]
             PROVE  Hopeless(l)' \/ task'.logical # l \/ task'.status \in Terminal
  BY DEF RowsHopeless, Final, Requests
<1>1. CASE ~Settled(ledger[r])
  BY <1>1, NewlySettled DEF Settles
<1>2. CASE Settled(ledger[r])
  <2>1. ledger'[r] = ledger[r]
    BY <1>2, SettledStays
  <2>2. Hopeless(l) \/ task.logical # l \/ task.status \in Terminal
    BY <1>2, <2>1 DEF RetrySound, RowsHopeless, Final
  <2>3. CASE Hopeless(l)
    BY <2>3, HopelessStays
  <2>4. CASE task.logical # l
    <3>1. key[l] # 0
      BY <1>2 DEF Core, FreshUntouched, Settled
    <3>2. CASE task'.logical \in {None, task.logical}
      BY <2>4, <3>2, NoneAssumption
    <3>3. ASSUME NEW k \in Tokens, Prepare(k) PROVE task'.logical # l
      <4>1. PICK m \in Logicals :
              /\ task' = [task EXCEPT !.logical = m]
              /\ key[m] = 0 \/ task.logical = m
        BY <3>3, PrepareGoes
      <4>2. task'.logical = m
        BY <4>1 DEF Core, Shape, TypeOK, TaskType
      <4>3. QED  BY <2>4, <3>1, <4>1, <4>2
    <3>4. QED  BY <3>2, <3>3, RowNext DEF RowKeeps
  <2>5. CASE task.status \in Terminal
    <3>1. task'.logical = None \/ task'.status = task.status
      BY <2>5, RowNext DEF RowKeeps
    <3>2. QED  BY <2>5, <3>1, NoneAssumption
  <2>6. QED  BY <2>2, <2>3, <2>4, <2>5
<1>3. QED  BY <1>1, <1>2

(***************************************************************************)
(* The holder that may retry.                                              *)
(***************************************************************************)
LEMMA RecoveredHopeless ==
    ASSUME Core, Custody, RetrySound, NEW k \in Tokens, RecoverSettled(k), task.lease = k,
           NEW c \in RecoveredCodes(exec[k].logical), c \in RetryableCodes
    PROVE  Hopeless(exec[k].logical)
<1>1. exec[k].at = "recover" /\ exec[k].logical \in Logicals
  BY Here DEF RecoverSettled, At, Core, Shaped
<1>2. task.logical = exec[k].logical /\ task.status = "running"
  BY <1>1 DEF Custody, HolderKnows, InvocationSteps, RetrySound, HolderRuns
<1>3. CASE \E r \in Requests : /\ Newest(ledger, exec[k].logical, r) /\ Settled(ledger[r])
                               /\ c = RowCode(ledger[r])
  <2>1. PICK r \in Requests : /\ Newest(ledger, exec[k].logical, r) /\ Settled(ledger[r])
                              /\ c = RowCode(ledger[r])
    BY <1>3
  <2>2. r[1] = exec[k].logical
    BY <2>1 DEF Newest, RowsOf
  <2>3. ledger[r].st # "success" /\ ledger[r].code \in RetryableCodes
    BY <2>1 DEF RowCode, RetryableCodes
  <2>4. QED
    BY <1>2, <2>1, <2>2, <2>3 DEF RetrySound, RowsHopeless, Terminal
<1>4. CASE c \in {preflight[exec[k].logical]} \ {None}
  BY <1>1, <1>4 DEF RetrySound, PreflightHopeless
<1>5. QED  BY <1>3, <1>4 DEF RecoveredCodes

\* An execution that has just failed, and asks for a retry.
LEMMA FailedHopeless ==
    ASSUME OneCandidate, Core, Custody, RetrySound, [Next]_vars,
           NEW k \in Tokens, Failing(k), Goes(k, "failed"), exec'[k].again, task.lease = k
    PROVE  /\ exec[k].logical \in Logicals /\ exec'[k].logical = exec[k].logical
           /\ task.logical = exec[k].logical /\ UNCHANGED task
           /\ \A l \in Logicals :
                l = exec[k].logical /\ exec'[k].code \in RetryableCodes => Hopeless(l)'
<1>0. Shape /\ exec[k] \in ExecType /\ Shaped(exec[k])
  BY Here DEF Core
<1> DEFINE Told ==
             \A l \in Logicals :
                l = exec[k].logical /\ exec'[k].code \in RetryableCodes => Hopeless(l)'
<1>1. CASE PreflightFails(k) \/ LogRejected(k) \/ LogFailed(k)
  <2>1. /\ exec'[k].logical = exec[k].logical /\ exec[k].at \in DispatchSteps /\ Told
    BY <1>1, RefusedHopeless, ToldHopeless DEF RetrySound
  <2>2. UNCHANGED task
    BY <1>1 DEF PreflightFails, LogRejected, LogFailed
  <2>3. QED
    BY <1>0, <2>1, <2>2 DEF Shaped, Custody, HolderKnows, InvocationSteps
<1>2. CASE \/ BeginFails(k) \/ DispatchUnknown(k) \/ LogIncomplete(k) \/ LogFails(k)
           \/ SaveExternalThrows(k) \/ SucceedThrows(k) \/ RecoverExpired(k)
  <2>1. \E c \in FinalCodes : Goto(k, FailWith(exec[k], c, TRUE))
    BY <1>2 DEF BeginFails, DispatchUnknown, LogIncomplete, LogFails, LogFailureCodes,
                SaveExternalThrows, SucceedThrows, RecoverExpired, FinalCodes
  <2>2. exec'[k].logical = exec[k].logical /\ exec'[k].code \notin RetryableCodes
    BY ZenonT(30), <1>0, <2>1, GoesFailed, FinalCodesFinal DEF Ends
  <2>3. UNCHANGED task
    BY <1>2 DEF BeginFails, DispatchUnknown, LogIncomplete, LogFails, SaveExternalThrows,
                SucceedThrows, RecoverExpired, db
  <2>4. exec[k].at \in InvocationSteps
    BY <1>2 DEF BeginFails, DispatchUnknown, LogIncomplete, LogFails, SaveExternalThrows,
                SucceedThrows, RecoverExpired, Undetermined, At, InvocationSteps, DispatchSteps
  <2>5. exec[k].logical \in Logicals
    <3>1. CASE exec[k].at = "succeed"
      BY <3>1 DEF Custody, ResultsEarned, Earned, Requests
    <3>2. CASE exec[k].at # "succeed"
      BY <1>0, <2>4, <3>2 DEF Shaped, InvocationSteps, JobSteps
    <3>3. QED  BY <3>1, <3>2
  <2>6. QED  BY <2>2, <2>3, <2>4, <2>5 DEF Custody, HolderKnows
<1>3. CASE RecoverSettled(k)
  <2>1. PICK c \in RecoveredCodes(exec[k].logical) : Goto(k, FailWith(exec[k], c, TRUE))
    BY <1>3 DEF RecoverSettled
  <2>2. exec'[k].logical = exec[k].logical /\ exec'[k].code = c
    BY ZenonT(30), <1>0, <2>1, GoesFailed DEF Ends
  <2>3. exec[k].at = "recover" /\ UNCHANGED task
    BY <1>3 DEF RecoverSettled, At, db
  <2>4. exec[k].logical \in Logicals /\ task.logical = exec[k].logical
    BY <1>0, <2>3 DEF Shaped, Custody, HolderKnows, InvocationSteps
  <2>5. c \in RetryableCodes => Hopeless(exec[k].logical)
    BY <1>3, RecoveredHopeless
  <2>6. Told
    BY <2>2, <2>4, <2>5, HopelessStays
  <2>7. QED  BY <2>2, <2>3, <2>4, <2>6
<1>4. CASE LogIngestFailure(k) \/ PollGivesUp(k)
  BY <1>0, <1>4, GoesFailed DEF LogIngestFailure, PollGivesUp, Ends
<1>5. CASE PollFailed(k)
  <2>1. PICK c \in PollCodes :
          \/ Goto(k, [exec[k] EXCEPT !.at = "reschedule"])
          \/ Goto(k, [FailWith(exec[k], c, FALSE) EXCEPT !.answer = "failed"])
    BY <1>5 DEF PollFailed
  <2>2. CASE Goto(k, [exec[k] EXCEPT !.at = "reschedule"])
    BY <1>0, <2>2, GoesAt DEF Goes
  <2>3. CASE Goto(k, [FailWith(exec[k], c, FALSE) EXCEPT !.answer = "failed"])
    <3>1. exec'[k] = [FailWith(exec[k], c, FALSE) EXCEPT !.answer = "failed"]
      BY <1>0, <2>3, GotoAlone
    <3>2. ~exec'[k].again
      BY <1>0, <3>1 DEF FailWith, ExecType
    <3>3. QED  BY <3>2
  <2>4. QED  BY <2>1, <2>2, <2>3
<1>6. QED  BY <1>1, <1>2, <1>3, <1>4, <1>5 DEF Failing

LEMMA FailingKeepsRow ==
    ASSUME NEW k \in Tokens, Failing(k)
    PROVE  UNCHANGED task
<1>1. CASE \/ PreflightFails(k) \/ BeginFails(k) \/ DispatchUnknown(k)
           \/ LogRejected(k) \/ LogIncomplete(k) \/ LogFailed(k) \/ LogIngestFailure(k)
  BY <1>1 DEF PreflightFails, BeginFails, DispatchUnknown, LogRejected, LogIncomplete,
              LogFailed, LogIngestFailure, db
<1>2. CASE \/ LogFails(k) \/ SaveExternalThrows(k) \/ SucceedThrows(k)
           \/ RecoverSettled(k) \/ RecoverExpired(k) \/ PollFailed(k) \/ PollGivesUp(k)
  BY <1>2 DEF LogFails, SaveExternalThrows, SucceedThrows, RecoverSettled, RecoverExpired,
              PollFailed, PollGivesUp, db
<1>3. QED  BY <1>1, <1>2 DEF Failing

\* An execution that stays where it is keeps the lease only of the row it knew.
LEMMA WaitsOnRow ==
    ASSUME Core, [Next]_vars, NEW k \in Tokens, task'.lease = k, exec'[k] = exec[k],
           exec[k].at \in {"failed", "reschedule"}
    PROVE  task.lease = k /\ task'.logical = task.logical /\ task'.req = task.req
<1>1. CASE RowHolds
  BY <1>1, NoneAssumption DEF RowHolds
<1>2. CASE \E j \in Tokens : Claim(j) \/ (Start(j) /\ MayStart(task, j)) \/ Prepare(j)
  BY <1>2, ClaimHolds, ClaimGoes DEF Core
<1>3. QED  BY <1>1, <1>2, HolderNext DEF Core

LEMMA RetriesNext ==
    ASSUME OneCandidate, Core, Custody, RetrySound, [Next]_vars
    PROVE  HolderRetries'
<1> SUFFICES ASSUME NEW k \in Tokens, task'.lease = k
             PROVE  /\ exec'[k].at = "failed" /\ exec'[k].again =>
                          /\ exec'[k].logical \in Logicals /\ task'.logical = exec'[k].logical
                          /\ exec'[k].code \in RetryableCodes => Hopeless(exec[k].logical)'
                    /\ exec'[k].at = "reschedule" => task'.req = exec'[k].req
  BY DEF HolderRetries
<1>1. ASSUME exec'[k].at = "failed", exec'[k].again
      PROVE  /\ exec'[k].logical \in Logicals /\ task'.logical = exec'[k].logical
             /\ exec'[k].code \in RetryableCodes => Hopeless(exec[k].logical)'
  <2>1. CASE exec'[k] = exec[k]
    <3>1. task.lease = k /\ task'.logical = task.logical
      BY <1>1, <2>1, WaitsOnRow
    <3>2. /\ exec[k].logical \in Logicals /\ task.logical = exec[k].logical
          /\ exec[k].code \in RetryableCodes => Hopeless(exec[k].logical)
      BY <1>1, <2>1, <3>1 DEF RetrySound, HolderRetries
    <3>3. \A l \in Logicals : Hopeless(l) => Hopeless(l)'
      BY HopelessStays
    <3>4. QED  BY <2>1, <3>1, <3>2, <3>3
  <2>2. CASE exec'[k] # exec[k]
    <3>1. Goes(k, "failed") /\ Failing(k)
      BY <1>1, <2>2, Ways DEF Way, Goes
    <3>2. task.lease = k
      BY <3>1, FailingKeepsRow
    <3>3. /\ exec[k].logical \in Logicals /\ exec'[k].logical = exec[k].logical
          /\ task.logical = exec[k].logical /\ UNCHANGED task
          /\ \A l \in Logicals :
               l = exec[k].logical /\ exec'[k].code \in RetryableCodes => Hopeless(l)'
      BY <1>1, <3>1, <3>2, FailedHopeless
    <3>4. QED  BY <3>3
  <2>3. QED  BY <2>1, <2>2
<1>2. ASSUME exec'[k].at = "reschedule"
      PROVE  task'.req = exec'[k].req
  <2>1. CASE exec'[k] = exec[k]
    BY <1>2, <2>1, WaitsOnRow DEF RetrySound, HolderRetries
  <2>2. CASE exec'[k] # exec[k]
    <3>1. PollFailed(k)
      BY <1>2, <2>2, Ways DEF Way, Goes
    <3>2. UNCHANGED task /\ exec[k].at = "poll"
      BY <3>1 DEF PollFailed, At
    <3>3. PICK c \in PollCodes :
            \/ Goto(k, [exec[k] EXCEPT !.at = "reschedule"])
            \/ Goto(k, [FailWith(exec[k], c, FALSE) EXCEPT !.answer = "failed"])
      BY <3>1 DEF PollFailed
    <3>4. [FailWith(exec[k], c, FALSE) EXCEPT !.answer = "failed"].at = "failed"
      BY Here, NamedCodes, PollFailTo DEF Core
    <3>5. Shape
      BY DEF Core
    <3>6. ASSUME Goto(k, [exec[k] EXCEPT !.at = "reschedule"])
          PROVE  exec'[k].req = exec[k].req
      BY <3>5, <3>6, GoesAt
    <3>7. ASSUME Goto(k, [FailWith(exec[k], c, FALSE) EXCEPT !.answer = "failed"])
          PROVE  FALSE
      <4>1. exec'[k] = [FailWith(exec[k], c, FALSE) EXCEPT !.answer = "failed"]
        BY <3>5, <3>7, GotoAlone
      <4>2. QED  BY <1>2, <3>4, <4>1
    <3>8. exec'[k].req = exec[k].req
      BY <3>3, <3>6, <3>7
    <3>9. QED  BY <3>2, <3>8 DEF Custody, HolderKnows
  <2>3. QED  BY <2>1, <2>2
<1>3. QED  BY <1>1, <1>2

LEMMA RetrySoundInit == Init => RetrySound
<1> SUFFICES ASSUME Init  PROVE RetrySound
  OBVIOUS
<1>1. /\ task.lease = None /\ task.req = None
      /\ \A k \in Tokens : exec[k].at = "idle"
      /\ \A i \in Instances : pass[i].at = "idle"
      /\ \A r \in Requests : ledger[r].st = "absent"
      /\ \A l \in Logicals : preflight[l] = None
  BY DEF Init, NewTask, Idle, NoPass, EmptyLedger, NoRow
<1>2. QED
  BY <1>1, NoneAssumption DEF RetrySound, HolderRuns, HolderRetries, RescheduledHopeless,
     LoopStartsFresh, FailureTold, JobsRecorded, RowsHopeless, PreflightHopeless, Settled

LEMMA RetrySoundNext ==
    ASSUME OneCandidate, Core, Custody, RetrySound, [Next]_vars
    PROVE  RetrySound'
<1>1. HolderRuns' /\ LoopStartsFresh' /\ FailureTold' /\ JobsRecorded'
  BY RunsNext, FreshNext, ToldNext, RecordedNext DEF RetrySound
<1>2. HolderRetries' /\ RescheduledHopeless' /\ RowsHopeless' /\ PreflightHopeless'
  BY RetriesNext, RescheduledNext, RowsHopelessNext, PreflightHopelessNext DEF RetrySound
<1>3. QED  BY <1>1, <1>2 DEF RetrySound

\* Whoever decides to retry an invocation knows that the vendor does not work on
\* it: what the automatic retries of handleFailed and the poller rest on.
LEMMA RetrySoundCorrect ==
    ASSUME OneCandidate
    PROVE  Spec => []RetrySound
<1>1. Core /\ Custody /\ RetrySound /\ [Next]_vars => RetrySound'
  BY RetrySoundNext
<1>2. QED
  BY <1>1, RetrySoundInit, CoreCorrect, CustodyCorrect, PTL DEF Spec

(***************************************************************************)
(* What a step does to the outcomes.                                       *)
(***************************************************************************)
Fate(n, v) ==
    IF n = 0 THEN "unopened"
    ELSE IF v \notin Accepted THEN "open"
    ELSE IF v \in Promising THEN "taken" ELSE "ended"

\* With one candidate the outcome of an invocation is that of its only attempt.
LEMMA OutcomeIsFate ==
    ASSUME OneCandidate
    PROVE  /\ \A l \in Logicals : <<l, 1>> \in Requests
           /\ Outcome = [l \in Logicals |-> Fate(key[l], vendor[<<l, 1>>])]
           /\ Outcome' = [l \in Logicals |-> Fate(key'[l], vendor'[<<l, 1>>])]
<1>1. \A l \in Logicals : <<l, 1>> \in Requests /\ \A r \in Requests : r[1] = l => r = <<l, 1>>
  BY OneRow DEF Requests, Attempts, OneCandidate
<1>2. \A l \in Logicals : \A r :
        r \in Taken(l) <=> r = <<l, 1>> /\ vendor[<<l, 1>>] \in Accepted
  BY <1>1 DEF Taken
<1>3. \A l \in Logicals : \A r :
        r \in Taken(l)' <=> r = <<l, 1>> /\ vendor'[<<l, 1>>] \in Accepted
  BY <1>1 DEF Taken
<1>4. \A l \in Logicals :
        (IF key[l] = 0 THEN "unopened"
         ELSE IF Taken(l) = {} THEN "open"
         ELSE IF \E r \in Taken(l) : vendor[r] \in {"failed", "cancelled"}
         THEN "ended" ELSE "taken") = Fate(key[l], vendor[<<l, 1>>])
  BY <1>2 DEF Fate, Accepted, Promising
<1>5. \A l \in Logicals :
        (IF key'[l] = 0 THEN "unopened"
         ELSE IF Taken(l)' = {} THEN "open"
         ELSE IF \E r \in Taken(l)' : vendor'[r] \in {"failed", "cancelled"}
         THEN "ended" ELSE "taken") = Fate(key'[l], vendor'[<<l, 1>>])
  BY <1>3 DEF Fate, Accepted, Promising
<1>6. QED  BY <1>1, <1>4, <1>5 DEF Outcome

LEMMA OutcomeFrame ==
    ASSUME OneCandidate, UNCHANGED key, UNCHANGED vendor
    PROVE  UNCHANGED Outcome
BY OutcomeIsFate

\* What the vendor has heard of has been drawn.
LEMMA HeardDrawn ==
    ASSUME Core, NEW r \in Requests, vendor[r] # "none"
    PROVE  r[1] \in Logicals /\ key[r[1]] # 0
<1>1. r[1] \in Logicals
  BY DEF Requests
<1>2. QED  BY <1>1 DEF Core, LedgerBeforeDispatch, FreshUntouched

\* The only attempt of an invocation is what its row is about.
LEMMA OnlyAttempt ==
    ASSUME OneCandidate, NEW r \in Requests
    PROVE  r[1] \in Logicals /\ r = <<r[1], 1>>
BY OneRow DEF Requests, Attempts

LEMMA PromisingTaken ==
    ASSUME OneCandidate, Core, NEW r \in Requests, vendor[r] \in Promising
    PROVE  r[1] \in Logicals /\ Outcome[r[1]] = "taken"
<1>1. r[1] \in Logicals /\ key[r[1]] # 0 /\ r = <<r[1], 1>>
  BY HeardDrawn, OnlyAttempt DEF Promising
<1>2. QED  BY <1>1, OutcomeIsFate DEF Fate, Promising, Accepted

LEMMA HopelessNotTaken ==
    ASSUME OneCandidate, NEW l \in Logicals, Hopeless(l)
    PROVE  Outcome[l] # "taken"
<1>1. <<l, 1>> \in Requests /\ <<l, 1>>[1] = l
  BY OutcomeIsFate
<1>2. vendor[<<l, 1>>] \notin Promising
  BY <1>1 DEF Hopeless
<1>3. QED  BY <1>2, OutcomeIsFate DEF Fate

LEMMA VendorOutcome ==
    ASSUME OneCandidate, Core, UNCHANGED key, VendorMoves
    PROVE  OutcomeMoves
<1>1. CASE UNCHANGED vendor
  BY <1>1, OutcomeFrame DEF OutcomeMoves
<1>2. CASE JobMoves
  <2>1. PICK r \in Requests, s \in Accepted :
          vendor[r] \in Promising /\ vendor' = [vendor EXCEPT ![r] = s]
    BY <1>2 DEF JobMoves
  <2>2. r[1] \in Logicals /\ Outcome[r[1]] = "taken" /\ r = <<r[1], 1>>
    BY <2>1, PromisingTaken, OnlyAttempt
  <2>3. key[r[1]] # 0
    BY <2>1, HeardDrawn DEF Promising
  <2>4. \A l \in Logicals \ {r[1]} : vendor'[<<l, 1>>] = vendor[<<l, 1>>]
    BY <2>1, <2>2
  <2>5. vendor'[<<r[1], 1>>] = s
    BY <2>1, <2>2 DEF Core, Shape, TypeOK
  <2>6. CASE s \in Promising
    <3>1. Fate(key[r[1]], s) = "taken"
      BY <2>3, <2>6 DEF Fate, Promising, Accepted
    <3>2. \A l \in Logicals : Fate(key'[l], vendor'[<<l, 1>>]) = Outcome[l]
      BY ZenonT(30), <2>2, <2>4, <2>5, <3>1, OutcomeIsFate
    <3>3. UNCHANGED Outcome
      BY <3>2, OutcomeIsFate
    <3>4. QED  BY <3>3 DEF OutcomeMoves
  <2>7. CASE s \notin Promising
    <3>1. Fate(key[r[1]], s) = "ended"
      BY <2>1, <2>3, <2>7 DEF Fate
    <3>2. \A l \in Logicals :
            Fate(key'[l], vendor'[<<l, 1>>]) = [Outcome EXCEPT ![r[1]] = "ended"][l]
      BY <2>2, <2>4, <2>5, <3>1, OutcomeIsFate
    <3>3. Outcome' = [Outcome EXCEPT ![r[1]] = "ended"]
      BY <3>2, OutcomeIsFate
    <3>4. QED  BY <2>2, <3>3 DEF OutcomeMoves
  <2>8. QED  BY <2>6, <2>7
<1>3. QED  BY <1>1, <1>2 DEF VendorMoves

(***************************************************************************)
(* Steps map to steps.                                                     *)
(***************************************************************************)
LEMMA PrepareMaps ==
    ASSUME OneCandidate, Core, NEW k \in Tokens, Prepare(k)
    PROVE  [Machine!Next]_(Machine!vars)
<1>1. PICK l \in Logicals :
        /\ task' = [task EXCEPT !.logical = l] /\ key' = [key EXCEPT ![l] = task.attempt]
        /\ task.lease = k /\ task.status = "running" /\ task.attempt # 0
        /\ \/ key[l] = 0 /\ task.logical = None
           \/ task.logical = l /\ key[l] = task.attempt
  BY PrepareGoes
<1>2. UNCHANGED vendor
  BY DEF Prepare
<1>3. task'.status = task.status /\ task'.logical = l
  BY <1>1 DEF Core, Shape, TypeOK, TaskType
<1>4. CASE key[l] = 0 /\ task.logical = None
  <2>1. vendor[<<l, 1>>] = "none"
    BY <1>4, HeardDrawn, OutcomeIsFate
  <2>2. key'[l] # 0 /\ \A m \in Logicals \ {l} : key'[m] = key[m]
    BY <1>1 DEF Core, Shape, TypeOK
  <2>3. Outcome[l] = "unopened"
    BY <1>4, OutcomeIsFate DEF Fate
  <2>4. Fate(key'[l], vendor'[<<l, 1>>]) = "open"
    BY <1>2, <2>1, <2>2 DEF Fate, Accepted
  <2>5. \A m \in Logicals : Fate(key'[m], vendor'[<<m, 1>>]) = [Outcome EXCEPT ![l] = "open"][m]
    BY <1>2, <2>2, <2>4, OutcomeIsFate
  <2>6. Outcome' = [Outcome EXCEPT ![l] = "open"]
    BY <2>5, OutcomeIsFate
  <2>7. QED  BY <1>1, <1>3, <1>4, <2>3, <2>6, OpenMaps
<1>5. CASE task.logical = l /\ key[l] = task.attempt
  <2>1. UNCHANGED key
    BY <1>1, <1>5 DEF Core, Shape, TypeOK
  <2>2. UNCHANGED Outcome
    BY <1>2, <2>1, OutcomeFrame
  <2>3. QED  BY <1>3, <1>5, <2>2, StutterMaps
<1>6. QED  BY <1>1, <1>4, <1>5

LEMMA DispatchMaps ==
    ASSUME OneCandidate, Core, [Next]_vars, NEW k \in Tokens, Dispatch(k) \/ DispatchUnknown(k)
    PROVE  [Machine!Next]_(Machine!vars)
<1> DEFINE r == exec[k].req
           l == exec[k].logical
<1>1. /\ r \in Requests /\ r[1] = l /\ l \in Logicals /\ vendor[r] \notin Accepted
      /\ \A q \in Requests \ {r} : vendor'[q] = vendor[q]
  BY HeardOf
<1>2. key[l] # 0 /\ r = <<l, 1>>
  BY <1>1, Drawn, OnlyAttempt
<1>3. UNCHANGED task /\ UNCHANGED key
  BY DEF Dispatch, DispatchUnknown, db
<1>4. Outcome[l] = "open"
  BY <1>1, <1>2, OutcomeIsFate DEF Fate
<1> HIDE DEF r, l
<1>5. \A m \in Logicals \ {l} : Fate(key'[m], vendor'[<<m, 1>>]) = Outcome[m]
  <2> SUFFICES ASSUME NEW m \in Logicals \ {l}
               PROVE  Fate(key'[m], vendor'[<<m, 1>>]) = Outcome[m]
    OBVIOUS
  <2>1. <<m, 1>> \in Requests \ {r}
    BY <1>2, OutcomeIsFate
  <2>2. vendor'[<<m, 1>>] = vendor[<<m, 1>>]
    BY <1>1, <2>1
  <2>3. QED  BY <1>3, <2>2, OutcomeIsFate
<1>6. Fate(key'[l], vendor'[<<l, 1>>]) \in {"open", "taken", "ended"}
  BY <1>1, <1>2, <1>3 DEF Fate
<1>7. Outcome' \in {Outcome, [Outcome EXCEPT ![l] = "taken"], [Outcome EXCEPT ![l] = "ended"]}
  <2>1. \A o : Fate(key'[l], vendor'[<<l, 1>>]) = o => Outcome' = [Outcome EXCEPT ![l] = o]
    BY <1>1, <1>5, OutcomeIsFate
  <2>2. [Outcome EXCEPT ![l] = "open"] = Outcome
    BY <1>1, <1>4, OutcomeIsFate
  <2>3. QED  BY <1>6, <2>1, <2>2
<1>8. QED  BY <1>1, <1>3, <1>4, <1>7, TakeMaps, StutterMaps

(***************************************************************************)
(* The row of all other steps.                                             *)
(***************************************************************************)
\* The table of the state machine, as far as the statements use it.
LEMMA TableAllows ==
    ASSUME NEW s, NEW t,
           \/ s = t
           \/ s = "pending" /\ t \in {"queued", "cancelled"}
           \/ s = "queued" /\ t \in {"running", "cancelled", "failed"}
           \/ s = "running" /\ t \in {"succeeded", "failed", "cancelled", "queued"}
    PROVE  t \in Machine!Allowed[s] \cup {s}
BY DEF Machine!Allowed

LEMMA TakingMoves ==
    ASSUME Core, NEW k \in Tokens, Claim(k) \/ (Start(k) /\ MayStart(task, k))
    PROVE  StatusMoves
<1>1. CASE ClaimInvoke(k)
  <2>1. /\ task.status \in {"pending", "queued", "running"}
        /\ task'.status = "queued" /\ task'.logical = task.logical
    BY <1>1 DEF ClaimInvoke, MayClaimPending, ClaimPending, Core, Shape, TypeOK, TaskType
  <2>2. QED  BY <2>1, TableAllows DEF StatusMoves
<1>2. CASE ClaimPoll(k)
  <2>1. /\ task.status = "running"
        /\ task'.status = "running" /\ task'.logical = task.logical
    BY <1>2 DEF ClaimPoll, MayClaimDuePoll, ClaimDuePoll, Core, Shape, TypeOK, TaskType
  <2>2. QED  BY <2>1, TableAllows DEF StatusMoves
<1>3. CASE Start(k) /\ MayStart(task, k)
  <2>1. /\ task.status = "queued"
        /\ task'.status = "running" /\ task'.logical = task.logical
    BY <1>3 DEF Start, MayStart, StartClaimed, Core, Shape, TypeOK, TaskType
  <2>2. QED  BY <2>1, TableAllows DEF StatusMoves
<1>4. QED  BY <1>1, <1>2, <1>3 DEF Claim

LEMMA AttachMoves ==
    ASSUME Core, NEW r, Attaches(r)
    PROVE  StatusMoves
<1>1. /\ task.status \in {"queued", "running"}
      /\ task'.status \in {task.status, "running"} /\ task'.logical = task.logical
  BY DEF Attaches, SaveExternalResult, AttachRecovered, Core, Shape, TypeOK, TaskType
<1>2. QED  BY <1>1, TableAllows DEF StatusMoves

LEMMA LettingGoMoves ==
    ASSUME Core, LetsGo
    PROVE  StatusMoves
<1>1. /\ task.status = task'.status \/ (task.status = "running" /\ task'.status = "queued")
      /\ task'.logical = task.logical
  BY DEF LetsGo, MayDefer, DeferInvokeRecovery, ReleasePoll, SchedulePollRetry, RenewLease,
         Core, Shape, TypeOK, TaskType
<1>2. QED  BY <1>1, TableAllows DEF StatusMoves

\* A Task ends with success only while it runs an invocation the vendor took.
LEMMA SucceedsTaken ==
    ASSUME OneCandidate, Core, Custody, RetrySound, NEW k \in Tokens, HeldBy(task, k),
           Succeed(k) \/ PollSucceeded(k)
    PROVE  /\ task.status = "running"
           /\ task.logical # None /\ Outcome[task.logical] = "taken"
<1>1. task.lease = k /\ exec[k].at \in {"succeed", "poll"}
  BY DEF HeldBy, Succeed, PollSucceeded, At
<1>2. task.status = "running"
  BY <1>1 DEF RetrySound, HolderRuns
<1>3. exec[k].req \in Requests /\ vendor[exec[k].req] \in Promising
  <2>1. CASE exec[k].at = "succeed"
    BY <2>1 DEF Custody, ResultsEarned, Earned, Promising
  <2>2. CASE exec[k].at = "poll"
    <3>1. exec[k].req \in Requests
      BY <2>2, Here DEF Core, Shaped
    <3>2. PollSucceeded(k)
      BY <2>2 DEF Succeed, At
    <3>3. QED  BY <3>1, <3>2 DEF PollSucceeded, Alive, Promising
  <2>3. QED  BY <1>1, <2>1, <2>2
<1>4. task.logical = exec[k].req[1]
  <2>1. CASE exec[k].at = "succeed"
    BY <1>1, <2>1 DEF Custody, HolderKnows, InvocationSteps, ResultsEarned, Earned
  <2>2. CASE exec[k].at = "poll"
    BY <1>1, <1>3, <2>2, NullAssumption DEF Custody, HolderKnows, Core, RowShape
  <2>3. QED  BY <1>1, <2>1, <2>2
<1>5. QED  BY <1>2, <1>3, <1>4, PromisingTaken, NoneAssumption

LEMMA EndMoves ==
    ASSUME OneCandidate, Core, Custody, RetrySound, NEW st \in Terminal, NEW c, Ended(st, c)
    PROVE  StatusMoves
<1>1. task'.status = st /\ task'.logical = task.logical
  BY DEF Ended, Finish, Core, Shape, TypeOK, TaskType
<1>2. CASE st = "cancelled" /\ task.status \notin Terminal
  <2>1. task.status \in {"pending", "queued", "running"}
    BY <1>2 DEF Core, Shape, TypeOK, TaskType, Statuses, Terminal
  <2>2. QED  BY <1>1, <1>2, <2>1, TableAllows DEF StatusMoves
<1>3. CASE \E k \in Tokens : HeldBy(task, k) /\ st = "failed"
  BY <1>1, <1>3, TableAllows DEF StatusMoves, HeldBy
<1>4. CASE \E k \in Tokens :
             HeldBy(task, k) /\ st = "succeeded" /\ (Succeed(k) \/ PollSucceeded(k))
  BY <1>1, <1>4, SucceedsTaken, TableAllows DEF StatusMoves
<1>5. QED  BY <1>2, <1>3, <1>4 DEF Ended

\* An automatic retry leaves a hopeless invocation behind.
LEMMA RetriesMap ==
    ASSUME OneCandidate, Core, Custody, RetrySound, NEW k \in Tokens, Retries(k)
    PROVE  Machine!Next
<1>1. task.lease = k /\ exec[k].at \in {"failed", "reschedule"}
  BY DEF Retries, HeldBy, HandleFailed, Reschedule, At
<1>2. UNCHANGED key /\ UNCHANGED vendor
  BY DEF Retries, HandleFailed, Reschedule
<1>3. task'.status = "queued" /\ task'.logical = None
  BY DEF Retries, ScheduleRetry, Core, Shape, TypeOK, TaskType
<1>4. task.status = "running"
  BY <1>1 DEF RetrySound, HolderRuns
<1>5. task.logical \in Logicals /\ Hopeless(task.logical)
  <2>1. CASE HandleFailed(k) /\ RetryDecided(k)
    BY <1>1, <2>1 DEF RetryDecided, DecideRetry, HandleFailed, At, RetrySound, HolderRetries
  <2>2. CASE Reschedule(k)
    <3>1. exec[k].at = "reschedule"
      BY <2>2 DEF Reschedule, At
    <3>2. task.req = exec[k].req /\ exec[k].req \in Requests /\ Hopeless(exec[k].req[1])
      BY <1>1, <3>1, Here DEF RetrySound, HolderRetries, RescheduledHopeless, Core, Shaped
    <3>3. task.logical = exec[k].req[1]
      BY <3>2, NullAssumption DEF Core, RowShape
    <3>4. QED  BY <3>2, <3>3 DEF Requests
  <2>3. QED  BY <2>1, <2>2 DEF Retries
<1>6. Outcome[task.logical] # "taken" /\ task.logical # None
  BY <1>5, HopelessNotTaken, NoneAssumption
<1>7. UNCHANGED Outcome
  BY <1>2, OutcomeFrame
<1>8. QED  BY <1>3, <1>4, <1>6, <1>7, RetryMaps

LEMMA UserRetryMaps ==
    ASSUME OneCandidate, Core, MayUserRetry(task), task' = UserRetry(task),
           UNCHANGED vendor, UNCHANGED key
    PROVE  Machine!Next
<1>1. /\ task.status \in {"failed", "cancelled"}
      /\ task'.status = "queued" /\ task'.logical = None
  BY DEF MayUserRetry, UserRetry, Core, Shape, TypeOK, TaskType
<1>2. UNCHANGED Outcome
  BY OutcomeFrame
<1>3. QED  BY <1>1, <1>2, OwnerRetryMaps

LEMMA StepMaps ==
    ASSUME OneCandidate, Core, Custody, RetrySound, [Next]_vars
    PROVE  [Machine!Next]_(Machine!vars)
<1>1. CASE \E k \in Tokens : Prepare(k)
  BY <1>1, PrepareMaps
<1>2. CASE \E k \in Tokens : Dispatch(k) \/ DispatchUnknown(k)
  BY <1>2, DispatchMaps
<1>3. CASE \A k \in Tokens : ~Prepare(k) /\ ~Dispatch(k) /\ ~DispatchUnknown(k)
  <2>1. UNCHANGED key
    BY <1>3, KeyFrame
  <2>2. VendorMoves
    BY <1>3, VendorNext DEF Core
  <2>3. OutcomeMoves
    BY <2>1, <2>2, VendorOutcome
  <2>4. CASE UNCHANGED task
    <3>1. StatusMoves
      BY <2>4, TableAllows DEF StatusMoves
    <3>2. QED  BY <2>3, <3>1, MoveMaps
  <2>5. CASE \E k \in Tokens : Claim(k) \/ (Start(k) /\ MayStart(task, k))
    BY <2>3, <2>5, TakingMoves, MoveMaps
  <2>6. CASE \/ \E k \in Tokens : Attaches(exec[k].req)
             \/ \E i \in Instances : Attaches(pass[i].req)
    BY <2>3, <2>6, AttachMoves, MoveMaps
  <2>7. CASE \E k \in Tokens : Retries(k)
    BY <2>7, RetriesMap
  <2>8. CASE \E st \in Terminal, c \in Codes \cup {None} : Ended(st, c)
    BY <2>3, <2>8, EndMoves, MoveMaps
  <2>9. CASE MayUserRetry(task) /\ task' = UserRetry(task) /\ UNCHANGED vendor
    BY <2>1, <2>9, UserRetryMaps
  <2>10. CASE LetsGo
    BY <2>3, <2>10, LettingGoMoves, MoveMaps
  <2>11. RowMoves
    BY RowStatement DEF Core
  <2>12. QED
    BY <1>3, <2>4, <2>5, <2>6, <2>7, <2>8, <2>9, <2>10, <2>11 DEF RowMoves
<1>4. QED  BY <1>1, <1>2, <1>3

LEMMA InitMaps ==
    ASSUME OneCandidate, Init
    PROVE  Machine!Init
<1>1. task.status = "pending" /\ task.logical = None
  BY DEF Init, NewTask
<1>2. Outcome = [l \in Logicals |-> "unopened"]
  BY OutcomeIsFate DEF Init, Fate
<1>3. QED  BY <1>1, <1>2 DEF Machine!Init, Outcome

\* The leases, ledger, recovery and retries together implement the declared
\* state machine with at-most-once invocations, when an invocation has one
\* candidate: state-machine.ts, InvokeService and TaskInvokeRecoveryService.
THEOREM RefinementCorrect ==
    ASSUME MaxFailover = 1
    PROVE  Spec => ImplementsTaskMachine
<1>0. OneCandidate
  BY DEF OneCandidate
<1>1. Init => Machine!Init
  BY <1>0, InitMaps
<1>2. Core /\ Custody /\ RetrySound /\ [Next]_vars => [Machine!Next]_(Machine!vars)
  BY <1>0, StepMaps
<1>3. Spec => []RetrySound
  BY <1>0, RetrySoundCorrect
<1>4. QED
  BY <1>1, <1>2, <1>3, CoreCorrect, CustodyCorrect, PTL
     DEF Spec, ImplementsTaskMachine, Machine!Spec

(***************************************************************************)
(* With any number of candidates: the status alone.                        *)
(***************************************************************************)
TableMove == task'.status \in Machine!Allowed[task.status] \cup {task.status}

LEMMA RowFollowsTable ==
    ASSUME Core, HolderRuns, RowMoves
    PROVE  TableMove
<1>1. CASE UNCHANGED task
  BY <1>1, TableAllows DEF TableMove
<1>2. CASE \E k \in Tokens : Claim(k) \/ (Start(k) /\ MayStart(task, k))
  BY <1>2, TakingMoves DEF StatusMoves, TableMove
<1>3. CASE \E k \in Tokens : Prepare(k)
  <2>1. task'.status = task.status
    BY <1>3, PrepareGoes DEF Core, Shape, TypeOK, TaskType
  <2>2. QED  BY <2>1, TableAllows DEF TableMove
<1>4. CASE \/ \E k \in Tokens : Attaches(exec[k].req)
           \/ \E i \in Instances : Attaches(pass[i].req)
  BY <1>4, AttachMoves DEF StatusMoves, TableMove
<1>5. CASE \E k \in Tokens : Retries(k)
  <2>1. task.status \in {"queued", "running"} /\ task'.status = "queued"
    BY <1>5 DEF Retries, HeldBy, ScheduleRetry, Core, Shape, TypeOK, TaskType
  <2>2. QED  BY <2>1, TableAllows DEF TableMove
<1>6. CASE \E st \in Terminal, c \in Codes \cup {None} : Ended(st, c)
  <2>1. PICK st \in Terminal, c \in Codes \cup {None} : Ended(st, c)
    BY <1>6
  <2>2. task'.status = st
    BY <2>1 DEF Ended, Finish, Core, Shape, TypeOK, TaskType
  <2>3. CASE st = "cancelled" /\ task.status \notin Terminal
    <3>1. task.status \in {"pending", "queued", "running"}
      BY <2>3 DEF Core, Shape, TypeOK, TaskType, Statuses, Terminal
    <3>2. QED  BY <2>2, <2>3, <3>1, TableAllows DEF TableMove
  <2>4. CASE \E k \in Tokens : HeldBy(task, k) /\ st = "failed"
    BY <2>2, <2>4, TableAllows DEF TableMove, HeldBy
  <2>5. CASE \E k \in Tokens :
               HeldBy(task, k) /\ st = "succeeded" /\ (Succeed(k) \/ PollSucceeded(k))
    <3>1. task.status = "running"
      BY <2>5 DEF HeldBy, Succeed, PollSucceeded, At, HolderRuns
    <3>2. QED  BY <2>2, <2>5, <3>1, TableAllows DEF TableMove
  <2>6. QED  BY <2>1, <2>3, <2>4, <2>5 DEF Ended
<1>7. CASE MayUserRetry(task) /\ task' = UserRetry(task)
  <2>1. task.status \in {"failed", "cancelled"} /\ task'.status = "queued"
    BY <1>7 DEF MayUserRetry, UserRetry, Core, Shape, TypeOK, TaskType
  <2>2. QED  BY <2>1 DEF TableMove, Machine!Allowed
<1>8. CASE LetsGo
  BY <1>8, LettingGoMoves DEF StatusMoves, TableMove
<1>9. QED  BY <1>1, <1>2, <1>3, <1>4, <1>5, <1>6, <1>7, <1>8 DEF RowMoves

\* The status of a Task moves only along the table of state-machine.ts, however
\* many candidates an invocation has: none of the guarded statements of the
\* store, the terminal service and the retry service looks at the table itself.
THEOREM StatusFollowsTable == Spec => [][TableMove]_vars
<1>1. Init => HolderRuns
  BY NoneAssumption DEF Init, NewTask, HolderRuns
<1>2. Core /\ HolderRuns /\ [Next]_vars => HolderRuns'
  BY RunsNext
<1>3. Core /\ HolderRuns /\ [Next]_vars => TableMove
  BY RowStatement, RowFollowsTable DEF Core
<1>4. QED
  BY <1>1, <1>2, <1>3, CoreCorrect, PTL DEF Spec
============================================================================
