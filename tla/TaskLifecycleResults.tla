------------------------ MODULE TaskLifecycleResults ------------------------
(***************************************************************************)
(* Two theorems about what becomes of the vendor's work: a Task succeeds   *)
(* only with a result of its current invocation, and a recorded job is not *)
(* forgotten.  Both rest on Custody.                                       *)
(*                                                                         *)
(* Most steps are steady: executions stay where they are or leave the path *)
(* of the invocation, the row keeps what its holder knows or loses the     *)
(* lease, and no job is recorded, finished jobs stay finished, and a row   *)
(* with a live job is not settled.                                         *)
(***************************************************************************)
EXTENDS TaskLifecycleSafety

LeavingSteps == {"idle", "failed", "discard", "mismatch", "reschedule"}

ExecLeaves == \A k \in Tokens : exec'[k] = exec[k] \/ exec'[k].at \in LeavingSteps

\* The holder changes, or what it knows of the row stays.
RowHolds ==
    \/ task'.lease = None
    \/ /\ task'.lease = task.lease /\ task'.status = task.status
       /\ task'.logical = task.logical /\ task'.req = task.req

\* A Task does not succeed here.
NoSuccess == task'.status = "succeeded" => task.status = "succeeded" /\ task'.logical = task.logical

\* What happens to the job of r and its row.
JobKept(r) ==
    /\ vendor[r] = "done" => vendor'[r] = "done"
    /\ ledger'[r].ext => ledger[r].ext
    /\ ledger[r].ext /\ vendor'[r] = "live"
          => vendor[r] = "live" /\ (Settled(ledger'[r]) => Settled(ledger[r]))

JobsKept == \A r \in Requests : JobKept(r)

PassKept ==
    \A i \in Instances :
        \/ pass'[i].at = "idle"
        \/ pass[i].at # "idle" /\ pass'[i].req = pass[i].req /\ pass'[i].seen = pass[i].seen

RowSteady == RowHolds /\ NoSuccess

Steady == ExecLeaves /\ RowSteady /\ JobsKept /\ PassKept

(***************************************************************************)
(* Steady steps keep Custody.                                              *)
(***************************************************************************)
LEMMA HolderStays ==
    ASSUME HolderKnows, ExecLeaves, RowHolds
    PROVE  HolderKnows'
<1> SUFFICES ASSUME NEW k \in Tokens, task'.lease = k
             PROVE  /\ exec'[k].at \in UnattachedSteps => task'.req = None
                    /\ exec'[k].at \in InvocationSteps => task'.logical = exec'[k].logical
                    /\ exec'[k].at = "poll" => task'.req = exec'[k].req
  BY DEF HolderKnows
<1>1. CASE exec'[k].at \in LeavingSteps
  BY <1>1 DEF LeavingSteps, UnattachedSteps, InvocationSteps, DispatchSteps
<1>2. CASE exec'[k] = exec[k]
  BY <1>2, NoneAssumption DEF RowHolds, HolderKnows
<1>3. QED  BY <1>1, <1>2 DEF ExecLeaves

\* A settled row stays settled the way it is.
LEMMA EarnedStays ==
    ASSUME Core, [Next]_vars, \A r \in Requests : vendor[r] = "done" => vendor'[r] = "done",
           NEW k \in Tokens, Earned(exec[k]), exec'[k] = exec[k]
    PROVE  Earned(exec[k])'
<1>1. exec[k].at = "log" => exec[k].req \in Requests
  BY Here DEF Core, Shaped, JobSteps
<1>2. \A r \in Requests : ledger[r].st = "success" => ledger'[r] = ledger[r]
  BY SettledStays DEF Settled
<1>3. QED  BY <1>1, <1>2 DEF Earned

LEMMA ResultsStay ==
    ASSUME Core, [Next]_vars, ResultsEarned, ExecLeaves, JobsKept
    PROVE  ResultsEarned'
<1> SUFFICES ASSUME NEW k \in Tokens PROVE Earned(exec[k])'
  BY DEF ResultsEarned
<1>1. CASE exec'[k].at \in LeavingSteps
  BY <1>1 DEF LeavingSteps, Earned
<1>2. CASE exec'[k] = exec[k]
  BY <1>2, EarnedStays DEF ResultsEarned, JobsKept, JobKept
<1>3. QED  BY <1>1, <1>2 DEF ExecLeaves

LEMMA UnrecordedStays ==
    ASSUME Core, RecordedAfterAnswer, ExecLeaves, JobsKept
    PROVE  RecordedAfterAnswer'
<1> SUFFICES ASSUME NEW k \in Tokens, exec'[k].at \in {"dispatch", "log"}
             PROVE  ~ledger'[exec'[k].req].ext
  BY DEF RecordedAfterAnswer
<1>1. exec'[k] = exec[k]
  BY DEF ExecLeaves, LeavingSteps
<1>2. exec[k].req \in Requests
  BY <1>1, Here DEF Core, Shaped, JobSteps
<1>3. QED  BY <1>1, <1>2 DEF RecordedAfterAnswer, JobsKept, JobKept

LEMMA SeenStays ==
    ASSUME SeenUnfinished, PassKept
    PROVE  SeenUnfinished'
BY DEF SeenUnfinished, PassKept

LEMMA JobsStay ==
    ASSUME RecordedJobsAccountedFor, JobsKept
    PROVE  RecordedJobsAccountedFor'
BY DEF RecordedJobsAccountedFor, JobsKept, JobKept

LEMMA SuccessStays ==
    ASSUME Core, [Next]_vars, SuccessHasResult, NoSuccess,
           \A r \in Requests : vendor[r] = "done" => vendor'[r] = "done"
    PROVE  SuccessHasResult'
<1> SUFFICES ASSUME task'.status = "succeeded"
             PROVE  \E r \in Requests :
                       r[1] = task'.logical /\ vendor'[r] = "done" /\ ledger'[r].st = "success"
  BY DEF SuccessHasResult
<1>1. PICK r \in Requests :
        r[1] = task.logical /\ vendor[r] = "done" /\ ledger[r].st = "success"
  BY DEF NoSuccess, SuccessHasResult
<1>2. ledger'[r] = ledger[r]
  BY <1>1, SettledStays DEF Settled
<1>3. QED  BY <1>1, <1>2 DEF NoSuccess

LEMMA SteadyKeeps ==
    ASSUME Core, [Next]_vars, Custody, Steady
    PROVE  Custody'
<1>1. \A r \in Requests : vendor[r] = "done" => vendor'[r] = "done"
  BY DEF Steady, JobsKept, JobKept
<1>2. QED
  BY <1>1, HolderStays, ResultsStay, UnrecordedStays, SeenStays, JobsStay, SuccessStays
     DEF Custody, Steady, RowSteady

\* The same for a step that ends the Task with a result.
LEMMA EndedKeeps ==
    ASSUME Core, [Next]_vars, Custody, ExecLeaves, RowHolds, JobsKept, PassKept,
           SuccessHasResult'
    PROVE  Custody'
BY HolderStays, ResultsStay, UnrecordedStays, SeenStays, JobsStay DEF Custody

(***************************************************************************)
(* The parts of a steady step.                                             *)
(***************************************************************************)
\* No job comes to life, and a finished one stays finished.
VendorCalm ==
    \A r \in Requests :
        /\ vendor[r] = "done" => vendor'[r] = "done"
        /\ vendor'[r] = "live" => vendor[r] = "live"

\* The SET lists after which nobody has succeeded and the holder is not deceived.
LEMMA RowStatementsSteady ==
    ASSUME Shape,
           task' \in {task, RenewLease(task), [task EXCEPT !.live = FALSE],
                      DeferInvokeRecovery(task), ReleasePoll(task),
                      SchedulePollRetry(task), ScheduleRetry(task), UserRetry(task)}
    PROVE  RowSteady
<1> USE DEF RowSteady, RowHolds, NoSuccess, TaskType
<1>1. task \in TaskType  BY DEF Shape, TypeOK
<1>2. task' = task \/ task' = RenewLease(task) \/ task' = [task EXCEPT !.live = FALSE]
        => RowSteady
  BY <1>1 DEF RenewLease
<1>3. task' = DeferInvokeRecovery(task) => RowSteady
  BY <1>1 DEF DeferInvokeRecovery
<1>4. task' = ReleasePoll(task) \/ task' = SchedulePollRetry(task) => RowSteady
  BY <1>1 DEF ReleasePoll, SchedulePollRetry
<1>5. task' = ScheduleRetry(task) \/ task' = UserRetry(task) => RowSteady
  BY <1>1 DEF ScheduleRetry, UserRetry
<1>6. QED  BY <1>2, <1>3, <1>4, <1>5

LEMMA FinishSteady ==
    ASSUME Shape, NEW st \in {"failed", "cancelled"}, NEW c, task' = Finish(task, st, c)
    PROVE  RowSteady
BY DEF RowSteady, RowHolds, NoSuccess, Finish, Shape, TypeOK, TaskType

LEMMA AttachedSteady ==
    ASSUME Shape, NEW r, task' \in {SaveExternalResult(task, r), AttachRecovered(task, r)}
    PROVE  RowSteady
BY DEF RowSteady, RowHolds, NoSuccess, SaveExternalResult, AttachRecovered, Shape, TypeOK, TaskType

\* A step that leaves the row, the executions, the jobs or the passes alone.
LEMMA NothingSteady ==
    /\ UNCHANGED task => RowSteady
    /\ UNCHANGED exec => ExecLeaves
    /\ UNCHANGED <<ledger, vendor>> => JobsKept
    /\ UNCHANGED pass => PassKept
<1>1. UNCHANGED task => RowSteady
  BY DEF RowSteady, RowHolds, NoSuccess
<1>2. UNCHANGED exec => ExecLeaves
  BY DEF ExecLeaves
<1>3. UNCHANGED <<ledger, vendor>> => JobsKept
  BY DEF JobsKept, JobKept
<1>4. UNCHANGED pass => PassKept
  BY DEF PassKept
<1>5. QED  BY <1>1, <1>2, <1>3, <1>4

LEMMA GotoLeaves ==
    ASSUME Shape, NEW k \in Tokens, NEW e, Goto(k, e), e.at \in LeavingSteps
    PROVE  ExecLeaves
BY DEF Goto, ExecLeaves, Shape, TypeOK

LEMMA IdleLeaves ==
    ASSUME Shape, NEW k \in Tokens, Goto(k, Idle)
    PROVE  ExecLeaves
BY GotoLeaves DEF Idle, LeavingSteps

LEMMA FailLeaves ==
    ASSUME Shape, NEW k \in Tokens, NEW c, NEW again, Goto(k, FailWith(exec[k], c, again))
    PROVE  ExecLeaves
<1>1. FailWith(exec[k], c, again).at = "failed"
  BY Here DEF FailWith, ExecType
<1>2. QED  BY <1>1, GotoLeaves DEF LeavingSteps

LEMMA AtLeaves ==
    ASSUME Shape, NEW k \in Tokens, NEW at \in LeavingSteps,
           Goto(k, [exec[k] EXCEPT !.at = at])
    PROVE  ExecLeaves
<1>1. [exec[k] EXCEPT !.at = at].at = at
  BY Here DEF ExecType
<1>2. QED  BY <1>1, GotoLeaves

\* A calm step that settles a row has ended the job of the row.
LEMMA SettlesJob ==
    ASSUME Shape, NEW r \in Requests, NEW st \in SettledStatuses, NEW c \in Codes \cup {None},
           ledger' = FinalizePending(ledger, r, st, c), VendorCalm,
           ledger[r].ext => vendor'[r] # "live"
    PROVE  JobsKept
<1>1. ledger \in LedgerType /\ st \in RowStatuses
  BY DEF Shape, TypeOK, SettledStatuses, RowStatuses
<1>2. \A q \in Requests :
        /\ ledger'[q].ext = ledger[q].ext
        /\ ledger'[q] # ledger[q] => q = r
  BY <1>1, FinalizeOnce
<1>3. QED  BY <1>2 DEF JobsKept, JobKept, VendorCalm

\* A calm step that leaves the ledger alone.
LEMMA CalmKeeps ==
    ASSUME VendorCalm, UNCHANGED ledger
    PROVE  JobsKept
BY DEF VendorCalm, JobsKept, JobKept

LEMMA CancelCalm ==
    ASSUME Shape, NEW r \in Requests, CancelJob(r) \/ CancelTried(r)
    PROVE  VendorCalm /\ vendor'[r] # "live"
BY DEF CancelJob, CancelTried, VendorCalm, Shape, TypeOK

LEMMA CompensateKeeps ==
    ASSUME Shape, NEW r \in Requests, Compensate(r)
    PROVE  JobsKept
<1>1. VendorCalm /\ vendor'[r] # "live"
  BY DEF Compensate, VendorCalm, Shape, TypeOK
<1>2. QED  BY <1>1, SettlesJob DEF Compensate, SettledStatuses

\* The end of the Task, its attached job cancelled and settled.
LEMMA EndKeeps ==
    ASSUME Shape, NEW st \in SettledStatuses, NEW c \in Codes \cup {None},
           SettleAttached(task, st, c), CancelAttached(task)
    PROVE  JobsKept
<1>1. CASE task.req = None
  BY <1>1, NothingSteady DEF SettleAttached, CancelAttached
<1>2. CASE task.req # None
  <2>1. task.req \in Requests  BY <1>2 DEF Shape, TypeOK, TaskType
  <2>2. QED  BY <1>2, <2>1, CancelCalm, SettlesJob DEF SettleAttached, CancelAttached
<1>3. QED  BY <1>1, <1>2

(***************************************************************************)
(* The steady steps.                                                       *)
(***************************************************************************)
\* An execution at a step of its invocation works on a row of the ledger.
LEMMA WorksOn ==
    ASSUME Shape, NEW k \in Tokens, exec[k].at \in JobSteps \cup {"poll", "reschedule"}
    PROVE  exec[k].req \in Requests
BY Here DEF Shaped

LEMMA MissesSteady ==
    ASSUME Shape, NEW k \in Tokens,
           \/ Start(k) /\ ~MayStart(task, k)
           \/ PrepareMisses(k) \/ PreflightFails(k)
           \/ SucceedThrows(k) \/ RecoverSettled(k) \/ RecoverExpired(k)
           \/ PollGivesUp(k) \/ Crash(k)
    PROVE  Steady
<1>1. CASE Start(k) /\ ~MayStart(task, k)
  BY <1>1, IdleLeaves, NothingSteady DEF Start, Steady
<1>2. CASE PrepareMisses(k)
  BY <1>2, IdleLeaves, NothingSteady DEF PrepareMisses, db, Steady
<1>3. CASE PreflightFails(k)
  BY <1>3, FailLeaves, NothingSteady DEF PreflightFails, Steady
<1>4. CASE SucceedThrows(k)
  BY <1>4, FailLeaves, NothingSteady DEF SucceedThrows, db, Steady
<1>5. CASE RecoverSettled(k)
  BY <1>5, FailLeaves, NothingSteady DEF RecoverSettled, db, Steady
<1>6. CASE RecoverExpired(k)
  BY <1>6, FailLeaves, NothingSteady DEF RecoverExpired, db, Steady
<1>7. CASE PollGivesUp(k)
  BY <1>7, FailLeaves, NothingSteady DEF PollGivesUp, db, Steady
<1>8. CASE Crash(k)
  BY <1>8, IdleLeaves, NothingSteady DEF Crash, db, Steady
<1>9. QED  BY <1>1, <1>2, <1>3, <1>4, <1>5, <1>6, <1>7, <1>8

LEMMA BeginFailsSteady ==
    ASSUME Core, NEW k \in Tokens, BeginFails(k)
    PROVE  Steady
<1>1. exec[k].req \in Requests /\ ledger \in LedgerType
  BY WorksOn DEF BeginFails, At, JobSteps, Core, Shape, TypeOK
<1>2. JobsKept
  <2>1. CASE ledger' = ledger
    BY <2>1, NothingSteady DEF BeginFails
  <2>2. CASE ledger' = Begin(ledger, exec[k].req)
    <3>1. ~ledger'[exec[k].req].ext /\ \A q \in Requests \ {exec[k].req} : ledger'[q] = ledger[q]
      BY <1>1, <2>2 DEF Begin, LedgerType
    <3>2. exec[k].at = "begin" /\ UNCHANGED vendor
      BY DEF BeginFails, At
    <3>3. ledger[exec[k].req].st = "absent"
      BY <1>1, <3>2, Loop DEF Dispatching, DispatchSteps, InOrder
    <3>4. ~ledger[exec[k].req].ext
      BY <1>1, <3>3 DEF Core, NoJobWithoutRow
    <3>5. QED  BY <3>1, <3>2, <3>4 DEF JobsKept, JobKept
  <2>3. QED  BY <2>1, <2>2 DEF BeginFails
<1>3. QED
  BY <1>2, FailLeaves, NothingSteady DEF BeginFails, Core, Steady

\* A dispatch the client hears nothing of: its row has no job.
LEMMA DispatchUnknownSteady ==
    ASSUME Core, RecordedAfterAnswer, NEW k \in Tokens, DispatchUnknown(k)
    PROVE  Steady
<1>1. exec[k].at = "dispatch" /\ exec[k].req \in Requests /\ UNCHANGED ledger
  BY WorksOn DEF DispatchUnknown, At, JobSteps, Core, db
<1>2. ~ledger[exec[k].req].ext
  BY <1>1 DEF RecordedAfterAnswer
<1>3. vendor[exec[k].req] # "done"
  BY <1>1, Loop DEF Dispatching, DispatchSteps, Untaken, Accepted
<1>4. \A q \in Requests \ {exec[k].req} : vendor'[q] = vendor[q]
  BY <1>1 DEF DispatchUnknown, Core, Shape, TypeOK
<1>5. JobsKept
  BY <1>1, <1>2, <1>3, <1>4 DEF JobsKept, JobKept
<1>6. QED
  BY <1>5, FailLeaves, NothingSteady DEF DispatchUnknown, db, Core, Steady

\* An answer that leaves no job: its row is settled, and has none.
LEMMA AnsweredSteady ==
    ASSUME Core, RecordedAfterAnswer, NEW k \in Tokens,
           NEW st \in SettledStatuses, NEW c \in Codes \cup {None}, NEW d, NEW again,
           exec[k].at = "log", ledger' = FinalizePending(ledger, exec[k].req, st, c),
           Goto(k, FailWith(exec[k], d, again)),
           UNCHANGED <<task, pass, vendor>>
    PROVE  Steady
<1>1. exec[k].req \in Requests /\ ~ledger[exec[k].req].ext
  BY WorksOn DEF JobSteps, Core, RecordedAfterAnswer
<1>2. VendorCalm
  BY DEF VendorCalm
<1>3. JobsKept
  BY <1>1, <1>2, SettlesJob DEF Core
<1>4. QED
  BY <1>3, FailLeaves, NothingSteady DEF Core, Steady

LEMMA LogSteady ==
    ASSUME Core, RecordedAfterAnswer, NEW k \in Tokens,
           LogIncomplete(k) \/ LogFailed(k) \/ LogIngestFailure(k) \/ LogFails(k)
    PROVE  Steady
<1>1. exec[k].at = "log" /\ exec[k].code \in Codes \cup {None} /\ exec[k].req \in Requests
  BY Here, WorksOn
     DEF LogIncomplete, LogFailed, LogIngestFailure, LogFails, At, ExecType, JobSteps, Core
<1> USE DEF SettledStatuses
<1>2. CASE LogIncomplete(k)
  BY <1>1, <1>2, NamedCodes, AnsweredSteady DEF LogIncomplete
<1>3. CASE LogFailed(k)
  BY <1>1, <1>3, AnsweredSteady DEF LogFailed
<1>4. CASE LogIngestFailure(k)
  BY <1>1, <1>4, AnsweredSteady DEF LogIngestFailure
<1>5. CASE LogFails(k)
  <2>1. JobsKept
    BY <1>1, <1>5, CancelCalm, CalmKeeps, NothingSteady DEF LogFails, db, Core
  <2>2. QED
    BY <1>5, <2>1, FailLeaves, NothingSteady DEF LogFails, db, Core, Steady
<1>6. QED  BY <1>2, <1>3, <1>4, <1>5

\* The two ways to attach a job, and what follows when it cannot be attached.
LEMMA AttachSteady ==
    ASSUME Shape, NEW k \in Tokens, SaveExternal(k) \/ Adopt(k)
    PROVE  Steady
<1>2. RowSteady
  BY AttachedSteady, NothingSteady DEF SaveExternal, Adopt
<1>3. ExecLeaves
  BY IdleLeaves, AtLeaves DEF SaveExternal, Adopt, LeavingSteps
<1>4. QED
  BY <1>2, <1>3, NothingSteady DEF SaveExternal, Adopt, Steady

LEMMA UndoSteady ==
    ASSUME Shape, NEW k \in Tokens,
           SaveExternalThrows(k) \/ Discard(k) \/ AdoptMissed(k)
    PROVE  Steady
<1>1. exec[k].req \in Requests
  BY WorksOn DEF SaveExternalThrows, Discard, AdoptMissed, At, JobSteps
<1>2. CASE SaveExternalThrows(k)
  <2>1. JobsKept
    BY <1>1, <1>2, NamedCodes, CancelCalm, SettlesJob DEF SaveExternalThrows, SettledStatuses
  <2>2. QED
    BY <1>2, <2>1, FailLeaves, NothingSteady DEF SaveExternalThrows, Steady
<1>3. CASE Discard(k)
  <2>1. JobsKept
    BY <1>1, <1>3, CancelCalm, SettlesJob DEF Discard, SettledStatuses
  <2>2. QED
    BY <1>3, <2>1, IdleLeaves, NothingSteady DEF Discard, Steady
<1>4. CASE AdoptMissed(k)
  <2>1. JobsKept
    BY <1>1, <1>4, CompensateKeeps, NothingSteady DEF AdoptMissed
  <2>2. QED
    BY <1>4, <2>1, IdleLeaves, NothingSteady DEF AdoptMissed, Steady
<1>5. QED  BY <1>2, <1>3, <1>4

LEMMA HandleFailedSteady ==
    ASSUME Shape, NEW k \in Tokens, HandleFailed(k)
    PROVE  Steady
<1>0. exec[k].code \in Codes \cup {None} /\ ExecLeaves /\ PassKept
  BY Here, IdleLeaves, NothingSteady DEF HandleFailed, ExecType
<1>2. CASE RetryDecided(k)
  <2>1. RowSteady
    BY <1>2, RowStatementsSteady DEF HandleFailed
  <2>2. QED
    BY <1>0, <1>2, <2>1, NothingSteady DEF HandleFailed, Steady
<1>3. CASE ~RetryDecided(k) /\ HeldBy(task, k) /\ MaySettle(task)
  <2>1. task' = Finish(task, "failed", exec[k].code)
    BY <1>3 DEF HandleFailed, TerminalFail
  <2>2. RowSteady
    BY <2>1, FinishSteady
  <2>3. JobsKept
    BY <1>0, <1>3, EndKeeps DEF HandleFailed, TerminalFail, SettledStatuses
  <2>4. QED  BY <1>0, <2>2, <2>3 DEF Steady
<1>4. CASE ~RetryDecided(k) /\ ~(HeldBy(task, k) /\ MaySettle(task))
  BY <1>0, <1>4, NothingSteady DEF HandleFailed, TerminalFail, Steady
<1>5. QED  BY <1>2, <1>3, <1>4

\* Polls that do not end the Task, and the other ways to let go of the lease.
LEMMA ReleasesSteady ==
    ASSUME Shape, NEW k \in Tokens,
           \/ RecoverDefers(k) \/ PollAgain(k) \/ PollFailThrows(k) \/ Reschedule(k)
           \/ PollIngestFails(k)
    PROVE  Steady
<1>1. RowSteady
  BY RowStatementsSteady
     DEF RecoverDefers, PollAgain, PollFailThrows, Reschedule, PollIngestFails
<1>2. ExecLeaves /\ PassKept
  BY IdleLeaves, NothingSteady
     DEF RecoverDefers, PollAgain, PollFailThrows, Reschedule, PollIngestFails
<1>3. JobsKept
  <2>1. CASE PollIngestFails(k)
    <3>1. VendorCalm
      BY <2>1 DEF PollIngestFails, VendorCalm, Shape, TypeOK
    <3>2. QED  BY <2>1, <3>1, CalmKeeps DEF PollIngestFails
  <2>2. CASE RecoverDefers(k) \/ PollAgain(k) \/ PollFailThrows(k) \/ Reschedule(k)
    BY <2>2, NothingSteady DEF RecoverDefers, PollAgain, PollFailThrows, Reschedule
  <2>3. QED  BY <2>1, <2>2
<1>4. QED  BY <1>1, <1>2, <1>3 DEF Steady

\* The vendor reports failure: the job has ended before its row is settled.
LEMMA PollFailedSteady ==
    ASSUME Shape, NEW k \in Tokens, PollFailed(k)
    PROVE  Steady
<1>1. exec[k].req \in Requests /\ vendor[exec[k].req] # "done"
  BY WorksOn DEF PollFailed, At
<1>2. VendorCalm /\ vendor'[exec[k].req] # "live"
  BY <1>1 DEF PollFailed, Alive, VendorCalm, Shape, TypeOK
<1>3. PICK c \in PollCodes :
        IF DecideRetry(c, exec[k].retry)
        THEN /\ ledger' = FinalizePending(ledger, exec[k].req, "error", c)
             /\ Goto(k, [exec[k] EXCEPT !.at = "reschedule"])
        ELSE Goto(k, [FailWith(exec[k], c, FALSE) EXCEPT !.answer = "failed"]) /\ UNCHANGED ledger
  BY DEF PollFailed
<1>4. JobsKept
  BY <1>1, <1>2, <1>3, NamedCodes, SettlesJob, CalmKeeps DEF SettledStatuses
<1>5. ExecLeaves
  <2>1. [FailWith(exec[k], c, FALSE) EXCEPT !.answer = "failed"].at = "failed"
    BY Here, NamedCodes, PollFailTo
  <2>2. QED  BY <1>3, <2>1, AtLeaves, GotoLeaves DEF LeavingSteps
<1>6. QED
  BY <1>4, <1>5, NothingSteady DEF PollFailed, Steady

(***************************************************************************)
(* Orphan passes, sweepers, owner, leases.                                 *)
(***************************************************************************)
LEMMA SetPassKept ==
    ASSUME Shape, NEW i \in Instances, NEW p, SetPass(i, p),
           \/ p = NoPass
           \/ pass[i].at # "idle" /\ p.req = pass[i].req /\ p.seen = pass[i].seen
    PROVE  PassKept
BY DEF SetPass, PassKept, NoPass, Shape, TypeOK

LEMMA PassAtKept ==
    ASSUME Shape, NEW i \in Instances, NEW at, pass[i].at # "idle",
           SetPass(i, [pass[i] EXCEPT !.at = at])
    PROVE  PassKept
<1>1. pass[i] \in PassType
  BY DEF Shape, TypeOK
<1>2. QED  BY <1>1, SetPassKept DEF PassType

LEMMA OrphanSteady ==
    ASSUME Shape, SeenUnfinished, NEW i \in Instances, ActOnOrphan(i) \/ CrashPass(i)
    PROVE  Steady
<1>1. ExecLeaves
  BY NothingSteady
     DEF ActOnOrphan, OrphanAttached, OrphanOwned, OrphanAttach, OrphanMissed, OrphanForeign,
         OrphanCompensate, OrphanCompensateFails, CrashPass
<1>2. pass[i].at # "idle"
  BY DEF ActOnOrphan, OrphanAttached, OrphanOwned, OrphanAttach, OrphanMissed, OrphanForeign,
         OrphanCompensate, OrphanCompensateFails, CrashPass
<1>3. CASE OrphanAttached(i)
  <2>1. UNCHANGED ledger
    BY <1>2, <1>3 DEF OrphanAttached, SeenUnfinished
  <2>2. QED
    BY <1>1, <1>3, <2>1, SetPassKept, NothingSteady DEF OrphanAttached, Steady
<1>4. CASE OrphanOwned(i) \/ OrphanCompensateFails(i) \/ CrashPass(i)
  BY <1>1, <1>4, SetPassKept, NothingSteady
     DEF OrphanOwned, OrphanCompensateFails, CrashPass, db, Steady
<1>5. CASE OrphanAttach(i)
  <2>1. RowSteady
    BY <1>5, AttachedSteady, NothingSteady DEF OrphanAttach
  <2>2. PassKept
    BY <1>2, <1>5, SetPassKept, PassAtKept DEF OrphanAttach
  <2>3. QED
    BY <1>1, <1>5, <2>1, <2>2, NothingSteady DEF OrphanAttach, Steady
<1>6. CASE OrphanMissed(i) \/ OrphanForeign(i)
  <2>1. PassKept
    BY <1>2, <1>6, SetPassKept, PassAtKept DEF OrphanMissed, OrphanForeign
  <2>2. QED
    BY <1>1, <1>6, <2>1, NothingSteady DEF OrphanMissed, OrphanForeign, db, Steady
<1>7. CASE OrphanCompensate(i)
  <2>1. pass[i].req \in Requests
    BY <1>2 DEF Shape, PassShape
  <2>2. QED
    BY <1>1, <1>7, <2>1, CompensateKeeps, SetPassKept, NothingSteady DEF OrphanCompensate, Steady
<1>8. QED  BY <1>3, <1>4, <1>5, <1>6, <1>7 DEF ActOnOrphan

LEMMA SweepSteady ==
    ASSUME Shape, NEW r \in Requests, Sweep(r)
    PROVE  Steady
<1>1. VendorCalm /\ ~ledger[r].ext
  BY DEF Sweep, Abandon, SweepDetached, Abandoned, Detached, VendorCalm
<1>2. JobsKept
  BY <1>1, SettlesJob
     DEF Sweep, Abandon, SweepDetached, DetachedStatus, SettledStatuses
<1>3. QED
  BY <1>2, NothingSteady DEF Sweep, Abandon, SweepDetached, Steady

LEMMA OwnerSteady ==
    ASSUME Shape, Owner
    PROVE  Steady
<1>1. CASE Cancel
  <2>1. RowSteady
    BY <1>1, FinishSteady DEF Cancel
  <2>2. JobsKept
    BY <1>1, EndKeeps DEF Cancel, SettledStatuses
  <2>3. QED
    BY <1>1, <2>1, <2>2, NothingSteady DEF Cancel, Steady
<1>2. CASE RetryCheck
  BY <1>2, NothingSteady DEF RetryCheck, db, Steady
<1>3. CASE RetryUpdate
  BY <1>3, RowStatementsSteady, NothingSteady DEF RetryUpdate, Steady
<1>4. QED  BY <1>1, <1>2, <1>3 DEF Owner

LEMMA LeaseSteady ==
    ASSUME Shape, LeaseExpires \/ Stall \/ (\E k \in Tokens : Heartbeat(k)) \/ UNCHANGED vars
    PROVE  Steady
<1>1. RowSteady
  BY RowStatementsSteady DEF LeaseExpires, Stall, Heartbeat, vars
<1>2. QED
  BY <1>1, NothingSteady DEF LeaseExpires, Stall, Heartbeat, vars, Steady

(***************************************************************************)
(* The other steps.  In most of them one execution moves on and the jobs,  *)
(* the passes and the outcome of the Task stay as they are.                *)
(***************************************************************************)
HolderKnows1(k) ==
    task.lease = k =>
        /\ exec[k].at \in UnattachedSteps => task.req = None
        /\ exec[k].at \in InvocationSteps => task.logical = exec[k].logical
        /\ exec[k].at = "poll" => task.req = exec[k].req

Moved(k) ==
    /\ \A j \in Tokens \ {k} : exec'[j] = exec[j]
    /\ \A j \in Tokens \ {k} : task'.lease = j =>
          task.lease = j /\ task'.logical = task.logical /\ task'.req = task.req
    /\ \A r \in Requests : vendor[r] = "done" => vendor'[r] = "done"
    /\ NoSuccess /\ PassKept

LEMMA MovedKeeps ==
    ASSUME Core, [Next]_vars, Custody, NEW k \in Tokens, Moved(k),
           HolderKnows1(k)', Earned(exec[k])',
           RecordedAfterAnswer', RecordedJobsAccountedFor'
    PROVE  Custody'
<1>1. HolderKnows'
  <2> SUFFICES ASSUME NEW j \in Tokens PROVE HolderKnows1(j)'
    BY DEF HolderKnows, HolderKnows1
  <2>1. CASE j = k
    BY <2>1
  <2>2. CASE j # k
    BY <2>2 DEF Moved, HolderKnows1, Custody, HolderKnows
  <2>3. QED  BY <2>1, <2>2
<1>2. ResultsEarned'
  <2> SUFFICES ASSUME NEW j \in Tokens PROVE Earned(exec[j])'
    BY DEF ResultsEarned
  <2>1. CASE j = k
    BY <2>1
  <2>2. CASE j # k
    BY <2>2, EarnedStays DEF Moved, Custody, ResultsEarned
  <2>3. QED  BY <2>1, <2>2
<1>3. SeenUnfinished' /\ SuccessHasResult'
  BY SeenStays, SuccessStays DEF Moved, Custody
<1>4. QED  BY <1>1, <1>2, <1>3 DEF Custody

\* The same for a step that records no job and settles no row.
LEMMA MovedAlone ==
    ASSUME Core, [Next]_vars, Custody, NEW k \in Tokens, Moved(k),
           HolderKnows1(k)', UNCHANGED <<ledger, vendor>>,
           exec'[k].at \notin {"dispatch", "log", "succeed"}
    PROVE  Custody'
<1>1. Earned(exec[k])'
  BY DEF Earned
<1>2. RecordedAfterAnswer'
  BY DEF Moved, Custody, RecordedAfterAnswer
<1>3. RecordedJobsAccountedFor'
  BY JobsStay, NothingSteady DEF Custody
<1>4. QED  BY <1>1, <1>2, <1>3, MovedKeeps

LEMMA ClaimCustody ==
    ASSUME Core, [Next]_vars, Custody, NEW k \in Tokens, Claim(k)
    PROVE  Custody'
<1> USE DEF TaskType, Terminal
<1>1. task \in TaskType /\ exec \in [Tokens -> ExecType]
  BY DEF Core, Shape, TypeOK
<1>2. PassKept /\ UNCHANGED <<ledger, vendor>>
  BY NothingSteady DEF Claim, ClaimInvoke, ClaimPoll
<1>3. CASE ClaimInvoke(k)
  <2>1. /\ exec'[k].at = "claimed"
        /\ \A j \in Tokens \ {k} : exec'[j] = exec[j]
    BY <1>1, <1>3 DEF ClaimInvoke, Goto, Idle
  <2>2. task'.lease = k /\ task'.req = None /\ task'.status = "queued"
    BY <1>1, <1>3 DEF ClaimInvoke, MayClaimPending, ClaimPending
  <2>3. Moved(k)
    BY <1>2, <2>1, <2>2 DEF Moved, NoSuccess
  <2>4. HolderKnows1(k)'
    BY <2>1, <2>2 DEF HolderKnows1, InvocationSteps, DispatchSteps
  <2>5. QED  BY <1>2, <2>1, <2>3, <2>4, MovedAlone
<1>4. CASE ClaimPoll(k)
  <2>1. /\ exec'[k].at = "poll" /\ exec'[k].req = task.req
        /\ \A j \in Tokens \ {k} : exec'[j] = exec[j]
    BY <1>1, <1>4 DEF ClaimPoll, Goto, Idle
  <2>2. task'.lease = k /\ task'.req = task.req /\ task'.status = "running"
    BY <1>1, <1>4 DEF ClaimPoll, MayClaimDuePoll, ClaimDuePoll
  <2>3. Moved(k)
    BY <1>2, <2>1, <2>2 DEF Moved, NoSuccess
  <2>4. HolderKnows1(k)'
    BY <2>1, <2>2 DEF HolderKnows1, UnattachedSteps, InvocationSteps, DispatchSteps
  <2>5. QED  BY <1>2, <2>1, <2>3, <2>4, MovedAlone
<1>5. QED  BY <1>3, <1>4 DEF Claim

LEMMA StartCustody ==
    ASSUME Core, [Next]_vars, Custody, NEW k \in Tokens, Start(k), MayStart(task, k)
    PROVE  Custody'
<1>1. task \in TaskType /\ exec \in [Tokens -> ExecType] /\ exec[k].at = "claimed"
  BY DEF Core, Shape, TypeOK, Start, At
<1>2. PassKept /\ UNCHANGED <<ledger, vendor>>
  BY NothingSteady DEF Start
<1>3. /\ exec'[k].at = "prepare"
      /\ \A j \in Tokens \ {k} : exec'[j] = exec[j]
  <2>1. Goto(k, [exec[k] EXCEPT !.at = "prepare", !.logical = task.logical,
                                !.retry = task.retry])
    BY DEF Start
  <2>2. exec[k] \in ExecType
    BY <1>1
  <2>3. QED  BY <1>1, <2>1, <2>2 DEF Goto, ExecType
<1>4. /\ task'.lease = k /\ task'.req = task.req /\ task'.status = "running"
      /\ task.lease = k
  BY <1>1 DEF Start, MayStart, StartClaimed, TaskType
<1>5. task.req = None
  BY <1>1, <1>4 DEF Custody, HolderKnows, UnattachedSteps
<1>6. Moved(k)
  BY <1>2, <1>3, <1>4 DEF Moved, NoSuccess
<1>7. HolderKnows1(k)'
  BY <1>3, <1>4, <1>5 DEF HolderKnows1, InvocationSteps, DispatchSteps
<1>8. QED  BY <1>2, <1>3, <1>6, <1>7, MovedAlone

LEMMA PrepareCustody ==
    ASSUME Core, [Next]_vars, Custody, NEW k \in Tokens, Prepare(k)
    PROVE  Custody'
<1>1. task \in TaskType /\ exec \in [Tokens -> ExecType]
  BY DEF Core, Shape, TypeOK
<1>2. PassKept /\ UNCHANGED <<ledger, vendor>>
  BY NothingSteady DEF Prepare
<1>3. PICK l \in Logicals :
        /\ MayPrepare(task, k, l) /\ task' = PrepareInvokeAttempt(task, l)
        /\ Goto(k, [exec[k] EXCEPT !.logical = l, !.at = AfterPrepare(exec[k].logical)])
  BY DEF Prepare
<1>4. /\ exec'[k].at \in {"preflight", "recover"} /\ exec'[k].logical = l
      /\ \A j \in Tokens \ {k} : exec'[j] = exec[j]
  BY <1>1, <1>3 DEF Goto, ExecType, AfterPrepare
<1>5. /\ task'.lease = k /\ task'.req = None /\ task'.status = "running"
      /\ task'.logical = l
  BY <1>1, <1>3 DEF MayPrepare, PrepareInvokeAttempt, TaskType
<1>6. Moved(k)
  BY <1>2, <1>4, <1>5 DEF Moved, NoSuccess
<1>7. HolderKnows1(k)'
  BY <1>4, <1>5 DEF HolderKnows1, UnattachedSteps, InvocationSteps, DispatchSteps
<1>8. QED  BY <1>2, <1>4, <1>6, <1>7, MovedAlone

\* An execution goes from one step of its invocation to another.
LEMMA MovesOn ==
    ASSUME Core, Custody, NEW k \in Tokens, UNCHANGED <<task, pass>>,
           exec[k].at \in InvocationSteps, exec'[k].at \in InvocationSteps,
           exec'[k].logical = exec[k].logical,
           \A j \in Tokens \ {k} : exec'[j] = exec[j],
           \A r \in Requests : vendor[r] = "done" => vendor'[r] = "done"
    PROVE  Moved(k) /\ HolderKnows1(k)'
<1>1. Moved(k)
  BY NothingSteady DEF Moved, NoSuccess
<1>2. HolderKnows1(k)'
  BY DEF HolderKnows1, Custody, HolderKnows, UnattachedSteps, InvocationSteps, DispatchSteps
<1>3. QED  BY <1>1, <1>2

LEMMA PreflightCustody ==
    ASSUME Core, [Next]_vars, Custody, NEW k \in Tokens, Preflight(k) \/ RecoverAccepted(k)
    PROVE  Custody'
<1>1. exec[k] \in ExecType /\ exec \in [Tokens -> ExecType]
  BY DEF Core, Shape, TypeOK
<1>2. UNCHANGED <<task, pass, ledger, vendor>>
  BY DEF Preflight, RecoverAccepted, db
<1>3. /\ exec[k].at \in {"preflight", "recover"} /\ exec'[k].at \in {"begin", "adopt"}
      /\ exec'[k].logical = exec[k].logical
      /\ \A j \in Tokens \ {k} : exec'[j] = exec[j]
  <2>1. CASE Preflight(k)
    BY ZenonT(30), <1>1, <2>1 DEF Preflight, At, Goto, ExecType
  <2>2. CASE RecoverAccepted(k)
    BY ZenonT(30), <1>1, <2>2 DEF RecoverAccepted, At, Goto, ExecType
  <2>3. QED  BY <2>1, <2>2
<1>4. Moved(k) /\ HolderKnows1(k)'
  BY <1>2, <1>3, MovesOn DEF InvocationSteps, DispatchSteps
<1>5. QED  BY <1>2, <1>3, <1>4, MovedAlone

LEMMA BeginCustody ==
    ASSUME Core, [Next]_vars, Custody, NEW k \in Tokens, BeginAttempt(k)
    PROVE  Custody'
<1>1. exec[k] \in ExecType /\ exec \in [Tokens -> ExecType] /\ ledger \in LedgerType
  BY DEF Core, Shape, TypeOK
<1>2. /\ UNCHANGED <<task, pass, vendor>> /\ exec[k].at = "begin"
      /\ ledger' = Begin(ledger, exec[k].req)
  BY DEF BeginAttempt, At
<1>3. /\ exec'[k].at = "dispatch" /\ exec'[k].req = exec[k].req
      /\ exec'[k].logical = exec[k].logical
      /\ \A j \in Tokens \ {k} : exec'[j] = exec[j]
  BY <1>1 DEF BeginAttempt, Goto, ExecType
<1>4. exec[k].req \in Requests
  BY <1>2, WorksOn DEF JobSteps, Core
<1>5. /\ ~ledger'[exec[k].req].ext /\ ledger'[exec[k].req].st = "pending"
      /\ \A r \in Requests \ {exec[k].req} : ledger'[r] = ledger[r]
  BY <1>1, <1>2, <1>4 DEF Begin, LedgerType
<1>6. Moved(k) /\ HolderKnows1(k)'
  BY <1>2, <1>3, MovesOn DEF InvocationSteps, DispatchSteps
<1>7. Earned(exec[k])'
  BY <1>3 DEF Earned
<1>8. RecordedAfterAnswer'
  <2> SUFFICES ASSUME NEW j \in Tokens, exec'[j].at \in {"dispatch", "log"}
               PROVE  ~ledger'[exec'[j].req].ext
    BY DEF RecordedAfterAnswer
  <2>1. exec'[j].req \in Requests
    BY ShapeNext DEF Shape, ExecShape, Shaped, JobSteps, Core
  <2>2. CASE j = k
    BY <1>3, <1>5, <2>2
  <2>3. CASE j # k
    BY <1>3, <1>5, <2>1, <2>3 DEF Custody, RecordedAfterAnswer
  <2>4. QED  BY <2>2, <2>3
<1>9. RecordedJobsAccountedFor'
  BY <1>2, <1>5 DEF Custody, RecordedJobsAccountedFor
<1>10. QED  BY <1>6, <1>7, <1>8, <1>9, MovedKeeps

LEMMA DispatchCustody ==
    ASSUME Core, [Next]_vars, Custody, NEW k \in Tokens, Dispatch(k)
    PROVE  Custody'
<1>1. exec[k] \in ExecType /\ exec \in [Tokens -> ExecType]
      /\ vendor \in [Requests -> VendorStates]
  BY DEF Core, Shape, TypeOK
<1>2. UNCHANGED <<task, pass, ledger>> /\ exec[k].at = "dispatch"
  BY DEF Dispatch, At, db
<1>3. exec[k].req \in Requests /\ vendor[exec[k].req] # "done" /\ ~ledger[exec[k].req].ext
  BY <1>2, WorksOn, Loop
     DEF JobSteps, Core, Dispatching, DispatchSteps, Untaken, Accepted, Custody,
         RecordedAfterAnswer
<1>4. PICK a \in Answers, c \in RejectCodes :
        /\ vendor' = [vendor EXCEPT ![exec[k].req] = VendorEffect(a)]
        /\ Goto(k, [exec[k] EXCEPT !.at = "log", !.answer = a,
                     !.code = CASE a \in {"rejected", "failed"} -> c
                                [] a = "ingest" -> "ASSET_DOWNLOAD_FAILED"
                                [] OTHER -> None])
  BY DEF Dispatch
<1>5. /\ exec'[k].at = "log" /\ exec'[k].req = exec[k].req /\ exec'[k].answer = a
      /\ exec'[k].logical = exec[k].logical
      /\ \A j \in Tokens \ {k} : exec'[j] = exec[j]
  BY <1>1, <1>4 DEF Goto, ExecType
<1>6. /\ vendor'[exec[k].req] = VendorEffect(a)
      /\ \A r \in Requests \ {exec[k].req} : vendor'[r] = vendor[r]
  BY <1>1, <1>3, <1>4
<1>7. Moved(k) /\ HolderKnows1(k)'
  BY <1>2, <1>3, <1>5, <1>6, MovesOn DEF InvocationSteps, DispatchSteps
<1>8. Earned(exec[k])'
  BY <1>5, <1>6 DEF Earned, VendorEffect
<1>9. RecordedAfterAnswer'
  BY <1>2, <1>3, <1>5 DEF Custody, RecordedAfterAnswer
<1>10. RecordedJobsAccountedFor'
  BY <1>2, <1>3, <1>6 DEF Custody, RecordedJobsAccountedFor
<1>11. QED  BY <1>7, <1>8, <1>9, <1>10, MovedKeeps

\* What settles the row of an answered dispatch leaves the jobs alone.
LEMMA LoggedKeeps ==
    ASSUME Core, Custody, NEW k \in Tokens, exec[k].at = "log",
           NEW st \in SettledStatuses, NEW c \in Codes \cup {None},
           ledger' = FinalizePending(ledger, exec[k].req, st, c), UNCHANGED vendor
    PROVE  JobsKept
<1>1. exec[k].req \in Requests /\ ~ledger[exec[k].req].ext
  BY WorksOn DEF JobSteps, Core, Custody, RecordedAfterAnswer
<1>2. VendorCalm
  BY DEF VendorCalm
<1>3. QED  BY <1>1, <1>2, SettlesJob DEF Core

LEMMA LogRejectedCustody ==
    ASSUME Core, [Next]_vars, Custody, NEW k \in Tokens, LogRejected(k)
    PROVE  Custody'
<1>1. exec[k] \in ExecType /\ exec \in [Tokens -> ExecType]
  BY DEF Core, Shape, TypeOK
<1>2. exec[k].at = "log" /\ UNCHANGED <<task, pass, vendor>>
  BY DEF LogRejected, At
<1>3. JobsKept
  BY <1>1, <1>2, LoggedKeeps DEF LogRejected, SettledStatuses, ExecType
<1>4. CASE Goto(k, FailWith(exec[k], exec[k].code, TRUE))
  <2>1. Steady
    BY <1>2, <1>3, <1>4, FailLeaves, NothingSteady DEF Steady, Core
  <2>2. QED  BY <2>1, SteadyKeeps
<1>5. CASE Goto(k, [exec[k] EXCEPT !.at = "begin", !.code = None, !.answer = None,
                                   !.req = <<exec[k].logical, exec[k].req[2] + 1>>])
  <2>1. /\ exec'[k].at = "begin" /\ exec'[k].logical = exec[k].logical
        /\ \A j \in Tokens \ {k} : exec'[j] = exec[j]
    BY <1>1, <1>5 DEF Goto, ExecType
  <2>2. Moved(k) /\ HolderKnows1(k)'
    BY <1>2, <2>1, MovesOn DEF InvocationSteps, DispatchSteps
  <2>3. Earned(exec[k])'
    BY <2>1 DEF Earned
  <2>4. RecordedAfterAnswer'
    <3> SUFFICES ASSUME NEW j \in Tokens, exec'[j].at \in {"dispatch", "log"}
                 PROVE  ~ledger'[exec'[j].req].ext
      BY DEF RecordedAfterAnswer
    <3>1. exec'[j] = exec[j]
      BY <2>1
    <3>2. exec[j].req \in Requests
      BY <3>1, WorksOn DEF JobSteps, Core
    <3>3. QED  BY <1>3, <3>1, <3>2 DEF Custody, RecordedAfterAnswer, JobsKept, JobKept
  <2>5. RecordedJobsAccountedFor'
    BY <1>3, JobsStay DEF Custody
  <2>6. QED  BY <2>2, <2>3, <2>4, <2>5, MovedKeeps
<1>6. QED  BY <1>4, <1>5 DEF LogRejected

\* The only step that records a job: in the row of its own dispatch.
LEMMA LogRunningCustody ==
    ASSUME Core, [Next]_vars, Custody, NEW k \in Tokens, LogRunning(k)
    PROVE  Custody'
<1>1. exec[k] \in ExecType /\ exec \in [Tokens -> ExecType] /\ ledger \in LedgerType
  BY DEF Core, Shape, TypeOK
<1>2. /\ exec[k].at = "log" /\ UNCHANGED <<task, pass, vendor>>
      /\ ledger' = RecordExternal(ledger, exec[k].req) /\ ledger[exec[k].req].st = "pending"
  BY DEF LogRunning, At, RowOpen
<1>3. exec[k].req \in Requests
  BY <1>2, WorksOn DEF JobSteps, Core
<1>4. /\ ledger'[exec[k].req].st = "pending"
      /\ \A r \in Requests \ {exec[k].req} : ledger'[r] = ledger[r]
  BY <1>1, <1>2, <1>3 DEF RecordExternal, LedgerType, RowType
<1>5. /\ exec'[k].at = "save" /\ exec'[k].logical = exec[k].logical
      /\ \A j \in Tokens \ {k} : exec'[j] = exec[j]
  BY <1>1 DEF LogRunning, Goto, ExecType
<1>6. Moved(k) /\ HolderKnows1(k)'
  BY <1>2, <1>5, MovesOn DEF InvocationSteps, DispatchSteps
<1>7. Earned(exec[k])'
  BY <1>5 DEF Earned
<1>8. RecordedAfterAnswer'
  <2> SUFFICES ASSUME NEW j \in Tokens, exec'[j].at \in {"dispatch", "log"}
               PROVE  ~ledger'[exec'[j].req].ext
    BY DEF RecordedAfterAnswer
  <2>1. j # k /\ exec'[j] = exec[j]
    BY <1>5
  <2>2. Dispatching(j) /\ Dispatching(k)
    BY <1>2, <2>1 DEF Dispatching, DispatchSteps
  <2>3. exec[j].logical # exec[k].logical
    BY <2>1, <2>2 DEF Core, OneDispatcher
  <2>4. exec[j].req \in Requests /\ exec[j].req # exec[k].req
    BY <1>2, <2>1, <2>2, <2>3, Loop
  <2>5. QED  BY <1>4, <2>1, <2>4 DEF Custody, RecordedAfterAnswer
<1>9. RecordedJobsAccountedFor'
  BY <1>2, <1>4 DEF Custody, RecordedJobsAccountedFor, Settled
<1>10. QED  BY <1>6, <1>7, <1>8, <1>9, MovedKeeps

LEMMA LogSuccessCustody ==
    ASSUME Core, [Next]_vars, Custody, NEW k \in Tokens, LogSuccess(k)
    PROVE  Custody'
<1>1. exec[k] \in ExecType /\ exec \in [Tokens -> ExecType] /\ ledger \in LedgerType
  BY DEF Core, Shape, TypeOK
<1>2. /\ exec[k].at = "log" /\ exec[k].answer = "success" /\ UNCHANGED <<task, pass, vendor>>
      /\ ledger' = FinalizePending(ledger, exec[k].req, "success", None)
      /\ ledger[exec[k].req].st = "pending"
  BY DEF LogSuccess, At, RowOpen
<1>3. exec[k].req \in Requests /\ exec[k].req[1] = exec[k].logical
  BY <1>2, Loop DEF Dispatching, DispatchSteps
<1>4. ledger'[exec[k].req].st = "success"
  BY <1>1, <1>2, <1>3, FinalizeOnce DEF RowStatuses
<1>5. /\ exec'[k].at = "succeed" /\ exec'[k].logical = exec[k].logical
      /\ exec'[k].req = exec[k].req
      /\ \A j \in Tokens \ {k} : exec'[j] = exec[j]
  BY <1>1 DEF LogSuccess, Goto, ExecType
<1>6. Moved(k) /\ HolderKnows1(k)'
  BY <1>2, <1>5, MovesOn DEF InvocationSteps, DispatchSteps
<1>7. Earned(exec[k])'
  BY <1>2, <1>3, <1>4, <1>5 DEF Earned, Custody, ResultsEarned
<1>8. JobsKept
  BY <1>2, LoggedKeeps DEF SettledStatuses
<1>9. RecordedAfterAnswer'
  <2> SUFFICES ASSUME NEW j \in Tokens, exec'[j].at \in {"dispatch", "log"}
               PROVE  ~ledger'[exec'[j].req].ext
    BY DEF RecordedAfterAnswer
  <2>1. exec'[j] = exec[j]
    BY <1>5
  <2>2. exec[j].req \in Requests
    BY <2>1, WorksOn DEF JobSteps, Core
  <2>3. QED  BY <1>8, <2>1, <2>2 DEF Custody, RecordedAfterAnswer, JobsKept, JobKept
<1>10. RecordedJobsAccountedFor'
  BY <1>8, JobsStay DEF Custody
<1>11. QED  BY <1>6, <1>7, <1>9, <1>10, MovedKeeps

\* The synchronous result: nothing is attached, and the execution earned it.
LEMMA SucceedCustody ==
    ASSUME Core, [Next]_vars, Custody, NEW k \in Tokens, Succeed(k)
    PROVE  Custody'
<1>1. exec[k].at = "succeed" /\ task \in TaskType /\ ExecLeaves
  BY IdleLeaves DEF Succeed, At, Core, Shape, TypeOK
<1>2. UNCHANGED <<pass, vendor>>
  BY DEF Succeed
<1>3. CASE ~HeldBy(task, k)
  <2>1. Steady
    BY <1>1, <1>2, <1>3, NothingSteady DEF Succeed, TerminalSucceed, Steady
  <2>2. QED  BY <2>1, SteadyKeeps
<1>4. CASE HeldBy(task, k)
  <2>1. task.req = None /\ task.logical = exec[k].logical
    BY <1>1, <1>4 DEF HeldBy, Custody, HolderKnows, UnattachedSteps, InvocationSteps
  <2>2. UNCHANGED ledger /\ task' = Finish(task, "succeeded", None)
    BY <1>4, <2>1 DEF Succeed, TerminalSucceed, SettleAttached
  <2>3. task'.lease = None /\ task'.logical = task.logical
    BY <1>1, <2>2 DEF Finish, TaskType
  <2>4. Earned(exec[k])
    BY DEF Custody, ResultsEarned
  <2>5. SuccessHasResult'
    BY <1>1, <1>2, <2>1, <2>2, <2>3, <2>4 DEF Earned, SuccessHasResult
  <2>6. QED
    BY <1>1, <1>2, <2>2, <2>3, <2>5, NothingSteady, EndedKeeps DEF RowHolds
<1>5. QED  BY <1>3, <1>4

\* The result of a poll: the job attached to the Task is the one polled.
LEMMA PollSucceededCustody ==
    ASSUME Core, [Next]_vars, Custody, NEW k \in Tokens, PollSucceeded(k)
    PROVE  Custody'
<1>1. /\ exec[k].at = "poll" /\ task \in TaskType /\ ExecLeaves /\ PassKept
      /\ ledger \in LedgerType /\ vendor \in [Requests -> VendorStates]
      /\ vendor' = [vendor EXCEPT ![exec[k].req] = "done"]
  BY IdleLeaves, NothingSteady DEF PollSucceeded, At, Core, Shape, TypeOK
<1>2. exec[k].req \in Requests
  BY <1>1, WorksOn DEF Core
<1>3. VendorCalm /\ vendor'[exec[k].req] = "done"
  BY <1>1, <1>2 DEF VendorCalm
<1>4. CASE ~HeldBy(task, k)
  <2>1. JobsKept /\ UNCHANGED task
    BY <1>3, <1>4, CalmKeeps DEF PollSucceeded, TerminalSucceed
  <2>2. Steady
    BY <1>1, <2>1, NothingSteady DEF Steady
  <2>3. QED  BY <2>2, SteadyKeeps
<1>5. CASE HeldBy(task, k)
  <2>1. task.req = exec[k].req /\ task.req # None
    BY <1>1, <1>2, <1>5, NullAssumption DEF HeldBy, Custody, HolderKnows
  <2>2. ledger[task.req].st = "pending"
    BY <1>5, <2>1 DEF PollSucceeded, Unsettleable, MaySettle
  <2>3. ledger' = FinalizePending(ledger, task.req, "success", None)
        /\ task' = Finish(task, "succeeded", None)
    BY <1>5, <2>1 DEF PollSucceeded, TerminalSucceed, SettleAttached
  <2>4. task'.lease = None /\ task'.logical = task.req[1]
    BY <1>1, <2>1, <2>3 DEF Finish, TaskType, Core, RowShape
  <2>5. ledger'[task.req].st = "success"
    BY <1>1, <1>2, <2>1, <2>2, <2>3, FinalizeOnce DEF RowStatuses
  <2>6. SuccessHasResult'
    BY <1>2, <1>3, <2>1, <2>4, <2>5 DEF SuccessHasResult
  <2>7. JobsKept
    BY <1>2, <1>3, <2>1, <2>3, SettlesJob DEF Core, SettledStatuses
  <2>8. QED
    BY <1>1, <2>4, <2>6, <2>7, EndedKeeps DEF RowHolds
<1>6. QED  BY <1>4, <1>5

\* The row a pass lists is pending, so its Task has not ended with it attached.
LEMMA ListOrphanCustody ==
    ASSUME Core, TerminalSettlesLedger, [Next]_vars, Custody,
           NEW i \in Instances, NEW r \in Requests, ListOrphan(i, r)
    PROVE  Custody'
<1>1. /\ ledger[r].st = "pending" /\ UNCHANGED <<task, ledger, exec, vendor>>
      /\ pass' = [pass EXCEPT ![i] = [at |-> "listed", req |-> r, seen |-> task]]
      /\ pass \in [Instances -> PassType]
  BY DEF ListOrphan, AcceptedOrphan, SetPass, db, Core, Shape, TypeOK
<1>2. task.req = r => task.status \notin Terminal
  BY <1>1, NullAssumption DEF TerminalSettlesLedger, Terminal
<1>3. SeenUnfinished'
  <2> SUFFICES ASSUME NEW j \in Instances, pass'[j].at # "idle",
                      pass'[j].seen.req = pass'[j].req
               PROVE  pass'[j].seen.status \notin Terminal
    BY DEF SeenUnfinished
  <2>1. CASE j = i
    BY <1>1, <1>2, <2>1
  <2>2. CASE j # i
    BY <1>1, <2>2 DEF Custody, SeenUnfinished
  <2>3. QED  BY <2>1, <2>2
<1>4. QED
  BY <1>1, <1>3, HolderStays, ResultsStay, UnrecordedStays, JobsStay, SuccessStays,
     NothingSteady
     DEF Custody, RowSteady

(***************************************************************************)
(* Every step keeps Custody.                                               *)
(***************************************************************************)
LEMMA InvokeCustody ==
    ASSUME Core, [Next]_vars, Custody, NEW k \in Tokens, Invoke(k)
    PROVE  Custody'
<1>1. CASE Start(k) /\ MayStart(task, k)
  BY <1>1, StartCustody
<1>2. CASE \/ Start(k) /\ ~MayStart(task, k)
           \/ PrepareMisses(k) \/ PreflightFails(k) \/ SucceedThrows(k)
  BY <1>2, MissesSteady, SteadyKeeps DEF Core
<1>3. CASE Prepare(k) \/ Preflight(k) \/ BeginAttempt(k) \/ Dispatch(k)
  BY <1>3, PrepareCustody, PreflightCustody, BeginCustody, DispatchCustody
<1>4. CASE BeginFails(k) \/ DispatchUnknown(k)
  BY <1>4, BeginFailsSteady, DispatchUnknownSteady, SteadyKeeps DEF Custody
<1>5. CASE LogRejected(k) \/ LogRunning(k) \/ LogSuccess(k)
  BY <1>5, LogRejectedCustody, LogRunningCustody, LogSuccessCustody
<1>6. CASE LogIncomplete(k) \/ LogFailed(k) \/ LogIngestFailure(k) \/ LogFails(k)
  BY <1>6, LogSteady, SteadyKeeps DEF Custody
<1>7. CASE \/ SaveExternal(k) \/ SaveExternalThrows(k) \/ Discard(k) \/ HandleFailed(k)
  BY <1>7, AttachSteady, UndoSteady, HandleFailedSteady, SteadyKeeps DEF Core
<1>8. CASE Succeed(k)
  BY <1>8, SucceedCustody
<1>9. QED
  BY <1>1, <1>2, <1>3, <1>4, <1>5, <1>6, <1>7, <1>8 DEF Invoke

LEMMA LaterCustody ==
    ASSUME Core, [Next]_vars, Custody, NEW k \in Tokens, Recover(k) \/ Poll(k) \/ Crash(k)
    PROVE  Custody'
<1>1. CASE RecoverAccepted(k)
  BY <1>1, PreflightCustody
<1>2. CASE RecoverSettled(k) \/ RecoverExpired(k) \/ PollGivesUp(k) \/ Crash(k)
  BY <1>2, MissesSteady, SteadyKeeps DEF Core
<1>3. CASE Adopt(k) \/ AdoptMissed(k)
  BY <1>3, AttachSteady, UndoSteady, SteadyKeeps DEF Core
<1>4. CASE \/ RecoverDefers(k) \/ PollAgain(k) \/ PollFailThrows(k) \/ Reschedule(k)
           \/ PollIngestFails(k) \/ PollFailed(k)
  BY <1>4, ReleasesSteady, PollFailedSteady, SteadyKeeps DEF Core
<1>5. CASE PollSucceeded(k)
  BY <1>5, PollSucceededCustody
<1>6. QED  BY <1>1, <1>2, <1>3, <1>4, <1>5 DEF Recover, Poll

LEMMA CustodyNext ==
    ASSUME Core, TerminalSettlesLedger, Custody, [Next]_vars
    PROVE  Custody'
<1>1. ASSUME NEW k \in Tokens, Claim(k) \/ Work(k) \/ Heartbeat(k) \/ Crash(k)
      PROVE  Custody'
  BY <1>1, ClaimCustody, InvokeCustody, LaterCustody, LeaseSteady, SteadyKeeps DEF Work, Core
<1>2. ASSUME NEW i \in Instances,
             ActOnOrphan(i) \/ CrashPass(i) \/ \E r \in Requests : ListOrphan(i, r)
      PROVE  Custody'
  BY <1>2, OrphanSteady, ListOrphanCustody, SteadyKeeps DEF Core, Custody
<1>3. ASSUME NEW r \in Requests, Sweep(r) PROVE Custody'
  BY <1>3, SweepSteady, SteadyKeeps DEF Core
<1>4. CASE Owner \/ LeaseExpires \/ Stall \/ UNCHANGED vars
  BY <1>4, OwnerSteady, LeaseSteady, SteadyKeeps DEF Core
<1>5. QED  BY <1>1, <1>2, <1>3, <1>4 DEF Next

LEMMA CustodyInit == Init => Custody
<1> SUFFICES ASSUME Init PROVE Custody
  OBVIOUS
<1> USE DEF Init
<1>1. HolderKnows
  BY NoneAssumption DEF HolderKnows, NewTask
<1>2. ResultsEarned /\ RecordedAfterAnswer
  BY DEF ResultsEarned, Earned, RecordedAfterAnswer, Idle
<1>3. SeenUnfinished
  BY DEF SeenUnfinished, NoPass
<1>4. SuccessHasResult /\ RecordedJobsAccountedFor
  BY DEF SuccessHasResult, NewTask, RecordedJobsAccountedFor, EmptyLedger, NoRow
<1>5. QED  BY <1>1, <1>2, <1>3, <1>4 DEF Custody

LEMMA CustodyCorrect == Spec => []Custody
BY CustodyInit, CustodyNext, CoreCorrect, TerminalSettlesCorrect, PTL DEF Spec

(***************************************************************************)
(* The theorems.                                                           *)
(***************************************************************************)
\* A Task succeeds only with a result of its current invocation that the vendor
\* completed and the ledger settled as a success.
THEOREM SuccessCorrect == Spec => []SuccessHasResult
<1>1. Custody => SuccessHasResult  BY DEF Custody
<1>2. QED  BY <1>1, CustodyCorrect, PTL

\* A job the ledger knows is never forgotten while it runs.
THEOREM JobsAccountedCorrect == Spec => []RecordedJobsAccountedFor
<1>1. Custody => RecordedJobsAccountedFor  BY DEF Custody
<1>2. QED  BY <1>1, CustodyCorrect, PTL
============================================================================
