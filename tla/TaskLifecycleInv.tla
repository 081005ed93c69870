-------------------------- MODULE TaskLifecycleInv --------------------------
(***************************************************************************)
(* The inductive invariant of TaskLifecycle: what the safety properties    *)
(* rest on.  Each part is one reason why they hold.                        *)
(***************************************************************************)
EXTENDS TaskLifecycle

\* The steps of an invocation on its way to the vendor.
DispatchSteps == {"preflight", "begin", "dispatch", "log"}

JobSteps == {"begin", "dispatch", "log", "save", "discard", "adopt", "mismatch"}

Dispatching(k) == exec[k].at \in DispatchSteps

\* An execution knows the invocation, and the row, it works on.
Shaped(e) ==
    /\ e.at \in DispatchSteps \cup JobSteps \cup {"recover"} => e.logical \in Logicals
    /\ e.at \in JobSteps \cup {"poll", "reschedule"} => e.req \in Requests
    /\ e.at \in JobSteps => e.req[1] = e.logical

ExecShape == \A k \in Tokens : Shaped(exec[k])

PassShape == \A i \in Instances : pass[i].at # "idle" => pass[i].req \in Requests

\* The row: nobody has claimed a pending Task or works on a finished one, a
\* job belongs to the current invocation, and a lease or an invocation means
\* that a claim was counted.
RowShape ==
    /\ task.status = "pending" => task.lease = None /\ task.logical = None
    /\ task.status \in Terminal => task.lease = None
    /\ task.req # None => task.logical = task.req[1]
    /\ task.attempt = 0 => task.lease = None /\ task.logical = None

\* What the holder of the lease read when it started is still in the row.
StartedOnRow ==
    \A k \in Tokens :
        exec[k].at = "prepare" /\ task.lease = k => task.logical = exec[k].logical

\* The current invocation has the current attempt_no, all others earlier ones.
KeysBelowAttempt ==
    /\ \A l \in Logicals : key[l] <= task.attempt
    /\ task.logical = None /\ task.lease # None
          => \A l \in Logicals : key[l] < task.attempt
    /\ task.logical # None
          => /\ key[task.logical] = task.attempt
             /\ \A l \in Logicals \ {task.logical} : key[l] < task.attempt

\* An id nobody has drawn has left no trace.
FreshUntouched ==
    \A l \in Logicals : key[l] = 0 =>
        /\ \A k \in Tokens : exec[k].logical # l
        /\ \A r \in Requests : r[1] = l => ledger[r].st = "absent"

\* One execution at most takes an invocation to the vendor.
OneDispatcher ==
    \A j, k \in Tokens :
        Dispatching(j) /\ Dispatching(k) /\ exec[j].logical = exec[k].logical => j = k

\* It works on the newest row, which a new attempt has not got yet.
InOrder(k) ==
    \A r \in Requests :
        r[1] = exec[k].logical =>
            /\ exec[k].at = "begin" /\ r[2] >= exec[k].req[2] => ledger[r].st = "absent"
            /\ exec[k].at \in {"dispatch", "log"} /\ r[2] > exec[k].req[2]
                  => ledger[r].st = "absent"
            /\ exec[k].at \in {"dispatch", "log"} /\ r = exec[k].req
                  => ledger[r].st # "absent"

DispatchOrder == \A k \in Tokens : InOrder(k)

\* Until its answer, and after a rejection, the vendor has taken none of the
\* attempts of the invocation.
Untaken(k) ==
    \/ exec[k].at \in {"preflight", "begin", "dispatch"}
    \/ exec[k].at = "log" /\ exec[k].answer = "rejected"
    => \A r \in Requests : r[1] = exec[k].logical => vendor[r] \notin Accepted

NothingTakenYet == \A k \in Tokens : Untaken(k)

\* A job id is recorded in a row that exists.
NoJobWithoutRow == \A r \in Requests : ledger[r].ext => ledger[r].st # "absent"

Shape == TypeOK /\ ExecShape /\ PassShape

Core ==
    /\ Shape /\ RowShape /\ StartedOnRow
    /\ KeysBelowAttempt /\ KeysDistinct
    /\ FreshUntouched /\ OneDispatcher /\ DispatchOrder
    /\ NothingTakenYet /\ NoJobWithoutRow
    /\ LedgerBeforeDispatch /\ AtMostOncePerInvocation

IInv == Core /\ TerminalSettlesLedger

(***************************************************************************)
(* What the results rest on: an execution that holds the lease knows what  *)
(* is attached to the Task, a result it was given stays the vendor's, and  *)
(* a job is recorded only in the row of its dispatch.                      *)
(***************************************************************************)
\* Steps at which the holder of the lease has attached nothing to the Task, and
\* those at which the Task works on the holder's invocation.
InvocationSteps == DispatchSteps \cup {"save", "succeed", "recover", "adopt"}
UnattachedSteps == InvocationSteps \cup {"claimed", "prepare"}

HolderKnows ==
    \A k \in Tokens : task.lease = k =>
        /\ exec[k].at \in UnattachedSteps => task.req = None
        /\ exec[k].at \in InvocationSteps => task.logical = exec[k].logical
        /\ exec[k].at = "poll" => task.req = exec[k].req

\* An execution with a result has it from the vendor, and settled its row.
Earned(e) ==
    /\ e.at = "log" /\ e.answer = "success" => vendor[e.req] = "done"
    /\ e.at = "succeed" =>
          /\ e.req \in Requests /\ e.req[1] = e.logical
          /\ vendor[e.req] = "done" /\ ledger[e.req].st = "success"

ResultsEarned == \A k \in Tokens : Earned(exec[k])

\* A row gets its job after the answer, from the execution that was answered.
RecordedAfterAnswer ==
    \A k \in Tokens : exec[k].at \in {"dispatch", "log"} => ~ledger[exec[k].req].ext

\* A pass never saw a finished Task with the row it works on still attached.
SeenUnfinished ==
    \A i \in Instances :
        pass[i].at # "idle" /\ pass[i].seen.req = pass[i].req
            => pass[i].seen.status \notin Terminal

Custody ==
    /\ HolderKnows /\ ResultsEarned /\ RecordedAfterAnswer /\ SeenUnfinished
    /\ SuccessHasResult /\ RecordedJobsAccountedFor

(***************************************************************************)
(* What an automatic retry rests on, when an invocation has one candidate: *)
(* whoever decides to retry an invocation knows that the vendor does not   *)
(* work on it and will never hear of it again.                             *)
(***************************************************************************)
\* The vendor works, or has worked, on a job with one of these.
Promising == {"live", "done", "uncancelled"}

\* The steps from which an execution will still reach the vendor.
OutwardSteps == {"preflight", "begin", "dispatch"}

Hopeless(l) ==
    /\ key[l] # 0
    /\ \A r \in Requests : r[1] = l => vendor[r] \notin Promising
    /\ \A k \in Tokens : exec[k].at \in OutwardSteps => exec[k].logical # l

\* A lease past its claim means that the Task runs.
HolderRuns ==
    \A k \in Tokens : task.lease = k /\ exec[k].at \notin {"idle", "claimed"} => task.status = "running"

\* The holder that decides about a retry does so for the Task's invocation.
HolderRetries ==
    \A k \in Tokens : task.lease = k =>
        /\ exec[k].at = "failed" /\ exec[k].again =>
              /\ exec[k].logical \in Logicals /\ task.logical = exec[k].logical
              /\ exec[k].code \in RetryableCodes => Hopeless(exec[k].logical)
        /\ exec[k].at = "reschedule" => task.req = exec[k].req

RescheduledHopeless ==
    \A k \in Tokens : exec[k].at = "reschedule" => Hopeless(exec[k].req[1])

\* The dispatch loop starts without a row, and a told failure is the vendor's.
LoopStartsFresh ==
    \A k \in Tokens : exec[k].at = "preflight" =>
        \A r \in Requests : r[1] = exec[k].logical => ledger[r].st = "absent"

FailureTold ==
    \A k \in Tokens :
        exec[k].at = "log" /\ exec[k].answer = "failed" => vendor[exec[k].req] = "failed"

\* Whoever works on a job finds it recorded.
JobsRecorded ==
    /\ \A k \in Tokens :
          exec[k].at \in {"save", "discard", "adopt", "mismatch", "poll", "reschedule"}
              => ledger[exec[k].req].ext
    /\ task.req # None => ledger[task.req].ext
    /\ \A i \in Instances : pass[i].at # "idle" => ledger[pass[i].req].ext

\* A row or a preflight failure that allows a retry is of a hopeless invocation,
\* or of one that ended the Task.
RowsHopeless ==
    \A r \in Requests :
        Settled(ledger[r]) /\ ledger[r].st # "success" /\ ledger[r].code \in RetryableCodes =>
            \/ Hopeless(r[1])
            \/ task.logical # r[1]
            \/ task.status \in Terminal

PreflightHopeless ==
    \A l \in Logicals : preflight[l] # None => Hopeless(l)

RetrySound ==
    /\ HolderRuns /\ HolderRetries /\ RescheduledHopeless
    /\ LoopStartsFresh /\ FailureTold /\ JobsRecorded
    /\ RowsHopeless /\ PreflightHopeless
============================================================================
