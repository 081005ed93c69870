---------------------------- MODULE TaskMachine ----------------------------
(***************************************************************************)
(* What the task subsystem promises about one Task, without leases,        *)
(* ledger, recovery or retries of the bookkeeping:                         *)
(*                                                                         *)
(*   - its status moves only along the declared table (state-machine.ts);  *)
(*   - the vendor takes each logical invocation at most once, and only     *)
(*     after the Task has opened it;                                       *)
(*   - the Task succeeds only with an invocation the vendor took;          *)
(*   - the system by itself never drops an invocation the vendor may still *)
(*     be working on: only its end, or the owner's retry of a finished     *)
(*     Task, makes room for a new one.                                     *)
(*                                                                         *)
(* TaskLifecycle implements it.                                            *)
(***************************************************************************)
CONSTANTS Runs, NoRun

VARIABLES
    status,   \* the Task's status
    run,      \* its current logical invocation
    outcome   \* what became of each invocation

vars == <<status, run, outcome>>

Allowed ==
    [pending   |-> {"queued", "cancelled"},
     queued    |-> {"running", "cancelled", "failed"},
     running   |-> {"succeeded", "failed", "cancelled", "queued"},
     succeeded |-> {},
     failed    |-> {"queued"},
     cancelled |-> {"queued"}]

Outcomes == {"unopened", "open", "taken", "ended"}

Init ==
    /\ status = "pending"
    /\ run = NoRun
    /\ outcome = [l \in Runs |-> "unopened"]

\* A taken invocation may end together with any change of the Task.
MayEnd(l) == outcome' \in {outcome, [outcome EXCEPT ![l] = "ended"]}

SomeTakenMayEnd ==
    \/ UNCHANGED outcome
    \/ \E l \in Runs : outcome[l] = "taken" /\ MayEnd(l)

\* The status moves, the invocation stays.
Move ==
    /\ status' \in Allowed[status] \cup {status}
    /\ status' = "succeeded" /\ status # "succeeded" => run # NoRun /\ outcome[run] = "taken"
    /\ status \in {"failed", "cancelled"} => status' = status
    /\ run' = run
    /\ SomeTakenMayEnd

Open(l) ==
    /\ status = "running" /\ run = NoRun
    /\ outcome[l] = "unopened"
    /\ run' = l
    /\ outcome' = [outcome EXCEPT ![l] = "open"]
    /\ UNCHANGED status

\* The vendor takes l, and may already have finished with it.
Take(l) ==
    /\ outcome[l] = "open"
    /\ \E o \in {"taken", "ended"} : outcome' = [outcome EXCEPT ![l] = o]
    /\ UNCHANGED <<status, run>>

\* An automatic retry.
Retry ==
    /\ status = "running"
    /\ run # NoRun /\ outcome[run] # "taken"
    /\ status' = "queued" /\ run' = NoRun
    /\ UNCHANGED outcome

OwnerRetry ==
    /\ status \in {"failed", "cancelled"}
    /\ status' = "queued" /\ run' = NoRun
    /\ UNCHANGED outcome

Next == Move \/ Retry \/ OwnerRetry \/ \E l \in Runs : Open(l) \/ Take(l)

Spec == Init /\ [][Next]_vars
============================================================================
