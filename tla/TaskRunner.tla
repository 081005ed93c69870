----------------------------- MODULE TaskRunner -----------------------------
(***************************************************************************)
(* TaskRunnerService of one process: two timers claim Tasks for the two    *)
(* kinds of work, invoke and poll, out of one budget of slots.             *)
(*                                                                         *)
(* The claim is awaited: works end, heartbeats are lost and the timers     *)
(* fire while it is under way.  What is claimed is in TaskLifecycle; here  *)
(* a work only takes a slot until its promise is settled.                  *)
(***************************************************************************)
EXTENDS Integers, FiniteSets

CONSTANTS
    Works,       \* claimed Tasks, one each
    Concurrency, \* TASK_CONCURRENCY
    None

VARIABLES
    dispatching, \* a claim is under way
    inFlight,
    rounds,      \* timer -> the slots its claim was given, or None
    work         \* what became of a claimed Task

vars == <<dispatching, inFlight, rounds, work>>

Timers == {"tick", "pollRunning"}
Started == {w \in Works : work[w] # "free"}

Init ==
    /\ dispatching = FALSE /\ inFlight = 0
    /\ rounds = [q \in Timers |-> None]
    /\ work = [w \in Works |-> "free"]

-----------------------------------------------------------------------------
(* claimWithinCapacity. *)

ReentrantClaim == TRUE             \* mutant: dispatching is not looked at
MayClaim == ~dispatching

Fire(q) ==
    /\ rounds[q] = None /\ MayClaim
    /\ Concurrency - inFlight > 0
    /\ dispatching' = TRUE
    /\ rounds' = [rounds EXCEPT ![q] = Concurrency - inFlight]
    /\ UNCHANGED <<inFlight, work>>

\* The claim returns up to as many Tasks as it was given slots.
Claimed(q) ==
    /\ rounds[q] # None
    /\ \E S \in SUBSET (Works \ Started) :
          /\ Cardinality(S) <= rounds[q]
          /\ inFlight' = inFlight + Cardinality(S)
          /\ work' = [w \in Works |-> IF w \in S THEN "working" ELSE work[w]]
    /\ rounds' = [rounds EXCEPT ![q] = None]
    /\ dispatching' = FALSE

ClaimFails(q) ==
    /\ rounds[q] # None
    /\ rounds' = [rounds EXCEPT ![q] = None]
    /\ dispatching' = FALSE
    /\ UNCHANGED <<inFlight, work>>

-----------------------------------------------------------------------------
(* withHeartbeat. *)

\* The lease is lost, or renewing it failed: the work is told, not stopped.
Abort(w) ==
    /\ work[w] = "working"
    /\ work' = [work EXCEPT ![w] = "aborted"]
    /\ UNCHANGED <<dispatching, inFlight, rounds>>

\* The promise is settled, either way.
End(w) ==
    /\ work[w] # "free"
    /\ work' = [work EXCEPT ![w] = "free"]
    /\ inFlight' = inFlight - 1
    /\ UNCHANGED <<dispatching, rounds>>

Next ==
    \/ \E q \in Timers : Fire(q) \/ Claimed(q) \/ ClaimFails(q)
    \/ \E w \in Works : Abort(w) \/ End(w)

Spec == Init /\ [][Next]_vars

-----------------------------------------------------------------------------
\* The variables have their types.
TypeOK ==
    /\ dispatching \in BOOLEAN /\ inFlight \in Int
    /\ rounds \in [Timers -> (1..Concurrency) \cup {None}]
    /\ work \in [Works -> {"free", "working", "aborted"}]

\* "Serialize claim rounds so invoke and poll share one hard concurrency cap":
\* however the timers, the awaited claims and the ends of works interleave, no
\* more works are under way than the cap, and no slot is leaked or freed twice.
CapKept == Cardinality(Started) <= Concurrency /\ inFlight = Cardinality(Started)
=============================================================================
