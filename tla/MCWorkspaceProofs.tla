------------------------- MODULE MCWorkspaceProofs -------------------------
(***************************************************************************)
(* Proofs about the components that MCWorkspace sets side by side, each    *)
(* from an inductive invariant of its own.                                 *)
(***************************************************************************)
EXTENDS MCWorkspace, FiniteSetTheorems, TLAPS

\* A step is a step of one component, and the others rest.
LEMMA OneMoves ==
    ASSUME [Next]_vars
    PROVE  /\ UNCHANGED scope
           /\ [W!Next]_writebackVars /\ [P!Next]_pollingVars /\ [U!Next]_uploadsVars
           /\ [R!Next]_registryVars /\ [T!Next]_runnerVars /\ [C!Next]_canvasVars
           /\ [H!Next]_chatVars
BY DEF Next, vars, CanvasMoves, WritebackMoves, PollingMoves, UploadsMoves, RegistryMoves,
       RunnerMoves, ChatMoves

(***************************************************************************)
(* TaskRunner.                                                             *)
(***************************************************************************)
\* At most one claim is under way, and its slots and the works under way do not
\* exceed the cap.
RunnerInv ==
    scope = "runner" =>
        /\ T!TypeOK /\ T!CapKept
        /\ \A q \in T!Timers : rounds[q] # None =>
              /\ dispatching
              /\ rounds[q] + inFlight <= Concurrency
              /\ \A r \in T!Timers : rounds[r] # None => r = q

LEMMA SubsetOfWorks ==
    ASSUME NEW S \in SUBSET Works
    PROVE  /\ IsFiniteSet(S) /\ Cardinality(S) \in Nat
           /\ T!Cardinality(S) = Cardinality(S)
<1>1. IsFiniteSet(S)
  BY RunnerLimits, FS_Subset
<1>2. Cardinality(S) \in Nat
  BY <1>1, FS_CardinalityType
<1>3. T!Cardinality(S) = Cardinality(S)
  BY DEF T!Cardinality, Cardinality
<1>4. QED  BY <1>1, <1>2, <1>3

LEMMA RunnerInit == Init => RunnerInv
<1> SUFFICES ASSUME Init, scope = "runner"  PROVE RunnerInv
  BY DEF RunnerInv
<1>1. T!Init
  BY DEF Init
<1>2. T!TypeOK
  <2>1. dispatching \in BOOLEAN
    BY <1>1 DEF T!Init
  <2>2. QED  BY <1>1, <2>1 DEF T!Init, T!TypeOK
<1>3. T!Started = {}
  BY <1>1 DEF T!Init, T!Started
<1>4. T!CapKept
  <2>1. T!Cardinality({}) = 0
    BY FS_EmptySet, SubsetOfWorks
  <2>2. QED  BY <1>1, <1>3, <2>1, RunnerLimits DEF T!Init, T!CapKept
<1>5. QED  BY <1>1, <1>2, <1>4 DEF T!Init, RunnerInv

\* A claim ends: its timer is free again.
LEMMA RoundsOver ==
    ASSUME RunnerInv, scope = "runner", NEW q \in T!Timers, rounds[q] # None,
           rounds' = [rounds EXCEPT ![q] = None]
    PROVE  /\ \A r \in T!Timers : rounds'[r] = None
           /\ rounds' \in [T!Timers -> (1..Concurrency) \cup {None}]
BY DEF RunnerInv, T!TypeOK

LEMMA RunnerFires ==
    ASSUME RunnerInv, scope = "runner", scope' = scope, NEW q \in T!Timers, T!Fire(q)
    PROVE  RunnerInv'
<1>1. /\ rounds \in [T!Timers -> (1..Concurrency) \cup {None}] /\ inFlight \in Nat
      /\ ~dispatching /\ Concurrency \in Nat
      /\ rounds' = [rounds EXCEPT ![q] = Concurrency - inFlight]
      /\ dispatching' = TRUE /\ inFlight' = inFlight /\ work' = work /\ Concurrency > inFlight
  <2>1. T!Started \in SUBSET Works
    BY DEF T!Started
  <2>2. inFlight \in Nat
    BY <2>1, SubsetOfWorks DEF RunnerInv, T!CapKept
  <2>3. QED  BY <2>2, RunnerLimits DEF RunnerInv, T!TypeOK, T!Fire, T!MayClaim
<1>2. \A r \in T!Timers : rounds[r] = None
  BY <1>1 DEF RunnerInv
<1>3. Concurrency - inFlight \in 1..Concurrency
  BY <1>1
<1>4. T!TypeOK'
  BY <1>1, <1>3 DEF RunnerInv, T!TypeOK
<1>5. T!CapKept'
  BY <1>1 DEF RunnerInv, T!CapKept, T!Started
<1>6. /\ rounds'[q] + inFlight' <= Concurrency
      /\ \A r \in T!Timers : rounds'[r] # None => r = q
  BY <1>1, <1>2, <1>3
<1>7. QED  BY <1>1, <1>4, <1>5, <1>6 DEF RunnerInv

LEMMA RunnerClaims ==
    ASSUME RunnerInv, scope = "runner", scope' = scope, NEW q \in T!Timers, T!Claimed(q)
    PROVE  RunnerInv'
<1>1. PICK S \in SUBSET (Works \ T!Started) :
        /\ T!Cardinality(S) <= rounds[q]
        /\ inFlight' = inFlight + T!Cardinality(S)
        /\ work' = [w \in Works |-> IF w \in S THEN "working" ELSE work[w]]
  BY DEF T!Claimed
<1>2. /\ rounds[q] \in 1..Concurrency /\ rounds[q] + inFlight <= Concurrency
      /\ work \in [Works -> {"free", "working", "aborted"}]
      /\ dispatching' = FALSE
      /\ \A r \in T!Timers : rounds'[r] = None
      /\ rounds' \in [T!Timers -> (1..Concurrency) \cup {None}]
  BY RoundsOver DEF RunnerInv, T!TypeOK, T!Claimed
<1>3. T!Started' = T!Started \cup S
  BY <1>1, <1>2 DEF T!Started
<1>4. T!Started \in SUBSET Works /\ S \in SUBSET Works /\ T!Started \cup S \in SUBSET Works
      /\ T!Started \cap S = {}
  BY <1>1 DEF T!Started
<1>5. Cardinality(T!Started \cup S) = Cardinality(T!Started) + Cardinality(S)
  <2>1. /\ Cardinality(T!Started \cup S)
             = Cardinality(T!Started) + Cardinality(S) - Cardinality(T!Started \cap S)
        /\ Cardinality(T!Started \cap S) = 0
    BY <1>4, SubsetOfWorks, FS_Union, FS_EmptySet
  <2>2. QED  BY <1>4, <2>1, SubsetOfWorks
<1>6. T!CapKept'
  <2>1. inFlight = Cardinality(T!Started) /\ inFlight' = inFlight + Cardinality(S)
    BY <1>1, <1>4, SubsetOfWorks DEF RunnerInv, T!CapKept
  <2>2. inFlight' = T!Cardinality(T!Started')
    BY <1>3, <1>4, <1>5, <2>1, SubsetOfWorks
  <2>3. inFlight' <= Concurrency
    BY <1>1, <1>2, <1>4, <2>1, SubsetOfWorks, RunnerLimits
  <2>4. QED  BY <2>2, <2>3 DEF T!CapKept
<1>7. T!TypeOK'
  <2>1. inFlight' \in Int
    BY <1>1, <1>4, SubsetOfWorks DEF RunnerInv, T!TypeOK
  <2>2. QED  BY <1>1, <1>2, <2>1 DEF T!TypeOK
<1>8. QED  BY <1>2, <1>6, <1>7 DEF RunnerInv

LEMMA RunnerWorks ==
    ASSUME RunnerInv, scope = "runner", scope' = scope, NEW w \in Works, T!Abort(w) \/ T!End(w)
    PROVE  RunnerInv'
<1>1. /\ work \in [Works -> {"free", "working", "aborted"}] /\ work[w] # "free"
      /\ UNCHANGED <<dispatching, rounds>>
      /\ T!Started \in SUBSET Works /\ w \in T!Started
      /\ rounds \in [T!Timers -> (1..Concurrency) \cup {None}]
  BY DEF RunnerInv, T!TypeOK, T!Abort, T!End, T!Started
<1>2. IsFiniteSet(T!Started) /\ inFlight = Cardinality(T!Started) /\ inFlight \in Nat
      /\ inFlight <= Concurrency
  BY <1>1, SubsetOfWorks DEF RunnerInv, T!CapKept
<1>3. CASE T!Abort(w)
  <2>1. T!Started' = T!Started
    BY <1>1, <1>3 DEF T!Abort, T!Started
  <2>2. QED
    BY <1>1, <1>3, <2>1 DEF RunnerInv, T!TypeOK, T!CapKept, T!Abort
<1>4. CASE T!End(w)
  <2>1. T!Started' = T!Started \ {w} /\ inFlight' = inFlight - 1
    BY <1>1, <1>4 DEF T!End, T!Started
  <2>2. Cardinality(T!Started \ {w}) = Cardinality(T!Started) - 1
    BY <1>1, <1>2, FS_RemoveElement
  <2>3. T!Cardinality(T!Started') = inFlight'
    BY <1>1, <1>2, <2>1, <2>2, SubsetOfWorks
  <2>4. T!CapKept'
    BY <1>2, <2>1, <2>3, RunnerLimits DEF T!CapKept
  <2>5. T!TypeOK'
    BY <1>1, <1>2, <1>4, <2>1 DEF RunnerInv, T!TypeOK, T!End
  <2>6. \A q \in T!Timers : rounds[q] # None => rounds[q] + inFlight' <= Concurrency
    BY <1>1, <1>2, <2>1, RunnerLimits DEF RunnerInv
  <2>7. QED  BY <1>1, <2>4, <2>5, <2>6 DEF RunnerInv
<1>5. QED  BY <1>3, <1>4

LEMMA RunnerCorrect == Spec => []RunnerInv
<1>1. Init => RunnerInv
  BY RunnerInit
<1>2. RunnerInv /\ [Next]_vars => RunnerInv'
  <2> SUFFICES ASSUME RunnerInv, [Next]_vars, scope = "runner", scope' = scope  PROVE RunnerInv'
    BY OneMoves DEF RunnerInv
  <2>1. ASSUME NEW q \in T!Timers, T!ClaimFails(q)  PROVE RunnerInv'
    <3>1. \A r \in T!Timers : rounds'[r] = None
      BY <2>1, RoundsOver DEF T!ClaimFails
    <3>2. T!TypeOK'
      BY <2>1, RoundsOver DEF RunnerInv, T!TypeOK, T!ClaimFails
    <3>3. QED  BY <2>1, <3>1, <3>2 DEF RunnerInv, T!CapKept, T!Started, T!ClaimFails
  <2>2. CASE T!Next
    BY <2>1, <2>2, RunnerFires, RunnerClaims, RunnerWorks DEF T!Next
  <2>3. CASE UNCHANGED runnerVars
    BY <2>3 DEF runnerVars, RunnerInv, T!TypeOK, T!CapKept, T!Started
  <2>4. QED  BY <2>2, <2>3, OneMoves
<1>3. QED  BY <1>1, <1>2, PTL DEF Spec

\* No more works are under way than the cap, and no slot is leaked or freed twice,
\* however the two timers, their awaited claims, aborts and ends of works
\* interleave: claimWithinCapacity and withHeartbeat of TaskRunnerService.
THEOREM CapKeptCorrect == Spec => []CapKept
<1>1. RunnerInv => CapKept
  BY DEF RunnerInv, CapKept
<1>2. QED  BY <1>1, RunnerCorrect, PTL

(***************************************************************************)
(* NodeWriteback.                                                          *)
(***************************************************************************)
\* The Tasks whose creation has begun; the order numbers them.
Begun(ts) == {x \in Tasks : ts[x].status # "none"}
Visible(ts) == {x \in Tasks : ts[x].status \notin {"none", "creating", "refused"}}

\* The tasks ts, bound to a node that is there, with a terminal transaction e that
\* holds the node, and numbered by od.
TasksSound(ts, od, n, e) ==
    /\ \A x \in Tasks : ts[x].bound => x \in Visible(ts) /\ n # None
    /\ e # None => ts[e].bound /\ ts[e].status \in W!Ended \cup {"active"}
    /\ \A x \in Begun(ts) : od[x] \in 1..Cardinality(Begun(ts))
    /\ \A x, y \in Begun(ts) : od[x] = od[y] => x = y

\* The newest visible Task that is bound.
Newest(ts, od, x) ==
    /\ x \in Visible(ts) /\ ts[x].bound
    /\ \A y \in Visible(ts) : ts[y].bound => ~(od[x] < od[y])

ResultShown(ts, od, n, e, ow) ==
    \A x \in Tasks :
        Newest(ts, od, x) /\ ts[x].status = "succeeded" /\ e # x => n.output = x \/ ow

WritebackInv ==
    scope = "writeback" =>
        /\ W!TypeOK
        /\ TasksSound(task, order, node, ending)
        /\ ResultShown(task, order, node, ending, overwritten)

LEMMA SetsOfTasks ==
    ASSUME NEW S \in SUBSET Tasks
    PROVE  /\ IsFiniteSet(S) /\ Cardinality(S) \in Nat
           /\ W!Cardinality(S) = Cardinality(S)
           /\ Cardinality(S) <= Cardinality(Tasks)
<1>1. IsFiniteSet(Tasks)
  BY TasksDiffer
<1>2. IsFiniteSet(S) /\ Cardinality(S) <= Cardinality(Tasks)
  BY <1>1, FS_Subset
<1>3. Cardinality(S) \in Nat
  BY <1>2, FS_CardinalityType
<1>4. W!Cardinality(S) = Cardinality(S)
  BY DEF W!Cardinality, Cardinality
<1>5. QED  BY <1>2, <1>3, <1>4

LEMMA WritebackInit == Init => WritebackInv
<1> SUFFICES ASSUME Init, scope = "writeback"  PROVE WritebackInv
  BY DEF WritebackInv
<1>1. /\ node = [output |-> None, failure |-> None]
      /\ task = [x \in Tasks |-> [status |-> "none", bound |-> FALSE]]
      /\ order = [x \in Tasks |-> 0] /\ ending = None
      /\ copy = [s \in Savers |-> None] /\ overwritten = FALSE
  BY DEF Init, W!Init
<1>2. \A x \in Tasks : task[x].status = "none" /\ ~task[x].bound /\ task[x] \in W!TaskType
  BY <1>1 DEF W!TaskType
<1>3. Begun(task) = {} /\ Visible(task) = {}
  BY <1>2 DEF Begun, Visible
<1>4. 0 \in 0..W!Cardinality(Tasks)
  BY SetsOfTasks
<1>5. W!TypeOK
  <2>1. node \in W!DataType
    BY <1>1 DEF W!DataType
  <2>2. task \in [Tasks -> W!TaskType]
    BY <1>1, <1>2
  <2>3. overwritten \in BOOLEAN
    BY <1>1
  <2>4. QED  BY <1>1, <1>4, <2>1, <2>2, <2>3 DEF W!TypeOK
<1>6. TasksSound(task, order, node, ending)
  BY <1>1, <1>2, <1>3 DEF TasksSound
<1>7. ResultShown(task, order, node, ending, overwritten)
  BY <1>3 DEF ResultShown, Newest
<1>8. QED  BY <1>5, <1>6, <1>7 DEF WritebackInv

\* The invariant of the component, where it moves.
LEMMA WritebackFacts ==
    ASSUME WritebackInv, scope = "writeback"
    PROVE  /\ W!TypeOK /\ TasksSound(task, order, node, ending)
           /\ ResultShown(task, order, node, ending, overwritten)
           /\ task \in [Tasks -> W!TaskType]
           /\ order \in [Tasks -> 0..Cardinality(Tasks)] /\ ending \in Tasks \cup {None}
           /\ node = None \/ node \in W!DataType
           /\ \A x \in Tasks : order[x] \in Nat
<1>1. W!Cardinality(Tasks) = Cardinality(Tasks) /\ Cardinality(Tasks) \in Nat
  BY SetsOfTasks
<1>2. QED  BY <1>1 DEF WritebackInv, W!TypeOK

LEMMA WritebackBegins ==
    ASSUME WritebackInv, scope = "writeback", scope' = scope, NEW t \in Tasks, W!BeginCreate(t)
    PROVE  WritebackInv'
<1> DEFINE B == Begun(task)
<1>1. /\ task[t].status = "none" /\ task' = [task EXCEPT ![t].status = "creating"]
      /\ UNCHANGED <<node, ending, copy, overwritten>>
      /\ order' = [order EXCEPT ![t] = 1 + Cardinality(B)]
  <2>1. Cardinality(B) = W!Cardinality(B)
    BY SetsOfTasks DEF Begun
  <2>2. B = {u \in Tasks : task[u].status # "none"}
    BY DEF Begun
  <2>3. QED  BY <2>1, <2>2 DEF W!BeginCreate
<1>2. /\ \A x \in Tasks \ {t} : task'[x] = task[x]
      /\ task'[t].status = "creating" /\ task'[t].bound = task[t].bound
      /\ task' \in [Tasks -> W!TaskType]
      /\ \A x \in Tasks \ {t} : order'[x] = order[x]
      /\ order'[t] = 1 + Cardinality(B)
  BY <1>1, WritebackFacts DEF W!TaskType
<1>3. Begun(task') = B \cup {t} /\ t \notin B /\ Visible(task') = Visible(task)
  BY <1>1, <1>2 DEF Begun, Visible
<1>4. Cardinality(B) \in Nat /\ Cardinality(B \cup {t}) = Cardinality(B) + 1
      /\ Cardinality(B \cup {t}) <= Cardinality(Tasks)
  BY <1>3, SetsOfTasks, FS_AddElement DEF Begun
<1>5. order' \in [Tasks -> 0..Cardinality(Tasks)]
  BY <1>1, <1>4, SetsOfTasks, WritebackFacts
<1>6. W!TypeOK'
  BY <1>1, <1>2, <1>5, SetsOfTasks, WritebackFacts DEF W!TypeOK
<1> HIDE DEF B
<1>7. ~task[t].bound /\ \A x \in Visible(task) : task'[x] = task[x] /\ order'[x] = order[x]
  BY <1>1, <1>2, WritebackFacts DEF TasksSound, Visible
<1>8. TasksSound(task', order', node', ending')
  <2>1. \A x \in B : x \in Tasks /\ x # t /\ order'[x] = order[x] /\ order[x] \in 1..Cardinality(B)
    BY <1>2, <1>3, WritebackFacts DEF TasksSound, B, Begun
  <2>2. \A x \in Begun(task') : order'[x] \in 1..Cardinality(Begun(task'))
    BY <1>2, <1>3, <1>4, <2>1
  <2>3. \A x, y \in Begun(task') : order'[x] = order'[y] => x = y
    <3>1. \A x \in B : order'[x] # order'[t]
      BY <1>2, <1>4, <2>1
    <3>2. \A x, y \in B : order'[x] = order'[y] => x = y
      BY <2>1, WritebackFacts DEF TasksSound, B
    <3>3. QED  BY <1>3, <3>1, <3>2
  <2>4. \A x \in Tasks : task'[x].bound => x \in Visible(task') /\ node' # None
    BY <1>1, <1>2, <1>3, <1>7, WritebackFacts DEF TasksSound
  <2>5. ending' # None => task'[ending'].bound /\ task'[ending'].status \in W!Ended \cup {"active"}
    BY <1>1, <1>2, <1>7, WritebackFacts DEF TasksSound
  <2>6. QED  BY <2>2, <2>3, <2>4, <2>5 DEF TasksSound
<1>9. ResultShown(task', order', node', ending', overwritten')
  BY <1>1, <1>3, <1>7, WritebackFacts DEF ResultShown, Newest
<1>10. QED  BY <1>6, <1>8, <1>9 DEF WritebackInv

LEMMA WritebackCreates ==
    ASSUME WritebackInv, scope = "writeback", scope' = scope, NEW t \in Tasks, W!Create(t)
    PROVE  WritebackInv'
<1>1. /\ task[t].status = "creating" /\ ending = None
      /\ task' = [task EXCEPT ![t] = IF node = None THEN [status |-> "refused", bound |-> FALSE]
                                     ELSE [status |-> "active", bound |-> TRUE]]
      /\ UNCHANGED <<node, order, ending, copy, overwritten>>
  BY DEF W!Create, W!Unlocked
<1>2. /\ \A x \in Tasks \ {t} : task'[x] = task[x]
      /\ \/ task'[t].status = "refused" /\ task'[t].bound = FALSE
         \/ task'[t].status = "active" /\ task'[t].bound = TRUE /\ node # None
      /\ task' \in [Tasks -> W!TaskType]
  BY <1>1, WritebackFacts DEF W!TaskType, W!Ended
<1>3. Begun(task') = Begun(task) /\ Visible(task) \subseteq Visible(task')
  BY <1>1, <1>2 DEF Begun, Visible
<1>4. t \notin Visible(task) /\ (task'[t].bound => t \in Visible(task'))
  BY <1>1, <1>2 DEF Visible
<1>5. W!TypeOK'
  BY <1>1, <1>2, WritebackFacts DEF W!TypeOK
<1>6. TasksSound(task', order', node', ending')
  <2>1. \A x \in Tasks : task'[x].bound => x \in Visible(task') /\ node' # None
    BY <1>1, <1>2, <1>3, <1>4, WritebackFacts DEF TasksSound
  <2>2. QED  BY <1>1, <1>3, <2>1, WritebackFacts DEF TasksSound
<1>7. ResultShown(task', order', node', ending', overwritten')
  <2> SUFFICES ASSUME NEW x \in Tasks, Newest(task', order', x), task'[x].status = "succeeded",
                      ending' # x
               PROVE  node'.output = x \/ overwritten'
    BY DEF ResultShown
  <2>1. x # t /\ task'[x] = task[x]
    BY <1>2
  <2>2. x \in Visible(task) /\ task[x].bound /\ task[x].status = "succeeded"
    BY <2>1 DEF Newest, Visible
  <2>3. \A y \in Visible(task) : task'[y] = task[y] /\ y \in Visible(task')
    BY <1>2, <1>3, <1>4 DEF Visible
  <2>4. Newest(task, order, x)
    BY <1>1, <2>2, <2>3 DEF Newest
  <2>5. QED  BY <1>1, <2>2, <2>4, WritebackFacts DEF ResultShown
<1>8. QED  BY <1>5, <1>6, <1>7 DEF WritebackInv

\* A Task is run again or ends: which Tasks there are stays.
LEMMA WritebackSettles ==
    ASSUME WritebackInv, scope = "writeback", scope' = scope, NEW t \in Tasks,
           W!Retry(t) \/ \E st \in W!Ended : W!EndTask(t, st)
    PROVE  WritebackInv'
<1>1. PICK st \in W!Ended \cup {"active"} :
        /\ task' = [task EXCEPT ![t].status = st]
        /\ UNCHANGED <<node, order, copy, overwritten>>
        /\ task[t].status \in W!Ended \cup {"active"}
        /\ \/ ending' = ending /\ (st = "active" \/ ~task[t].bound)
           \/ ending = None /\ ending' = t /\ task[t].bound
  BY DEF W!Retry, W!EndTask, W!Unlocked, W!Ended
<1>2. /\ \A x \in Tasks \ {t} : task'[x] = task[x]
      /\ task'[t].status = st /\ task'[t].bound = task[t].bound
      /\ task' \in [Tasks -> W!TaskType]
  BY <1>1, WritebackFacts DEF W!TaskType
<1>3. /\ st \notin {"none", "creating", "refused"}
      /\ task[t].status \notin {"none", "creating", "refused"}
  BY <1>1 DEF W!Ended
<1>4. Begun(task') = Begun(task) /\ Visible(task') = Visible(task)
  BY <1>2, <1>3 DEF Begun, Visible
<1>5. \A x \in Tasks : task'[x].bound = task[x].bound
  BY <1>2
<1>6. W!TypeOK'
  <2>1. ending' \in Tasks \cup {None}
    BY <1>1, WritebackFacts
  <2>2. QED  BY <1>1, <1>2, <2>1, WritebackFacts DEF W!TypeOK
<1>7. TasksSound(task', order', node', ending')
  <2>1. ending' # None => task'[ending'].bound /\ task'[ending'].status \in W!Ended \cup {"active"}
    BY <1>1, <1>2, <1>5, WritebackFacts DEF TasksSound
  <2>2. QED  BY <1>1, <1>4, <1>5, <2>1, WritebackFacts DEF TasksSound
<1>8. ResultShown(task', order', node', ending', overwritten')
  <2> SUFFICES ASSUME NEW x \in Tasks, Newest(task', order', x), task'[x].status = "succeeded",
                      ending' # x
               PROVE  node'.output = x \/ overwritten'
    BY DEF ResultShown
  <2>1. task'[x].bound /\ Newest(task, order, x)
    BY <1>1, <1>4, <1>5 DEF Newest, Visible
  <2>2. x # t
    BY <1>1, <1>2, <2>1
  <2>3. task[x].status = "succeeded"
    BY <1>2, <2>2
  <2>4. CASE ending = x
    BY <1>1, <2>4, TasksDiffer
  <2>5. CASE ending # x
    BY <1>1, <2>1, <2>3, <2>5, WritebackFacts DEF ResultShown
  <2>6. QED  BY <2>4, <2>5
<1>9. QED  BY <1>6, <1>7, <1>8 DEF WritebackInv

LEMMA WritebackProjects ==
    ASSUME WritebackInv, scope = "writeback", scope' = scope, W!Project
    PROVE  WritebackInv'
<1>1. /\ ending \in Tasks /\ ending # None /\ node # None /\ task[ending].bound
      /\ node \in W!DataType /\ ending \in Visible(task)
      /\ ending' = None /\ UNCHANGED <<task, order, copy, overwritten>>
      /\ node' = IF W!NewerTasks(ending) = {} THEN W!Projected(node, ending) ELSE node
  BY WritebackFacts DEF W!Project, TasksSound
<1>2. W!Projected(node, ending) \in W!DataType
  <2>1. [output |-> ending, failure |-> None] \in W!DataType
    BY <1>1 DEF W!DataType
  <2>2. [node EXCEPT !.failure = ending] \in W!DataType
    BY <1>1 DEF W!DataType
  <2>3. QED  BY <1>1, <2>1, <2>2 DEF W!Projected
<1>3. node' \in W!DataType /\ node' # None
  BY <1>1, <1>2, NoneIsNoRow
<1>4. W!TypeOK'
  BY <1>1, <1>3, WritebackFacts DEF W!TypeOK
<1>5. TasksSound(task', order', node', ending')
  BY <1>1, <1>3, WritebackFacts DEF TasksSound
<1>6. W!NewerTasks(ending) = {y \in Visible(task) : task[y].bound /\ order[ending] < order[y]}
  BY DEF W!NewerTasks, W!Committed, W!Older, Visible
<1>7. ResultShown(task', order', node', ending', overwritten')
  <2> SUFFICES ASSUME NEW x \in Tasks, Newest(task, order, x), task[x].status = "succeeded",
                      ~overwritten
               PROVE  node'.output = x
    BY <1>1 DEF ResultShown
  <2>1. CASE ending = x
    <3>1. W!NewerTasks(ending) = {}
      BY <1>6, <2>1 DEF Newest
    <3>2. node' = [output |-> x, failure |-> None]
      BY <1>1, <2>1, <3>1 DEF W!Projected
    <3>3. QED  BY <3>2
  <2>2. CASE ending # x
    <3>1. node.output = x
      BY <2>2, WritebackFacts DEF ResultShown
    <3>2. order[ending] < order[x]
      <4>1. ~(order[x] < order[ending])
        BY <1>1 DEF Newest
      <4>2. x \in Begun(task) /\ ending \in Begun(task)
        BY <1>1 DEF Newest, Visible, Begun
      <4>3. order[x] # order[ending]
        BY <2>2, <4>2, WritebackFacts DEF TasksSound
      <4>4. QED  BY <1>1, <4>1, <4>3, WritebackFacts
    <3>3. x \in W!NewerTasks(ending)
      BY <1>6, <3>2 DEF Newest
    <3>4. QED  BY <1>1, <3>1, <3>3
  <2>3. QED  BY <2>1, <2>2
<1>8. QED  BY <1>4, <1>5, <1>7 DEF WritebackInv

\* Clients read the node and write what they have read, or delete it.
LEMMA WritebackSaves ==
    ASSUME WritebackInv, scope = "writeback", scope' = scope,
           \/ \E s \in Savers : W!ReadNode(s) \/ W!SaveNode(s) \/ W!PutBack(s)
           \/ W!DeleteNode
    PROVE  WritebackInv'
<1>0. \A z \in Savers : copy[z] = None \/ copy[z] \in W!DataType
  BY WritebackFacts DEF W!TypeOK
<1>1. ASSUME NEW z \in Savers, W!ReadNode(z)  PROVE WritebackInv'
  <2>1. /\ UNCHANGED <<node, task, order, ending, overwritten>>
        /\ node \in W!DataType /\ copy' = [copy EXCEPT ![z] = node]
    BY <1>1, WritebackFacts DEF W!ReadNode
  <2>2. copy'[z] = None \/ copy'[z] \in W!DataType
    BY <1>0, <2>1
  <2>3. W!TypeOK'
    BY <2>1, <2>2, WritebackFacts DEF W!TypeOK
  <2>4. QED  BY <2>1, <2>3, WritebackFacts DEF WritebackInv
<1>2. ASSUME NEW z \in Savers, W!SaveNode(z) \/ W!PutBack(z)  PROVE WritebackInv'
  <2>1. /\ UNCHANGED <<task, order, ending>>
        /\ copy[z] # None /\ node' = copy[z] /\ copy' = [copy EXCEPT ![z] = None]
    BY <1>2 DEF W!SaveNode, W!PutBack
  <2>2. /\ node' \in W!DataType /\ node' # None
        /\ copy'[z] = None \/ copy'[z] \in W!DataType
    BY <1>0, <2>1
  <2>3. overwritten' \in BOOLEAN
    <3>1. overwritten \in BOOLEAN
      BY WritebackFacts DEF W!TypeOK
    <3>2. QED  BY <1>2, <3>1 DEF W!SaveNode, W!PutBack
  <2>4. W!TypeOK'
    BY <2>1, <2>2, <2>3, WritebackFacts DEF W!TypeOK
  <2>5. TasksSound(task', order', node', ending')
    BY <2>1, <2>2, WritebackFacts DEF TasksSound
  <2>6. ResultShown(task', order', node', ending', overwritten')
    <3>1. CASE W!PutBack(z)
      <4>1. \A x \in Tasks : ~task[x].bound
        BY <3>1, WritebackFacts DEF W!PutBack, TasksSound
      <4>2. QED  BY <2>1, <4>1 DEF ResultShown, Newest
    <3>2. CASE W!SaveNode(z)
      <4>1. ~overwritten' => node' = node /\ ~overwritten
        <5>1. overwritten' = (overwritten \/ node # copy[z])
          BY <3>2 DEF W!SaveNode
        <5>2. QED  BY <2>1, <5>1
      <4>2. CASE overwritten'
        BY <4>2 DEF ResultShown
      <4>3. CASE ~overwritten'
        BY <2>1, <4>1, <4>3, WritebackFacts DEF ResultShown
      <4>4. QED  BY <4>2, <4>3
    <3>3. QED  BY <1>2, <3>1, <3>2
  <2>7. QED  BY <2>4, <2>5, <2>6 DEF WritebackInv
<1>3. ASSUME W!DeleteNode  PROVE WritebackInv'
  <2>1. /\ node' = None /\ ending = None /\ UNCHANGED <<order, ending, copy, overwritten>>
        /\ task' = [x \in Tasks |-> [task[x] EXCEPT !.bound = FALSE]]
    BY <1>3 DEF W!DeleteNode, W!Unlocked
  <2>2. \A x \in Tasks : /\ task'[x].bound = FALSE /\ task'[x].status = task[x].status
                         /\ task'[x] \in W!TaskType
    BY <2>1, WritebackFacts DEF W!TaskType
  <2>3. Begun(task') = Begun(task)
    BY <2>2 DEF Begun
  <2>4. W!TypeOK'
    BY <2>1, <2>2, WritebackFacts DEF W!TypeOK
  <2>5. TasksSound(task', order', node', ending')
    BY <2>1, <2>2, <2>3, WritebackFacts DEF TasksSound
  <2>6. ResultShown(task', order', node', ending', overwritten')
    BY <2>2 DEF ResultShown, Newest
  <2>7. QED  BY <2>4, <2>5, <2>6 DEF WritebackInv
<1>4. QED  BY <1>1, <1>2, <1>3

LEMMA WritebackCorrect == Spec => []WritebackInv
<1>1. Init => WritebackInv
  BY WritebackInit
<1>2. WritebackInv /\ [Next]_vars => WritebackInv'
  <2> SUFFICES ASSUME WritebackInv, [Next]_vars, scope = "writeback", scope' = scope
               PROVE  WritebackInv'
    BY OneMoves DEF WritebackInv
  <2>1. CASE W!Next
    BY <2>1, WritebackBegins, WritebackCreates, WritebackSettles, WritebackProjects,
       WritebackSaves DEF W!Next
  <2>2. CASE UNCHANGED writebackVars
    BY <2>2 DEF writebackVars, WritebackInv, W!TypeOK
  <2>3. QED  BY <2>1, <2>2, OneMoves
<1>3. QED  BY <1>1, <1>2, PTL DEF Spec

\* Once the newest Task of a node has succeeded and its transaction is over, the
\* node holds its result, in whatever order the Tasks are created, end, are retried
\* and are written back, unless a client saved older data: TaskService.create,
\* applyTaskTerminalProjection and NodeService.
THEOREM NewestResultCorrect == Spec => []NewestResultShown
<1>1. WritebackInv => NewestResultShown
  <2> SUFFICES ASSUME WritebackInv, scope = "writeback", NEW x \in W!Committed,
                      task[x].bound, task[x].status = "succeeded",
                      \A u \in W!Committed : task[u].bound => ~W!Older(x, u),
                      ending # x
               PROVE  node.output = x \/ overwritten
    BY DEF NewestResultShown, W!NewestResultShown
  <2>1. x \in Tasks /\ W!Committed = Visible(task)
    BY DEF W!Committed, Visible
  <2>2. Newest(task, order, x)
    BY <2>1 DEF Newest, W!Older
  <2>3. QED  BY <2>1, <2>2, WritebackFacts DEF ResultShown
<1>2. QED  BY <1>1, WritebackCorrect, PTL

(***************************************************************************)
(* Uploads.                                                                *)
(***************************************************************************)
Contents == Declared \cup {bad}
Kept == [U!Parts -> Contents \cup {Poster, None}]

\* The steps of an attempt whose transaction is open.
Working == {"head", "copy", "verify", "thumb", "write"}

\* What an attempt r knows by the step it is at, with the asset ass and the
\* draft's status st.
AttemptFits(r, ass, st) ==
    /\ r.at \in {"idle", "lock", "head", "copy"} => r.promoted = {}
    /\ r.at \in {"verify", "thumb"} => "thumb" \notin r.promoted
    /\ r.at \in {"thumb", "write"} => r.head \in Declared
    /\ r.at = "clean" => st = "completed"
    /\ r.at = "poster" => /\ ass \in U!AssetType /\ r.read \in U!AssetType
                          /\ r.read.source = ass.source

\* What it has copied is there.
CopiesKept(r, fin) ==
    /\ r.at \in {"thumb", "write"} => fin["source"] = r.head
    /\ r.at = "write" /\ "thumb" \in r.promoted => fin["thumb"] # None

\* As long as no transaction was lost, an attempt that works holds the draft's row.
AttemptsSound(as, lk, fin, ass, st, un) ==
    /\ \A q \in Requests : AttemptFits(as[q], ass, st)
    /\ ~un => \A q \in Requests :
                 /\ as[q].at # "discard"
                 /\ as[q].at \in Working => q \in lk /\ CopiesKept(as[q], fin)

\* The row is held by one attempt, and while it is, the draft is pending.
LocksSound(lk, ass, st) ==
    /\ \A q, r \in lk : q = r
    /\ lk # {} => st = "pending"
    /\ ass # None => st = "completed"

\* A pass works on a row that no later step takes back, and closes it when
\* nothing is staged.
PassFits(a, st, stg, rp) ==
    /\ a.at # "rest" /\ a.status = "expired" => st \in {"expired", "deleted"}
    /\ a.at # "rest" /\ a.status = "completed" => st = "completed"
    /\ a.at = "close" => stg = U!Nothing \/ rp

StagingSound(dr, stg, rp, ps) ==
    /\ dr.cleaned => dr.status = "completed"
    /\ dr.status = "none" => stg = U!Nothing
    /\ \A a \in Cleaners : PassFits(ps[a], dr.status, stg, rp)
    /\ stg # U!Nothing /\ ~rp =>
          \/ dr.status \in {"pending", "expired"}
          \/ dr.status = "completed" /\ ~dr.cleaned

AssetSound(ass, fin, un) ==
    ass # None /\ ~un => /\ fin["source"] = ass.source
                         /\ ass.thumb => fin["thumb"] # None

UploadsInv ==
    scope = "uploads" =>
        /\ U!TypeOK
        /\ AttemptsSound(attempts, locks, final, asset, draft.status, undone)
        /\ LocksSound(locks, asset, draft.status)
        /\ AssetSound(asset, final, undone)
        /\ StagingSound(draft, staged, reput, pass)

LEMMA IdleUpload ==
    /\ U!Idle \in U!RequestType /\ U!Idle.at = "idle" /\ U!Idle.promoted = {}
    /\ U!Rest \in U!PassType /\ U!Rest.at = "rest"
    /\ U!Nothing \in Kept
    /\ \A ass, st : AttemptFits(U!Idle, ass, st)
<1>1. /\ U!Idle \in U!RequestType /\ U!Idle.at = "idle" /\ U!Idle.promoted = {}
      /\ U!Rest \in U!PassType /\ U!Rest.at = "rest"
  BY DEF U!Idle, U!RequestType, U!Rest, U!PassType
<1>2. U!Nothing \in Kept
  BY DEF U!Nothing, Kept
<1>3. \A ass, st : AttemptFits(U!Idle, ass, st)
  BY <1>1 DEF AttemptFits
<1>4. QED  BY <1>1, <1>2, <1>3

LEMMA UploadsInit == Init => UploadsInv
<1> SUFFICES ASSUME Init, scope = "uploads"  PROVE UploadsInv
  BY DEF UploadsInv
<1>1. U!Init
  BY DEF Init
<1>2. U!TypeOK
  <2>1. draft \in U!DraftType
    BY <1>1 DEF U!Init, U!DraftType
  <2>2. late \in BOOLEAN /\ undone \in BOOLEAN /\ reput \in BOOLEAN
    BY <1>1 DEF U!Init
  <2>3. QED  BY <1>1, <2>1, <2>2, IdleUpload DEF U!Init, U!TypeOK, Kept, Contents
<1>3. AttemptsSound(attempts, locks, final, asset, draft.status, undone)
  BY <1>1, IdleUpload DEF U!Init, AttemptsSound, Working
<1>4. LocksSound(locks, asset, draft.status) /\ AssetSound(asset, final, undone)
  BY <1>1 DEF U!Init, LocksSound, AssetSound
<1>5. StagingSound(draft, staged, reput, pass)
  BY <1>1, IdleUpload DEF U!Init, StagingSound, PassFits
<1>6. QED  BY <1>2, <1>3, <1>4, <1>5 DEF UploadsInv

LEMMA UploadsFacts ==
    ASSUME UploadsInv, scope = "uploads"
    PROVE  /\ AttemptsSound(attempts, locks, final, asset, draft.status, undone)
           /\ LocksSound(locks, asset, draft.status)
           /\ AssetSound(asset, final, undone)
           /\ StagingSound(draft, staged, reput, pass)
           /\ draft \in U!DraftType /\ late \in BOOLEAN
           /\ staged \in Kept /\ final \in Kept
           /\ asset \in U!AssetType \cup {None}
           /\ locks \subseteq Requests
           /\ attempts \in [Requests -> U!RequestType]
           /\ pass \in [Cleaners -> U!PassType]
           /\ undone \in BOOLEAN /\ reput \in BOOLEAN
BY DEF UploadsInv, U!TypeOK, Kept, Contents

\* One attempt goes on to n; draft, asset and passes stay.
LEMMA AttemptGoes ==
    ASSUME UploadsInv, scope = "uploads", scope' = scope, NEW q \in Requests, NEW n,
           n \in U!RequestType, AttemptFits(n, asset, draft.status),
           attempts' = [attempts EXCEPT ![q] = n],
           UNCHANGED <<draft, late, asset, pass, reput>>,
           staged' \in Kept, staged = U!Nothing => staged' = U!Nothing, final' \in Kept,
           undone' \in BOOLEAN, undone => undone',
           \/ locks' = locks \/ locks' = locks \ {q}
           \/ locks = {} /\ draft.status = "pending" /\ locks' = locks \cup {q},
           ~undone' => /\ n.at # "discard"
                       /\ n.at \in Working => q \in locks' /\ CopiesKept(n, final')
                       /\ final' = final \/ q \in locks
    PROVE  UploadsInv'
<1>1. /\ attempts'[q] = n /\ \A r \in Requests \ {q} : attempts'[r] = attempts[r]
      /\ attempts' \in [Requests -> U!RequestType]
  BY UploadsFacts
<1>2. U!TypeOK'
  <2>1. locks' \subseteq Requests
    BY UploadsFacts
  <2>2. QED  BY <1>1, <2>1, UploadsFacts DEF U!TypeOK, Kept, Contents
<1>3. AttemptsSound(attempts', locks', final', asset', draft'.status, undone')
  <2>1. \A r \in Requests : AttemptFits(attempts'[r], asset', draft'.status)
    BY <1>1, UploadsFacts DEF AttemptsSound
  <2>2. ASSUME NEW r \in Requests, ~undone', r # q
        PROVE  /\ attempts'[r].at # "discard"
               /\ attempts'[r].at \in Working => r \in locks' /\ CopiesKept(attempts'[r], final')
    <3>1. ~undone
      BY <2>2
    <3>2. /\ attempts[r].at # "discard"
          /\ attempts[r].at \in Working => r \in locks /\ CopiesKept(attempts[r], final)
      BY <2>2, <3>1, UploadsFacts DEF AttemptsSound
    <3>3. attempts'[r] = attempts[r] /\ (r \in locks => r \in locks' /\ q \notin locks)
      BY <1>1, <2>2, UploadsFacts DEF LocksSound
    <3>4. QED  BY <2>2, <3>2, <3>3
  <2>3. QED  BY <1>1, <2>1, <2>2 DEF AttemptsSound
<1>4. LocksSound(locks', asset', draft'.status)
  BY UploadsFacts DEF LocksSound
<1>5. AssetSound(asset', final', undone')
  <2> SUFFICES ASSUME asset # None, ~undone'  PROVE AssetSound(asset, final', undone')
    BY DEF AssetSound
  <2>1. locks = {}
    BY UploadsFacts DEF LocksSound
  <2>2. final' = final
    BY <2>1
  <2>3. QED  BY <2>2, UploadsFacts DEF AssetSound
<1>6. StagingSound(draft', staged', reput', pass')
  BY UploadsFacts DEF StagingSound, PassFits
<1>7. QED  BY <1>2, <1>3, <1>4, <1>5, <1>6 DEF UploadsInv

\* The transaction of q is rolled back.
LEMMA AttemptFails ==
    ASSUME UploadsInv, scope = "uploads", scope' = scope, NEW q \in Requests, U!Fail(q),
           attempts[q].at \in Working,
           UNCHANGED <<draft, late, asset, pass, reput>>,
           staged' \in Kept, staged = U!Nothing => staged' = U!Nothing, final' \in Kept,
           ~undone => final' = final \/ q \in locks
    PROVE  UploadsInv'
<1>1. locks' = locks \ {q} /\ undone' = (undone \/ attempts[q].promoted # {})
  BY DEF U!Fail, U!Release
<1>2. undone' \in BOOLEAN /\ (undone => undone') /\ (attempts[q].promoted # {} => undone')
      /\ (~undone' => ~undone)
  BY <1>1
<1>3. attempts[q] \in U!RequestType
  BY UploadsFacts
<1>4. CASE attempts[q].promoted = {}
  <2>1. attempts' = [attempts EXCEPT ![q] = U!Idle]
    BY <1>4 DEF U!Fail, U!Done
  <2>2. ~undone' => /\ U!Idle.at # "discard" /\ U!Idle.at \notin Working
                    /\ final' = final \/ q \in locks
    BY <1>2, IdleUpload DEF Working
  <2>3. QED  BY <1>1, <1>2, <2>1, <2>2, IdleUpload, AttemptGoes
<1>5. CASE attempts[q].promoted # {}
  <2>1. PICK n : n = [attempts[q] EXCEPT !.at = "discard"]
    OBVIOUS
  <2>2. attempts' = [attempts EXCEPT ![q] = n]
    BY <1>5, <2>1 DEF U!Fail, U!At
  <2>3. n \in U!RequestType /\ n.at = "discard"
    BY <1>3, <2>1 DEF U!RequestType
  <2>4. AttemptFits(n, asset, draft.status)
    BY <2>3 DEF AttemptFits
  <2>5. undone'
    BY <1>2, <1>5
  <2>6. QED  BY <1>1, <1>2, <2>2, <2>3, <2>4, <2>5, AttemptGoes
<1>6. QED  BY <1>4, <1>5

LEMMA AttemptStarts ==
    ASSUME UploadsInv, scope = "uploads", scope' = scope, NEW q \in Requests,
           U!Complete(q) \/ U!Locked(q)
    PROVE  UploadsInv'
<1>1. attempts[q] \in U!RequestType /\ undone \in BOOLEAN /\ staged \in Kept /\ final \in Kept
  BY UploadsFacts
<1>2. attempts[q].at \in {"idle", "lock"} /\ attempts[q].promoted = {}
  BY UploadsFacts DEF AttemptsSound, AttemptFits, U!Complete, U!Locked
<1>3. UNCHANGED <<draft, late, staged, final, asset, pass, undone, reput>>
  BY DEF U!Complete, U!Locked
<1>4. ASSUME NEW st \in {"lock", "head"}, U!At(q, st),
             \/ locks' = locks /\ st = "lock"
             \/ locks = {} /\ draft.status = "pending" /\ locks' = locks \cup {q}
      PROVE  UploadsInv'
  <2>1. PICK n : n = [attempts[q] EXCEPT !.at = st]
    OBVIOUS
  <2>2. attempts' = [attempts EXCEPT ![q] = n]
    BY <1>4, <2>1 DEF U!At
  <2>3. n \in U!RequestType /\ n.at = st /\ n.promoted = {}
    BY <1>1, <1>2, <2>1 DEF U!RequestType
  <2>4. AttemptFits(n, asset, draft.status)
    BY <2>3 DEF AttemptFits
  <2>5. /\ n.at # "discard"
        /\ n.at \in Working => q \in locks' /\ CopiesKept(n, final')
    BY <1>4, <2>3 DEF Working, CopiesKept
  <2>6. QED  BY <1>1, <1>3, <1>4, <2>2, <2>3, <2>4, <2>5, AttemptGoes
<1>5. ASSUME U!Done(q), locks' = locks  PROVE UploadsInv'
  <2>1. attempts' = [attempts EXCEPT ![q] = U!Idle]
    BY <1>5 DEF U!Done
  <2>2. U!Idle.at # "discard" /\ U!Idle.at \notin Working
    BY IdleUpload DEF Working
  <2>3. QED  BY <1>1, <1>3, <1>5, <2>1, <2>2, IdleUpload, AttemptGoes
<1>6. CASE U!Complete(q)
  BY <1>4, <1>6 DEF U!Complete
<1>7. CASE U!Locked(q)
  BY <1>4, <1>5, <1>7 DEF U!Locked, U!LockDraft
<1>8. QED  BY <1>6, <1>7

LEMMA AttemptHeads ==
    ASSUME UploadsInv, scope = "uploads", scope' = scope, NEW q \in Requests, U!Head(q)
    PROVE  UploadsInv'
<1>1. /\ attempts[q] \in U!RequestType /\ undone \in BOOLEAN /\ staged \in Kept /\ final \in Kept
      /\ attempts[q].at = "head" /\ attempts[q].promoted = {}
      /\ ~undone => q \in locks
  BY UploadsFacts DEF AttemptsSound, AttemptFits, U!Head, Working
<1>2. CASE /\ staged["source"] \in Declared
           /\ attempts' = [attempts EXCEPT ![q].at = "copy", ![q].head = staged["source"]]
           /\ UNCHANGED <<staged, locks, undone>>
  <2>1. PICK n : n = [attempts[q] EXCEPT !.at = "copy", !.head = staged["source"]]
    OBVIOUS
  <2>2. attempts' = [attempts EXCEPT ![q] = n]
    BY <1>2, <2>1, UploadsFacts
  <2>3. n \in U!RequestType /\ n.at = "copy" /\ n.promoted = {}
    BY <1>1, <1>2, <2>1 DEF U!RequestType, Contents
  <2>4. AttemptFits(n, asset, draft.status) /\ CopiesKept(n, final)
    BY <2>3 DEF AttemptFits, CopiesKept
  <2>5. UNCHANGED <<draft, late, asset, pass, reput, final>>
    BY DEF U!Head
  <2>6. ~undone' => /\ n.at # "discard"
                    /\ n.at \in Working => q \in locks' /\ CopiesKept(n, final')
    BY <1>1, <1>2, <2>3, <2>4, <2>5
  <2>7. QED  BY <1>1, <1>2, <2>2, <2>3, <2>4, <2>5, <2>6, AttemptGoes
<1>3. CASE /\ \E D \in SUBSET U!Parts :
                 staged' = [k \in U!Parts |-> IF k \in D THEN None ELSE staged[k]]
           /\ U!Fail(q)
  <2>1. staged' \in Kept /\ (staged = U!Nothing => staged' = U!Nothing)
    BY <1>1, <1>3 DEF Kept, U!Nothing
  <2>2. UNCHANGED <<draft, late, asset, pass, reput, final>>
    BY DEF U!Head
  <2>3. QED  BY <1>1, <1>3, <2>1, <2>2, AttemptFails DEF Working
<1>4. QED  BY <1>2, <1>3 DEF U!Head

LEMMA AttemptCopies ==
    ASSUME UploadsInv, scope = "uploads", scope' = scope, NEW q \in Requests,
           U!CopySource(q) \/ U!CopyThumb(q)
    PROVE  UploadsInv'
<1>1. /\ attempts[q] \in U!RequestType /\ undone \in BOOLEAN /\ staged \in Kept /\ final \in Kept
      /\ attempts[q].at \in {"copy", "thumb"}
      /\ AttemptFits(attempts[q], asset, draft.status)
      /\ ~undone => q \in locks /\ CopiesKept(attempts[q], final)
  BY UploadsFacts DEF AttemptsSound, U!CopySource, U!CopyThumb, Working
<1>2. UNCHANGED <<draft, late, staged, asset, locks, pass, undone, reput>>
  BY DEF U!CopySource, U!CopyThumb
<1>3. CASE U!CopySource(q)
  <2>1. PICK n : n = [attempts[q] EXCEPT !.at = "verify", !.promoted = @ \cup {"source"}]
    OBVIOUS
  <2>2. /\ attempts[q].at = "copy"
        /\ final' = [final EXCEPT !["source"] = staged["source"]]
        /\ attempts' = [attempts EXCEPT ![q] = n]
    BY <1>3, <2>1, UploadsFacts DEF U!CopySource, U!Promote
  <2>3. n \in U!RequestType /\ n.at = "verify" /\ "thumb" \notin n.promoted
    BY <1>1, <2>1, <2>2 DEF U!RequestType, U!Parts, AttemptFits
  <2>4. AttemptFits(n, asset, draft.status) /\ CopiesKept(n, final')
    BY <2>3 DEF AttemptFits, CopiesKept
  <2>5. final' \in Kept
    BY <1>1, <2>2 DEF Kept, U!Parts
  <2>6. ~undone' => /\ n.at # "discard"
                    /\ n.at \in Working => q \in locks' /\ CopiesKept(n, final')
                    /\ q \in locks
    BY <1>1, <1>2, <2>3, <2>4
  <2>7. QED  BY <1>1, <1>2, <2>2, <2>3, <2>4, <2>5, <2>6, AttemptGoes
<1>4. CASE U!CopyThumb(q) /\ staged["thumb"] # None /\ U!Promote(q, "thumb", "write")
  <2>1. PICK n : n = [attempts[q] EXCEPT !.at = "write", !.promoted = @ \cup {"thumb"}]
    OBVIOUS
  <2>2. /\ attempts[q].at = "thumb"
        /\ final' = [final EXCEPT !["thumb"] = staged["thumb"]]
        /\ attempts' = [attempts EXCEPT ![q] = n]
    BY <1>4, <2>1, UploadsFacts DEF U!CopyThumb, U!Promote
  <2>3. n \in U!RequestType /\ n.at = "write" /\ n.head = attempts[q].head
    BY <1>1, <2>1, <2>2 DEF U!RequestType, U!Parts
  <2>4. AttemptFits(n, asset, draft.status)
    BY <1>1, <2>2, <2>3 DEF AttemptFits
  <2>5. final' \in Kept /\ final'["thumb"] # None /\ final'["source"] = final["source"]
    BY <1>1, <1>4, <2>2 DEF Kept, U!Parts
  <2>6. ~undone' => /\ n.at # "discard"
                    /\ n.at \in Working => q \in locks' /\ CopiesKept(n, final')
                    /\ q \in locks
    BY <1>1, <1>2, <2>2, <2>3, <2>5 DEF CopiesKept
  <2>7. QED  BY <1>1, <1>2, <2>2, <2>3, <2>4, <2>5, <2>6, AttemptGoes
<1>5. CASE U!CopyThumb(q) /\ U!At(q, "write") /\ final' = final
  <2>1. PICK n : n = [attempts[q] EXCEPT !.at = "write"]
    OBVIOUS
  <2>2. /\ attempts[q].at = "thumb" /\ attempts' = [attempts EXCEPT ![q] = n]
    BY <1>5, <2>1 DEF U!CopyThumb, U!At
  <2>3. /\ n \in U!RequestType /\ n.at = "write" /\ n.head = attempts[q].head
        /\ n.promoted = attempts[q].promoted
    BY <1>1, <2>1 DEF U!RequestType
  <2>4. AttemptFits(n, asset, draft.status)
    BY <1>1, <2>2, <2>3 DEF AttemptFits
  <2>5. ~undone' => /\ n.at # "discard"
                    /\ n.at \in Working => q \in locks' /\ CopiesKept(n, final')
    BY <1>1, <1>2, <1>5, <2>2, <2>3 DEF CopiesKept, AttemptFits
  <2>6. QED  BY <1>1, <1>2, <1>5, <2>2, <2>3, <2>4, <2>5, AttemptGoes
<1>6. QED  BY <1>3, <1>4, <1>5 DEF U!CopyThumb

LEMMA AttemptVerifies ==
    ASSUME UploadsInv, scope = "uploads", scope' = scope, NEW q \in Requests, U!Verify(q)
    PROVE  UploadsInv'
<1>1. /\ attempts[q] \in U!RequestType /\ undone \in BOOLEAN /\ staged \in Kept /\ final \in Kept
      /\ attempts[q].at = "verify" /\ "thumb" \notin attempts[q].promoted
      /\ ~undone => q \in locks
  BY UploadsFacts DEF AttemptsSound, AttemptFits, U!Verify, Working
<1>2. UNCHANGED <<draft, late, staged, final, asset, pass, reput>>
  BY DEF U!Verify
<1>3. CASE /\ final["source"] \in Declared
           /\ attempts' = [attempts EXCEPT ![q].at = "thumb", ![q].head = final["source"]]
           /\ UNCHANGED <<locks, undone>>
  <2>1. PICK n : n = [attempts[q] EXCEPT !.at = "thumb", !.head = final["source"]]
    OBVIOUS
  <2>2. attempts' = [attempts EXCEPT ![q] = n]
    BY <1>3, <2>1, UploadsFacts
  <2>3. /\ n \in U!RequestType /\ n.at = "thumb" /\ n.head = final["source"]
        /\ "thumb" \notin n.promoted
    BY <1>1, <1>3, <2>1 DEF U!RequestType, Contents
  <2>4. AttemptFits(n, asset, draft.status) /\ CopiesKept(n, final)
    BY <1>3, <2>3 DEF AttemptFits, CopiesKept
  <2>5. ~undone' => /\ n.at # "discard"
                    /\ n.at \in Working => q \in locks' /\ CopiesKept(n, final')
    BY <1>1, <1>2, <1>3, <2>3, <2>4
  <2>6. QED  BY <1>1, <1>2, <1>3, <2>2, <2>3, <2>4, <2>5, AttemptGoes
<1>4. CASE U!Fail(q)
  BY <1>1, <1>2, <1>4, AttemptFails DEF Working
<1>5. QED  BY <1>3, <1>4 DEF U!Verify

\* The storage or the database throws, the process dies, or copies are discarded.
LEMMA AttemptBreaks ==
    ASSUME UploadsInv, scope = "uploads", scope' = scope, NEW q \in Requests,
           U!CallFails(q) \/ U!WriteFails(q) \/ U!Discard(q) \/ U!Crash(q)
    PROVE  UploadsInv'
<1>1. attempts[q] \in U!RequestType /\ undone \in BOOLEAN /\ staged \in Kept /\ final \in Kept
      /\ AttemptsSound(attempts, locks, final, asset, draft.status, undone)
  BY UploadsFacts
<1>2. U!Idle.at # "discard" /\ U!Idle.at \notin Working
  BY IdleUpload DEF Working
<1>3. UNCHANGED <<draft, late, staged, asset, pass, reput>>
  BY DEF U!CallFails, U!WriteFails, U!Discard, U!Crash
<1>4. CASE U!CallFails(q)
  <2>1. attempts[q].at \in Working /\ U!Fail(q)
    BY <1>4 DEF U!CallFails, Working
  <2>2. final' \in Kept
    BY <1>1, <1>4 DEF U!CallFails, Kept, U!Parts
  <2>3. ~undone => q \in locks
    BY <1>1, <2>1 DEF AttemptsSound
  <2>4. QED  BY <1>1, <1>3, <2>1, <2>2, <2>3, AttemptFails
<1>5. CASE U!WriteFails(q)
  BY <1>1, <1>3, <1>5, AttemptFails DEF U!WriteFails, Working
<1>6. CASE U!Discard(q)
  <2>1. undone /\ undone' = undone /\ locks' = locks /\ attempts' = [attempts EXCEPT ![q] = U!Idle]
    BY <1>1, <1>6 DEF U!Discard, U!Done, AttemptsSound
  <2>2. final' \in Kept
    BY <1>1, <1>6 DEF U!Discard, Kept
  <2>3. QED  BY <1>1, <1>2, <1>3, <2>1, <2>2, IdleUpload, AttemptGoes
<1>7. CASE U!Crash(q)
  <2>1. /\ locks' = locks \ {q} /\ attempts' = [attempts EXCEPT ![q] = U!Idle] /\ final' = final
        /\ undone' = (undone \/ (attempts[q].promoted # {} /\ attempts[q].at # "clean"))
    BY <1>7 DEF U!Crash, U!Release, U!Done
  <2>2. undone' \in BOOLEAN /\ (undone => undone')
    BY <2>1
  <2>3. QED  BY <1>1, <1>2, <1>3, <2>1, <2>2, IdleUpload, AttemptGoes
<1>8. QED  BY <1>4, <1>5, <1>6, <1>7

LEMMA AttemptWrites ==
    ASSUME UploadsInv, scope = "uploads", scope' = scope, NEW q \in Requests, U!Write(q)
    PROVE  UploadsInv'
<1>1. /\ attempts[q] \in U!RequestType /\ undone \in BOOLEAN /\ attempts[q].head \in Contents
      /\ attempts[q].at = "write" /\ q \in locks /\ asset = None /\ draft.status = "pending"
      /\ locks = {q}
      /\ ~undone => CopiesKept(attempts[q], final)
      /\ UNCHANGED <<late, staged, final, pass, reput>> /\ locks' = {}
  BY UploadsFacts
     DEF AttemptsSound, AttemptFits, LocksSound, U!Write, U!Materialize, U!Release, Working, Contents
<1>2. PICK ass : ass = [source |-> attempts[q].head, thumb |-> "thumb" \in attempts[q].promoted,
                        deleted |-> FALSE]
  OBVIOUS
<1>3. /\ asset' = ass /\ draft' = [draft EXCEPT !.status = "completed"]
  BY <1>2 DEF U!Write, U!Materialize
<1>4. /\ ass \in U!AssetType /\ ass.source = attempts[q].head
      /\ ass.thumb => "thumb" \in attempts[q].promoted
  <2>1. ("thumb" \in attempts[q].promoted) \in BOOLEAN
    OBVIOUS
  <2>2. ass.thumb = ("thumb" \in attempts[q].promoted)
    BY <1>2
  <2>3. ass \in U!AssetType
    BY <1>1, <1>2, <2>1 DEF U!AssetType, Contents
  <2>4. ass.source = attempts[q].head
    BY <1>2
  <2>5. QED  BY <2>2, <2>3, <2>4
<1>5. draft' \in U!DraftType /\ draft'.status = "completed" /\ draft'.cleaned = draft.cleaned
  BY <1>3, UploadsFacts DEF U!DraftType
<1>6. PICK st \in {"clean", "discard"} :
        /\ attempts' = [attempts EXCEPT ![q].at = st]
        /\ \/ st = "clean" /\ undone' = undone
           \/ st = "discard" /\ undone' = TRUE
  BY DEF U!Write, U!At
<1>7. /\ attempts'[q] \in U!RequestType /\ attempts'[q].at = st
      /\ \A r \in Requests \ {q} : attempts'[r] = attempts[r]
      /\ attempts' \in [Requests -> U!RequestType]
  BY <1>1, <1>6, UploadsFacts DEF U!RequestType
<1>8. undone' \in BOOLEAN /\ (~undone' => ~undone /\ st = "clean")
  BY <1>1, <1>6
<1>9. U!TypeOK'
  BY <1>1, <1>3, <1>4, <1>5, <1>7, <1>8, UploadsFacts DEF U!TypeOK, Kept, Contents
<1>10. AttemptsSound(attempts', locks', final', asset', draft'.status, undone')
  <2>1. ASSUME NEW r \in Requests, r # q  PROVE AttemptFits(attempts'[r], asset', draft'.status)
    <3>1. AttemptFits(attempts[r], asset, draft.status) /\ attempts'[r] = attempts[r]
      BY <1>7, <2>1, UploadsFacts DEF AttemptsSound
    <3>2. attempts[r].at # "poster"
      BY <1>1, <3>1, NoneIsNoRow DEF AttemptFits
    <3>3. QED  BY <1>5, <3>1, <3>2 DEF AttemptFits
  <2>2. AttemptFits(attempts'[q], asset', draft'.status)
    BY <1>5, <1>6, <1>7 DEF AttemptFits
  <2>3. ASSUME NEW r \in Requests, ~undone'
        PROVE  attempts'[r].at # "discard" /\ attempts'[r].at \notin Working
    <3>1. CASE r = q
      BY <1>7, <1>8, <2>3, <3>1 DEF Working
    <3>2. CASE r # q
      <4>1. attempts'[r] = attempts[r] /\ r \notin locks
        BY <1>1, <1>7, <3>2
      <4>2. QED  BY <1>8, <2>3, <4>1, UploadsFacts DEF AttemptsSound
    <3>3. QED  BY <3>1, <3>2
  <2>4. QED  BY <2>1, <2>2, <2>3 DEF AttemptsSound
<1>11. LocksSound(locks', asset', draft'.status)
  BY <1>1, <1>5 DEF LocksSound
<1>12. AssetSound(asset', final', undone')
  <2> SUFFICES ASSUME ~undone'
               PROVE  /\ final["source"] = ass.source
                      /\ ass.thumb => final["thumb"] # None
    BY <1>1, <1>3 DEF AssetSound
  <2>1. QED  BY <1>1, <1>4, <1>8 DEF CopiesKept
<1>13. StagingSound(draft', staged', reput', pass')
  <2>1. draft.cleaned = FALSE
    BY <1>1, UploadsFacts DEF StagingSound, U!DraftType
  <2>2. \A a \in Cleaners : PassFits(pass'[a], draft'.status, staged', reput')
    BY <1>1, <1>5, UploadsFacts DEF StagingSound, PassFits
  <2>3. QED  BY <1>5, <2>1, <2>2 DEF StagingSound
<1>14. QED  BY <1>9, <1>10, <1>11, <1>12, <1>13 DEF UploadsInv

LEMMA AttemptLoses ==
    ASSUME UploadsInv, scope = "uploads", scope' = scope, NEW q \in Requests, U!Disconnect(q)
    PROVE  UploadsInv'
<1>1. /\ locks' = locks \ {q} /\ undone' = TRUE
      /\ UNCHANGED <<draft, late, staged, final, asset, attempts, pass, reput>>
  BY DEF U!Disconnect, U!Release
<1>2. U!TypeOK'
  <2>1. undone' \in BOOLEAN
    BY <1>1
  <2>2. locks' \subseteq Requests
    BY <1>1, UploadsFacts
  <2>3. QED  BY <1>1, <2>1, <2>2, UploadsFacts DEF U!TypeOK, Kept, Contents
<1>3. AttemptsSound(attempts', locks', final', asset', draft'.status, undone')
  BY <1>1, UploadsFacts DEF AttemptsSound
<1>4. LocksSound(locks', asset', draft'.status)
  BY <1>1, UploadsFacts DEF LocksSound
<1>5. AssetSound(asset', final', undone') /\ StagingSound(draft', staged', reput', pass')
  BY <1>1, UploadsFacts DEF AssetSound
<1>6. QED  BY <1>2, <1>3, <1>4, <1>5 DEF UploadsInv

\* The asset of a completed draft is saved again: attempts and their row stay.
LEMMA AssetSaved ==
    ASSUME UploadsInv, scope = "uploads", scope' = scope,
           asset \in U!AssetType, asset' \in U!AssetType, asset'.source = asset.source,
           asset'.thumb => asset.thumb,
           attempts' \in [Requests -> U!RequestType],
           \A q \in Requests : \/ attempts'[q] = attempts[q]
                               \/ /\ attempts'[q].at \in {"idle", "poster"}
                                  /\ AttemptFits(attempts'[q], asset', draft.status),
           UNCHANGED <<draft, late, staged, final, locks, pass, undone, reput>>
    PROVE  UploadsInv'
<1>1. U!TypeOK'
  BY UploadsFacts DEF U!TypeOK, Kept, Contents
<1>2. asset # None /\ asset' # None
  BY NoneIsNoRow
<1>3. \A q \in Requests : AttemptFits(attempts'[q], asset', draft'.status)
  BY UploadsFacts DEF AttemptsSound, AttemptFits
<1>4. AttemptsSound(attempts', locks', final', asset', draft'.status, undone')
  BY <1>3, UploadsFacts DEF AttemptsSound, Working
<1>5. LocksSound(locks', asset', draft'.status) /\ AssetSound(asset', final', undone')
  BY <1>2, UploadsFacts DEF LocksSound, AssetSound
<1>6. QED  BY <1>1, <1>4, <1>5, UploadsFacts DEF UploadsInv

LEMMA AssetChanges ==
    ASSUME UploadsInv, scope = "uploads", scope' = scope,
           U!SoftDelete \/ \E q \in Requests : U!PosterRead(q) \/ U!PosterSave(q)
    PROVE  UploadsInv'
<1>1. UNCHANGED <<draft, late, staged, final, locks, pass, undone, reput>>
  BY DEF U!SoftDelete, U!PosterRead, U!PosterSave
<1>2. CASE U!SoftDelete
  <2>1. /\ asset \in U!AssetType /\ asset' = [asset EXCEPT !.deleted = TRUE] /\ attempts' = attempts
    BY <1>2, UploadsFacts DEF U!SoftDelete
  <2>2. asset' \in U!AssetType /\ asset'.source = asset.source /\ asset'.thumb = asset.thumb
    BY <2>1 DEF U!AssetType
  <2>3. QED  BY <1>1, <2>1, <2>2, UploadsFacts, AssetSaved
<1>3. ASSUME NEW q \in Requests, U!PosterRead(q)  PROVE UploadsInv'
  <2>1. PICK n : n = [attempts[q] EXCEPT !.at = "poster", !.read = asset]
    OBVIOUS
  <2>2. /\ asset \in U!AssetType /\ asset' = asset /\ attempts' = [attempts EXCEPT ![q] = n]
    BY <1>3, <2>1, UploadsFacts DEF U!PosterRead
  <2>3. n \in U!RequestType /\ n.at = "poster" /\ n.read = asset
    BY <2>1, <2>2, UploadsFacts DEF U!RequestType
  <2>4. AttemptFits(n, asset', draft.status)
    BY <2>2, <2>3 DEF AttemptFits
  <2>5. /\ attempts' \in [Requests -> U!RequestType] /\ attempts'[q] = n
        /\ \A r \in Requests \ {q} : attempts'[r] = attempts[r]
    BY <2>2, <2>3, UploadsFacts
  <2>6. QED  BY <1>1, <2>2, <2>3, <2>4, <2>5, AssetSaved
<1>4. ASSUME NEW q \in Requests, U!PosterSave(q)  PROVE UploadsInv'
  <2>1. /\ asset \in U!AssetType /\ attempts[q].read \in U!AssetType
        /\ attempts[q].read.source = asset.source
        /\ attempts' = [attempts EXCEPT ![q] = U!Idle]
    BY <1>4, UploadsFacts DEF U!PosterSave, AttemptsSound, AttemptFits, U!Done
  <2>2. PICK a : a = [attempts[q].read EXCEPT !.thumb = FALSE]
    OBVIOUS
  <2>3. a \in U!AssetType /\ a.source = asset.source /\ a.thumb = FALSE
    BY <2>1, <2>2 DEF U!AssetType
  <2>4. /\ asset' \in U!AssetType /\ asset'.source = asset.source
        /\ asset'.thumb => asset.thumb
    <3>1. asset' = a \/ asset' = asset
      BY <1>4, <2>2 DEF U!PosterSave
    <3>2. CASE asset' = a
      BY <2>3, <3>2
    <3>3. CASE asset' = asset
      BY <2>1, <3>3
    <3>4. QED  BY <3>1, <3>2, <3>3
  <2>5. /\ attempts' \in [Requests -> U!RequestType] /\ attempts'[q] = U!Idle
        /\ \A r \in Requests \ {q} : attempts'[r] = attempts[r]
    BY <2>1, IdleUpload, UploadsFacts
  <2>6. AttemptFits(U!Idle, asset', draft.status) /\ U!Idle.at = "idle"
    BY IdleUpload
  <2>7. QED  BY <1>1, <2>1, <2>4, <2>5, <2>6, AssetSaved
<1>5. QED  BY <1>2, <1>3, <1>4

\* The draft, its staged objects or its passes change; attempts and asset stay.
LEMMA StagingMoves ==
    ASSUME UploadsInv, scope = "uploads", scope' = scope,
           draft' \in U!DraftType, late' \in BOOLEAN, staged' \in Kept,
           pass' \in [Cleaners -> U!PassType], reput' \in BOOLEAN,
           UNCHANGED <<final, asset, locks, attempts, undone>>,
           draft.status \in {"completed"} => draft'.status = draft.status,
           locks # {} => draft'.status = draft.status,
           StagingSound(draft', staged', reput', pass')
    PROVE  UploadsInv'
<1>1. U!TypeOK'
  BY UploadsFacts DEF U!TypeOK, Kept, Contents
<1>2. AttemptsSound(attempts', locks', final', asset', draft'.status, undone')
  BY UploadsFacts DEF AttemptsSound, AttemptFits
<1>3. LocksSound(locks', asset', draft'.status) /\ AssetSound(asset', final', undone')
  BY UploadsFacts DEF LocksSound
<1>4. QED  BY <1>1, <1>2, <1>3 DEF UploadsInv

LEMMA DraftMoves ==
    ASSUME UploadsInv, scope = "uploads", scope' = scope,
           U!CreateIntent \/ U!Expire \/ U!Put("thumb", Poster) \/ \E v \in Contents : U!Put("source", v)
    PROVE  UploadsInv'
<1>1. UNCHANGED <<final, asset, locks, attempts, pass, undone>>
  BY DEF U!CreateIntent, U!Expire, U!Put
<1>2. CASE U!CreateIntent
  <2>1. /\ draft.status = "none" /\ draft' = [draft EXCEPT !.status = "pending"]
        /\ UNCHANGED <<late, staged, reput>>
    BY <1>2 DEF U!CreateIntent
  <2>2. draft' \in U!DraftType /\ draft'.status = "pending" /\ draft'.cleaned = draft.cleaned
    BY <2>1, UploadsFacts DEF U!DraftType
  <2>3. locks = {} /\ staged = U!Nothing /\ ~draft.cleaned
    BY <2>1, UploadsFacts DEF LocksSound, StagingSound
  <2>4. \A a \in Cleaners : PassFits(pass[a], draft'.status, staged', reput')
    BY <2>1, UploadsFacts DEF StagingSound, PassFits, U!PassType
  <2>5. StagingSound(draft', staged', reput', pass')
    BY <1>1, <2>1, <2>2, <2>3, <2>4 DEF StagingSound
  <2>6. QED  BY <1>1, <2>1, <2>2, <2>3, <2>5, UploadsFacts, StagingMoves
<1>3. CASE U!Expire
  <2>1. UNCHANGED <<draft, staged, reput>> /\ late' \in BOOLEAN
    BY <1>3 DEF U!Expire
  <2>2. StagingSound(draft', staged', reput', pass')
    BY <1>1, <2>1, UploadsFacts
  <2>3. QED  BY <1>1, <2>1, <2>2, UploadsFacts, StagingMoves
<1>4. ASSUME NEW k \in U!Parts, NEW v \in Contents \cup {Poster}, U!Put(k, v)  PROVE UploadsInv'
  <2>1. /\ draft.status \in {"pending", "completed"} /\ UNCHANGED <<draft, late>>
        /\ staged' = [staged EXCEPT ![k] = v] /\ reput' = (reput \/ draft.status = "completed")
    BY <1>4 DEF U!Put
  <2>2. staged' \in Kept
    BY <2>1, UploadsFacts DEF Kept
  <2>3. /\ reput' \in BOOLEAN /\ (draft.status = "completed" => reput')
        /\ (~reput' => ~reput /\ draft.status = "pending")
    BY <2>1
  <2>4. \A a \in Cleaners : PassFits(pass[a], draft'.status, staged', reput')
    <3>1. ASSUME NEW a \in Cleaners  PROVE PassFits(pass[a], draft.status, staged', reput')
      <4>1. PassFits(pass[a], draft.status, staged, reput) /\ pass[a] \in U!PassType
        BY UploadsFacts DEF StagingSound
      <4>2. CASE draft.status = "completed"
        BY <2>3, <4>1, <4>2 DEF PassFits
      <4>3. CASE draft.status = "pending"
        BY <4>1, <4>3 DEF PassFits, U!PassType
      <4>4. QED  BY <2>1, <4>2, <4>3
    <3>2. QED  BY <2>1, <3>1
  <2>5. StagingSound(draft', staged', reput', pass')
    BY <1>1, <2>1, <2>3, <2>4, UploadsFacts DEF StagingSound
  <2>6. QED  BY <1>1, <2>1, <2>2, <2>3, <2>5, UploadsFacts, StagingMoves
<1>5. QED  BY <1>2, <1>3, <1>4 DEF U!Parts

\* The staged objects of the draft are deleted as far as the storage answers, or a
\* completed draft is marked when they are gone.
LEMMA StagingSwept ==
    ASSUME UploadsInv, scope = "uploads", scope' = scope, NEW q \in Requests, U!Clean(q)
    PROVE  UploadsInv'
<1>1. /\ draft.status = "completed" /\ attempts' = [attempts EXCEPT ![q] = U!Idle]
      /\ UNCHANGED <<late, final, asset, locks, pass, undone, reput>>
  BY UploadsFacts DEF U!Clean, U!Done, AttemptsSound, AttemptFits
<1>2. /\ attempts' \in [Requests -> U!RequestType] /\ attempts'[q] = U!Idle
      /\ \A r \in Requests \ {q} : attempts'[r] = attempts[r]
  BY <1>1, IdleUpload, UploadsFacts
<1>3. /\ draft' \in U!DraftType /\ draft'.status = "completed" /\ staged' \in Kept
      /\ staged = U!Nothing => staged' = U!Nothing
      /\ draft' = draft \/ staged' = U!Nothing
  <2>1. CASE draft' = draft
    <3>1. staged' \in {staged, U!Nothing, [staged EXCEPT !["source"] = None]}
      BY <2>1 DEF U!Clean
    <3>2. [staged EXCEPT !["source"] = None] \in Kept
      BY UploadsFacts DEF Kept
    <3>3. staged = U!Nothing => [staged EXCEPT !["source"] = None] = U!Nothing
      BY DEF U!Nothing, U!Parts
    <3>4. QED  BY <1>1, <2>1, <3>1, <3>2, <3>3, IdleUpload, UploadsFacts
  <2>2. CASE staged' = U!Nothing /\ draft' = [draft EXCEPT !.cleaned = TRUE]
    <3>1. draft' \in U!DraftType /\ draft'.status = "completed"
      BY <1>1, <2>2, UploadsFacts DEF U!DraftType
    <3>2. QED  BY <2>2, <3>1, IdleUpload
  <2>3. QED  BY <2>1, <2>2 DEF U!Clean
<1>4. U!TypeOK'
  BY <1>1, <1>2, <1>3, UploadsFacts DEF U!TypeOK, Kept, Contents
<1>5. AttemptsSound(attempts', locks', final', asset', draft'.status, undone')
  <2>1. \A r \in Requests : AttemptFits(attempts'[r], asset', draft'.status)
    BY <1>1, <1>2, <1>3, IdleUpload, UploadsFacts DEF AttemptsSound
  <2>2. U!Idle.at # "discard" /\ U!Idle.at \notin Working
    BY IdleUpload DEF Working
  <2>3. ASSUME ~undone', NEW r \in Requests
        PROVE  /\ attempts'[r].at # "discard"
               /\ attempts'[r].at \in Working => r \in locks' /\ CopiesKept(attempts'[r], final')
    BY <1>1, <1>2, <2>2, <2>3, UploadsFacts DEF AttemptsSound
  <2>4. QED  BY <2>1, <2>3 DEF AttemptsSound
<1>6. LocksSound(locks', asset', draft'.status) /\ AssetSound(asset', final', undone')
  BY <1>1, <1>3, UploadsFacts
<1>7. StagingSound(draft', staged', reput', pass')
  <2>1. \A a \in Cleaners : PassFits(pass'[a], draft'.status, staged', reput')
    BY <1>1, <1>3, UploadsFacts DEF StagingSound, PassFits
  <2>2. QED  BY <1>1, <1>3, <2>1, UploadsFacts DEF StagingSound
<1>8. QED  BY <1>4, <1>5, <1>6, <1>7 DEF UploadsInv

\* One pass goes on to a, and the draft and the staged objects may change.
LEMMA PassGoes ==
    ASSUME UploadsInv, scope = "uploads", scope' = scope, NEW k \in Cleaners, NEW a \in U!PassType,
           pass' = [pass EXCEPT ![k] = a],
           UNCHANGED <<late, final, asset, locks, attempts, undone, reput>>,
           draft' \in U!DraftType, staged' \in Kept,
           draft.status = "completed" => draft'.status = "completed",
           draft.status \in {"expired", "deleted"} => draft'.status \in {"expired", "deleted"},
           locks # {} => draft'.status = draft.status,
           staged = U!Nothing => staged' = U!Nothing,
           PassFits(a, draft'.status, staged', reput),
           draft'.cleaned => draft'.status = "completed",
           draft'.status = "none" => draft.status = "none",
           staged' # U!Nothing /\ ~reput =>
              \/ draft'.status \in {"pending", "expired"}
              \/ draft'.status = "completed" /\ ~draft'.cleaned
    PROVE  UploadsInv'
<1>1. /\ pass' \in [Cleaners -> U!PassType] /\ pass'[k] = a
      /\ \A b \in Cleaners \ {k} : pass'[b] = pass[b]
  BY UploadsFacts
<1>2. ASSUME NEW b \in Cleaners  PROVE PassFits(pass'[b], draft'.status, staged', reput')
  <2>1. CASE b = k
    BY <1>1, <2>1
  <2>2. CASE b # k
    <3>1. PassFits(pass[b], draft.status, staged, reput) /\ pass'[b] = pass[b]
      BY <1>1, <2>2, UploadsFacts DEF StagingSound
    <3>2. QED  BY <3>1 DEF PassFits
  <2>3. QED  BY <2>1, <2>2
<1>3. StagingSound(draft', staged', reput', pass')
  BY <1>2, UploadsFacts DEF StagingSound
<1>4. QED  BY <1>1, <1>3, UploadsFacts, StagingMoves

LEMMA PassMoves ==
    ASSUME UploadsInv, scope = "uploads", scope' = scope, NEW k \in Cleaners,
           U!RunOnce(k) \/ U!DeleteStaging(k) \/ U!Close(k) \/ U!StopPass(k)
    PROVE  UploadsInv'
<1>1. /\ UNCHANGED <<late, final, asset, locks, attempts, undone, reput>>
      /\ pass[k] \in U!PassType /\ PassFits(pass[k], draft.status, staged, reput)
      /\ draft \in U!DraftType /\ staged \in Kept
      /\ draft.cleaned => draft.status = "completed"
      /\ staged # U!Nothing /\ ~reput => \/ draft.status \in {"pending", "expired"}
                                         \/ draft.status = "completed" /\ ~draft.cleaned
  BY UploadsFacts DEF U!RunOnce, U!DeleteStaging, U!Close, U!StopPass, StagingSound
<1>2. \A st, stg, rp : PassFits(U!Rest, st, stg, rp)
  BY IdleUpload DEF PassFits
<1>3. CASE U!StopPass(k)
  <2>1. UNCHANGED <<draft, staged>> /\ pass' = [pass EXCEPT ![k] = U!Rest]
    BY <1>3 DEF U!StopPass
  <2>2. QED  BY <1>1, <1>2, <2>1, IdleUpload, PassGoes
<1>4. CASE U!RunOnce(k)
  <2>1. ASSUME draft.status = "pending", locks = {}, draft' = [draft EXCEPT !.status = "expired"],
               pass' = [pass EXCEPT ![k] = [at |-> "delete", status |-> "expired"]]
        PROVE  UploadsInv'
    <3>1. PICK a : a = [at |-> "delete", status |-> "expired"]
      OBVIOUS
    <3>2. a \in U!PassType /\ a.at = "delete" /\ a.status = "expired"
      BY <3>1 DEF U!PassType
    <3>3. draft' \in U!DraftType /\ draft'.status = "expired" /\ draft'.cleaned = draft.cleaned
      BY <1>1, <2>1 DEF U!DraftType
    <3>4. staged' = staged /\ PassFits(a, draft'.status, staged', reput)
      BY <1>4, <3>2, <3>3 DEF PassFits, U!RunOnce
    <3>5. QED  BY <1>1, <2>1, <3>1, <3>2, <3>3, <3>4, PassGoes
  <2>2. ASSUME draft.status \in {"expired", "completed"}, draft' = draft,
               pass' = [pass EXCEPT ![k] = [at |-> "delete", status |-> draft.status]]
        PROVE  UploadsInv'
    <3>1. PICK a : a = [at |-> "delete", status |-> draft.status]
      OBVIOUS
    <3>2. a \in U!PassType /\ a.at = "delete" /\ a.status = draft.status
      BY <2>2, <3>1 DEF U!PassType
    <3>3. staged' = staged /\ PassFits(a, draft'.status, staged', reput)
      BY <1>4, <2>2, <3>2 DEF PassFits, U!RunOnce
    <3>4. QED  BY <1>1, <2>2, <3>1, <3>2, <3>3, PassGoes
  <2>3. QED  BY <1>4, <2>1, <2>2 DEF U!RunOnce, U!Claim
<1>5. CASE U!DeleteStaging(k)
  <2>1. draft' = draft
    BY <1>5 DEF U!DeleteStaging
  <2>2. CASE staged' = U!Nothing /\ pass' = [pass EXCEPT ![k].at = "close"]
    <3>1. PICK a : a = [pass[k] EXCEPT !.at = "close"]
      OBVIOUS
    <3>2. /\ a \in U!PassType /\ a.at = "close" /\ a.status = pass[k].status
          /\ pass' = [pass EXCEPT ![k] = a]
      BY <1>1, <2>2, <3>1, UploadsFacts DEF U!PassType
    <3>3. pass[k].at = "delete"
      BY <1>5 DEF U!DeleteStaging
    <3>4. PassFits(a, draft'.status, staged', reput)
      BY <1>1, <2>1, <2>2, <3>2, <3>3 DEF PassFits
    <3>5. QED  BY <1>1, <2>1, <2>2, <3>2, <3>4, IdleUpload, PassGoes
  <2>3. CASE staged' \in {staged, [staged EXCEPT !["source"] = None]} /\ U!DeleteFailed(k)
    <3>1. staged' \in Kept /\ (staged = U!Nothing => staged' = U!Nothing)
      BY <1>1, <2>3 DEF Kept, U!Nothing, U!Parts
    <3>2. pass' = [pass EXCEPT ![k] = U!Rest]
      BY <2>3 DEF U!DeleteFailed
    <3>3. QED  BY <1>1, <1>2, <2>1, <3>1, <3>2, IdleUpload, PassGoes
  <2>4. QED  BY <1>5, <2>2, <2>3 DEF U!DeleteStaging
<1>6. CASE U!Close(k)
  <2>1. /\ staged' = staged /\ pass' = [pass EXCEPT ![k] = U!Rest] /\ pass[k].at = "close"
        /\ staged = U!Nothing \/ reput
    BY <1>1, <1>6 DEF U!Close, PassFits
  <2>2. CASE draft' = draft
    BY <1>1, <1>2, <2>1, <2>2, IdleUpload, PassGoes
  <2>3. CASE draft.status = "expired" /\ draft' = [draft EXCEPT !.status = "deleted"]
    <3>1. draft' \in U!DraftType /\ draft'.status = "deleted" /\ ~draft'.cleaned
      BY <1>1, <2>3 DEF U!DraftType
    <3>2. locks = {}
      BY <2>3, UploadsFacts DEF LocksSound
    <3>3. QED  BY <1>1, <1>2, <2>1, <2>3, <3>1, <3>2, IdleUpload, PassGoes
  <2>4. CASE draft.status = "completed" /\ draft' = [draft EXCEPT !.cleaned = TRUE]
    <3>1. draft' \in U!DraftType /\ draft'.status = "completed"
      BY <1>1, <2>4 DEF U!DraftType
    <3>2. QED  BY <1>1, <1>2, <2>1, <2>4, <3>1, IdleUpload, PassGoes
  <2>5. QED
    <3>1. pass[k].status \in {"expired", "completed"}
      BY <1>1 DEF U!PassType
    <3>2. CASE draft.status # pass[k].status
      BY <1>6, <2>2, <3>2 DEF U!Close
    <3>3. CASE draft.status = pass[k].status /\ pass[k].status = "expired"
      BY <1>6, <2>3, <3>3 DEF U!Close
    <3>4. CASE draft.status = pass[k].status /\ pass[k].status = "completed"
      BY <1>6, <2>4, <3>4 DEF U!Close
    <3>5. QED  BY <3>1, <3>2, <3>3, <3>4
<1>7. QED  BY <1>3, <1>4, <1>5, <1>6

LEMMA UploadsCorrect == Spec => []UploadsInv
<1>1. Init => UploadsInv
  BY UploadsInit
<1>2. UploadsInv /\ [Next]_vars => UploadsInv'
  <2> SUFFICES ASSUME UploadsInv, [Next]_vars, scope = "uploads", scope' = scope
               PROVE  UploadsInv'
    BY OneMoves DEF UploadsInv
  <2>1. CASE U!Next
    BY <2>1, DraftMoves, AttemptStarts, AttemptHeads, AttemptCopies, AttemptVerifies, AttemptBreaks,
       AttemptWrites, AttemptLoses, AssetChanges, StagingSwept, PassMoves DEF U!Next, Contents
  <2>2. CASE UNCHANGED uploadsVars
    BY <2>2 DEF uploadsVars, UploadsInv, U!TypeOK
  <2>3. QED  BY <2>1, <2>2, OneMoves
<1>3. QED  BY <1>1, <1>2, PTL DEF Spec

\* However attempts, crashes, lost connections, cleanups and new uploads interleave,
\* an asset has the very content that was verified for it and its poster, unless a
\* transaction was lost, and every staged object is known to a row that a cleanup
\* selects, unless the client used its URL after the draft was completed:
\* AssetUploadService.complete and AssetUploadCleanupService.
THEOREM ObjectsAccountedCorrect == Spec => []ObjectsAccountedFor
<1>1. UploadsInv /\ scope = "uploads" => U!AssetHasItsObject /\ U!StagingReclaimable
  BY UploadsFacts DEF AssetSound, StagingSound, U!AssetHasItsObject, U!StagingReclaimable
<1>2. UploadsInv => ObjectsAccountedFor
  BY <1>1 DEF ObjectsAccountedFor
<1>3. QED  BY <1>2, UploadsCorrect, PTL

\* The component whose turn it is not to move has no draft.
LEMMA NoDraftElsewhere == Spec => [](scope # "uploads" => draft.status = "none")
<1>1. Init => (scope # "uploads" => draft.status = "none")
  <2> SUFFICES ASSUME Init, scope # "uploads"  PROVE draft.status = "none"
    OBVIOUS
  <2>1. draft = [status |-> "none", cleaned |-> FALSE]
    BY DEF Init, UploadsRests
  <2>2. QED  BY <2>1
<1>2. (scope # "uploads" => draft.status = "none") /\ [Next]_vars
         => (scope # "uploads" => draft.status = "none")'
  <2> SUFFICES ASSUME scope # "uploads", draft.status = "none", [Next]_vars  PROVE draft'.status = "none"
    BY OneMoves
  <2>1. UNCHANGED draft
    BY DEF Next, vars, CanvasMoves, WritebackMoves, PollingMoves, UploadsMoves, RegistryMoves,
       RunnerMoves, ChatMoves, uploadsVars
  <2>2. QED  BY <2>1
<1>3. QED  BY <1>1, <1>2, PTL DEF Spec

\* A draft that is expired or deleted has no asset, nor gets one by any step, and
\* stays expired or deleted: the attempt that completes the draft holds its row,
\* the cleanup skips rows that are held, and no attempt starts on a row that is
\* not pending: complete and runOnce.
THEOREM ExpiredStaysCorrect == Spec => ExpiredStaysExpired
<1> DEFINE Over == {"expired", "deleted"}
           A == draft.status \in Over => asset' = None /\ draft'.status \in Over
<1>1. ASSUME UploadsInv, scope # "uploads" => draft.status = "none", [Next]_vars  PROVE A
  <2> SUFFICES ASSUME draft.status \in Over  PROVE asset' = None /\ draft'.status \in Over
    OBVIOUS
  <2>1. scope = "uploads" /\ locks = {} /\ asset = None /\ draft \in U!DraftType
    <3>1. scope = "uploads"
      BY <1>1
    <3>2. LocksSound(locks, asset, draft.status) /\ draft \in U!DraftType
      BY <1>1, <3>1, UploadsFacts
    <3>3. locks = {} /\ asset = None
      BY <3>2 DEF LocksSound
    <3>4. QED  BY <3>1, <3>2, <3>3
  <2>2. \A q \in Requests : attempts[q].at # "poster"
    <3>1. \A q \in Requests : AttemptFits(attempts[q], asset, draft.status)
      BY <1>1, <2>1, UploadsFacts DEF AttemptsSound
    <3>2. QED  BY <2>1, <3>1, NoneIsNoRow DEF AttemptFits
  <2>3. CASE UNCHANGED uploadsVars
    BY <2>1, <2>3 DEF uploadsVars
  <2>4. CASE \E k \in Cleaners : U!RunOnce(k) \/ U!DeleteStaging(k) \/ U!Close(k) \/ U!StopPass(k)
    <3>1. PICK k \in Cleaners : U!RunOnce(k) \/ U!DeleteStaging(k) \/ U!Close(k) \/ U!StopPass(k)
      BY <2>4
    <3>2. asset' = asset
      BY <3>1 DEF U!RunOnce, U!DeleteStaging, U!Close, U!StopPass
    <3>3. CASE draft' = draft
      BY <2>1, <3>2, <3>3
    <3>4. CASE draft' = [draft EXCEPT !.status = "expired"] \/ draft' = [draft EXCEPT !.status = "deleted"]
      BY <2>1, <3>2, <3>4 DEF U!DraftType
    <3>5. CASE draft' = [draft EXCEPT !.cleaned = TRUE]
      BY <2>1, <3>2, <3>5 DEF U!DraftType
    <3>6. QED
      BY <3>1, <3>3, <3>4, <3>5 DEF U!RunOnce, U!DeleteStaging, U!Close, U!StopPass
  <2>5. CASE \E q \in Requests :
               \/ U!Complete(q) \/ U!Locked(q) \/ U!Head(q) \/ U!CopySource(q) \/ U!Verify(q)
               \/ U!CopyThumb(q) \/ U!CallFails(q) \/ U!WriteFails(q) \/ U!Disconnect(q)
               \/ U!Discard(q) \/ U!Crash(q) \/ U!PosterRead(q)
    BY <2>1, <2>5 DEF U!Complete, U!Locked, U!Head, U!CopySource, U!Verify, U!CopyThumb, U!CallFails,
       U!WriteFails, U!Disconnect, U!Discard, U!Crash, U!PosterRead
  <2>6. CASE \E q \in Requests : U!Write(q) \/ U!PosterSave(q)
    BY <2>1, <2>2, <2>6 DEF U!Write, U!PosterSave
  <2>7. CASE \E q \in Requests : U!Clean(q)
    <3>1. asset' = asset /\ (draft' = draft \/ draft' = [draft EXCEPT !.cleaned = TRUE])
      BY <2>7 DEF U!Clean
    <3>2. draft'.status = draft.status
      BY <2>1, <3>1 DEF U!DraftType
    <3>3. QED  BY <2>1, <3>1, <3>2
  <2>8. CASE U!CreateIntent \/ U!Expire \/ U!SoftDelete
             \/ U!Put("thumb", Poster) \/ \E v \in Contents : U!Put("source", v)
    BY <2>1, <2>8 DEF U!CreateIntent, U!Expire, U!SoftDelete, U!Put
  <2>9. U!Next \/ UNCHANGED uploadsVars
    BY <1>1, OneMoves
  <2>10. QED
    BY <2>3, <2>4, <2>5, <2>6, <2>7, <2>8, <2>9 DEF U!Next, Contents
<1>2. QED
  BY <1>1, UploadsCorrect, NoDraftElsewhere, PTL DEF Spec, ExpiredStaysExpired, U!ExpiredStaysExpired

(***************************************************************************)
(* NodePolling.                                                            *)
(***************************************************************************)
\* The server knows every Task the browser has heard of.
HeardOf(sv, q) == q = None \/ sv[q] # None
TasksKnown(sv, sh, un, po, ca, re) ==
    /\ sh # None => HeardOf(sv, sh.task)
    /\ un # None => HeardOf(sv, un.task)
    /\ po # None => HeardOf(sv, po.task)
    /\ \A g \in P!Generations : HeardOf(sv, ca[g].task)
    /\ HeardOf(sv, re.task)

\* Submissions have the generations up to the last one, and only the last can be
\* current; a poll starts when its submission is over.
GenerationsSound(ge, cu, ls, ca, po, au) ==
    /\ cu \in {0, ge} /\ ls = ge /\ au <= ge
    /\ \A g \in P!Generations : /\ g > ge => ca[g] = P!NoCall
                                /\ ca[g].task # None <=> ca[g].at = "created"
    /\ po # None => po.gen <= ge /\ ca[po.gen].at = "none"

\* The data d of a node do not say that Task q has ended.
NotEnded(d, q) == d.task = q => d.status \in P!Live

\* While a poll is current, neither the node nor its undo step shows its Task as
\* ended, and the Task of the current submission is not shown at all before its
\* answer.
ShownSound(sh, un, cu, ca, po) ==
    /\ sh = None <=> un = None
    /\ sh = None => cu = 0
    /\ sh # None =>
          /\ po # None /\ cu = po.gen => NotEnded(sh, po.task) /\ NotEnded(un, po.task)
          /\ \A g \in P!Generations :
                ca[g].at = "created" /\ cu = g => sh.task # ca[g].task /\ un.task # ca[g].task

\* Until the list of this visit is taken up and no click came between, the node
\* and its undo step are as they were loaded.
ResumeSound(re, sh, un, ge, cu) ==
    /\ re.boundary <= ge
    /\ re.at # "none" =>
          /\ sh # None
          /\ ge <= re.boundary => sh = P!Blank /\ un = P!Blank /\ cu = 0
    /\ re.at = "listed" => re.task # None /\ re.status \in P!Live

Followed(sh, cu, po, ca, dr) ==
    sh # None /\ sh.task # None /\ sh.status \in P!Live =>
        \/ po # None /\ po.task = sh.task /\ cu = po.gen
        \/ \E g \in P!Generations : ca[g].at = "schema" /\ cu = g
        \/ dr

PollingInv ==
    scope = "polling" =>
        /\ P!TypeOK
        /\ TasksKnown(server, shown, undo, poll, calls, resume)
        /\ GenerationsSound(gen, current, lastSub, calls, poll, author)
        /\ ShownSound(shown, undo, current, calls, poll)
        /\ ResumeSound(resume, shown, undo, gen, current)
        /\ Followed(shown, current, poll, calls, dropped)

LEMMA SetsOfPolled ==
    ASSUME NEW S \in SUBSET Clicked
    PROVE  /\ IsFiniteSet(S) /\ Cardinality(S) \in Nat
           /\ P!Cardinality(S) = Cardinality(S)
           /\ Cardinality(S) <= Cardinality(Clicked)
<1>1. IsFiniteSet(Clicked)
  BY TasksDiffer
<1>2. IsFiniteSet(S) /\ Cardinality(S) <= Cardinality(Clicked)
  BY <1>1, FS_Subset
<1>3. Cardinality(S) \in Nat
  BY <1>2, FS_CardinalityType
<1>4. P!Cardinality(S) = Cardinality(S)
  BY DEF P!Cardinality, Cardinality
<1>5. QED  BY <1>2, <1>3, <1>4

LEMMA PollingFacts ==
    ASSUME PollingInv, scope = "polling"
    PROVE  /\ server \in [Clicked -> P!Statuses \cup {None}]
           /\ born \in [Clicked -> 0..P!Cardinality(Clicked)]
           /\ shown \in P!NodeData \cup {None} /\ undo \in P!NodeData \cup {None}
           /\ gen \in Nat /\ gen <= MaxGeneration
           /\ current \in 0..gen /\ lastSub \in 0..gen /\ author \in 0..gen
           /\ calls \in [P!Generations -> P!CallType]
           /\ poll \in P!Entry \cup {None}
           /\ \A a \in answers : a.entry \in P!Entry /\ a.status \in P!Statuses
           /\ resume \in P!ListType /\ visits \in 0..MaxVisits /\ dropped \in BOOLEAN
           /\ TasksKnown(server, shown, undo, poll, calls, resume)
           /\ GenerationsSound(gen, current, lastSub, calls, poll, author)
           /\ ShownSound(shown, undo, current, calls, poll)
           /\ ResumeSound(resume, shown, undo, gen, current)
           /\ Followed(shown, current, poll, calls, dropped)
BY PollingLimits DEF PollingInv, P!TypeOK

LEMMA PollingInit == Init => PollingInv
<1> SUFFICES ASSUME Init, scope = "polling"  PROVE PollingInv
  BY DEF PollingInv
<1>1. P!Init
  BY DEF Init
<1>2. P!TypeOK
  <2>1. 0 \in 0..P!Cardinality(Clicked)
    BY SetsOfPolled
  <2>2. calls \in [P!Generations -> P!CallType]
    BY <1>1 DEF P!Init, P!NoCall, P!CallType
  <2>3. resume \in P!ListType
    <3>1. 0 \in 0..MaxGeneration
      BY PollingLimits
    <3>2. resume = [at |-> "none", boundary |-> 0, task |-> None, status |-> None]
      BY <1>1 DEF P!Init, P!NoList
    <3>3. QED  BY <3>1, <3>2 DEF P!ListType
  <2>4. /\ server = [x \in Clicked |-> None] /\ born = [x \in Clicked |-> 0]
        /\ gen = 0 /\ current = 0 /\ lastSub = 0 /\ visits = 0 /\ author = 0
        /\ shown = None /\ undo = None /\ poll = None /\ answers = {} /\ dropped \in BOOLEAN
    BY <1>1 DEF P!Init
  <2>5. QED  BY <2>1, <2>2, <2>3, <2>4, PollingLimits DEF P!TypeOK
<1>3. TasksKnown(server, shown, undo, poll, calls, resume)
  BY <1>1 DEF P!Init, TasksKnown, HeardOf, P!NoCall, P!NoList
<1>4. GenerationsSound(gen, current, lastSub, calls, poll, author)
  BY <1>1 DEF P!Init, GenerationsSound, P!NoCall
<1>5. ShownSound(shown, undo, current, calls, poll)
  BY <1>1 DEF P!Init, ShownSound
<1>6. ResumeSound(resume, shown, undo, gen, current)
  BY <1>1 DEF P!Init, ResumeSound, P!NoList
<1>7. Followed(shown, current, poll, calls, dropped)
  BY <1>1 DEF P!Init, Followed
<1>8. QED  BY <1>2, <1>3, <1>4, <1>5, <1>6, <1>7 DEF PollingInv

\* A call goes to n.
LEMMA CallGoes ==
    ASSUME PollingInv, scope = "polling", NEW g \in P!Generations, NEW n \in P!CallType,
           calls' = [calls EXCEPT ![g] = n]
    PROVE  /\ calls' \in [P!Generations -> P!CallType]
           /\ calls'[g] = n /\ \A h \in P!Generations \ {g} : calls'[h] = calls[h]
BY PollingFacts

LEMMA PollingSubmits ==
    ASSUME PollingInv, scope = "polling", scope' = scope, P!Submit
    PROVE  PollingInv'
<1>1. /\ shown # None /\ gen < MaxGeneration /\ gen' = gen + 1 /\ current' = gen + 1
      /\ lastSub' = gen + 1 /\ poll' = None
      /\ calls' = [calls EXCEPT ![gen + 1] = [at |-> "schema", task |-> None]]
      /\ UNCHANGED <<server, born, shown, undo, answers, resume, visits, dropped, author>>
  BY DEF P!Submit, P!BeginSubmission, P!Loaded
<1>2. gen + 1 \in P!Generations /\ [at |-> "schema", task |-> None] \in P!CallType
  BY <1>1, PollingFacts, PollingLimits DEF P!Generations, P!CallType
<1>3. /\ calls' \in [P!Generations -> P!CallType]
      /\ calls'[gen + 1] = [at |-> "schema", task |-> None]
      /\ \A h \in P!Generations \ {gen + 1} : calls'[h] = calls[h]
  BY <1>1, <1>2, CallGoes
<1>4. P!TypeOK'
  BY <1>1, <1>3, PollingFacts, PollingLimits DEF P!TypeOK
<1>5. TasksKnown(server', shown', undo', poll', calls', resume')
  BY <1>1, <1>3, PollingFacts DEF TasksKnown, HeardOf
<1>6. GenerationsSound(gen', current', lastSub', calls', poll', author')
  <2>1. \A h \in P!Generations : h > gen + 1 => h # gen + 1 /\ h > gen
    BY PollingFacts, PollingLimits DEF P!Generations
  <2>2. \A h \in P!Generations : /\ h > gen' => calls'[h] = P!NoCall
                                 /\ calls'[h].task # None <=> calls'[h].at = "created"
    BY <1>1, <1>3, <2>1, PollingFacts DEF GenerationsSound
  <2>3. QED  BY <1>1, <2>2, PollingFacts DEF GenerationsSound
<1>7. ShownSound(shown', undo', current', calls', poll')
  BY <1>1, <1>3, PollingFacts DEF ShownSound
<1>8. ResumeSound(resume', shown', undo', gen', current')
  <2>1. resume.boundary \in Nat
    BY PollingFacts, PollingLimits DEF P!ListType
  <2>2. QED  BY <1>1, <2>1, PollingFacts DEF ResumeSound
<1>9. Followed(shown', current', poll', calls', dropped')
  BY <1>1, <1>2, <1>3 DEF Followed
<1>10. QED  BY <1>4, <1>5, <1>6, <1>7, <1>8, <1>9 DEF PollingInv

\* A submission that is abandoned, goes on or fails: its call goes to n, which is
\* no answer that is awaited, and no generation is used up.
LEMMA SubmissionGoes ==
    ASSUME PollingInv, scope = "polling", scope' = scope, NEW g \in P!Generations,
           NEW n \in P!CallType, calls' = [calls EXCEPT ![g] = n],
           calls[g].at # "none", n.at # "created", n.task = None, n = P!NoCall \/ n.at # "none",
           UNCHANGED <<server, born, undo, gen, lastSub, poll, answers, resume, visits>>,
           current' \in {0, current}, shown = None => shown' = None,
           shown # None => shown' \in P!NodeData /\ shown'.task \in {None, shown.task},
           shown' = shown \/ current = g, author' = author \/ (current = g /\ author' = g),
           dropped' \in BOOLEAN, Followed(shown', current', poll', calls', dropped')
    PROVE  PollingInv'
<1>1. /\ calls' \in [P!Generations -> P!CallType]
      /\ calls'[g] = n /\ \A h \in P!Generations \ {g} : calls'[h] = calls[h]
  BY CallGoes
<1>2. current = g => gen = g
  BY PollingFacts DEF GenerationsSound, P!Generations
<1>3. author' \in 0..gen /\ current' \in 0..gen
  BY <1>2, PollingFacts
<1>4. shown' \in P!NodeData \cup {None}
  BY PollingFacts
<1>5. P!TypeOK'
  BY <1>1, <1>3, <1>4, PollingFacts, PollingLimits DEF P!TypeOK
<1>6. TasksKnown(server', shown', undo', poll', calls', resume')
  <2>1. \A h \in P!Generations : HeardOf(server, calls'[h].task)
    BY <1>1, PollingFacts DEF TasksKnown, HeardOf
  <2>2. shown' # None => HeardOf(server, shown'.task)
    BY PollingFacts DEF TasksKnown, HeardOf
  <2>3. QED  BY <2>1, <2>2, PollingFacts DEF TasksKnown
<1>7. GenerationsSound(gen', current', lastSub', calls', poll', author')
  <2>1. g <= gen
    BY PollingFacts DEF GenerationsSound, P!Generations, P!NoCall
  <2>2. \A h \in P!Generations : /\ h > gen => calls'[h] = P!NoCall
                                 /\ calls'[h].task # None <=> calls'[h].at = "created"
    BY <1>1, <2>1, PollingFacts DEF GenerationsSound, P!Generations
  <2>3. poll # None => poll.gen <= gen /\ calls'[poll.gen].at = "none"
    BY <1>1, PollingFacts DEF GenerationsSound, P!Entry
  <2>4. QED  BY <1>3, <2>2, <2>3, PollingFacts DEF GenerationsSound
<1>8. ShownSound(shown', undo', current', calls', poll')
  <2>1. shown = None <=> undo = None
    BY PollingFacts DEF ShownSound
  <2>2. shown' = None <=> shown = None
    BY PollingFacts, NoneIsNoPoll
  <2>3. ASSUME shown # None, poll # None, current' = poll.gen
        PROVE  NotEnded(shown', poll.task) /\ NotEnded(undo, poll.task)
    <3>1. current = poll.gen /\ poll.gen # g
      BY <2>3, PollingFacts DEF GenerationsSound, P!Entry, P!Generations
    <3>2. shown' = shown
      BY <3>1
    <3>3. QED  BY <2>3, <3>1, <3>2, PollingFacts DEF ShownSound
  <2>4. ASSUME shown # None, NEW h \in P!Generations, calls'[h].at = "created", current' = h
        PROVE  shown'.task # calls'[h].task /\ undo.task # calls'[h].task
    <3>1. h # g /\ calls'[h] = calls[h] /\ current = h /\ calls[h].task # None
      BY <1>1, <2>4, PollingFacts DEF GenerationsSound, P!Generations
    <3>2. shown' = shown
      BY <3>1
    <3>3. QED  BY <2>4, <3>1, <3>2, PollingFacts DEF ShownSound
  <2>5. shown = None => current' = 0
    BY PollingFacts DEF ShownSound
  <2>6. QED  BY <2>1, <2>2, <2>3, <2>4, <2>5 DEF ShownSound
<1>9. ResumeSound(resume', shown', undo', gen', current')
  <2>1. shown = None => shown' = None
    OBVIOUS
  <2>2. g # 0
    BY DEF P!Generations
  <2>3. QED  BY <2>1, <2>2, PollingFacts, NoneIsNoPoll DEF ResumeSound
<1>10. QED  BY <1>5, <1>6, <1>7, <1>8, <1>9 DEF PollingInv

LEMMA PollingAbandons ==
    ASSUME PollingInv, scope = "polling", scope' = scope, NEW g \in P!Generations, P!Abandon(g)
    PROVE  PollingInv'
<1>1. /\ calls[g].at = "schema" /\ current = g /\ calls' = [calls EXCEPT ![g] = P!NoCall]
      /\ current' = 0 /\ UNCHANGED <<server, born, shown, undo, gen, lastSub, poll, answers, resume, visits, author>>
      /\ dropped' = (dropped \/ (P!Loaded /\ shown.status \in P!Live))
  BY DEF P!Abandon, P!IsCurrent
<1>2. P!NoCall \in P!CallType /\ P!NoCall.at = "none" /\ P!NoCall.task = None
  BY DEF P!NoCall, P!CallType
<1>3. dropped' \in BOOLEAN
  BY <1>1
<1>4. shown # None /\ shown.status \in P!Live => dropped'
  BY <1>1 DEF P!Loaded
<1>5. Followed(shown', current', poll', calls', dropped')
  BY <1>1, <1>4 DEF Followed
<1>6. shown # None => shown' \in P!NodeData
  BY <1>1, PollingFacts
<1>7. QED  BY <1>1, <1>2, <1>3, <1>5, <1>6, SubmissionGoes

LEMMA PollingPrepares ==
    ASSUME PollingInv, scope = "polling", scope' = scope, NEW g \in P!Generations, P!Prepared(g)
    PROVE  PollingInv'
<1>1. /\ calls[g].at = "schema"
      /\ UNCHANGED <<server, born, undo, gen, current, lastSub, poll, answers, resume, visits, dropped>>
  BY DEF P!Prepared, P!clientPoll
<1>2. P!NoCall \in P!CallType /\ P!NoCall.at = "none" /\ P!NoCall.task = None
  BY DEF P!NoCall, P!CallType
<1>3. CASE current # g /\ calls' = [calls EXCEPT ![g] = P!NoCall] /\ UNCHANGED <<shown, author>>
  <2>1. \A h \in P!Generations \ {g} : calls'[h] = calls[h]
    BY <1>2, <1>3, CallGoes
  <2>2. Followed(shown', current', poll', calls', dropped')
    BY <1>1, <1>3, <2>1, PollingFacts DEF Followed
  <2>3. dropped' \in BOOLEAN /\ (shown # None => shown' \in P!NodeData)
    BY <1>1, <1>3, PollingFacts
  <2>4. QED  BY <1>1, <1>2, <1>3, <2>2, <2>3, SubmissionGoes
<1>4. CASE /\ current = g /\ calls' = [calls EXCEPT ![g].at = "create"]
           /\ P!Patch(g, [task |-> None, status |-> "queued"])
  <2>1. PICK n : n = [calls[g] EXCEPT !.at = "create"]
    OBVIOUS
  <2>2. calls[g] \in P!CallType /\ calls[g].task = None
    BY <1>1, PollingFacts DEF GenerationsSound
  <2>3. /\ n \in P!CallType /\ n.at = "create" /\ n.task = None
        /\ calls' = [calls EXCEPT ![g] = n]
    BY <1>4, <2>1, <2>2 DEF P!CallType
  <2>4. /\ shown' = IF shown # None THEN [task |-> None, status |-> "queued"] ELSE shown
        /\ author' = IF shown # None THEN g ELSE author
    BY <1>4 DEF P!Patch, P!Loaded
  <2>5. [task |-> None, status |-> "queued"] \in P!NodeData
    BY DEF P!NodeData, P!Statuses, P!Live
  <2>6. Followed(shown', current', poll', calls', dropped')
    BY <2>4 DEF Followed
  <2>7. /\ shown # None => shown' \in P!NodeData /\ shown'.task = None
        /\ shown = None => shown' = None
    BY <2>4, <2>5
  <2>8. QED
    BY <1>1, <1>4, <2>3, <2>4, <2>6, <2>7, PollingFacts, SubmissionGoes
<1>5. QED  BY <1>3, <1>4 DEF P!Prepared, P!IsCurrent

LEMMA PollingFails ==
    ASSUME PollingInv, scope = "polling", scope' = scope, NEW g \in P!Generations, P!CreateFails(g)
    PROVE  PollingInv'
<1>1. /\ calls[g].at \in {"create", "created"} /\ calls' = [calls EXCEPT ![g] = P!NoCall]
      /\ UNCHANGED <<server, born, undo, gen, lastSub, poll, answers, resume, visits, dropped>>
  BY DEF P!CreateFails
<1>2. P!NoCall \in P!CallType /\ P!NoCall.at = "none" /\ P!NoCall.task = None
  BY DEF P!NoCall, P!CallType
<1>3. CASE current # g /\ UNCHANGED <<shown, author, current>>
  <2>1. \A h \in P!Generations \ {g} : calls'[h] = calls[h]
    BY <1>1, <1>2, CallGoes
  <2>2. Followed(shown', current', poll', calls', dropped')
    BY <1>1, <1>3, <2>1, PollingFacts DEF Followed
  <2>3. dropped' \in BOOLEAN /\ (shown # None => shown' \in P!NodeData)
    BY <1>1, <1>3, PollingFacts
  <2>4. QED  BY <1>1, <1>2, <1>3, <2>2, <2>3, SubmissionGoes
<1>4. CASE current = g /\ P!Patch(g, [shown EXCEPT !.status = "failed"]) /\ current' = 0
  <2>1. /\ shown' = IF shown # None THEN [shown EXCEPT !.status = "failed"] ELSE shown
        /\ author' = IF shown # None THEN g ELSE author
    BY <1>4 DEF P!Patch, P!Loaded
  <2>2. shown # None => shown' \in P!NodeData /\ shown'.task = shown.task /\ shown'.status = "failed"
    BY <2>1, PollingFacts DEF P!NodeData, P!Statuses, P!Terminal
  <2>3. Followed(shown', current', poll', calls', dropped')
    BY <2>1, <2>2 DEF Followed, P!Live
  <2>4. dropped' \in BOOLEAN /\ (author' = author \/ author' = g)
    BY <1>1, <2>1, PollingFacts
  <2>5. shown = None => shown' = None
    BY <2>1
  <2>6. QED
    BY <1>1, <1>2, <1>4, <2>2, <2>3, <2>4, <2>5, SubmissionGoes
<1>5. QED  BY <1>3, <1>4 DEF P!CreateFails, P!IsCurrent

LEMMA PollingTyped ==
    ASSUME server' \in [Clicked -> P!Statuses \cup {None}],
           born' \in [Clicked -> 0..P!Cardinality(Clicked)],
           shown' \in P!NodeData \cup {None}, undo' \in P!NodeData \cup {None},
           gen' \in Nat, gen' <= MaxGeneration,
           current' \in 0..gen', lastSub' \in 0..gen', author' \in 0..gen',
           calls' \in [P!Generations -> P!CallType], poll' \in P!Entry \cup {None},
           \A a \in answers' : a.entry \in P!Entry /\ a.status \in P!Statuses,
           resume' \in P!ListType, visits' \in 0..MaxVisits, dropped' \in BOOLEAN
    PROVE  P!TypeOK'
BY PollingLimits DEF P!TypeOK

\* The Task the server creates was heard of by no one.
LEMMA PollingCreates ==
    ASSUME PollingInv, scope = "polling", scope' = scope, NEW g \in P!Generations,
           NEW q \in Clicked, P!ServerCreate(g, q)
    PROVE  PollingInv'
<1>1. /\ calls[g].at = "create" /\ server[q] = None /\ server' = [server EXCEPT ![q] = "queued"]
      /\ born' = [born EXCEPT ![q] = 1 + P!Cardinality({u \in Clicked : server[u] # None})]
      /\ calls' = [calls EXCEPT ![g] = [at |-> "created", task |-> q]]
      /\ UNCHANGED <<shown, undo, gen, current, lastSub, poll, answers, resume, visits, dropped, author>>
  BY DEF P!ServerCreate, P!clientPoll
<1>2. [at |-> "created", task |-> q] \in P!CallType
  BY DEF P!CallType
<1>3. /\ calls' \in [P!Generations -> P!CallType]
      /\ calls'[g] = [at |-> "created", task |-> q]
      /\ \A h \in P!Generations \ {g} : calls'[h] = calls[h]
  BY <1>1, <1>2, CallGoes
<1>4. born' \in [Clicked -> 0..P!Cardinality(Clicked)]
  <2> DEFINE S == {u \in Clicked : server[u] # None}
  <2>1. S \in SUBSET Clicked /\ S \cup {q} \in SUBSET Clicked /\ q \notin S
    BY <1>1
  <2> HIDE DEF S
  <2>2. Cardinality(S \cup {q}) = Cardinality(S) + 1
    BY <2>1, SetsOfPolled, FS_AddElement
  <2>3. /\ Cardinality(S) \in Nat /\ Cardinality(S) + 1 <= Cardinality(Clicked)
        /\ P!Cardinality(S) = Cardinality(S)
        /\ P!Cardinality(Clicked) = Cardinality(Clicked) /\ Cardinality(Clicked) \in Nat
    BY <2>1, <2>2, SetsOfPolled
  <2>4. born' = [born EXCEPT ![q] = 1 + P!Cardinality(S)]
    BY <1>1 DEF S
  <2>5. 1 + P!Cardinality(S) \in 0..P!Cardinality(Clicked)
    BY <2>3
  <2>6. QED  BY <2>4, <2>5, PollingFacts
<1>5. /\ server' \in [Clicked -> P!Statuses \cup {None}]
      /\ \A u \in Clicked : server[u] # None => server'[u] # None
      /\ server'[q] # None
  BY <1>1, PollingFacts, NoneIsNoPoll DEF P!Statuses, P!Live
<1>6. P!TypeOK'
  BY <1>1, <1>3, <1>4, <1>5, PollingFacts, PollingTyped
<1>7. TasksKnown(server', shown', undo', poll', calls', resume')
  <2>1. \A u \in Clicked \cup {None} : HeardOf(server, u) => HeardOf(server', u)
    BY <1>5 DEF HeardOf
  <2>2. /\ shown # None => shown.task \in Clicked \cup {None}
        /\ undo # None => undo.task \in Clicked \cup {None}
        /\ poll # None => poll.task \in Clicked \cup {None}
        /\ resume.task \in Clicked \cup {None}
        /\ \A h \in P!Generations : calls[h].task \in Clicked \cup {None}
    BY PollingFacts DEF P!NodeData, P!Entry, P!ListType, P!CallType
  <2>3. \A h \in P!Generations : HeardOf(server', calls'[h].task)
    BY <1>3, <1>5, <2>1, <2>2, PollingFacts DEF TasksKnown, HeardOf
  <2>4. QED  BY <1>1, <2>1, <2>2, <2>3, PollingFacts DEF TasksKnown
<1>8. GenerationsSound(gen', current', lastSub', calls', poll', author')
  <2>1. g <= gen /\ q # None
    BY <1>1, PollingFacts, TasksDiffer DEF GenerationsSound, P!Generations, P!NoCall
  <2>2. \A h \in P!Generations : /\ h > gen => calls'[h] = P!NoCall
                                 /\ calls'[h].task # None <=> calls'[h].at = "created"
    BY <1>3, <2>1, PollingFacts DEF GenerationsSound, P!Generations
  <2>3. poll # None => poll.gen <= gen /\ calls'[poll.gen].at = "none"
    BY <1>1, <1>3, PollingFacts DEF GenerationsSound, P!Entry
  <2>4. QED  BY <1>1, <2>2, <2>3, PollingFacts DEF GenerationsSound
<1>9. ShownSound(shown', undo', current', calls', poll')
  <2>1. shown # None => undo # None /\ shown.task # q /\ undo.task # q
    BY <1>1, PollingFacts, TasksDiffer DEF TasksKnown, HeardOf, ShownSound
  <2>2. QED  BY <1>1, <1>3, <2>1, PollingFacts DEF ShownSound
<1>10. ResumeSound(resume', shown', undo', gen', current')
  BY <1>1, PollingFacts DEF ResumeSound
<1>11. Followed(shown', current', poll', calls', dropped')
  BY <1>1, <1>3, PollingFacts DEF Followed
<1>12. QED  BY <1>6, <1>7, <1>8, <1>9, <1>10, <1>11 DEF PollingInv

\* What the browser shows and polls stays as it is.
LEMMA BrowserWaits ==
    ASSUME PollingInv, scope = "polling", scope' = scope,
           UNCHANGED <<born, shown, undo, gen, current, lastSub, calls, poll, visits, dropped, author>>,
           server' \in [Clicked -> P!Statuses \cup {None}],
           \A u \in Clicked : server[u] # None => server'[u] # None,
           \A a \in answers' : a.entry \in P!Entry /\ a.status \in P!Statuses,
           resume' \in P!ListType, HeardOf(server', resume'.task),
           ResumeSound(resume', shown, undo, gen, current)
    PROVE  PollingInv'
<1>1. P!TypeOK'
  BY PollingFacts, PollingTyped
<1>2. TasksKnown(server', shown', undo', poll', calls', resume')
  <2>1. \A u \in Clicked \cup {None} : HeardOf(server, u) => HeardOf(server', u)
    BY DEF HeardOf
  <2>2. /\ shown # None => shown.task \in Clicked \cup {None}
        /\ undo # None => undo.task \in Clicked \cup {None}
        /\ poll # None => poll.task \in Clicked \cup {None}
        /\ \A h \in P!Generations : calls[h].task \in Clicked \cup {None}
    BY PollingFacts DEF P!NodeData, P!Entry, P!CallType
  <2>3. QED  BY <2>1, <2>2, PollingFacts DEF TasksKnown
<1>3. GenerationsSound(gen', current', lastSub', calls', poll', author')
  BY PollingFacts DEF GenerationsSound
<1>4. ShownSound(shown', undo', current', calls', poll')
  BY PollingFacts DEF ShownSound
<1>5. Followed(shown', current', poll', calls', dropped')
  BY PollingFacts DEF Followed
<1>6. QED  BY <1>1, <1>2, <1>3, <1>4, <1>5 DEF PollingInv

LEMMA PollingFetches ==
    ASSUME PollingInv, scope = "polling", scope' = scope, P!Fetch
    PROVE  PollingInv'
<1>1. /\ poll # None /\ answers' = answers \cup {[entry |-> poll, status |-> server[poll.task]]}
      /\ UNCHANGED <<server, born, shown, undo, gen, current, lastSub, poll, calls, resume,
                     visits, dropped, author>>
  BY DEF P!Fetch, P!clientPoll
<1>2. poll \in P!Entry /\ poll.task \in Clicked /\ poll.task # None
  BY <1>1, PollingFacts, TasksDiffer DEF P!Entry
<1>3. server[poll.task] \in P!Statuses
  BY <1>1, <1>2, PollingFacts DEF TasksKnown, HeardOf
<1>4. \A a \in answers' : a.entry \in P!Entry /\ a.status \in P!Statuses
  BY <1>1, <1>2, <1>3, PollingFacts
<1>5. HeardOf(server', resume'.task)
  BY <1>1, PollingFacts DEF TasksKnown
<1>6. QED  BY <1>1, <1>4, <1>5, PollingFacts, BrowserWaits

LEMMA ServerMoves ==
    ASSUME PollingInv, scope = "polling", scope' = scope,
           \/ P!ServerList
           \/ \E q \in Clicked, s \in P!Statuses : P!TaskMoves(q, s)
    PROVE  PollingInv'
<1>1. CASE P!ServerList
  <2> DEFINE active == {x \in Clicked : server[x] \in P!Live /\ P!Newest(x)}
             q == CHOOSE x \in active : TRUE
  <2>1. /\ resume.at = "list"
        /\ resume' = IF active = {} THEN P!NoList
                     ELSE [resume EXCEPT !.at = "listed", !.task = q, !.status = server[q]]
        /\ UNCHANGED <<server, born, shown, undo, gen, current, lastSub, poll, calls, answers,
                       visits, dropped, author>>
    BY <1>1 DEF P!ServerList, P!clientPoll
  <2>2. active # {} => q \in Clicked /\ server[q] \in P!Live
    OBVIOUS
  <2> HIDE DEF active, q
  <2>3. CASE active = {}
    <3>1. resume' = P!NoList /\ P!NoList.at = "none" /\ P!NoList.boundary = 0 /\ P!NoList.task = None
      BY <2>1, <2>3 DEF P!NoList
    <3>2. resume' \in P!ListType
      <4>1. 0 \in 0..MaxGeneration
        BY PollingLimits
      <4>2. QED  BY <3>1, <4>1 DEF P!NoList, P!ListType
    <3>3. ResumeSound(resume', shown, undo, gen, current)
      BY <3>1, PollingFacts DEF ResumeSound
    <3>4. HeardOf(server', resume'.task)
      BY <3>1 DEF HeardOf
    <3>5. QED  BY <2>1, <3>2, <3>3, <3>4, PollingFacts, BrowserWaits
  <2>4. CASE active # {}
    <3>1. PICK r : r = [resume EXCEPT !.at = "listed", !.task = q, !.status = server[q]]
      OBVIOUS
    <3>2. /\ resume' = r /\ r \in P!ListType /\ r.at = "listed" /\ r.task = q
          /\ r.boundary = resume.boundary /\ r.status \in P!Live
      BY <2>1, <2>2, <2>4, <3>1, PollingFacts DEF P!ListType, P!Statuses
    <3>3. q # None /\ server[q] # None
      BY <2>2, <2>4, TasksDiffer, NoneIsNoPoll DEF P!Statuses
    <3>4. ResumeSound(r, shown, undo, gen, current)
      BY <2>1, <3>2, <3>3, PollingFacts DEF ResumeSound
    <3>5. HeardOf(server', resume'.task)
      BY <2>1, <3>2, <3>3 DEF HeardOf
    <3>6. QED  BY <2>1, <3>2, <3>4, <3>5, PollingFacts, BrowserWaits
  <2>5. QED  BY <2>3, <2>4
<1>2. ASSUME NEW q \in Clicked, NEW s \in P!Statuses, P!TaskMoves(q, s)  PROVE PollingInv'
  <2>1. /\ server' = [server EXCEPT ![q] = s]
        /\ UNCHANGED <<born, shown, undo, gen, current, lastSub, poll, calls, answers, resume,
                       visits, dropped, author>>
    BY <1>2 DEF P!TaskMoves, P!clientPoll
  <2>2. /\ server' \in [Clicked -> P!Statuses \cup {None}]
        /\ \A u \in Clicked : server[u] # None => server'[u] # None
    BY <2>1, PollingFacts, NoneIsNoPoll
  <2>3. HeardOf(server', resume'.task)
    BY <2>1, <2>2, PollingFacts DEF TasksKnown, HeardOf, P!ListType
  <2>4. QED  BY <2>1, <2>2, <2>3, PollingFacts, BrowserWaits
<1>3. QED  BY <1>1, <1>2

\* The poll of the node ends.
LEMMA PollEnds ==
    ASSUME PollingInv, scope = "polling", scope' = scope,
           UNCHANGED <<server, born, undo, gen, lastSub, calls, resume, visits>>,
           \A a \in answers' : a.entry \in P!Entry /\ a.status \in P!Statuses,
           poll' = None, current' = 0,
           shown' = shown \/ /\ current # 0 /\ shown # None
                             /\ shown' \in P!NodeData /\ shown'.task = shown.task,
           author' \in 0..gen, dropped' \in BOOLEAN,
           Followed(shown', current', poll', calls', dropped')
    PROVE  PollingInv'
<1>1. P!TypeOK'
  BY PollingFacts, PollingTyped
<1>2. TasksKnown(server', shown', undo', poll', calls', resume')
  BY PollingFacts DEF TasksKnown
<1>3. GenerationsSound(gen', current', lastSub', calls', poll', author')
  BY PollingFacts DEF GenerationsSound
<1>4. ShownSound(shown', undo', current', calls', poll')
  <2>1. shown' = None <=> shown = None
    BY NoneIsNoPoll
  <2>2. \A h \in P!Generations : h # 0
    BY DEF P!Generations
  <2>3. QED  BY <2>1, <2>2, PollingFacts DEF ShownSound
<1>5. ResumeSound(resume', shown', undo', gen', current')
  BY PollingFacts, NoneIsNoPoll DEF ResumeSound
<1>6. QED  BY <1>1, <1>2, <1>3, <1>4, <1>5 DEF PollingInv

\* While an entry is current, no click waits for its schema.
LEMMA EntryIsNoClick ==
    ASSUME PollingInv, scope = "polling", poll # None, current = poll.gen
    PROVE  /\ poll \in P!Entry /\ current # 0 /\ poll.gen = gen
           /\ \A h \in P!Generations : calls[h].at = "schema" => current # h
<1>1. poll \in P!Entry /\ calls[poll.gen].at = "none"
  BY PollingFacts DEF GenerationsSound
<1>2. poll.gen # 0 /\ current \in {0, gen}
  BY <1>1, PollingFacts DEF GenerationsSound, P!Entry, P!Generations
<1>3. QED  BY <1>1, <1>2

LEMMA PollingAnswered ==
    ASSUME PollingInv, scope = "polling", scope' = scope, NEW a \in answers, P!Answered(a)
    PROVE  PollingInv'
<1>1. /\ UNCHANGED <<server, born, undo, gen, lastSub, calls, resume, visits, dropped>>
      /\ answers' = answers \ {a} /\ a.entry \in P!Entry /\ a.status \in P!Statuses
      /\ \A b \in answers' : b.entry \in P!Entry /\ b.status \in P!Statuses
  BY PollingFacts DEF P!Answered
<1>2. dropped' \in BOOLEAN
  BY <1>1, PollingFacts
<1>3. CASE UNCHANGED <<shown, author, poll, current>>
  <2>1. HeardOf(server', resume'.task)
    BY <1>1, PollingFacts DEF TasksKnown
  <2>2. QED  BY <1>1, <1>3, <2>1, PollingFacts, BrowserWaits
<1>4. CASE /\ poll = a.entry /\ current = poll.gen /\ P!Cancel
           /\ ~(shown # None /\ shown.task = a.entry.task) /\ UNCHANGED <<shown, author>>
  <2>1. poll # None
    BY <1>1, <1>4, NoneIsNoPoll
  <2>2. Followed(shown', current', poll', calls', dropped')
    BY <1>1, <1>4, <2>1, EntryIsNoClick, PollingFacts DEF Followed
  <2>3. QED  BY <1>1, <1>2, <1>4, <2>2, PollingFacts, PollEnds DEF P!Cancel
<1>5. CASE /\ poll = a.entry /\ current = poll.gen
           /\ shown # None /\ shown.task = a.entry.task
           /\ P!Patch(a.entry.gen, [shown EXCEPT !.status = a.status])
           /\ IF a.status \in P!Terminal THEN P!Cancel ELSE UNCHANGED <<poll, current>>
  <2>1. poll # None /\ poll.gen = gen /\ current # 0
    BY <1>1, <1>5, NoneIsNoPoll, EntryIsNoClick
  <2>2. /\ shown' = [shown EXCEPT !.status = a.status] /\ author' = gen
    BY <1>5, <2>1 DEF P!Patch, P!Loaded
  <2>3. shown' \in P!NodeData /\ shown'.task = shown.task /\ shown'.status = a.status
    BY <1>1, <1>5, <2>2, PollingFacts DEF P!NodeData
  <2>4. author' \in 0..gen
    BY <2>2, PollingFacts
  <2>5. CASE a.status \in P!Terminal
    <3>1. a.status \notin P!Live
      BY <2>5 DEF P!Terminal, P!Live
    <3>2. Followed(shown', current', poll', calls', dropped')
      BY <2>3, <3>1 DEF Followed
    <3>3. QED  BY <1>1, <1>2, <1>5, <2>1, <2>3, <2>4, <2>5, <3>2, PollEnds DEF P!Cancel
  <2>6. CASE a.status \notin P!Terminal
    <3>1. a.status \in P!Live /\ UNCHANGED <<poll, current>>
      BY <1>1, <1>5, <2>6 DEF P!Statuses
    <3>2. P!TypeOK'
      BY <1>1, <1>2, <2>3, <2>4, <3>1, PollingFacts, PollingTyped
    <3>3. TasksKnown(server', shown', undo', poll', calls', resume')
      BY <1>1, <1>5, <2>3, <3>1, PollingFacts DEF TasksKnown
    <3>4. GenerationsSound(gen', current', lastSub', calls', poll', author')
      BY <1>1, <2>2, <3>1, PollingFacts DEF GenerationsSound
    <3>5. ShownSound(shown', undo', current', calls', poll')
      <4>1. shown' # None
        BY <2>3, NoneIsNoPoll
      <4>2. NotEnded(shown', poll.task)
        BY <2>3, <3>1 DEF NotEnded
      <4>3. QED  BY <1>1, <1>5, <2>3, <3>1, <4>1, <4>2, PollingFacts DEF ShownSound
    <3>6. ResumeSound(resume', shown', undo', gen', current')
      BY <1>1, <2>1, <2>3, <3>1, PollingFacts, NoneIsNoPoll DEF ResumeSound
    <3>7. Followed(shown', current', poll', calls', dropped')
      BY <1>1, <1>5, <2>1, <2>3, <3>1 DEF Followed
    <3>8. QED  BY <3>2, <3>3, <3>4, <3>5, <3>6, <3>7 DEF PollingInv
  <2>7. QED  BY <2>5, <2>6
<1>6. QED  BY <1>3, <1>4, <1>5 DEF P!Answered, P!IsEntryCurrent, P!IsCurrent, P!Loaded

LEMMA PollingFetchFails ==
    ASSUME PollingInv, scope = "polling", scope' = scope, NEW a \in answers, P!FetchFails(a)
    PROVE  PollingInv'
<1>1. /\ UNCHANGED <<server, born, shown, undo, gen, lastSub, calls, resume, visits, author>>
      /\ \A b \in answers' : b.entry \in P!Entry /\ b.status \in P!Statuses
  BY PollingFacts DEF P!FetchFails
<1>2. CASE UNCHANGED <<poll, current, dropped>>
  <2>1. HeardOf(server', resume'.task)
    BY <1>1, PollingFacts DEF TasksKnown
  <2>2. QED  BY <1>1, <1>2, <2>1, PollingFacts, BrowserWaits
<1>3. CASE P!Cancel /\ dropped' = TRUE
  <2>1. Followed(shown', current', poll', calls', dropped')
    BY <1>3 DEF Followed
  <2>2. QED  BY <1>1, <1>3, <2>1, PollingFacts, PollEnds DEF P!Cancel
<1>4. QED  BY <1>2, <1>3 DEF P!FetchFails

\* The answer to a submission that is current is shown and polled.
LEMMA PollingCreated ==
    ASSUME PollingInv, scope = "polling", scope' = scope, NEW g \in P!Generations, P!CreateAnswered(g)
    PROVE  PollingInv'
<1> DEFINE q == calls[g].task
<1>1. /\ calls[g].at = "created" /\ calls' = [calls EXCEPT ![g] = P!NoCall]
      /\ UNCHANGED <<born, undo, gen, lastSub, answers, resume, visits>>
  BY DEF P!CreateAnswered
<1>2. P!NoCall \in P!CallType /\ P!NoCall.at = "none" /\ P!NoCall.task = None
  BY DEF P!NoCall, P!CallType
<1>3. /\ calls' \in [P!Generations -> P!CallType]
      /\ calls'[g] = P!NoCall /\ \A h \in P!Generations \ {g} : calls'[h] = calls[h]
  BY <1>1, <1>2, CallGoes
<1>4. q \in Clicked /\ q # None /\ server[q] # None
  BY <1>1, PollingFacts DEF GenerationsSound, TasksKnown, HeardOf, P!CallType
<1> HIDE DEF q
<1>5. g <= gen /\ g # 0 /\ g \in Nat
  BY <1>1, PollingFacts, PollingLimits DEF GenerationsSound, P!Generations, P!NoCall
<1>6. CASE /\ current # g /\ UNCHANGED <<shown, author, current, poll, dropped>>
           /\ server' = [server EXCEPT ![q] = IF @ \in P!Live THEN "cancelled" ELSE @] \/ UNCHANGED server
  <2>1. /\ server' \in [Clicked -> P!Statuses \cup {None}]
        /\ \A u \in Clicked : server[u] # None => server'[u] # None
    BY <1>4, <1>6, PollingFacts, NoneIsNoPoll DEF P!Statuses, P!Terminal
  <2>2. P!TypeOK'
    BY <1>1, <1>3, <1>6, <2>1, PollingFacts, PollingTyped
  <2>3. TasksKnown(server', shown', undo', poll', calls', resume')
    <3>1. \A u \in Clicked \cup {None} : HeardOf(server, u) => HeardOf(server', u)
      BY <2>1 DEF HeardOf
    <3>2. /\ shown # None => shown.task \in Clicked \cup {None}
          /\ undo # None => undo.task \in Clicked \cup {None}
          /\ poll # None => poll.task \in Clicked \cup {None}
          /\ resume.task \in Clicked \cup {None}
          /\ \A h \in P!Generations : calls[h].task \in Clicked \cup {None}
      BY PollingFacts DEF P!NodeData, P!Entry, P!ListType, P!CallType
    <3>3. \A h \in P!Generations : HeardOf(server', calls'[h].task)
      BY <1>2, <1>3, <3>1, <3>2, PollingFacts DEF TasksKnown, HeardOf
    <3>4. QED  BY <1>1, <1>6, <3>1, <3>2, <3>3, PollingFacts DEF TasksKnown
  <2>4. GenerationsSound(gen', current', lastSub', calls', poll', author')
    <3>1. \A h \in P!Generations : /\ h > gen => calls'[h] = P!NoCall
                                   /\ calls'[h].task # None <=> calls'[h].at = "created"
      BY <1>2, <1>3, PollingFacts DEF GenerationsSound
    <3>2. poll # None => poll.gen <= gen /\ calls'[poll.gen].at = "none"
      BY <1>2, <1>3, PollingFacts DEF GenerationsSound, P!Entry
    <3>3. QED  BY <1>1, <1>6, <3>1, <3>2, PollingFacts DEF GenerationsSound
  <2>5. ShownSound(shown', undo', current', calls', poll')
    BY <1>1, <1>3, <1>6, PollingFacts DEF ShownSound
  <2>6. ResumeSound(resume', shown', undo', gen', current')
    BY <1>1, <1>6, PollingFacts DEF ResumeSound
  <2>7. Followed(shown', current', poll', calls', dropped')
    BY <1>1, <1>3, <1>6, PollingFacts DEF Followed
  <2>8. QED  BY <2>2, <2>3, <2>4, <2>5, <2>6, <2>7 DEF PollingInv
<1>7. CASE /\ current = g /\ P!Patch(g, [task |-> q, status |-> "queued"])
           /\ P!StartPoll(q, g) /\ dropped' = FALSE /\ UNCHANGED server
  <2>1. shown # None /\ undo # None /\ gen = g
    BY <1>5, <1>7, PollingFacts DEF ShownSound, GenerationsSound
  <2>2. /\ shown' = [task |-> q, status |-> "queued"] /\ author' = g /\ current' = g
        /\ poll' = [task |-> q, gen |-> g]
    BY <1>7, <2>1 DEF P!Patch, P!Loaded, P!StartPoll
  <2>3. shown' \in P!NodeData /\ shown' # None /\ poll' \in P!Entry /\ poll' # None
    <3>1. shown' \in P!NodeData /\ poll' \in P!Entry
      BY <1>4, <2>2 DEF P!NodeData, P!Statuses, P!Live, P!Entry
    <3>2. QED  BY <3>1, NoneIsNoPoll
  <2>4. P!TypeOK'
    BY <1>1, <1>3, <1>5, <1>7, <2>1, <2>2, <2>3, PollingFacts, PollingTyped
  <2>5. TasksKnown(server', shown', undo', poll', calls', resume')
    BY <1>1, <1>2, <1>3, <1>4, <1>7, <2>2, PollingFacts DEF TasksKnown, HeardOf
  <2>6. GenerationsSound(gen', current', lastSub', calls', poll', author')
    <3>1. \A h \in P!Generations : /\ h > gen => calls'[h] = P!NoCall
                                   /\ calls'[h].task # None <=> calls'[h].at = "created"
      BY <1>2, <1>3, PollingFacts DEF GenerationsSound
    <3>2. QED  BY <1>1, <1>2, <1>3, <1>5, <2>1, <2>2, <3>1, PollingFacts DEF GenerationsSound
  <2>7. ShownSound(shown', undo', current', calls', poll')
    <3>1. undo.task # q
      BY <1>1, <1>7, <2>1, PollingFacts DEF ShownSound, q
    <3>2. NotEnded(shown', q) /\ NotEnded(undo, q)
      BY <2>2, <3>1 DEF NotEnded, P!Live
    <3>3. \A h \in P!Generations : calls'[h].at = "created" => h # g
      BY <1>2, <1>3
    <3>4. QED  BY <1>1, <2>1, <2>2, <2>3, <3>2, <3>3 DEF ShownSound
  <2>8. ResumeSound(resume', shown', undo', gen', current')
    BY <1>1, <1>5, <1>7, <2>3, PollingFacts DEF ResumeSound
  <2>9. Followed(shown', current', poll', calls', dropped')
    BY <2>2, <2>3 DEF Followed
  <2>10. QED  BY <2>4, <2>5, <2>6, <2>7, <2>8, <2>9 DEF PollingInv
<1>8. QED  BY <1>6, <1>7 DEF P!CreateAnswered, P!IsCurrent, q

\* A project that is not open has no current submission.
LEMMA PollingOpens ==
    ASSUME PollingInv, scope = "polling", scope' = scope, P!Open
    PROVE  PollingInv'
<1>1. /\ shown = None /\ visits < MaxVisits /\ visits' = visits + 1 /\ dropped' = FALSE
      /\ shown' = P!Blank /\ undo' = P!Blank
      /\ resume' = [P!NoList EXCEPT !.at = "list", !.boundary = gen]
      /\ UNCHANGED <<server, born, gen, current, lastSub, poll, calls, answers, author>>
  BY DEF P!Open, P!Loaded, P!clientPoll
<1>2. current = 0
  BY <1>1, PollingFacts DEF ShownSound
<1>3. P!Blank \in P!NodeData /\ P!Blank # None /\ P!Blank.task = None
  <2>1. P!Blank \in P!NodeData /\ P!Blank.task = None
    BY DEF P!Blank, P!NodeData
  <2>2. QED  BY <2>1, NoneIsNoPoll
<1>4. /\ resume' \in P!ListType /\ resume'.at = "list" /\ resume'.boundary = gen /\ resume'.task = None
  <2>1. gen \in 0..MaxGeneration
    BY PollingFacts, PollingLimits
  <2>2. resume' = [at |-> "list", boundary |-> gen, task |-> None, status |-> None]
    BY <1>1 DEF P!NoList
  <2>3. QED  BY <2>1, <2>2 DEF P!ListType
<1>5. visits' \in 0..MaxVisits
  BY <1>1, PollingFacts, PollingLimits
<1>6. P!TypeOK'
  BY <1>1, <1>3, <1>4, <1>5, PollingFacts, PollingTyped
<1>7. TasksKnown(server', shown', undo', poll', calls', resume')
  BY <1>1, <1>3, <1>4, PollingFacts DEF TasksKnown, HeardOf
<1>8. GenerationsSound(gen', current', lastSub', calls', poll', author')
  BY <1>1, PollingFacts DEF GenerationsSound
<1>9. ShownSound(shown', undo', current', calls', poll')
  <2>1. \A h \in P!Generations : h # 0
    BY DEF P!Generations
  <2>2. poll # None => poll.gen # 0
    BY <2>1, PollingFacts DEF P!Entry
  <2>3. QED  BY <1>1, <1>2, <1>3, <2>1, <2>2 DEF ShownSound
<1>10. ResumeSound(resume', shown', undo', gen', current')
  BY <1>1, <1>2, <1>3, <1>4, PollingFacts DEF ResumeSound
<1>11. Followed(shown', current', poll', calls', dropped')
  BY <1>1, <1>3 DEF Followed
<1>12. QED  BY <1>6, <1>7, <1>8, <1>9, <1>10, <1>11 DEF PollingInv

\* What a listed Task changes.
LEMMA NoListFacts ==
    /\ P!NoList \in P!ListType /\ P!NoList.at = "none" /\ P!NoList.boundary = 0
    /\ P!NoList.task = None
<1>1. 0 \in 0..MaxGeneration
  BY PollingLimits
<1>2. QED  BY <1>1 DEF P!NoList, P!ListType

LEMMA PollingListed ==
    ASSUME PollingInv, scope = "polling", scope' = scope, P!Listed
    PROVE  PollingInv'
<1>1. /\ resume.at = "listed" /\ shown # None /\ resume' = P!NoList
      /\ UNCHANGED <<server, born, undo, calls, answers, visits, dropped>>
  BY DEF P!Listed, P!Loaded
<1>2. undo # None
  BY <1>1, PollingFacts DEF ShownSound
<1>3. CASE /\ P!MayResume /\ gen < MaxGeneration /\ gen' = gen + 1 /\ lastSub' = gen + 1
           /\ P!StartPoll(resume.task, gen + 1)
           /\ P!Patch(gen + 1, [task |-> resume.task, status |-> resume.status])
  <2> DEFINE q == resume.task
  <2>1. q \in Clicked /\ q # None /\ resume.status \in P!Live
    BY <1>1, PollingFacts DEF ResumeSound, P!ListType
  <2> HIDE DEF q
  <2>2. gen + 1 \in P!Generations /\ gen \in Nat
    BY <1>3, PollingFacts, PollingLimits DEF P!Generations
  <2>3. /\ shown' = [task |-> q, status |-> resume.status] /\ author' = gen + 1 /\ current' = gen + 1
        /\ poll' = [task |-> q, gen |-> gen + 1] /\ gen' = gen + 1 /\ lastSub' = gen + 1
    BY <1>1, <1>3 DEF P!Patch, P!Loaded, P!StartPoll, q
  <2>4. shown' \in P!NodeData /\ shown' # None /\ poll' \in P!Entry /\ poll' # None
    <3>1. shown' \in P!NodeData /\ poll' \in P!Entry
      BY <2>1, <2>2, <2>3 DEF P!NodeData, P!Statuses, P!Entry
    <3>2. QED  BY <3>1, NoneIsNoPoll
  <2>5. gen <= resume.boundary
    BY <1>3, PollingFacts DEF P!MayResume, GenerationsSound
  <2>6. undo = P!Blank /\ P!Blank.task = None
    BY <1>1, <2>5, PollingFacts DEF ResumeSound, P!Blank
  <2>7. \A h \in P!Generations : h > gen => calls[h] = P!NoCall
    BY PollingFacts DEF GenerationsSound
  <2>8. calls[gen + 1] = P!NoCall /\ P!NoCall.at = "none"
    BY <2>2, <2>7 DEF P!NoCall
  <2>9. P!TypeOK'
    <3>1. /\ gen' \in Nat /\ gen' <= MaxGeneration
          /\ current' \in 0..gen' /\ lastSub' \in 0..gen' /\ author' \in 0..gen'
      BY <2>2, <2>3, PollingLimits DEF P!Generations
    <3>2. QED  BY <1>1, <2>4, <3>1, NoListFacts, PollingFacts, PollingTyped
  <2>10. TasksKnown(server', shown', undo', poll', calls', resume')
    BY <1>1, <2>3, NoListFacts, PollingFacts DEF TasksKnown, HeardOf, q
  <2>11. GenerationsSound(gen', current', lastSub', calls', poll', author')
    <3>1. \A h \in P!Generations : h > gen + 1 => h > gen
      BY <2>2 DEF P!Generations
    <3>2. QED  BY <1>1, <2>2, <2>3, <2>7, <2>8, <3>1, PollingFacts DEF GenerationsSound
  <2>12. ShownSound(shown', undo', current', calls', poll')
    <3>1. NotEnded(shown', q) /\ NotEnded(undo, q)
      BY <2>1, <2>3, <2>6 DEF NotEnded
    <3>2. QED  BY <1>1, <1>2, <2>3, <2>4, <2>8, <3>1 DEF ShownSound
  <2>13. ResumeSound(resume', shown', undo', gen', current')
    BY <1>1, <2>2, <2>3, NoListFacts DEF ResumeSound
  <2>14. Followed(shown', current', poll', calls', dropped')
    BY <2>3, <2>4 DEF Followed
  <2>15. QED  BY <2>9, <2>10, <2>11, <2>12, <2>13, <2>14 DEF PollingInv
<1>4. CASE UNCHANGED <<gen, current, lastSub, poll, shown, author>>
  <2>1. ResumeSound(resume', shown, undo, gen, current)
    BY <1>1, NoListFacts, PollingFacts DEF ResumeSound
  <2>2. HeardOf(server', resume'.task)
    BY <1>1, NoListFacts DEF HeardOf
  <2>3. QED  BY <1>1, <1>4, <2>1, <2>2, NoListFacts, PollingFacts, BrowserWaits
<1>5. QED  BY <1>3, <1>4 DEF P!Listed, P!clientPoll

LEMMA PollingLeaves ==
    ASSUME PollingInv, scope = "polling", scope' = scope, P!Leave
    PROVE  PollingInv'
<1>1. /\ shown' = None /\ undo' = None /\ poll' = None /\ current' = 0 /\ resume' = P!NoList
      /\ UNCHANGED <<server, born, gen, lastSub, calls, answers, visits, dropped, author>>
  BY DEF P!Leave
<1>2. P!TypeOK'
  BY <1>1, NoListFacts, PollingFacts, PollingTyped
<1>3. TasksKnown(server', shown', undo', poll', calls', resume')
  BY <1>1, NoListFacts, PollingFacts DEF TasksKnown, HeardOf
<1>4. GenerationsSound(gen', current', lastSub', calls', poll', author')
  BY <1>1, PollingFacts DEF GenerationsSound
<1>5. ShownSound(shown', undo', current', calls', poll') /\ Followed(shown', current', poll', calls', dropped')
  BY <1>1 DEF ShownSound, Followed
<1>6. ResumeSound(resume', shown', undo', gen', current')
  BY <1>1, NoListFacts, PollingFacts DEF ResumeSound
<1>7. QED  BY <1>2, <1>3, <1>4, <1>5, <1>6 DEF PollingInv

\* The data of the node and of its undo step are symmetric.
LEMMA PollingUndoes ==
    ASSUME PollingInv, scope = "polling", scope' = scope, P!Edit \/ P!Undo
    PROVE  PollingInv'
<1>1. /\ shown # None
      /\ UNCHANGED <<server, born, gen, current, lastSub, poll, calls, answers, resume, visits, author>>
      /\ \/ undo' = shown /\ shown' = shown /\ dropped' = dropped
         \/ undo' = shown /\ shown' = undo /\ dropped' = TRUE
  BY DEF P!Edit, P!Undo, P!Loaded, P!clientPoll
<1>2. undo # None
  BY <1>1, PollingFacts DEF ShownSound
<1>3. P!TypeOK'
  BY <1>1, PollingFacts, PollingTyped
<1>4. TasksKnown(server', shown', undo', poll', calls', resume')
  BY <1>1, <1>2, PollingFacts DEF TasksKnown
<1>5. GenerationsSound(gen', current', lastSub', calls', poll', author')
  BY <1>1, PollingFacts DEF GenerationsSound
<1>6. ShownSound(shown', undo', current', calls', poll')
  BY <1>1, <1>2, PollingFacts DEF ShownSound
<1>7. ResumeSound(resume', shown', undo', gen', current')
  BY <1>1, <1>2, PollingFacts DEF ResumeSound
<1>8. Followed(shown', current', poll', calls', dropped')
  BY <1>1, PollingFacts DEF Followed
<1>9. QED  BY <1>3, <1>4, <1>5, <1>6, <1>7, <1>8 DEF PollingInv

LEMMA PollingCorrect == Spec => []PollingInv
<1>1. Init => PollingInv
  BY PollingInit
<1>2. PollingInv /\ [Next]_vars => PollingInv'
  <2> SUFFICES ASSUME PollingInv, [Next]_vars, scope = "polling", scope' = scope
               PROVE  PollingInv'
    BY OneMoves DEF PollingInv
  <2>1. CASE P!Next
    BY <2>1, PollingSubmits, PollingAbandons, PollingPrepares, PollingFails, PollingCreated,
       PollingCreates, PollingFetches, PollingAnswered, PollingFetchFails, PollingOpens, ServerMoves,
       PollingListed, PollingLeaves, PollingUndoes DEF P!Next
  <2>2. CASE UNCHANGED pollingVars
    BY <2>2 DEF pollingVars, PollingInv, P!TypeOK
  <2>3. QED  BY <2>1, <2>2, OneMoves
<1>3. QED  BY <1>1, <1>2, PTL DEF Spec

\* However clicks, answers, failures, visits and resumed polls interleave, a node
\* that shows a live Task is polled or about to be replaced by a click, unless it
\* was given up: useNodeRunner, useCanvasTaskResume and task-poll-manager.
THEOREM LiveTaskCorrect == Spec => []LiveTaskFollowed
<1>1. PollingInv => LiveTaskFollowed
  BY PollingFacts DEF LiveTaskFollowed, P!LiveTaskFollowed, Followed, P!Loaded, P!IsEntryCurrent, P!IsCurrent
<1>2. QED  BY <1>1, PollingCorrect, PTL

\* A component that does not move shows no node.
LEMMA NothingShownElsewhere == Spec => [](scope # "polling" => shown = None)
<1>1. Init => (scope # "polling" => shown = None)
  <2> SUFFICES ASSUME Init, scope # "polling"  PROVE shown = None
    OBVIOUS
  <2>1. QED  BY DEF Init, PollingRests
<1>2. (scope # "polling" => shown = None) /\ [Next]_vars => (scope # "polling" => shown = None)'
  <2> SUFFICES ASSUME scope # "polling", shown = None, [Next]_vars  PROVE shown' = None
    BY OneMoves
  <2>1. QED
    BY DEF Next, vars, CanvasMoves, WritebackMoves, PollingMoves, UploadsMoves, RegistryMoves,
       RunnerMoves, ChatMoves, pollingVars
<1>3. QED  BY <1>1, <1>2, PTL DEF Spec

\* What an older generation leaves is not written over what a newer one wrote, and
\* a Task shown as ended is not shown as live again but by an undo: the checks of
\* isNodeSubmissionCurrent, isEntryCurrent and nodeStillExpectsTask after each answer.
THEOREM ShownForwardCorrect == Spec => ShownMovesForward
<1> DEFINE A == P!Loaded /\ shown' # None /\ ~(shown' = undo /\ undo' = shown) =>
                  /\ author' >= author
                  /\ shown'.task = shown.task /\ shown.task # None /\ shown.status \in P!Terminal
                        => shown'.status \in P!Terminal
<1>1. ASSUME PollingInv, scope # "polling" => shown = None, [Next]_vars  PROVE A
  <2> SUFFICES ASSUME shown # None, shown' # None, ~(shown' = undo /\ undo' = shown)
               PROVE  /\ author' >= author
                      /\ shown'.task = shown.task /\ shown.task # None /\ shown.status \in P!Terminal
                            => shown'.status \in P!Terminal
    BY DEF P!Loaded
  <2>1. scope = "polling" /\ author \in Nat /\ gen \in Nat /\ author <= gen /\ undo # None
    <3>1. scope = "polling"
      BY <1>1
    <3>2. QED  BY <1>1, <3>1, PollingFacts DEF ShownSound
  <2>2. CASE UNCHANGED <<shown, author>>
    BY <2>1, <2>2
  <2>3. ASSUME NEW g \in P!Generations, P!Prepared(g)  PROVE A
    <3>1. CASE current = g /\ P!Patch(g, [task |-> None, status |-> "queued"])
      <4>1. shown'.task = None /\ author' = g
        BY <3>1 DEF P!Patch, P!Loaded
      <4>2. g >= author
        BY <1>1, <2>1, <3>1, PollingFacts DEF GenerationsSound, P!Generations
      <4>3. QED  BY <2>1, <4>1, <4>2
    <3>2. QED  BY <2>2, <2>3, <3>1 DEF P!Prepared, P!IsCurrent
  <2>4. ASSUME NEW g \in P!Generations, P!CreateFails(g)  PROVE A
    <3>1. CASE current = g /\ P!Patch(g, [shown EXCEPT !.status = "failed"])
      <4>1. shown'.status = "failed" /\ author' = g
        BY <1>1, <2>1, <3>1, PollingFacts DEF P!Patch, P!Loaded, P!NodeData
      <4>2. g >= author
        BY <1>1, <2>1, <3>1, PollingFacts DEF GenerationsSound, P!Generations
      <4>3. QED  BY <2>1, <4>1, <4>2 DEF P!Terminal
    <3>2. QED  BY <2>2, <2>4, <3>1 DEF P!CreateFails, P!IsCurrent
  <2>5. ASSUME NEW g \in P!Generations, P!CreateAnswered(g)  PROVE A
    <3>1. CASE current = g /\ P!Patch(g, [task |-> calls[g].task, status |-> "queued"])
      <4>1. shown'.task = calls[g].task /\ author' = g
        BY <3>1 DEF P!Patch, P!Loaded
      <4>2. g >= author
        BY <1>1, <2>1, <3>1, PollingFacts DEF GenerationsSound, P!Generations
      <4>3. calls[g].at = "created"
        BY <2>5 DEF P!CreateAnswered
      <4>4. shown.task # calls[g].task
        BY <1>1, <2>1, <3>1, <4>3, PollingFacts DEF ShownSound
      <4>5. QED  BY <2>1, <4>1, <4>2, <4>4
    <3>2. QED  BY <2>2, <2>5, <3>1 DEF P!CreateAnswered, P!IsCurrent
  <2>6. ASSUME NEW a \in answers, P!Answered(a)  PROVE A
    <3>1. CASE /\ P!IsEntryCurrent(a.entry) /\ P!Loaded /\ shown.task = a.entry.task
               /\ P!Patch(a.entry.gen, [shown EXCEPT !.status = a.status])
      <4>1. poll # None /\ poll = a.entry /\ current = poll.gen
        BY <1>1, <2>1, <3>1, PollingFacts, NoneIsNoPoll DEF P!IsEntryCurrent, P!IsCurrent
      <4>2. author' >= author
        BY <1>1, <2>1, <3>1, <4>1, EntryIsNoClick DEF P!Patch, P!Loaded
      <4>3. shown.status \in P!Live
        BY <1>1, <2>1, <3>1, <4>1, PollingFacts DEF ShownSound, NotEnded
      <4>4. shown.status \notin P!Terminal
        BY <4>3 DEF P!Live, P!Terminal
      <4>5. QED  BY <4>2, <4>4
    <3>2. QED  BY <2>2, <2>6, <3>1 DEF P!Answered
  <2>7. CASE P!Listed
    <3>1. CASE P!MayResume /\ P!Patch(gen + 1, [task |-> resume.task, status |-> resume.status])
      <4>1. author' = gen + 1
        BY <3>1 DEF P!Patch, P!Loaded
      <4>2. gen <= resume.boundary /\ resume.at = "listed"
        BY <1>1, <2>1, <2>7, <3>1, PollingFacts DEF P!Listed, P!MayResume, GenerationsSound
      <4>3. shown.task = None
        BY <1>1, <2>1, <4>2, PollingFacts DEF ResumeSound, P!Blank
      <4>4. QED  BY <2>1, <4>1, <4>3
    <3>2. QED  BY <2>2, <2>7, <3>1 DEF P!Listed
  <2>8. CASE \/ P!Submit \/ P!Fetch \/ P!ServerList \/ P!Edit
             \/ \E a \in answers : P!FetchFails(a)
             \/ \E g \in P!Generations : P!Abandon(g) \/ \E q \in Clicked : P!ServerCreate(g, q)
             \/ \E q \in Clicked, s \in P!Statuses : P!TaskMoves(q, s)
    <3>1. UNCHANGED <<shown, author>>
      BY <2>8 DEF P!Submit, P!Fetch, P!ServerList, P!Edit, P!FetchFails, P!Abandon, P!ServerCreate, P!TaskMoves
    <3>2. QED  BY <2>2, <3>1
  <2>9. ~P!Open /\ ~P!Leave /\ ~P!Undo
    BY DEF P!Open, P!Leave, P!Undo, P!Loaded
  <2>10. P!Next \/ UNCHANGED pollingVars
    BY <1>1, OneMoves
  <2>11. CASE UNCHANGED pollingVars
    BY <2>2, <2>11 DEF pollingVars
  <2>12. CASE P!Next
    BY <2>3, <2>4, <2>5, <2>6, <2>7, <2>8, <2>9, <2>12 DEF P!Next, P!Loaded
  <2>13. QED  BY <2>10, <2>11, <2>12
<1>2. QED
  BY <1>1, PollingCorrect, NothingShownElsewhere, PTL DEF Spec, ShownMovesForward, P!ShownMovesForward

(***************************************************************************)
(* CanvasGraph.                                                            *)
(***************************************************************************)
\* Steps between the first statement of a change and its bump, and all steps for
\* which a version is kept free.
Changing == {"bump", "clearedges", "putnodes", "putedges"}
Reserving == Changing \cup {"link", "push"}
Busy(rq) == {q \in Clients : rq[q].at \in Reserving}
UnderWay(rq) == \E q \in Clients : rq[q].at \in Changing

\* What a request with record r has read of the graph g, and not been overtaken.
ReadSound(r, g) ==
    /\ r.at \notin {"load", "shoot"} => r.todo = {}
    /\ r.at \in {"load", "shoot"} /\ ~r.stale =>
          /\ "nodes" \in r.todo \/ r.copy.nodes = g.nodes
          /\ "edges" \in r.todo \/ r.copy.edges = g.edges
    /\ r.at = "link" => r.new \in Nodes \X Nodes
    /\ r.at = "link" /\ ~r.stale => ~C!MakesCycle(g.edges, r.new[1], r.new[2])
    /\ r.at \in {"putnodes", "putedges"} /\ ~r.stale => g.edges = {}
    /\ C!Acyclic(r.copy.edges)

\* A snapshot under way of version n is overtaken only by a change under way.
Timely(r, n, changing) ==
    /\ r.at \in {"shoot", "rename"} => r.ver <= n
    /\ r.at = "shoot" /\ r.ver = n /\ r.stale => changing

\* The editor, whose request is r, shows g or will when it is answered.
Answered(s, r) ==
    IF r.at # "bump" \/ r.new = None THEN s
    ELSE IF r.new \in Nodes THEN C!WithNode(s, r.new) ELSE C!WithEdge(s, r.new)
ViewSound(v, r, g) ==
    /\ ~v.now.behind /\ r.at # "push" =>
          /\ r.at \notin {"clearedges", "putnodes", "putedges"}
          /\ C!Of(Answered(v.now, r)) = g
    /\ ~v.now.behind /\ r.at = "push" => C!Acyclic(v.now.edges)
    /\ ~v.past.behind => C!Acyclic(v.past.edges)

ShotsSound(sh, n, g, changing) ==
    /\ \A k \in 0..MaxVersion : k > n => sh[k] = None
    /\ sh[n] = None \/ sh[n] = g \/ changing

CanvasTyped ==
    /\ C!TypeOK
    /\ shots \in [0..MaxVersion -> C!Graphs \cup {None}]
    /\ view \in [now : C!Shown, past : C!Shown]

CanvasInv ==
    scope = "canvas" =>
        /\ CanvasTyped
        /\ C!AcyclicUnlessRaced
        /\ \A q \in Clients : ReadSound(edits[q], graph)
        /\ \A k \in 0..MaxVersion : shots[k] # None => C!Acyclic(shots[k].edges)
        /\ ViewSound(view, edits[Editor], graph)
        /\ version + Cardinality(Busy(edits)) <= MaxVersion
        /\ ~lost => /\ \A q \in Clients : Timely(edits[q], version, UnderWay(edits))
                    /\ ShotsSound(shots, version, graph, UnderWay(edits))

\* An acyclic graph without some edges is acyclic.
LEMMA AcyclicSubset ==
    ASSUME NEW E, NEW F \in SUBSET E, C!Acyclic(E)
    PROVE  C!Acyclic(F)
BY DEF C!Acyclic

\* An edge that closes no cycle leaves an acyclic graph acyclic (assertNoCycle).
LEMMA AcyclicWithEdge ==
    ASSUME NEW E \in SUBSET (Nodes \X Nodes), NEW s \in Nodes, NEW t \in Nodes,
           C!Acyclic(E), ~C!MakesCycle(E, s, t)
    PROVE  C!Acyclic(E \cup {<<s, t>>})
<1>1. PICK K \in SUBSET Nodes :
        t \in K /\ (\A e \in E : e[1] \in K => e[2] \in K) /\ s \notin K
  BY DEF C!MakesCycle, C!Reaches
<1>2. SUFFICES ASSUME NEW S \in (SUBSET Nodes) \ {{}}
               PROVE  \E n \in S : \A e \in E \cup {<<s, t>>} : ~(e[1] = n /\ e[2] \in S)
  BY DEF C!Acyclic
<1>3. CASE S \cap K # {}
  <2>1. PICK n \in S \cap K : \A e \in E : ~(e[1] = n /\ e[2] \in S \cap K)
    BY <1>3 DEF C!Acyclic
  <2>2. \A e \in E : ~(e[1] = n /\ e[2] \in S)
    BY <1>1, <2>1
  <2>3. n # s
    BY <1>1, <2>1
  <2>4. QED  BY <2>1, <2>2, <2>3
<1>4. CASE S \cap K = {}
  <2>1. PICK n \in S : \A e \in E : ~(e[1] = n /\ e[2] \in S)
    BY DEF C!Acyclic
  <2>2. t \notin S
    BY <1>1, <1>4
  <2>3. QED  BY <2>1, <2>2
<1>5. QED  BY <1>3, <1>4

\* An edge to a node that no edge leaves closes no cycle.
LEMMA EdgeToSink ==
    ASSUME NEW E \in SUBSET (Nodes \X Nodes), NEW s \in Nodes, NEW t \in Nodes,
           s # t, \A e \in E : e[1] # t
    PROVE  ~C!MakesCycle(E, s, t)
<1>1. {t} \in SUBSET Nodes /\ t \in {t} /\ s \notin {t}
  OBVIOUS
<1>2. \A e \in E : e[1] \in {t} => e[2] \in {t}
  OBVIOUS
<1>3. QED  BY <1>1, <1>2 DEF C!MakesCycle, C!Reaches

LEMMA BusyCounted ==
    ASSUME NEW S \in SUBSET Clients
    PROVE  /\ IsFiniteSet(S) /\ Cardinality(S) \in Nat
           /\ C!Cardinality(S) = Cardinality(S)
<1>1. IsFiniteSet(S)
  BY CanvasLimits, FS_Subset
<1>2. Cardinality(S) \in Nat
  BY <1>1, FS_CardinalityType
<1>3. C!Cardinality(S) = Cardinality(S)
  BY DEF C!Cardinality, Cardinality
<1>4. QED  BY <1>1, <1>2, <1>3

\* A graph with the ends of its edges.
Whole(g) == g \in C!Graphs /\ \A e \in g.edges : e[1] \in g.nodes /\ e[2] \in g.nodes

\* r before a step and s after it are the record of a client that did not move.
Overtaken(r, s, moved) ==
    /\ s = r \/ (moved /\ r.at # "idle" /\ s = [r EXCEPT !.stale = TRUE])
    /\ moved /\ r.at # "idle" => s.stale

Others(q) ==
    /\ edits' \in [Clients -> C!ReqType]
    /\ \A a \in Clients \ {q} : Overtaken(edits[a], edits'[a], graph' # graph)

LEMMA WholeKept ==
    ASSUME NEW g \in C!Graphs
    PROVE  Whole(g) <=> g = C!Kept(g)
<1>1. PICK N \in SUBSET Nodes, E \in SUBSET (Nodes \X Nodes) : g = [nodes |-> N, edges |-> E]
  BY DEF C!Graphs
<1>2. g = C!Kept(g) <=> E = {e \in E : e[1] \in N /\ e[2] \in N}
  BY <1>1 DEF C!Kept
<1>3. QED  BY <1>1, <1>2 DEF Whole

LEMMA CanvasFacts ==
    ASSUME CanvasInv, scope = "canvas"
    PROVE  /\ Whole(graph) /\ version \in Nat /\ version <= MaxVersion
           /\ graph.nodes \in SUBSET Nodes /\ graph.edges \in SUBSET (Nodes \X Nodes)
           /\ shots \in [0..MaxVersion -> C!Graphs \cup {None}]
           /\ edits \in [Clients -> C!ReqType]
           /\ view \in [now : C!Shown, past : C!Shown]
           /\ raced \in BOOLEAN /\ lost \in BOOLEAN
           /\ C!Acyclic(graph.edges) \/ raced
           /\ \A q \in Clients : ReadSound(edits[q], graph)
           /\ \A k \in 0..MaxVersion : shots[k] # None => C!Acyclic(shots[k].edges)
           /\ ViewSound(view, edits[Editor], graph)
           /\ version + Cardinality(Busy(edits)) <= MaxVersion
           /\ ~lost => /\ \A q \in Clients : Timely(edits[q], version, UnderWay(edits))
                       /\ ShotsSound(shots, version, graph, UnderWay(edits))
<1>1. CanvasTyped /\ C!TypeOK
  BY DEF CanvasInv, CanvasTyped
<1>2. graph \in C!Graphs /\ graph = C!Kept(graph) /\ version \in 0..MaxVersion
  BY <1>1 DEF C!TypeOK
<1>3. Whole(graph)
  BY <1>2, WholeKept
<1>4. /\ edits \in [Clients -> C!ReqType] /\ raced \in BOOLEAN /\ lost \in BOOLEAN
  BY <1>1 DEF C!TypeOK
<1>5. graph.nodes \in SUBSET Nodes /\ graph.edges \in SUBSET (Nodes \X Nodes)
  BY <1>2 DEF C!Graphs
<1>6. QED
  BY <1>1, <1>2, <1>3, <1>4, <1>5, CanvasLimits DEF CanvasInv, CanvasTyped, C!AcyclicUnlessRaced

LEMMA Changed ==
    ASSUME NEW q \in Clients, NEW g, NEW r \in C!ReqType,
           edits \in [Clients -> C!ReqType], C!Change(q, g, r)
    PROVE  graph' = g /\ edits'[q] = r /\ Others(q)
<1>1. /\ graph' = g
      /\ edits' = [a \in Clients |-> IF a = q THEN r
                                     ELSE IF edits[a].at = "idle" \/ g = graph THEN edits[a]
                                     ELSE [edits[a] EXCEPT !.stale = TRUE]]
  BY DEF C!Change, C!At
<1>2. \A a \in Clients : [edits[a] EXCEPT !.stale = TRUE] \in C!ReqType
  BY DEF C!ReqType
<1>3. edits' \in [Clients -> C!ReqType]
  BY <1>1, <1>2
<1>4. ASSUME NEW a \in Clients \ {q}  PROVE Overtaken(edits[a], edits'[a], graph' # graph)
  <2>1. CASE edits[a].at = "idle" \/ g = graph
    BY <1>1, <2>1 DEF Overtaken
  <2>2. CASE edits[a].at # "idle" /\ g # graph
    <3>1. edits'[a] = [edits[a] EXCEPT !.stale = TRUE]
      BY <1>1, <2>2
    <3>2. edits'[a].stale
      BY <3>1 DEF C!ReqType
    <3>3. QED  BY <1>1, <2>2, <3>1, <3>2 DEF Overtaken
  <2>3. QED  BY <2>1, <2>2
<1>5. QED  BY <1>1, <1>3, <1>4 DEF Others

LEMMA Continued ==
    ASSUME NEW q \in Clients, NEW r \in C!ReqType, edits \in [Clients -> C!ReqType],
           C!Continue(q, r), graph' = graph
    PROVE  edits'[q] = r /\ Others(q)
BY DEF C!Continue, Others, Overtaken

LEMMA IdleTyped ==
    /\ C!Idle \in C!ReqType /\ C!Idle.at = "idle" /\ C!Idle.todo = {} /\ C!Idle.new = None
    /\ C!Idle.copy.edges = {} /\ C!Acyclic(C!Idle.copy.edges)
<1>1. C!Empty \in C!Graphs /\ C!Empty.edges = {}
  BY DEF C!Empty, C!Graphs
<1>2. C!Acyclic({})
  <2>1. \A S \in (SUBSET Nodes) \ {{}} : \E n \in S : TRUE
    OBVIOUS
  <2>2. QED  BY <2>1 DEF C!Acyclic
<1>3. 0 \in 0..MaxVersion
  BY CanvasLimits
<1>4. QED  BY <1>1, <1>2, <1>3 DEF C!Idle, C!ReqType

LEMMA Ended ==
    ASSUME NEW q \in Clients, edits \in [Clients -> C!ReqType], C!End(q), graph' = graph
    PROVE  edits'[q] = C!Idle /\ Others(q)
BY IdleTyped, Continued DEF C!End

LEMMA ReadOvertaken ==
    ASSUME NEW r \in C!ReqType, NEW s, NEW g, NEW h,
           ReadSound(r, g), Overtaken(r, s, h # g)
    PROVE  ReadSound(s, h)
<1>1. CASE s = r /\ h = g
  BY <1>1
<1>2. CASE s = r /\ r.at = "idle"
  BY <1>2 DEF ReadSound
<1>3. CASE h # g /\ r.at # "idle" /\ s = [r EXCEPT !.stale = TRUE]
  <2>1. s.stale /\ s.at = r.at /\ s.todo = r.todo /\ s.new = r.new /\ s.copy = r.copy
    BY <1>3 DEF C!ReqType
  <2>2. QED  BY <2>1 DEF ReadSound
<1>4. CASE s = r /\ h # g /\ r.at # "idle"
  <2>1. s.stale
    BY <1>4 DEF Overtaken
  <2>2. QED  BY <1>4, <2>1 DEF ReadSound
<1>5. QED  BY <1>1, <1>2, <1>3, <1>4 DEF Overtaken

LEMMA TimelyOvertaken ==
    ASSUME NEW r \in C!ReqType, NEW s, NEW moved \in BOOLEAN, NEW k \in Nat, NEW l \in Nat,
           NEW ch \in BOOLEAN, NEW ch2 \in BOOLEAN, Timely(r, k, ch), Overtaken(r, s, moved),
           k <= l, l = k /\ (ch \/ moved) => ch2
    PROVE  Timely(s, l, ch2)
<1>1. s.at = r.at /\ s.ver = r.ver /\ (s.stale => r.stale \/ moved) /\ r.ver \in Nat
  BY DEF Overtaken, C!ReqType
<1>2. r.at \in {"shoot", "rename"} => r.ver <= k
  BY DEF Timely
<1>3. r.at = "shoot" /\ r.ver = k /\ r.stale => ch
  BY DEF Timely
<1>4. s.at = "shoot" /\ s.ver = l /\ s.stale => ch2
  <2>1. SUFFICES ASSUME s.at = "shoot", s.ver = l, s.stale  PROVE ch2
    OBVIOUS
  <2>2. l = k
    BY <1>1, <1>2, <2>1
  <2>3. QED  BY <1>1, <1>3, <2>1, <2>2
<1>5. s.at \in {"shoot", "rename"} => s.ver <= l
  BY <1>1, <1>2
<1>6. QED  BY <1>4, <1>5 DEF Timely

-----------------------------------------------------------------------------
(* The editor. *)

\* Others' steps: the editor keeps what it shows and is left behind by a change.
LEMMA OthersWatched ==
    ASSUME NEW q \in Clients, q # Editor, CanvasInv, scope = "canvas", Others(q),
           \/ UNCHANGED view /\ graph' = graph
           \/ \E s, ch : C!Show(q, s, ch) /\ (graph' # graph => ch) /\ ch \in BOOLEAN
    PROVE  /\ view' \in [now : C!Shown, past : C!Shown]
           /\ ViewSound(view', edits'[Editor], graph')
<1> DEFINE r == edits[Editor]
           s == edits'[Editor]
<1>1. /\ view \in [now : C!Shown, past : C!Shown] /\ view.now \in C!Shown
      /\ ViewSound(view, r, graph) /\ r \in C!ReqType
  BY CanvasFacts, CanvasLimits
<1>2. s.at = r.at /\ s.new = r.new
  BY <1>1, CanvasLimits DEF Others, Overtaken, C!ReqType
<1>3. CASE UNCHANGED view /\ graph' = graph
  BY <1>1, <1>2, <1>3 DEF ViewSound, Answered
<1>4. ASSUME NEW ch \in BOOLEAN, graph' # graph => ch,
             view' = [view EXCEPT !.now.behind = @ \/ ch]
      PROVE  /\ view' \in [now : C!Shown, past : C!Shown]
             /\ ViewSound(view', s, graph')
  <2>1. /\ view' \in [now : C!Shown, past : C!Shown]
        /\ view'.past = view.past /\ view'.now.nodes = view.now.nodes
        /\ view'.now.edges = view.now.edges /\ view'.now.behind = (view.now.behind \/ ch)
    BY <1>1, <1>4 DEF C!Shown
  <2>2. CASE view'.now.behind
    BY <1>1, <2>1, <2>2 DEF ViewSound
  <2>3. CASE ~view'.now.behind
    <3>1. graph' = graph /\ ~view.now.behind /\ ~ch
      BY <1>4, <2>1, <2>3
    <3>2. view' = view
      BY <1>1, <1>4, <2>1, <3>1 DEF C!Shown
    <3>3. QED  BY <1>1, <1>2, <3>1, <3>2 DEF ViewSound, Answered
  <2>4. QED  BY <2>1, <2>2, <2>3
<1>5. CASE \E t, ch : C!Show(q, t, ch) /\ (graph' # graph => ch) /\ ch \in BOOLEAN
  BY <1>4, <1>5 DEF C!Show
<1>6. QED  BY <1>3, <1>5

\* What the editor shows, when it is not about to push, is part of the graph.
LEMMA ShownAcyclic ==
    ASSUME CanvasInv, scope = "canvas", ~raced, ~view.now.behind
    PROVE  C!Acyclic(view.now.edges)
<1>1. ViewSound(view, edits[Editor], graph) /\ C!Acyclic(graph.edges)
  BY CanvasFacts
<1>2. CASE edits[Editor].at = "push"
  BY <1>1, <1>2 DEF ViewSound
<1>3. CASE edits[Editor].at # "push"
  <2>1. C!Of(Answered(view.now, edits[Editor])) = graph
    BY <1>1, <1>3 DEF ViewSound
  <2>2. graph.edges = Answered(view.now, edits[Editor]).edges
    BY <2>1 DEF C!Of
  <2>3. view.now \in C!Shown
    BY CanvasFacts
  <2>4. view.now.edges \subseteq Answered(view.now, edits[Editor]).edges
    BY <2>3 DEF Answered, C!WithNode, C!WithEdge, C!Shown
  <2>5. QED  BY <1>1, <2>2, <2>4, AcyclicSubset
<1>4. QED  BY <1>2, <1>3

\* The editor's own steps.
LEMMA EditorShows ==
    ASSUME CanvasInv, scope = "canvas", ~raced, NEW s \in C!Shown, NEW ch,
           C!Show(Editor, s, ch)
    PROVE  /\ view' \in [now : C!Shown, past : C!Shown] /\ view'.now = s
           /\ ~view'.past.behind => C!Acyclic(view'.past.edges)
<1>1. view' = [now |-> s, past |-> IF C!Of(s) = C!Of(view.now) THEN view.past ELSE view.now]
  BY DEF C!Show
<1>2. view.past \in C!Shown /\ view.now \in C!Shown
  BY CanvasFacts
<1>3. /\ ~view.past.behind => C!Acyclic(view.past.edges)
      /\ ~view.now.behind => C!Acyclic(view.now.edges)
  BY CanvasFacts, ShownAcyclic DEF ViewSound
<1>4. QED  BY <1>1, <1>2, <1>3

\* The editor has been answered, and shows s.
LEMMA EditorAnswered ==
    ASSUME CanvasInv, scope = "canvas", ~raced, NEW s \in C!Shown, NEW ch, C!Show(Editor, s, ch),
           NEW r, r.at # "push", NEW g,
           ~s.behind => /\ r.at \notin {"clearedges", "putnodes", "putedges"}
                        /\ C!Of(Answered(s, r)) = g
    PROVE  /\ view' \in [now : C!Shown, past : C!Shown] /\ ViewSound(view', r, g)
BY EditorShows DEF ViewSound

-----------------------------------------------------------------------------
(* Versions. *)

\* q may take a version: it has reserved one, or starts a change.
Reserved(q) == edits[q].at \in Reserving \/ C!MayChange(q)

\* A statement of a change that is still to be bumped; the end of a change; a
\* step that is no part of one; a change that is cut off.
Statement(q) ==
    /\ edits'[q].at \in Changing /\ Reserved(q)
    /\ UNCHANGED <<version, shots, lost>>
Commit(q) ==
    /\ edits'[q].at = "idle" /\ Reserved(q)
    /\ version' = version + 1 /\ UNCHANGED <<shots, lost>>
Aside(q) ==
    /\ edits[q].at \notin Changing /\ edits'[q].at \notin Changing
    /\ edits'[q].at \in Reserving => Reserved(q)
    /\ UNCHANGED <<graph, version, shots, lost>>
    /\ Timely(edits'[q], version, UnderWay(edits))
CutOff(q) ==
    /\ edits'[q].at = "idle" /\ lost' = TRUE /\ UNCHANGED <<version, shots>>

VersionSide ==
    /\ version' \in Nat /\ version' <= MaxVersion
    /\ version' + Cardinality(Busy(edits')) <= MaxVersion
    /\ shots' \in [0..MaxVersion -> C!Graphs \cup {None}]
    /\ \A k \in 0..MaxVersion : shots'[k] # None => C!Acyclic(shots'[k].edges)
    /\ ~lost' => /\ \A a \in Clients : Timely(edits'[a], version', UnderWay(edits'))
                 /\ ShotsSound(shots', version', graph', UnderWay(edits'))

LEMMA BusyOthers ==
    ASSUME NEW q \in Clients, Others(q), edits \in [Clients -> C!ReqType]
    PROVE  /\ \A a \in Clients \ {q} : edits'[a].at = edits[a].at /\ edits'[a].ver = edits[a].ver
           /\ Busy(edits) \in SUBSET Clients /\ Busy(edits') \in SUBSET Clients
           /\ Busy(edits') \ {q} = Busy(edits) \ {q}
<1>1. \A a \in Clients \ {q} : edits'[a].at = edits[a].at /\ edits'[a].ver = edits[a].ver
  BY DEF Others, Overtaken, C!ReqType
<1>2. QED  BY <1>1 DEF Busy

LEMMA RoomToChange ==
    ASSUME NEW q \in Clients, C!MayChange(q), edits \in [Clients -> C!ReqType]
    PROVE  q \notin Busy(edits) /\ version + Cardinality(Busy(edits)) < MaxVersion
<1> DEFINE B == {a \in Clients : edits[a].at \notin {"idle", "load", "shoot", "rename"}}
<1>1. B = Busy(edits)
  BY DEF Busy, Reserving, Changing, C!ReqType
<1>2. C!Cardinality(B) = Cardinality(B)
  BY BusyCounted
<1>3. version + C!Cardinality(B) < MaxVersion /\ edits[q].at = "idle"
  BY DEF C!MayChange, C!At
<1>4. QED  BY <1>1, <1>2, <1>3 DEF Busy, Reserving, Changing

LEMMA RoomKept ==
    ASSUME CanvasInv, scope = "canvas", NEW q \in Clients, Others(q),
           \/ version' \in Nat /\ version' <= version /\ (edits'[q].at \in Reserving => Reserved(q))
           \/ version' = version + 1 /\ edits'[q].at = "idle" /\ Reserved(q)
    PROVE  version' + Cardinality(Busy(edits')) <= MaxVersion /\ version' <= MaxVersion
<1> DEFINE A == Busy(edits)
           B == Busy(edits')
<1>0. /\ edits \in [Clients -> C!ReqType] /\ version \in Nat /\ MaxVersion \in Nat
      /\ version + Cardinality(A) <= MaxVersion
  BY CanvasFacts, CanvasLimits
<1>1. A \in SUBSET Clients /\ B \in SUBSET Clients /\ B \ {q} = A \ {q}
  BY <1>0, BusyOthers
<1>2. /\ IsFiniteSet(A) /\ IsFiniteSet(B) /\ Cardinality(A) \in Nat /\ Cardinality(B) \in Nat
  BY <1>1, BusyCounted
<1>3. CASE version' \in Nat /\ version' <= version /\ (q \in B => q \in A)
  <2>1. B \subseteq A
    BY <1>1, <1>3
  <2>2. Cardinality(B) <= Cardinality(A)
    BY <1>2, <2>1, FS_Subset
  <2>3. QED  BY <1>0, <1>2, <1>3, <2>2
<1>4. CASE version' \in Nat /\ version' <= version /\ q \in B /\ q \notin A
  <2>1. C!MayChange(q)
    BY <1>4 DEF Reserved, Busy, Reserving, Changing
  <2>2. version + Cardinality(A) < MaxVersion
    BY <1>0, <2>1, RoomToChange
  <2>3. B = A \cup {q}
    BY <1>1, <1>4
  <2>4. Cardinality(B) = Cardinality(A) + 1
    BY <1>2, <1>4, <2>3, FS_AddElement
  <2>5. QED  BY <1>0, <1>2, <1>4, <2>2, <2>4
<1>5. CASE version' = version + 1 /\ q \notin B /\ Reserved(q)
  <2>1. B = A \ {q}
    BY <1>1, <1>5
  <2>2. CASE q \in A
    <3>1. Cardinality(B) = Cardinality(A) - 1
      BY <1>2, <2>1, <2>2, FS_RemoveElement
    <3>2. QED  BY <1>0, <1>2, <1>5, <3>1
  <2>3. CASE q \notin A
    <3>1. version + Cardinality(A) < MaxVersion
      BY <1>0, <1>5, <2>3, RoomToChange DEF Reserved, Busy
    <3>2. B = A
      BY <2>1, <2>3
    <3>3. QED  BY <1>0, <1>2, <1>5, <3>1, <3>2
  <2>4. QED  BY <2>2, <2>3
<1>6. edits'[q].at = "idle" => q \notin B
  BY DEF Busy, Reserving, Changing
<1>7. QED  BY <1>3, <1>4, <1>5, <1>6

LEMMA OthersTimely ==
    ASSUME CanvasInv, scope = "canvas", ~lost, NEW q \in Clients, Others(q),
           version' \in Nat, version <= version',
           version' = version /\ (UnderWay(edits) \/ graph' # graph) => UnderWay(edits')
    PROVE  \A a \in Clients \ {q} : Timely(edits'[a], version', UnderWay(edits'))
<1>1. SUFFICES ASSUME NEW a \in Clients \ {q}
               PROVE  Timely(edits'[a], version', UnderWay(edits'))
  OBVIOUS
<1> DEFINE ch == UnderWay(edits)
           ch2 == UnderWay(edits')
           moved == graph' # graph
<1>2. /\ edits[a] \in C!ReqType /\ version \in Nat /\ Timely(edits[a], version, ch)
  BY CanvasFacts
<1>3. Overtaken(edits[a], edits'[a], moved)
  BY DEF Others
<1>4. ch \in BOOLEAN /\ ch2 \in BOOLEAN /\ moved \in BOOLEAN
  BY DEF UnderWay
<1>5. version' = version /\ (ch \/ moved) => ch2
  OBVIOUS
<1> HIDE DEF ch, ch2, moved
<1>6. Timely(edits'[a], version', ch2)
  BY <1>2, <1>3, <1>4, <1>5, TimelyOvertaken
<1>7. QED  BY <1>6 DEF ch2

LEMMA UnderWayKept ==
    ASSUME NEW q \in Clients, Others(q), edits \in [Clients -> C!ReqType],
           edits[q].at \notin Changing, edits'[q].at \notin Changing
    PROVE  UnderWay(edits') <=> UnderWay(edits)
BY BusyOthers DEF UnderWay

LEMMA StatementPaced ==
    ASSUME CanvasInv, scope = "canvas", NEW q \in Clients, Others(q), Statement(q)
    PROVE  VersionSide
<1>1. /\ version \in Nat /\ version' = version /\ shots' = shots /\ lost' = lost
      /\ UnderWay(edits') /\ edits'[q].at \in Changing
      /\ shots \in [0..MaxVersion -> C!Graphs \cup {None}]
      /\ \A k \in 0..MaxVersion : shots[k] # None => C!Acyclic(shots[k].edges)
  BY CanvasFacts DEF Statement, UnderWay
<1>2. version' + Cardinality(Busy(edits')) <= MaxVersion /\ version' <= MaxVersion
  BY <1>1, RoomKept DEF Statement
<1>3. ASSUME ~lost'  PROVE \A a \in Clients : Timely(edits'[a], version', UnderWay(edits'))
  <2>1. \A a \in Clients \ {q} : Timely(edits'[a], version', UnderWay(edits'))
    <3>1. ~lost /\ version' \in Nat /\ version <= version'
      BY <1>1, <1>3
    <3>2. version' = version /\ (UnderWay(edits) \/ graph' # graph) => UnderWay(edits')
      BY <1>1
    <3>3. QED  BY <3>1, <3>2, OthersTimely
  <2>2. Timely(edits'[q], version', UnderWay(edits'))
    BY <1>1 DEF Timely, Changing
  <2>3. QED  BY <2>1, <2>2
<1>4. ~lost' => ShotsSound(shots', version', graph', UnderWay(edits'))
  BY <1>1, CanvasFacts DEF ShotsSound
<1>5. QED  BY <1>1, <1>2, <1>3, <1>4 DEF VersionSide

LEMMA CommitPaced ==
    ASSUME CanvasInv, scope = "canvas", NEW q \in Clients, Others(q), Commit(q)
    PROVE  VersionSide
<1>1. /\ version \in Nat /\ version' = version + 1 /\ version' \in Nat
      /\ shots' = shots /\ lost' = lost /\ edits'[q].at = "idle"
      /\ shots \in [0..MaxVersion -> C!Graphs \cup {None}]
      /\ \A k \in 0..MaxVersion : shots[k] # None => C!Acyclic(shots[k].edges)
  BY CanvasFacts DEF Commit
<1>2. version' + Cardinality(Busy(edits')) <= MaxVersion /\ version' <= MaxVersion
  BY <1>1, RoomKept DEF Commit
<1>3. ASSUME ~lost'  PROVE \A a \in Clients : Timely(edits'[a], version', UnderWay(edits'))
  <2>1. \A a \in Clients \ {q} : Timely(edits'[a], version', UnderWay(edits'))
    BY <1>1, <1>3, OthersTimely
  <2>2. Timely(edits'[q], version', UnderWay(edits'))
    BY <1>1 DEF Timely
  <2>3. QED  BY <2>1, <2>2
<1>4. ASSUME ~lost'  PROVE ShotsSound(shots', version', graph', UnderWay(edits'))
  <2>1. \A k \in 0..MaxVersion : k > version => shots[k] = None
    BY <1>1, <1>4, CanvasFacts DEF ShotsSound
  <2>2. version' \in 0..MaxVersion /\ version' > version
    BY <1>1, <1>2
  <2>3. shots'[version'] = None /\ \A k \in 0..MaxVersion : k > version' => shots'[k] = None
    BY <1>1, <2>1, <2>2
  <2>4. QED  BY <2>3 DEF ShotsSound
<1>5. QED  BY <1>1, <1>2, <1>3, <1>4 DEF VersionSide

LEMMA AsidePaced ==
    ASSUME CanvasInv, scope = "canvas", NEW q \in Clients, Others(q), Aside(q)
    PROVE  VersionSide
<1>1. /\ version \in Nat /\ version' = version /\ shots' = shots /\ lost' = lost
      /\ graph' = graph /\ edits \in [Clients -> C!ReqType]
      /\ shots \in [0..MaxVersion -> C!Graphs \cup {None}]
      /\ \A k \in 0..MaxVersion : shots[k] # None => C!Acyclic(shots[k].edges)
  BY CanvasFacts DEF Aside
<1>2. version' + Cardinality(Busy(edits')) <= MaxVersion /\ version' <= MaxVersion
  BY <1>1, RoomKept DEF Aside
<1>3. UnderWay(edits') = UnderWay(edits)
  <2>1. UnderWay(edits') <=> UnderWay(edits)
    BY <1>1, UnderWayKept DEF Aside
  <2>2. QED  BY <2>1 DEF UnderWay
<1>4. ASSUME ~lost'  PROVE \A a \in Clients : Timely(edits'[a], version', UnderWay(edits'))
  <2>0. version' = version /\ (UnderWay(edits) \/ graph' # graph) => UnderWay(edits')
    BY <1>1, <1>3
  <2>1. \A a \in Clients \ {q} : Timely(edits'[a], version', UnderWay(edits'))
    BY <1>1, <1>4, <2>0, OthersTimely
  <2>2. Timely(edits'[q], version', UnderWay(edits'))
    BY <1>1, <1>3 DEF Aside
  <2>3. QED  BY <2>1, <2>2
<1>5. ~lost' => ShotsSound(shots', version', graph', UnderWay(edits'))
  BY <1>1, <1>3, CanvasFacts DEF ShotsSound
<1>6. QED  BY <1>1, <1>2, <1>4, <1>5 DEF VersionSide

LEMMA CutOffPaced ==
    ASSUME CanvasInv, scope = "canvas", NEW q \in Clients, Others(q), CutOff(q)
    PROVE  VersionSide
<1>1. /\ version \in Nat /\ version' = version /\ shots' = shots /\ lost'
      /\ edits'[q].at \notin Reserving
      /\ shots \in [0..MaxVersion -> C!Graphs \cup {None}]
      /\ \A k \in 0..MaxVersion : shots[k] # None => C!Acyclic(shots[k].edges)
  BY CanvasFacts DEF CutOff, Reserving, Changing
<1>2. version' + Cardinality(Busy(edits')) <= MaxVersion /\ version' <= MaxVersion
  BY <1>1, RoomKept
<1>3. QED  BY <1>1, <1>2 DEF VersionSide

LEMMA SaveShotPaced ==
    ASSUME CanvasInv, scope = "canvas", ~lost, NEW q \in Clients, Others(q), C!SaveShot(q)
    PROVE  VersionSide
<1> DEFINE r == edits[q]
<1>1. /\ version \in Nat /\ version' = version /\ lost' = lost /\ graph' = graph
      /\ version \in 0..MaxVersion
      /\ edits \in [Clients -> C!ReqType] /\ r \in C!ReqType
      /\ r.ver \in 0..MaxVersion /\ r.copy \in C!Graphs /\ r.at = "shoot" /\ r.todo = {}
      /\ shots \in [0..MaxVersion -> C!Graphs \cup {None}]
      /\ \A k \in 0..MaxVersion : shots[k] # None => C!Acyclic(shots[k].edges)
      /\ ReadSound(r, graph) /\ Timely(r, version, UnderWay(edits))
      /\ ShotsSound(shots, version, graph, UnderWay(edits))
  BY CanvasFacts, CanvasLimits DEF C!SaveShot, C!At, C!ReqType
<1>2. edits'[q].at = "idle"
  BY <1>1, Ended, IdleTyped DEF C!SaveShot
<1>3. /\ shots' \in [0..MaxVersion -> C!Graphs \cup {None}]
      /\ \A k \in 0..MaxVersion \ {r.ver} : shots'[k] = shots[k]
      /\ shots'[r.ver] = shots[r.ver] \/ (shots[r.ver] = None /\ shots'[r.ver] = r.copy)
  BY <1>1 DEF C!SaveShot
<1>4. C!Acyclic(r.copy.edges) /\ r.ver <= version /\ r.ver \in Nat
  BY <1>1 DEF ReadSound, Timely
<1>5. UnderWay(edits') <=> UnderWay(edits)
  BY <1>1, <1>2, UnderWayKept DEF Changing
<1>6. version' + Cardinality(Busy(edits')) <= MaxVersion /\ version' <= MaxVersion
  BY <1>1, <1>2, RoomKept DEF Reserving, Changing
<1>7. \A a \in Clients : Timely(edits'[a], version', UnderWay(edits'))
  <2>0. version' = version /\ (UnderWay(edits) \/ graph' # graph) => UnderWay(edits')
    BY <1>1, <1>5
  <2>1. \A a \in Clients \ {q} : Timely(edits'[a], version', UnderWay(edits'))
    BY <1>1, <2>0, OthersTimely
  <2>2. Timely(edits'[q], version', UnderWay(edits'))
    BY <1>2 DEF Timely
  <2>3. QED  BY <2>1, <2>2
<1>8. \A k \in 0..MaxVersion : shots'[k] # None => C!Acyclic(shots'[k].edges)
  BY <1>1, <1>3, <1>4
<1>9. ShotsSound(shots', version', graph', UnderWay(edits'))
  <2>1. \A k \in 0..MaxVersion : k > version => shots'[k] = None
    BY <1>1, <1>3, <1>4 DEF ShotsSound
  <2>2. shots'[version] = None \/ shots'[version] = graph \/ UnderWay(edits')
    <3>1. CASE shots'[version] = shots[version]
      BY <1>1, <1>5, <3>1 DEF ShotsSound
    <3>2. CASE r.ver = version /\ shots'[version] = r.copy /\ r.stale
      BY <1>1, <1>5, <3>2 DEF Timely
    <3>3. CASE r.ver = version /\ shots'[version] = r.copy /\ ~r.stale
      <4>1. r.copy.nodes = graph.nodes /\ r.copy.edges = graph.edges
        BY <1>1, <3>3 DEF ReadSound
      <4>2. graph \in C!Graphs
        BY CanvasFacts DEF Whole
      <4>3. r.copy = graph
        BY <1>1, <4>1, <4>2 DEF C!Graphs
      <4>4. QED  BY <3>3, <4>3
    <3>4. QED  BY <1>1, <1>3, <3>1, <3>2, <3>3 DEF C!ReqType
  <2>3. QED  BY <1>1, <2>1, <2>2 DEF ShotsSound
<1>10. QED  BY <1>1, <1>3, <1>6, <1>7, <1>8, <1>9 DEF VersionSide

LEMMA SaveCanvasPaced ==
    ASSUME CanvasInv, scope = "canvas", ~lost, NEW q \in Clients, Others(q), C!SaveCanvas(q)
    PROVE  VersionSide
<1>1. /\ version \in Nat /\ version' = edits[q].ver /\ version' \in Nat /\ version' <= version
      /\ lost' = (lost \/ version # edits[q].ver) /\ edits'[q].at = "idle"
      /\ edits[q].at = "rename" /\ graph' = graph /\ shots' = shots
  <2>1. edits[q] \in C!ReqType /\ Timely(edits[q], version, UnderWay(edits)) /\ version \in Nat
    BY CanvasFacts
  <2>2. /\ version' = edits[q].ver /\ edits[q].at = "rename" /\ graph' = graph /\ shots' = shots
        /\ lost' = (lost \/ version # edits[q].ver)
    BY DEF C!SaveCanvas, C!At
  <2>3. edits'[q].at = "idle"
    BY <2>2, CanvasFacts, Ended, IdleTyped DEF C!SaveCanvas
  <2>4. QED  BY <2>1, <2>2, <2>3 DEF Timely, C!ReqType
<1>2. /\ shots \in [0..MaxVersion -> C!Graphs \cup {None}]
      /\ \A k \in 0..MaxVersion : shots[k] # None => C!Acyclic(shots[k].edges)
  BY CanvasFacts
<1>3. version' + Cardinality(Busy(edits')) <= MaxVersion /\ version' <= MaxVersion
  BY <1>1, RoomKept DEF Reserving, Changing
<1>4. CASE lost'
  BY <1>1, <1>2, <1>3, <1>4 DEF VersionSide
<1>5. CASE ~lost'
  <2>1. version' = version /\ lost' = lost
    <3>1. version = edits[q].ver
      BY <1>1, <1>5
    <3>2. lost' = lost
      BY <1>1, <3>1, CanvasFacts
    <3>3. QED  BY <1>1, <3>1, <3>2
  <2>2. Aside(q)
    BY <1>1, <2>1 DEF Aside, Changing, Reserving, Timely
  <2>3. QED  BY <2>2, AsidePaced
<1>6. QED  BY <1>4, <1>5

-----------------------------------------------------------------------------
(* Steps. *)

LEMMA CanvasStep ==
    ASSUME CanvasInv, scope = "canvas", NEW q \in Clients, Others(q), VersionSide,
           Whole(graph'), C!Acyclic(graph'.edges) \/ raced',
           raced' \in BOOLEAN, lost' \in BOOLEAN, ReadSound(edits'[q], graph'),
           view' \in [now : C!Shown, past : C!Shown],
           ViewSound(view', edits'[Editor], graph')
    PROVE  CanvasInv'
<1>1. edits' \in [Clients -> C!ReqType] /\ graph' \in C!Graphs
  BY DEF Others, Whole
<1>2. \A a \in Clients : ReadSound(edits'[a], graph')
  <2>1. SUFFICES ASSUME NEW a \in Clients \ {q}  PROVE ReadSound(edits'[a], graph')
    OBVIOUS
  <2>2. edits[a] \in C!ReqType /\ ReadSound(edits[a], graph)
    BY CanvasFacts
  <2>3. Overtaken(edits[a], edits'[a], graph' # graph)
    BY DEF Others
  <2>4. QED  BY <2>2, <2>3, ReadOvertaken
<1>3. graph' = C!Kept(graph')
  BY <1>1, WholeKept
<1>4. /\ version' \in 0..MaxVersion /\ shots' \in [0..MaxVersion -> C!Graphs \cup {None}]
      /\ version' + Cardinality(Busy(edits')) <= MaxVersion
      /\ \A k \in 0..MaxVersion : shots'[k] # None => C!Acyclic(shots'[k].edges)
      /\ ~lost' => /\ \A a \in Clients : Timely(edits'[a], version', UnderWay(edits'))
                   /\ ShotsSound(shots', version', graph', UnderWay(edits'))
  BY CanvasLimits DEF VersionSide
<1>5. C!TypeOK'
  BY <1>1, <1>3, <1>4 DEF C!TypeOK
<1>6. CanvasTyped'
  BY <1>4, <1>5 DEF CanvasTyped
<1>7. QED  BY <1>2, <1>4, <1>6 DEF CanvasInv, C!AcyclicUnlessRaced

\* An editor whose view is not behind sees the graph, unless it waits for an answer.
LEMMA EditorSees ==
    ASSUME CanvasInv, scope = "canvas", ~view.now.behind,
           edits[Editor].at \notin {"push", "bump"}
    PROVE  /\ view.now.nodes = graph.nodes /\ view.now.edges = graph.edges
           /\ edits[Editor].at \notin {"clearedges", "putnodes", "putedges"}
<1>1. ViewSound(view, edits[Editor], graph)
  BY CanvasFacts
<1>2. C!Of(view.now) = graph
  BY <1>1 DEF ViewSound, Answered
<1>3. QED  BY <1>1, <1>2 DEF ViewSound, C!Of

LEMMA OfShown ==
    ASSUME NEW s \in C!Shown, NEW g \in C!Graphs, s.nodes = g.nodes, s.edges = g.edges
    PROVE  C!Of(s) = g
BY DEF C!Of, C!Shown, C!Graphs

\* A step that shows s, which the editor, if it is the one, has a right to show.
LEMMA ShowStep ==
    ASSUME CanvasInv, scope = "canvas", ~raced, NEW q \in Clients, Others(q), VersionSide,
           Whole(graph'), C!Acyclic(graph'.edges) \/ raced',
           raced' \in BOOLEAN, lost' \in BOOLEAN, ReadSound(edits'[q], graph'),
           NEW s \in C!Shown, NEW ch \in BOOLEAN, C!Show(q, s, ch), graph' # graph => ch,
           edits'[q].at # "push",
           q = Editor /\ ~s.behind =>
              /\ edits'[q].at \notin {"clearedges", "putnodes", "putedges"}
              /\ C!Of(Answered(s, edits'[q])) = graph'
    PROVE  CanvasInv'
<1>1. CASE q # Editor
  <2>1. \E t, d : C!Show(q, t, d) /\ (graph' # graph => d) /\ d \in BOOLEAN
    OBVIOUS
  <2>2. QED  BY <1>1, <2>1, OthersWatched, CanvasStep
<1>2. CASE q = Editor
  <2>1. /\ view' \in [now : C!Shown, past : C!Shown]
        /\ ViewSound(view', edits'[Editor], graph')
    BY <1>2, EditorAnswered
  <2>2. QED  BY <2>1, CanvasStep
<1>3. QED  BY <1>1, <1>2

\* A step that changes neither the graph nor what is shown.
LEMMA StillStep ==
    ASSUME CanvasInv, scope = "canvas", NEW q \in Clients, Others(q), VersionSide,
           UNCHANGED <<graph, view>>, raced' = raced, lost' \in BOOLEAN,
           ReadSound(edits'[q], graph),
           edits[q].at \notin {"push", "bump"} \/ view.now.behind,
           edits'[q].at \notin {"clearedges", "putnodes", "putedges", "push", "bump"}
    PROVE  CanvasInv'
<1>1. /\ Whole(graph) /\ (C!Acyclic(graph.edges) \/ raced) /\ raced \in BOOLEAN
      /\ view \in [now : C!Shown, past : C!Shown] /\ ViewSound(view, edits[Editor], graph)
      /\ view.now \in C!Shown /\ graph \in C!Graphs
  BY CanvasFacts DEF Whole
<1>2. ViewSound(view', edits'[Editor], graph')
  <2>1. CASE q # Editor
    <3>1. UNCHANGED view /\ graph' = graph
      OBVIOUS
    <3>2. QED  BY <2>1, <3>1, OthersWatched
  <2>2. CASE q = Editor
    <3>1. ~view.now.behind => C!Of(view.now) = graph
      BY <1>1, <2>2, EditorSees, OfShown
    <3>2. QED  BY <1>1, <2>2, <3>1 DEF ViewSound, Answered
  <2>3. QED  BY <2>1, <2>2
<1>3. QED  BY <1>1, <1>2, CanvasStep

\* A request that has just made a statement, and is to bump.
BumpReq(x) == [C!Idle EXCEPT !.at = "bump", !.new = x]

LEMMA BumpTyped ==
    ASSUME NEW x \in Nodes \cup (Nodes \X Nodes) \cup {None}
    PROVE  /\ BumpReq(x) \in C!ReqType /\ BumpReq(x).at = "bump" /\ BumpReq(x).new = x
           /\ \A g : ReadSound(BumpReq(x), g)
<1>1. PICK r : r = BumpReq(x)
  OBVIOUS
<1>2. /\ r \in C!ReqType /\ r.at = "bump" /\ r.new = x /\ r.todo = {}
      /\ r.copy = C!Idle.copy
  BY <1>1, IdleTyped DEF BumpReq, C!ReqType
<1>3. \A g : ReadSound(r, g)
  BY <1>2, IdleTyped DEF ReadSound
<1>4. QED  BY <1>1, <1>2, <1>3

LEMMA BumpNone == [C!Idle EXCEPT !.at = "bump"] = BumpReq(None)
<1>1. PICK i : i = C!Idle
  OBVIOUS
<1>2. i \in C!ReqType /\ i.new = None
  BY <1>1, IdleTyped
<1>3. [i EXCEPT !.at = "bump"] = [i EXCEPT !.at = "bump", !.new = None]
  BY <1>2 DEF C!ReqType
<1>4. QED  BY <1>1, <1>3 DEF BumpReq

LEMMA IdleSound == \A g : ReadSound(C!Idle, g)
BY IdleTyped DEF ReadSound

LEMMA CreateNodeStep ==
    ASSUME CanvasInv, scope = "canvas", ~raced, ~lost, NEW q \in Clients, NEW n \in Nodes,
           C!CreateNode(q, n)
    PROVE  CanvasInv'
<1> DEFINE g == C!WithNode(graph, n)
<1>1. /\ Whole(graph) /\ C!Acyclic(graph.edges) /\ edits \in [Clients -> C!ReqType]
      /\ view.now \in C!Shown /\ raced \in BOOLEAN /\ lost \in BOOLEAN
      /\ graph \in C!Graphs
  BY CanvasFacts DEF Whole
<1>2. /\ C!MayChange(q) /\ edits[q].at = "idle" /\ C!Change(q, g, BumpReq(n))
      /\ C!Show(q, view.now, TRUE) /\ UNCHANGED <<version, shots, raced, lost>>
  BY DEF C!CreateNode, BumpReq, C!Same, C!MayChange, C!At
<1>3. BumpReq(n) \in C!ReqType /\ BumpReq(n).at = "bump" /\ BumpReq(n).new = n
  BY BumpTyped
<1>4. graph' = g /\ edits'[q] = BumpReq(n) /\ Others(q)
  BY <1>1, <1>2, <1>3, Changed
<1>5. g \in C!Graphs /\ g.nodes = graph.nodes \cup {n} /\ g.edges = graph.edges
  BY <1>1 DEF C!Graphs, C!WithNode
<1>6. Whole(graph') /\ C!Acyclic(graph'.edges)
  BY <1>1, <1>4, <1>5 DEF Whole
<1>7. VersionSide
  BY <1>2, <1>3, <1>4, StatementPaced DEF Statement, Reserved, Changing
<1>8. ReadSound(edits'[q], graph')
  BY <1>4, BumpTyped
<1>9. ASSUME q = Editor, ~view.now.behind
      PROVE  C!Of(Answered(view.now, edits'[q])) = graph'
  <2>1. view.now.nodes = graph.nodes /\ view.now.edges = graph.edges
    BY <1>2, <1>9, EditorSees
  <2>2. Answered(view.now, edits'[q]) = C!WithNode(view.now, n)
    BY <1>3, <1>4, CanvasLimits DEF Answered
  <2>3. PICK s : s = C!WithNode(view.now, n)
    OBVIOUS
  <2>4. s \in C!Shown /\ s.nodes = g.nodes /\ s.edges = g.edges
    BY <1>1, <1>5, <2>1, <2>3 DEF C!WithNode, C!Shown
  <2>5. QED  BY <1>4, <1>5, <2>2, <2>3, <2>4, OfShown
<1>10. QED  BY <1>1, <1>2, <1>3, <1>4, <1>6, <1>7, <1>8, <1>9, ShowStep

LEMMA RemoveNodeStep ==
    ASSUME CanvasInv, scope = "canvas", ~raced, ~lost, NEW q \in Clients, NEW n \in Nodes,
           C!RemoveNode(q, n)
    PROVE  CanvasInv'
<1> DEFINE g == C!WithoutNodes(graph, {n})
           s == C!HideNode(view.now, n)
<1>1. /\ Whole(graph) /\ C!Acyclic(graph.edges) /\ edits \in [Clients -> C!ReqType]
      /\ view.now \in C!Shown /\ raced \in BOOLEAN /\ lost \in BOOLEAN
      /\ graph \in C!Graphs
  BY CanvasFacts DEF Whole
<1>2. /\ C!MayChange(q) /\ edits[q].at = "idle"
      /\ C!Change(q, g, [C!Idle EXCEPT !.at = "bump"])
      /\ C!Show(q, s, TRUE) /\ UNCHANGED <<version, shots, raced, lost>>
  BY DEF C!RemoveNode, C!MayChange, C!At
<1>3. /\ [C!Idle EXCEPT !.at = "bump"] = BumpReq(None)
      /\ BumpReq(None) \in C!ReqType /\ BumpReq(None).at = "bump" /\ BumpReq(None).new = None
  BY BumpTyped, BumpNone
<1>4. graph' = g /\ edits'[q] = BumpReq(None) /\ Others(q)
  BY <1>1, <1>2, <1>3, Changed
<1>5. /\ g \in C!Graphs /\ g.nodes = graph.nodes \ {n}
      /\ g.edges = {e \in graph.edges : e[1] \notin {n} /\ e[2] \notin {n}}
  BY <1>1 DEF C!Graphs, C!WithoutNodes
<1>6. Whole(graph') /\ C!Acyclic(graph'.edges)
  <2>1. g.edges \subseteq graph.edges
    BY <1>5
  <2>2. C!Acyclic(g.edges)
    BY <1>1, <2>1, AcyclicSubset
  <2>3. QED  BY <1>1, <1>4, <1>5, <2>2 DEF Whole
<1>7. VersionSide
  BY <1>2, <1>3, <1>4, StatementPaced DEF Statement, Reserved, Changing
<1>8. ReadSound(edits'[q], graph')
  BY <1>4, BumpTyped
<1>9. /\ s \in C!Shown /\ s.nodes = view.now.nodes \ {n} /\ s.behind = view.now.behind
      /\ s.edges = {e \in view.now.edges : e[1] \notin {n} /\ e[2] \notin {n}}
  BY <1>1 DEF C!HideNode, C!WithoutNodes, C!Shown
<1>10. ASSUME q = Editor, ~s.behind
       PROVE  C!Of(Answered(s, edits'[q])) = graph'
  <2>1. view.now.nodes = graph.nodes /\ view.now.edges = graph.edges
    BY <1>2, <1>9, <1>10, EditorSees
  <2>2. Answered(s, edits'[q]) = s
    BY <1>3, <1>4 DEF Answered
  <2>3. s.nodes = g.nodes /\ s.edges = g.edges
    BY <1>5, <1>9, <2>1
  <2>4. QED  BY <1>4, <1>5, <1>9, <2>2, <2>3, OfShown
<1>11. QED
  BY <1>1, <1>2, <1>3, <1>4, <1>6, <1>7, <1>8, <1>9, <1>10, ShowStep

LEMMA RemoveEdgeStep ==
    ASSUME CanvasInv, scope = "canvas", ~raced, ~lost, NEW q \in Clients, NEW e,
           C!RemoveEdge(q, e)
    PROVE  CanvasInv'
<1> DEFINE g == C!WithoutEdge(graph, e)
           s == C!WithoutEdge(view.now, e)
<1>1. /\ Whole(graph) /\ C!Acyclic(graph.edges) /\ edits \in [Clients -> C!ReqType]
      /\ view.now \in C!Shown /\ raced \in BOOLEAN /\ lost \in BOOLEAN
      /\ graph \in C!Graphs
  BY CanvasFacts DEF Whole
<1>2. /\ C!MayChange(q) /\ edits[q].at = "idle"
      /\ C!Change(q, g, [C!Idle EXCEPT !.at = "bump"])
      /\ C!Show(q, s, TRUE) /\ UNCHANGED <<version, shots, raced, lost>>
  BY DEF C!RemoveEdge, C!MayChange, C!At
<1>3. /\ [C!Idle EXCEPT !.at = "bump"] = BumpReq(None)
      /\ BumpReq(None) \in C!ReqType /\ BumpReq(None).at = "bump" /\ BumpReq(None).new = None
  BY BumpTyped, BumpNone
<1>4. graph' = g /\ edits'[q] = BumpReq(None) /\ Others(q)
  BY <1>1, <1>2, <1>3, Changed
<1>5. g \in C!Graphs /\ g.nodes = graph.nodes /\ g.edges = graph.edges \ {e}
  BY <1>1 DEF C!Graphs, C!WithoutEdge
<1>6. Whole(graph') /\ C!Acyclic(graph'.edges)
  <2>1. g.edges \subseteq graph.edges
    BY <1>5
  <2>2. C!Acyclic(g.edges)
    BY <1>1, <2>1, AcyclicSubset
  <2>3. QED  BY <1>1, <1>4, <1>5, <2>2 DEF Whole
<1>7. VersionSide
  BY <1>2, <1>3, <1>4, StatementPaced DEF Statement, Reserved, Changing
<1>8. ReadSound(edits'[q], graph')
  BY <1>4, BumpTyped
<1>9. /\ s \in C!Shown /\ s.nodes = view.now.nodes /\ s.behind = view.now.behind
      /\ s.edges = view.now.edges \ {e}
  BY <1>1 DEF C!WithoutEdge, C!Shown
<1>10. ASSUME q = Editor, ~s.behind
       PROVE  C!Of(Answered(s, edits'[q])) = graph'
  <2>1. view.now.nodes = graph.nodes /\ view.now.edges = graph.edges
    BY <1>2, <1>9, <1>10, EditorSees
  <2>2. Answered(s, edits'[q]) = s
    BY <1>3, <1>4 DEF Answered
  <2>3. s.nodes = g.nodes /\ s.edges = g.edges
    BY <1>5, <1>9, <2>1
  <2>4. QED  BY <1>4, <1>5, <1>9, <2>2, <2>3, OfShown
<1>11. QED
  BY <1>1, <1>2, <1>3, <1>4, <1>6, <1>7, <1>8, <1>9, <1>10, ShowStep

LEMMA CheckEdgeStep ==
    ASSUME CanvasInv, scope = "canvas", ~raced, ~lost, NEW q \in Clients,
           NEW s \in Nodes, NEW t \in Nodes, C!CheckEdge(q, s, t)
    PROVE  CanvasInv'
<1>1. PICK r : r = [C!Idle EXCEPT !.at = "link", !.new = <<s, t>>]
  OBVIOUS
<1>2. /\ r \in C!ReqType /\ r.at = "link" /\ r.new = <<s, t>> /\ r.todo = {}
      /\ r.copy = C!Idle.copy
  BY <1>1, IdleTyped DEF C!ReqType
<1>3. /\ C!MayChange(q) /\ edits[q].at = "idle" /\ C!Continue(q, r)
      /\ ~C!MakesCycle(graph.edges, s, t)
      /\ UNCHANGED <<graph, version, shots, view, raced, lost>>
  BY <1>1 DEF C!CheckEdge, C!MayChange, C!At
<1>4. edits'[q] = r /\ Others(q) /\ lost \in BOOLEAN
  BY <1>2, <1>3, CanvasFacts, Continued
<1>5. VersionSide
  <2>1. Aside(q)
    BY <1>2, <1>3, <1>4 DEF Aside, Reserved, Changing, Timely
  <2>2. QED  BY <1>4, <2>1, AsidePaced
<1>6. ReadSound(edits'[q], graph)
  <2>1. r.new[1] = s /\ r.new[2] = t /\ r.new \in Nodes \X Nodes
    BY <1>2
  <2>2. ~C!MakesCycle(graph.edges, r.new[1], r.new[2])
    BY <1>3, <2>1
  <2>3. C!Acyclic(r.copy.edges)
    BY <1>2, IdleTyped
  <2>4. QED  BY <1>2, <1>4, <2>1, <2>2, <2>3 DEF ReadSound
<1>7. QED  BY <1>2, <1>3, <1>4, <1>5, <1>6, StillStep

LEMMA SaveEdgeStep ==
    ASSUME CanvasInv, scope = "canvas", ~raced, ~lost, NEW q \in Clients, C!SaveEdge(q)
    PROVE  CanvasInv'
<1> DEFINE e == edits[q].new
           g == C!WithEdge(graph, e)
<1>1. /\ Whole(graph) /\ C!Acyclic(graph.edges) /\ edits \in [Clients -> C!ReqType]
      /\ view.now \in C!Shown /\ raced \in BOOLEAN /\ lost \in BOOLEAN
      /\ graph \in C!Graphs /\ ReadSound(edits[q], graph) /\ edits[q].at = "link"
      /\ UNCHANGED <<version, shots, lost>> /\ graph.edges \in SUBSET (Nodes \X Nodes)
  BY CanvasFacts DEF Whole, C!SaveEdge, C!At
<1>2. e \in Nodes \X Nodes /\ e[1] \in Nodes /\ e[2] \in Nodes /\ e = <<e[1], e[2]>>
  BY <1>1 DEF ReadSound
<1>3. ASSUME {e[1], e[2]} \subseteq graph.nodes, e \notin graph.edges,
             C!Change(q, g, [C!Idle EXCEPT !.at = "bump", !.new = e]),
             C!Show(q, C!Same, TRUE),
             raced' = (raced \/ (edits[q].stale /\ ~C!Acyclic(g.edges)))
      PROVE  CanvasInv'
  <2>1. BumpReq(e) \in C!ReqType /\ BumpReq(e).at = "bump" /\ BumpReq(e).new = e
    BY <1>2, BumpTyped
  <2>2. graph' = g /\ edits'[q] = BumpReq(e) /\ Others(q)
    BY <1>1, <1>3, <2>1, Changed DEF BumpReq
  <2>3. g \in C!Graphs /\ g.nodes = graph.nodes /\ g.edges = graph.edges \cup {e}
    BY <1>1, <1>2 DEF C!Graphs, C!WithEdge
  <2>4. Whole(graph')
    BY <1>1, <1>3, <2>2, <2>3 DEF Whole
  <2>5. C!Acyclic(g.edges) \/ raced'
    <3>1. CASE edits[q].stale
      BY <1>3, <3>1
    <3>2. CASE ~edits[q].stale
      <4>1. ~C!MakesCycle(graph.edges, e[1], e[2])
        BY <1>1, <3>2 DEF ReadSound
      <4>2. C!Acyclic(graph.edges \cup {<<e[1], e[2]>>})
        BY <1>1, <1>2, <4>1, AcyclicWithEdge
      <4>3. QED  BY <1>2, <2>3, <4>2
    <3>3. QED  BY <3>1, <3>2
  <2>6. VersionSide
    BY <1>1, <2>1, <2>2, StatementPaced DEF Statement, Reserved, Changing, Reserving
  <2>7. ReadSound(edits'[q], graph')
    BY <1>2, <2>2, BumpTyped
  <2>8. ASSUME q = Editor, ~view.now.behind
        PROVE  C!Of(Answered(view.now, edits'[q])) = graph'
    <3>1. view.now.nodes = graph.nodes /\ view.now.edges = graph.edges
      BY <1>1, <2>8, EditorSees
    <3>2. e # None /\ e \notin Nodes
      BY <1>2, CanvasLimits
    <3>3. Answered(view.now, edits'[q]) = C!WithEdge(view.now, e)
      BY <2>1, <2>2, <3>2 DEF Answered
    <3>4. PICK s : s = C!WithEdge(view.now, e)
      OBVIOUS
    <3>5. s \in C!Shown /\ s.nodes = g.nodes /\ s.edges = g.edges
      BY <1>1, <1>2, <2>3, <3>1, <3>4 DEF C!WithEdge, C!Shown
    <3>6. QED  BY <2>2, <2>3, <3>3, <3>4, <3>5, OfShown
  <2>9. C!Show(q, view.now, TRUE)
    BY <1>3 DEF C!Same
  <2>10. raced' \in BOOLEAN /\ lost' \in BOOLEAN
    BY <1>1, <1>3
  <2>11. QED
    BY <1>1, <2>1, <2>2, <2>4, <2>5, <2>6, <2>7, <2>8, <2>9, <2>10, ShowStep
<1>4. ASSUME C!End(q), UNCHANGED <<graph, view, raced>>  PROVE CanvasInv'
  <2>1. edits'[q] = C!Idle /\ Others(q)
    BY <1>1, <1>4, Ended
  <2>2. VersionSide
    <3>1. Aside(q)
      BY <1>1, <1>4, <2>1, IdleTyped DEF Aside, Changing, Reserving, Timely
    <3>2. QED  BY <2>1, <3>1, AsidePaced
  <2>3. QED  BY <1>1, <1>4, <2>1, <2>2, IdleTyped, IdleSound, StillStep
<1>5. QED  BY <1>3, <1>4 DEF C!SaveEdge

LEMMA BumpStep ==
    ASSUME CanvasInv, scope = "canvas", ~raced, ~lost, NEW q \in Clients, C!Bump(q)
    PROVE  CanvasInv'
<1> DEFINE s == Answered(view.now, edits[q])
<1>1. /\ Whole(graph) /\ C!Acyclic(graph.edges) /\ edits \in [Clients -> C!ReqType]
      /\ view.now \in C!Shown /\ raced \in BOOLEAN /\ lost \in BOOLEAN
      /\ ViewSound(view, edits[Editor], graph) /\ edits[q] \in C!ReqType
  BY CanvasFacts
<1>2. /\ edits[q].at = "bump" /\ version' = version + 1 /\ C!End(q)
      /\ UNCHANGED <<graph, shots, raced, lost>> /\ C!Show(q, C!Created(q), FALSE)
  BY DEF C!Bump, C!At
<1>3. C!Created(q) = s
  BY <1>2 DEF C!Created, Answered
<1>4. edits'[q] = C!Idle /\ Others(q)
  BY <1>1, <1>2, Ended
<1>5. VersionSide
  BY <1>2, <1>4, IdleTyped, CommitPaced DEF Commit, Reserved, Reserving, Changing
<1>6. s \in C!Shown /\ s.behind = view.now.behind
  BY <1>1 DEF Answered, C!Shown, C!WithNode, C!WithEdge, C!ReqType
<1>7. ASSUME q = Editor, ~s.behind
      PROVE  C!Of(Answered(s, edits'[q])) = graph'
  <2>1. C!Of(s) = graph
    BY <1>1, <1>2, <1>6, <1>7 DEF ViewSound
  <2>2. Answered(s, edits'[q]) = s
    BY <1>4, IdleTyped DEF Answered
  <2>3. QED  BY <1>2, <2>1, <2>2
<1>8. QED  BY <1>1, <1>2, <1>3, <1>4, <1>5, <1>6, <1>7, IdleTyped, IdleSound, ShowStep

LEMMA LeftBehind ==
    ASSUME NEW s \in C!Shown
    PROVE  [s EXCEPT !.behind = TRUE] \in C!Shown /\ [s EXCEPT !.behind = TRUE].behind
BY DEF C!Shown

LEMMA BatchStep ==
    ASSUME CanvasInv, scope = "canvas", ~raced, ~lost, NEW q \in Clients,
           NEW s \in Nodes, NEW n \in Nodes, C!Batch(q, s, n)
    PROVE  CanvasInv'
<1> DEFINE g == C!WithEdge(C!WithNode(graph, n), <<s, n>>)
           w == [view.now EXCEPT !.behind = TRUE]
<1>1. /\ Whole(graph) /\ C!Acyclic(graph.edges) /\ edits \in [Clients -> C!ReqType]
      /\ view.now \in C!Shown /\ raced \in BOOLEAN /\ lost \in BOOLEAN
      /\ graph \in C!Graphs /\ graph.edges \in SUBSET (Nodes \X Nodes)
  BY CanvasFacts DEF Whole
<1>2. /\ C!MayChange(q) /\ edits[q].at = "idle" /\ s \in graph.nodes /\ n \notin graph.nodes
      /\ C!Change(q, g, C!Idle) /\ C!Show(q, w, TRUE)
      /\ version' = version + 1 /\ UNCHANGED <<shots, raced, lost>>
  BY DEF C!Batch, C!MayChange, C!At
<1>3. graph' = g /\ edits'[q] = C!Idle /\ Others(q)
  BY <1>1, <1>2, IdleTyped, Changed
<1>4. /\ g \in C!Graphs /\ g.nodes = graph.nodes \cup {n}
      /\ g.edges = graph.edges \cup {<<s, n>>}
  <2>1. PICK w1 : w1 = C!WithNode(graph, n)
    OBVIOUS
  <2>2. w1 \in C!Graphs /\ w1.nodes = graph.nodes \cup {n} /\ w1.edges = graph.edges
    BY <1>1, <2>1 DEF C!Graphs, C!WithNode
  <2>3. g = [w1 EXCEPT !.edges = @ \cup {<<s, n>>}]
    BY <2>1 DEF C!WithEdge
  <2>4. QED  BY <2>2, <2>3 DEF C!Graphs
<1>5. Whole(graph')
  BY <1>1, <1>2, <1>3, <1>4 DEF Whole
<1>6. C!Acyclic(graph'.edges)
  <2>1. s # n /\ \A e \in graph.edges : e[1] # n
    BY <1>1, <1>2 DEF Whole
  <2>2. ~C!MakesCycle(graph.edges, s, n)
    BY <1>1, <2>1, EdgeToSink
  <2>3. QED  BY <1>1, <1>3, <1>4, <2>2, AcyclicWithEdge
<1>7. VersionSide
  BY <1>2, <1>3, IdleTyped, CommitPaced DEF Commit, Reserved
<1>8. w \in C!Shown /\ w.behind
  BY <1>1, LeftBehind
<1>9. QED  BY <1>1, <1>2, <1>3, <1>5, <1>6, <1>7, <1>8, IdleTyped, IdleSound, ShowStep

LEMMA UndoStep ==
    ASSUME CanvasInv, scope = "canvas", ~raced, ~lost, NEW q \in Clients, C!Undo(q)
    PROVE  CanvasInv'
<1>1. PICK r : r = [C!Idle EXCEPT !.at = "push"]
  OBVIOUS
<1>2. r \in C!ReqType /\ r.at = "push" /\ r.todo = {} /\ r.copy = C!Idle.copy
  BY <1>1, IdleTyped DEF C!ReqType
<1>3. /\ q = Editor /\ C!MayChange(q) /\ edits[q].at = "idle" /\ C!Continue(q, r)
      /\ view' = [now |-> view.past, past |-> view.now]
      /\ UNCHANGED <<graph, version, shots, raced, lost>>
  BY <1>1 DEF C!Undo, C!MayChange, C!At
<1>4. /\ Whole(graph) /\ C!Acyclic(graph.edges) /\ raced \in BOOLEAN /\ lost \in BOOLEAN
      /\ view.now \in C!Shown /\ view.past \in C!Shown /\ ViewSound(view, edits[Editor], graph)
  BY CanvasFacts
<1>5. edits'[q] = r /\ Others(q)
  BY <1>2, <1>3, CanvasFacts, Continued
<1>6. VersionSide
  <2>1. Aside(q)
    BY <1>2, <1>3, <1>5 DEF Aside, Reserved, Changing, Timely
  <2>2. QED  BY <1>5, <2>1, AsidePaced
<1>7. ReadSound(edits'[q], graph')
  BY <1>2, <1>5, IdleTyped DEF ReadSound
<1>8. ViewSound(view', edits'[Editor], graph')
  <2>1. ~view.now.behind => C!Acyclic(view.now.edges)
    BY ShownAcyclic
  <2>2. view'.now = view.past /\ view'.past = view.now /\ edits'[Editor].at = "push"
    BY <1>2, <1>3, <1>5
  <2>3. QED  BY <1>4, <2>1, <2>2 DEF ViewSound
<1>9. QED  BY <1>3, <1>4, <1>5, <1>6, <1>7, <1>8, CanvasStep

LEMMA PushStep ==
    ASSUME CanvasInv, scope = "canvas", ~raced, ~lost, NEW q \in Clients, C!Push(q)
    PROVE  CanvasInv'
<1> DEFINE s == view.now
           g == C!Kept(s)
           w == [s EXCEPT !.behind = C!Of(s) # g]
<1>1. /\ edits \in [Clients -> C!ReqType] /\ edits[q].at = "push"
      /\ s \in C!Shown /\ raced \in BOOLEAN /\ lost \in BOOLEAN
  BY CanvasFacts DEF C!Push, C!At
<1>2. /\ C!Change(q, g, C!Idle) /\ version' = version + 1 /\ C!Show(q, w, TRUE)
      /\ raced' = (raced \/ (s.behind /\ ~C!Acyclic(g.edges))) /\ UNCHANGED <<shots, lost>>
  BY DEF C!Push
<1>3. graph' = g /\ edits'[q] = C!Idle /\ Others(q)
  BY <1>1, <1>2, IdleTyped, Changed
<1>4. /\ g \in C!Graphs /\ Whole(g) /\ g.edges \subseteq s.edges
  BY <1>1 DEF C!Kept, C!Shown, C!Graphs, Whole
<1>5. C!Acyclic(g.edges) \/ raced'
  <2>1. CASE s.behind
    BY <1>2, <2>1
  <2>2. CASE ~s.behind
    BY <1>4, <2>2, ShownAcyclic, AcyclicSubset
  <2>3. QED  BY <2>1, <2>2
<1>6. VersionSide
  BY <1>1, <1>2, <1>3, IdleTyped, CommitPaced DEF Commit, Reserved, Reserving
<1>7. w \in C!Shown /\ w.behind = (C!Of(s) # g) /\ w.nodes = s.nodes /\ w.edges = s.edges
  BY <1>1 DEF C!Shown
<1>8. ~w.behind => C!Of(Answered(w, edits'[q])) = graph'
  <2>1. Answered(w, edits'[q]) = w
    BY <1>3, IdleTyped DEF Answered
  <2>2. C!Of(w) = C!Of(s)
    BY <1>7 DEF C!Of
  <2>3. QED  BY <1>3, <1>7, <2>1, <2>2
<1>9. raced' \in BOOLEAN /\ lost' \in BOOLEAN
  BY <1>1, <1>2
<1>10. QED
  BY <1>2, <1>3, <1>4, <1>5, <1>6, <1>7, <1>8, <1>9, IdleTyped, IdleSound, ShowStep

\* Reads of the whole graph begin, or the row of the canvas is read.
LEMMA ReadingStep ==
    ASSUME CanvasInv, scope = "canvas", ~raced, ~lost, NEW q \in Clients,
           C!Load(q) \/ C!Shoot(q) \/ C!ReadCanvas(q)
    PROVE  CanvasInv'
<1>1. /\ version \in 0..MaxVersion /\ edits \in [Clients -> C!ReqType] /\ lost \in BOOLEAN
  BY CanvasFacts, CanvasLimits
<1>2. /\ edits[q].at = "idle" /\ UNCHANGED <<graph, version, shots, view, raced, lost>>
  BY DEF C!Load, C!Shoot, C!ReadCanvas, C!At
<1>3. PICK r : /\ C!Continue(q, r) /\ r \in C!ReqType
               /\ r.at \in {"load", "shoot", "rename"} /\ r.ver <= version /\ ~r.stale
               /\ r.at \in {"load", "shoot"} => r.todo = {"nodes", "edges"}
               /\ r.at = "rename" => r.todo = {}
               /\ r.copy = C!Idle.copy
  <2>1. CASE C!Load(q)
    <3>1. PICK r : r = [C!Idle EXCEPT !.at = "load", !.todo = {"nodes", "edges"}]
      OBVIOUS
    <3>2. r \in C!ReqType /\ r.at = "load" /\ r.ver = C!Idle.ver /\ r.stale = C!Idle.stale
          /\ r.todo = {"nodes", "edges"} /\ r.copy = C!Idle.copy
      BY <3>1, IdleTyped DEF C!ReqType
    <3>3. C!Continue(q, r)
      BY <2>1, <3>1 DEF C!Load
    <3>4. C!Idle.ver = 0 /\ C!Idle.stale = FALSE
      BY DEF C!Idle
    <3>5. QED  BY <1>1, <3>2, <3>3, <3>4
  <2>2. CASE C!Shoot(q)
    <3>1. PICK r : r = [C!Idle EXCEPT !.at = "shoot", !.ver = version,
                                      !.todo = {"nodes", "edges"}]
      OBVIOUS
    <3>2. r \in C!ReqType /\ r.at = "shoot" /\ r.ver = version /\ r.stale = C!Idle.stale
          /\ r.todo = {"nodes", "edges"} /\ r.copy = C!Idle.copy
      BY <1>1, <3>1, IdleTyped DEF C!ReqType
    <3>3. C!Continue(q, r)
      BY <2>2, <3>1 DEF C!Shoot
    <3>4. C!Idle.stale = FALSE
      BY DEF C!Idle
    <3>5. QED  BY <1>1, <3>2, <3>3, <3>4
  <2>3. CASE C!ReadCanvas(q)
    <3>1. PICK r : r = [C!Idle EXCEPT !.at = "rename", !.ver = version]
      OBVIOUS
    <3>2. r \in C!ReqType /\ r.at = "rename" /\ r.ver = version /\ r.stale = C!Idle.stale
          /\ r.todo = {} /\ r.copy = C!Idle.copy
      BY <1>1, <3>1, IdleTyped DEF C!ReqType
    <3>3. C!Continue(q, r)
      BY <2>3, <3>1 DEF C!ReadCanvas
    <3>4. C!Idle.stale = FALSE
      BY DEF C!Idle
    <3>5. QED  BY <1>1, <3>2, <3>3, <3>4
  <2>4. QED  BY <2>1, <2>2, <2>3
<1>4. edits'[q] = r /\ Others(q)
  BY <1>1, <1>2, <1>3, Continued
<1>5. VersionSide
  <2>1. Aside(q)
    BY <1>2, <1>3, <1>4 DEF Aside, Reserving, Changing, Timely
  <2>2. QED  BY <1>4, <2>1, AsidePaced
<1>6. ReadSound(edits'[q], graph)
  BY <1>3, <1>4, IdleTyped DEF ReadSound
<1>7. QED  BY <1>1, <1>2, <1>3, <1>4, <1>5, <1>6, StillStep

LEMMA ReadPartStep ==
    ASSUME CanvasInv, scope = "canvas", ~raced, ~lost, NEW q \in Clients,
           NEW part \in {"nodes", "edges"}, C!ReadPart(q, part)
    PROVE  CanvasInv'
<1> DEFINE a == edits[q]
<1>1. /\ Whole(graph) /\ C!Acyclic(graph.edges) /\ edits \in [Clients -> C!ReqType]
      /\ a \in C!ReqType /\ lost \in BOOLEAN /\ graph \in C!Graphs /\ a.copy \in C!Graphs
      /\ graph.nodes \in SUBSET Nodes /\ graph.edges \in SUBSET (Nodes \X Nodes)
      /\ ReadSound(a, graph) /\ Timely(a, version, UnderWay(edits))
  BY CanvasFacts DEF Whole, C!ReqType
<1>2. /\ part \in a.todo /\ UNCHANGED <<graph, version, shots, view, raced, lost>>
      /\ C!Continue(q, [a EXCEPT !.todo = @ \ {part}, !.copy[part] = graph[part]])
  BY DEF C!ReadPart
<1>3. a.at \in {"load", "shoot"}
  BY <1>1, <1>2 DEF ReadSound
<1>4. PICK x : x = [a.copy EXCEPT ![part] = graph[part]]
  OBVIOUS
<1>5. /\ x \in C!Graphs
      /\ part = "nodes" => x.nodes = graph.nodes /\ x.edges = a.copy.edges
      /\ part = "edges" => x.edges = graph.edges /\ x.nodes = a.copy.nodes
  <2>1. CASE part = "nodes"
    <3>1. x = [a.copy EXCEPT !.nodes = graph.nodes]
      BY <1>4, <2>1
    <3>2. QED  BY <1>1, <2>1, <3>1 DEF C!Graphs
  <2>2. CASE part = "edges"
    <3>1. x = [a.copy EXCEPT !.edges = graph.edges]
      BY <1>4, <2>2
    <3>2. QED  BY <1>1, <2>2, <3>1 DEF C!Graphs
  <2>3. QED  BY <2>1, <2>2
<1>6. PICK r : r = [a EXCEPT !.todo = a.todo \ {part}, !.copy = x]
  OBVIOUS
<1>7. /\ r \in C!ReqType /\ r.at = a.at /\ r.todo = a.todo \ {part} /\ r.copy = x
      /\ r.ver = a.ver /\ r.stale = a.stale
  BY <1>1, <1>5, <1>6 DEF C!ReqType
<1>8. C!Continue(q, r)
  BY <1>2, <1>4, <1>6
<1>9. edits'[q] = r /\ Others(q)
  BY <1>1, <1>2, <1>7, <1>8, Continued
<1>10. VersionSide
  <2>1. Timely(r, version, UnderWay(edits))
    BY <1>1, <1>3, <1>7 DEF Timely
  <2>2. Aside(q)
    BY <1>2, <1>3, <1>7, <1>9, <2>1 DEF Aside, Reserving, Changing
  <2>3. QED  BY <1>9, <2>2, AsidePaced
<1>11. ReadSound(r, graph)
  BY <1>1, <1>3, <1>5, <1>7 DEF ReadSound
<1>12. QED  BY <1>1, <1>2, <1>3, <1>7, <1>9, <1>10, <1>11, StillStep

LEMMA HydrateStep ==
    ASSUME CanvasInv, scope = "canvas", ~raced, ~lost, NEW q \in Clients, C!Hydrate(q)
    PROVE  CanvasInv'
<1> DEFINE a == edits[q]
           s == [nodes |-> a.copy.nodes, edges |-> a.copy.edges, behind |-> a.stale]
<1>1. /\ Whole(graph) /\ C!Acyclic(graph.edges) /\ edits \in [Clients -> C!ReqType]
      /\ a \in C!ReqType /\ raced \in BOOLEAN /\ lost \in BOOLEAN /\ graph \in C!Graphs
      /\ a.copy.nodes \in SUBSET Nodes /\ a.copy.edges \in SUBSET (Nodes \X Nodes)
      /\ a.stale \in BOOLEAN /\ ReadSound(a, graph)
  BY CanvasFacts DEF Whole, C!ReqType, C!Graphs
<1>2. /\ a.at = "load" /\ a.todo = {} /\ C!Show(q, s, FALSE) /\ C!End(q)
      /\ UNCHANGED <<graph, version, shots, raced, lost>>
  BY DEF C!Hydrate, C!At
<1>3. edits'[q] = C!Idle /\ Others(q)
  BY <1>1, <1>2, Ended
<1>4. VersionSide
  <2>1. Aside(q)
    BY <1>2, <1>3, IdleTyped DEF Aside, Changing, Reserving, Timely
  <2>2. QED  BY <1>3, <2>1, AsidePaced
<1>5. s \in C!Shown /\ s.behind = a.stale
  BY <1>1 DEF C!Shown
<1>6. ASSUME ~s.behind  PROVE C!Of(Answered(s, edits'[q])) = graph'
  <2>1. s.nodes = graph.nodes /\ s.edges = graph.edges
    BY <1>1, <1>2, <1>6 DEF ReadSound
  <2>2. Answered(s, edits'[q]) = s
    BY <1>3, IdleTyped DEF Answered
  <2>3. QED  BY <1>1, <1>2, <1>5, <2>1, <2>2, OfShown
<1>7. QED  BY <1>1, <1>2, <1>3, <1>4, <1>5, <1>6, IdleTyped, IdleSound, ShowStep

LEMMA SaveStep ==
    ASSUME CanvasInv, scope = "canvas", ~raced, ~lost, NEW q \in Clients,
           C!SaveShot(q) \/ C!SaveCanvas(q)
    PROVE  CanvasInv'
<1>1. /\ edits \in [Clients -> C!ReqType] /\ lost \in BOOLEAN
      /\ edits[q].at \in {"shoot", "rename"} /\ UNCHANGED <<graph, view, raced>> /\ C!End(q)
      /\ lost' \in BOOLEAN
  BY CanvasFacts DEF C!SaveShot, C!SaveCanvas, C!At
<1>2. edits'[q] = C!Idle /\ Others(q)
  BY <1>1, Ended
<1>3. VersionSide
  BY <1>2, SaveShotPaced, SaveCanvasPaced
<1>4. QED  BY <1>1, <1>2, <1>3, IdleTyped, IdleSound, StillStep

LEMMA RestoreStep ==
    ASSUME CanvasInv, scope = "canvas", ~raced, ~lost, NEW q \in Clients,
           NEW k \in 0..MaxVersion, C!Restore(q, k)
    PROVE  CanvasInv'
<1> DEFINE g == C!WithoutNodes(graph, Nodes)
           w == [view.now EXCEPT !.behind = TRUE]
<1>1. /\ Whole(graph) /\ C!Acyclic(graph.edges) /\ edits \in [Clients -> C!ReqType]
      /\ view.now \in C!Shown /\ raced \in BOOLEAN /\ lost \in BOOLEAN
      /\ graph \in C!Graphs /\ shots[k] \in C!Graphs \cup {None}
      /\ shots[k] # None => C!Acyclic(shots[k].edges)
  BY CanvasFacts DEF Whole
<1>2. PICK r : r = [C!Idle EXCEPT !.at = "clearedges", !.copy = shots[k]]
  OBVIOUS
<1>3. /\ C!MayChange(q) /\ edits[q].at = "idle" /\ shots[k] # None /\ C!Change(q, g, r)
      /\ C!Show(q, w, TRUE) /\ UNCHANGED <<version, shots, raced, lost>>
  BY <1>2 DEF C!Restore, C!MayChange, C!At
<1>4. /\ r \in C!ReqType /\ r.at = "clearedges" /\ r.copy = shots[k] /\ r.todo = {}
      /\ C!Acyclic(r.copy.edges)
  BY <1>1, <1>2, <1>3, IdleTyped DEF C!ReqType
<1>5. graph' = g /\ edits'[q] = r /\ Others(q)
  BY <1>1, <1>3, <1>4, Changed
<1>6. g \in C!Graphs /\ Whole(g) /\ g.edges \subseteq graph.edges
  BY <1>1 DEF C!Graphs, C!WithoutNodes, Whole
<1>7. C!Acyclic(g.edges)
  BY <1>1, <1>6, AcyclicSubset
<1>8. VersionSide
  BY <1>3, <1>4, <1>5, StatementPaced DEF Statement, Reserved, Changing
<1>9. ReadSound(edits'[q], graph')
  BY <1>4, <1>5 DEF ReadSound
<1>10. w \in C!Shown /\ w.behind
  BY <1>1, LeftBehind
<1>11. QED  BY <1>1, <1>3, <1>4, <1>5, <1>6, <1>7, <1>8, <1>9, <1>10, ShowStep

\* The later statements of a restore; whoever restores knows that it is behind.
LEMMA RestoreGoesOn ==
    ASSUME CanvasInv, scope = "canvas", ~raced, ~lost, NEW q \in Clients,
           edits[q].at \in {"clearedges", "putnodes", "putedges"},
           NEW g \in C!Graphs, Whole(g), C!Acyclic(g.edges) \/ raced', raced' \in BOOLEAN,
           NEW r \in C!ReqType, r.at \in Changing, ReadSound(r, g),
           C!Change(q, g, r), C!Show(q, C!Same, TRUE), UNCHANGED <<version, shots, lost>>
    PROVE  CanvasInv'
<1>1. /\ edits \in [Clients -> C!ReqType] /\ view.now \in C!Shown /\ lost \in BOOLEAN
      /\ C!Show(q, view.now, TRUE)
  BY CanvasFacts DEF C!Same
<1>2. graph' = g /\ edits'[q] = r /\ Others(q)
  BY <1>1, Changed
<1>3. VersionSide
  BY <1>2, StatementPaced DEF Statement, Reserved, Changing, Reserving
<1>4. q = Editor => view.now.behind
  BY EditorSees
<1>5. r.at # "push"
  BY DEF Changing
<1>6. QED  BY <1>1, <1>2, <1>3, <1>4, <1>5, ShowStep

LEMMA ClearEdgesStep ==
    ASSUME CanvasInv, scope = "canvas", ~raced, ~lost, NEW q \in Clients, C!ClearEdges(q)
    PROVE  CanvasInv'
<1>1. /\ Whole(graph) /\ edits[q] \in C!ReqType /\ graph \in C!Graphs
      /\ ReadSound(edits[q], graph) /\ raced \in BOOLEAN
  BY CanvasFacts DEF Whole
<1>2. PICK g : g = [graph EXCEPT !.edges = {}]
  OBVIOUS
<1>3. PICK r : r = [edits[q] EXCEPT !.at = "putnodes", !.stale = FALSE]
  OBVIOUS
<1>4. /\ edits[q].at = "clearedges" /\ C!Change(q, g, r) /\ C!Show(q, C!Same, TRUE)
      /\ UNCHANGED <<version, shots, raced, lost>>
  BY <1>2, <1>3 DEF C!ClearEdges, C!At
<1>5. g \in C!Graphs /\ Whole(g) /\ g.edges = {}
  BY <1>1, <1>2 DEF C!Graphs, Whole
<1>6. C!Acyclic(g.edges)
  BY <1>5, IdleTyped
<1>7. /\ r \in C!ReqType /\ r.at = "putnodes" /\ r.todo = edits[q].todo
      /\ r.copy = edits[q].copy
  BY <1>1, <1>3 DEF C!ReqType
<1>8. ReadSound(r, g)
  BY <1>1, <1>4, <1>5, <1>7 DEF ReadSound
<1>9. r.at \in Changing
  BY <1>7 DEF Changing
<1>10. QED  BY <1>1, <1>4, <1>5, <1>6, <1>7, <1>8, <1>9, RestoreGoesOn

LEMMA PutNodesStep ==
    ASSUME CanvasInv, scope = "canvas", ~raced, ~lost, NEW q \in Clients, C!PutNodes(q)
    PROVE  CanvasInv'
<1>1. /\ Whole(graph) /\ edits[q] \in C!ReqType /\ graph \in C!Graphs
      /\ C!Acyclic(graph.edges) /\ edits[q].copy \in C!Graphs
      /\ ReadSound(edits[q], graph) /\ raced \in BOOLEAN
  BY CanvasFacts DEF Whole, C!ReqType
<1>2. PICK g : g = [graph EXCEPT !.nodes = @ \cup edits[q].copy.nodes]
  OBVIOUS
<1>3. PICK r : r = [edits[q] EXCEPT !.at = "putedges"]
  OBVIOUS
<1>4. /\ edits[q].at = "putnodes" /\ C!Change(q, g, r) /\ C!Show(q, C!Same, TRUE)
      /\ UNCHANGED <<version, shots, raced, lost>>
  BY <1>2, <1>3 DEF C!PutNodes, C!At
<1>5. g \in C!Graphs /\ Whole(g) /\ g.edges = graph.edges
  BY <1>1, <1>2 DEF C!Graphs, Whole
<1>6. /\ r \in C!ReqType /\ r.at = "putedges" /\ r.todo = edits[q].todo
      /\ r.copy = edits[q].copy /\ r.stale = edits[q].stale
  BY <1>1, <1>3 DEF C!ReqType
<1>7. ReadSound(r, g)
  BY <1>1, <1>4, <1>5, <1>6 DEF ReadSound
<1>8. r.at \in Changing
  BY <1>6 DEF Changing
<1>9. QED  BY <1>1, <1>4, <1>5, <1>6, <1>7, <1>8, RestoreGoesOn

LEMMA PutEdgesStep ==
    ASSUME CanvasInv, scope = "canvas", ~raced, ~lost, NEW q \in Clients, C!PutEdges(q)
    PROVE  CanvasInv'
<1> DEFINE a == edits[q]
           E == a.copy.edges
<1>1. /\ Whole(graph) /\ a \in C!ReqType /\ graph \in C!Graphs
      /\ C!Acyclic(graph.edges) /\ E \in SUBSET (Nodes \X Nodes)
      /\ ReadSound(a, graph) /\ C!Acyclic(E) /\ raced \in BOOLEAN /\ lost \in BOOLEAN
      /\ edits \in [Clients -> C!ReqType]
  BY CanvasFacts DEF Whole, C!ReqType, C!Graphs, ReadSound
<1>2. PICK g : g = [graph EXCEPT !.edges = @ \cup E]
  OBVIOUS
<1>3. a.at = "putedges" /\ UNCHANGED <<version, shots>>
  BY DEF C!PutEdges, C!At
<1>4. ASSUME \A e \in E : {e[1], e[2]} \subseteq graph.nodes /\ e \notin graph.edges,
             C!Change(q, g, [C!Idle EXCEPT !.at = "bump"]), C!Show(q, C!Same, TRUE),
             raced' = (raced \/ (a.stale /\ ~C!Acyclic(g.edges))), UNCHANGED lost
      PROVE  CanvasInv'
  <2>1. g \in C!Graphs /\ g.nodes = graph.nodes /\ g.edges = graph.edges \cup E
    BY <1>1, <1>2 DEF C!Graphs
  <2>2. Whole(g)
    BY <1>1, <1>4, <2>1 DEF Whole
  <2>3. C!Acyclic(g.edges) \/ raced'
    <3>1. CASE a.stale
      BY <1>4, <3>1
    <3>2. CASE ~a.stale
      <4>1. graph.edges = {}
        BY <1>1, <1>3, <3>2 DEF ReadSound
      <4>2. g.edges = E
        BY <2>1, <4>1
      <4>3. QED  BY <1>1, <4>2
    <3>3. QED  BY <3>1, <3>2
  <2>4. /\ BumpReq(None) \in C!ReqType /\ BumpReq(None).at \in Changing
        /\ ReadSound(BumpReq(None), g) /\ C!Change(q, g, BumpReq(None))
    BY <1>4, BumpTyped, BumpNone DEF Changing
  <2>5. raced' \in BOOLEAN
    BY <1>1, <1>4
  <2>6. QED  BY <1>3, <1>4, <2>1, <2>2, <2>3, <2>4, <2>5, RestoreGoesOn
<1>5. ASSUME C!End(q), lost' = TRUE, UNCHANGED <<graph, view, raced>>
      PROVE  CanvasInv'
  <2>1. edits'[q] = C!Idle /\ Others(q)
    BY <1>1, <1>5, Ended
  <2>2. VersionSide
    BY <1>3, <1>5, <2>1, IdleTyped, CutOffPaced DEF CutOff
  <2>3. QED  BY <1>1, <1>3, <1>5, <2>1, <2>2, IdleTyped, IdleSound, StillStep
<1>6. QED  BY <1>2, <1>4, <1>5 DEF C!PutEdges

LEMMA CrashStep ==
    ASSUME CanvasInv, scope = "canvas", ~raced, ~lost, NEW q \in Clients, C!Crash(q)
    PROVE  CanvasInv'
<1> DEFINE w == [view.now EXCEPT !.behind = TRUE]
<1>1. /\ Whole(graph) /\ C!Acyclic(graph.edges) /\ edits \in [Clients -> C!ReqType]
      /\ view.now \in C!Shown /\ raced \in BOOLEAN
  BY CanvasFacts
<1>2. /\ C!Show(q, w, FALSE) /\ C!End(q) /\ lost' = TRUE
      /\ UNCHANGED <<graph, version, shots, raced>>
  BY DEF C!Crash
<1>3. edits'[q] = C!Idle /\ Others(q)
  BY <1>1, <1>2, Ended
<1>4. VersionSide
  BY <1>2, <1>3, IdleTyped, CutOffPaced DEF CutOff
<1>5. w \in C!Shown /\ w.behind
  BY <1>1, LeftBehind
<1>6. QED  BY <1>1, <1>2, <1>3, <1>4, <1>5, IdleTyped, IdleSound, ShowStep

LEMMA CanvasInit == Init => CanvasInv
<1> SUFFICES ASSUME Init, scope = "canvas"  PROVE CanvasInv
  BY DEF CanvasInv
<1>1. C!Init
  BY DEF Init
<1>2. /\ graph \in C!Graphs /\ graph.nodes = Nodes /\ C!Acyclic(graph.edges) /\ version = 0
      /\ shots = [k \in 0..MaxVersion |-> None] /\ edits = [q \in Clients |-> C!Idle]
      /\ raced = FALSE /\ lost = FALSE
  BY <1>1 DEF C!Init
<1>3. PICK s : s = [nodes |-> graph.nodes, edges |-> graph.edges, behind |-> FALSE]
  OBVIOUS
<1>4. view = [now |-> s, past |-> s]
  BY <1>1, <1>3 DEF C!Init
<1>5. s \in C!Shown /\ ~s.behind /\ s.nodes = graph.nodes /\ s.edges = graph.edges
  BY <1>2, <1>3 DEF C!Graphs, C!Shown
<1>6. Whole(graph) /\ graph = C!Kept(graph)
  <2>1. Whole(graph)
    BY <1>2 DEF Whole, C!Graphs
  <2>2. QED  BY <1>2, <2>1, WholeKept
<1>7. \A q \in Clients : edits[q] = C!Idle
  BY <1>2
<1>8. 0 \in 0..MaxVersion /\ MaxVersion \in Nat
  BY CanvasLimits
<1>9. CanvasTyped
  BY <1>2, <1>4, <1>5, <1>6, <1>8, IdleTyped DEF CanvasTyped, C!TypeOK
<1>10. \A q \in Clients : ReadSound(edits[q], graph) /\ Timely(edits[q], version, UnderWay(edits))
  BY <1>7, IdleTyped, IdleSound DEF Timely
<1>11. version + Cardinality(Busy(edits)) <= MaxVersion
  <2>1. \A q \in Clients : edits[q].at = "idle"
    BY <1>7, IdleTyped
  <2>2. Busy(edits) = {}
    BY <2>1 DEF Busy, Reserving, Changing
  <2>3. Cardinality({}) = 0
    BY FS_EmptySet
  <2>4. Cardinality(Busy(edits)) = 0
    BY <2>2, <2>3
  <2>5. QED  BY <1>2, <1>8, <2>4
<1>12. ViewSound(view, edits[Editor], graph)
  <2>1. C!Of(s) = graph
    BY <1>2, <1>5, OfShown
  <2>2. QED  BY <1>2, <1>4, <1>5, <1>7, <2>1, IdleTyped, CanvasLimits DEF ViewSound, Answered
<1>13. ShotsSound(shots, version, graph, UnderWay(edits))
  BY <1>2, <1>8 DEF ShotsSound
<1>14. QED
  BY <1>2, <1>9, <1>10, <1>11, <1>12, <1>13 DEF CanvasInv, C!AcyclicUnlessRaced

LEMMA CanvasCorrect == Spec => []CanvasInv
<1>1. Init => CanvasInv
  BY CanvasInit
<1>2. CanvasInv /\ [Next]_vars => CanvasInv'
  <2> SUFFICES ASSUME CanvasInv, [Next]_vars, scope = "canvas", scope' = scope
               PROVE  CanvasInv'
    BY OneMoves DEF CanvasInv
  <2>1. CASE CanvasMoves
    <3>1. ~raced /\ ~lost /\ C!Next
      BY <2>1 DEF CanvasMoves
    <3>2. QED
      BY <3>1, CreateNodeStep, RemoveNodeStep, CheckEdgeStep, RemoveEdgeStep, BatchStep,
         SaveEdgeStep, BumpStep, UndoStep, PushStep, ReadingStep, HydrateStep, SaveStep,
         ReadPartStep, RestoreStep, ClearEdgesStep, PutNodesStep, PutEdgesStep, CrashStep
      DEF C!Next
  <2>2. CASE UNCHANGED canvasVars
    BY <2>2 DEF canvasVars, CanvasInv, CanvasTyped, C!TypeOK, C!AcyclicUnlessRaced,
                Busy, UnderWay
  <2>3. CanvasMoves \/ UNCHANGED canvasVars
    BY DEF Next, vars, CanvasMoves, WritebackMoves, PollingMoves, UploadsMoves,
           RegistryMoves, RunnerMoves, ChatMoves
  <2>4. QED  BY <2>1, <2>2, <2>3
<1>3. QED  BY <1>1, <1>2, PTL DEF Spec

\* The graph of a canvas has no cycle unless the write that closed it comes from a
\* check, or a client, that another request has overtaken: createEdge's
\* assertNoCycle, batches, restore and replace of api:canvas.
THEOREM AcyclicCorrect == Spec => []AcyclicUnlessRaced
<1>1. CanvasInv => AcyclicUnlessRaced
  BY DEF CanvasInv, AcyclicUnlessRaced
<1>2. QED  BY <1>1, CanvasCorrect, PTL

\* A snapshot of the current version is the current graph while no change is under
\* way, and an editor that nobody interferes with shows the server's graph after
\* every request, undo and redo included: SnapshotService.create and the sync of
\* web:canvas.
THEOREM CanvasAgreesCorrect == Spec => []CanvasAgrees
<1>1. CanvasInv => CanvasAgrees
  <2> SUFFICES ASSUME CanvasInv, scope = "canvas"
               PROVE  C!SnapshotCurrent /\ C!SoleEditorAgrees
    BY DEF CanvasAgrees
  <2>1. C!SnapshotCurrent
    BY CanvasFacts DEF ShotsSound, UnderWay, Changing, C!SnapshotCurrent
  <2>2. C!SoleEditorAgrees
    <3> SUFFICES ASSUME edits[Editor].at = "idle", ~view.now.behind
                 PROVE  C!Of(view.now) = graph
      BY DEF C!SoleEditorAgrees, C!At
    <3>1. view.now \in C!Shown /\ graph \in C!Graphs
      BY CanvasFacts DEF Whole
    <3>2. QED  BY <3>1, EditorSees, OfShown
  <2>3. QED  BY <2>1, <2>2
<1>2. QED  BY <1>1, CanvasCorrect, PTL

(***************************************************************************)
(* Chat.                                                                   *)
(***************************************************************************)
TurnType ==
    [at : {"none", "resolve", "ask", "history", "begin", "stream", "save", "touch", "over", "dead"},
     kind : {"stream", "send"}, conv : Convs \cup {None},
     row : {"none", "pending", "success", "error"},
     failed : BOOLEAN, sent : Seq({"meta", "delta", "last"}), cut : BOOLEAN]
MessageType == [conv : Convs, turn : Turns, role : {"user", "assistant"}, ok : BOOLEAN]
LoadType == [conv : Convs, current : BOOLEAN]

\* What a turn with record r has recorded and told its caller: gone are the
\* conversations that were deleted.
TurnSound(r, cs, gone) ==
    /\ r.at \in {"none", "resolve", "ask", "history", "begin"} => r.row = "none"
    /\ r.at = "stream" => r.row \in {"pending", "error"}
    /\ r.at \in {"save", "touch"} => (r.failed <=> r.row # "success")
    /\ r.at \in {"ask", "history", "begin", "stream", "save", "touch"} =>
          r.conv \in Convs /\ r.conv \in cs \cup gone

\* A message is one of a turn that has come as far, and says what the ledger says.
MessageSound(a, r) ==
    /\ a.conv = r.conv /\ r.at \notin {"none", "resolve", "ask"}
    /\ a.role = "assistant" => /\ r.at \in {"touch", "over", "dead"}
                               /\ a.ok <=> r.row = "success"
Replied(t, as) == \E a \in as : a.turn = t /\ a.role = "assistant"

Replies ==
    /\ convs \subseteq Convs /\ deleted \subseteq Convs /\ messages \subseteq MessageType
    /\ turn \in [Turns -> TurnType] /\ page \in H!Page /\ loads \subseteq LoadType
    /\ \A t \in Turns : TurnSound(turn[t], convs, deleted)
    /\ \A a \in messages : MessageSound(a, turn[a.turn])
    /\ \A t \in Turns :
          turn[t].at \in {"touch", "over"} /\ turn[t].row = "success" =>
              turn[t].conv \in deleted \/ Replied(t, messages)
RepliesInv == scope \in {"replies", "chat page"} => Replies

\* While the user has not left a conversation without a name or messages: the page
\* waits for the messages of the conversation it is in, or shows no other.
Awaits == \E x \in loads : x.current
ShowsOwn(q) ==
    \A s \in q.shown : IF s \in Convs THEN s = q.conv ELSE q.told[s] \in {None, q.conv}
PageSound ==
    /\ page.sending = None => page.route = page.conv
    /\ \A x \in loads : x.current => x.conv = page.conv /\ x.conv = page.route
    /\ H!Nameless => page.route = None /\ page.conv = None
    /\ Awaits \/ ShowsOwn(page)
PageInv == scope \in {"replies", "chat page"} /\ ~left => PageSound

LEMMA SettlesTyped ==
    ASSUME NEW q \in H!Page, NEW ls \in SUBSET LoadType, H!Settles(q, ls)
    PROVE  page' \in H!Page /\ loads' \subseteq LoadType
<1>1. H!Stale(ls) \subseteq LoadType
  BY DEF H!Stale, LoadType
<1>2. CASE q.route = None
  BY <1>1, <1>2 DEF H!Settles, H!Page
<1>3. CASE q.route # None
  <2>1. q.route \in Convs
    BY <1>3 DEF H!Page
  <2>2. [conv |-> q.route, current |-> TRUE] \in LoadType
    BY <2>1 DEF LoadType
  <2>3. [q EXCEPT !.conv = q.route] \in H!Page
    BY <2>1 DEF H!Page
  <2>4. QED  BY <1>1, <1>3, <2>2, <2>3 DEF H!Settles
<1>4. QED  BY <1>2, <1>3

\* One turn moves from the record it has to s.
LEMMA TurnMoves ==
    ASSUME Replies, NEW t \in Turns, NEW s \in TurnType, turn' = [turn EXCEPT ![t] = s],
           messages' = messages, deleted' = deleted, convs \subseteq convs', convs' \subseteq Convs,
           page' \in H!Page, loads' \subseteq LoadType,
           TurnSound(s, convs', deleted),
           \A a \in messages : a.turn = t => MessageSound(a, s),
           s.at \in {"touch", "over"} /\ s.row = "success" =>
               s.conv \in deleted \/ Replied(t, messages)
    PROVE  Replies'
<1>1. turn' \in [Turns -> TurnType] /\ turn'[t] = s
  BY DEF Replies
<1>2. \A k \in Turns : k # t => turn'[k] = turn[k]
  BY DEF Replies
<1>3. \A k \in Turns : TurnSound(turn'[k], convs', deleted')
  <2>1. ASSUME NEW k \in Turns, k # t  PROVE TurnSound(turn[k], convs', deleted')
    BY <2>1 DEF Replies, TurnSound
  <2>2. QED  BY <1>1, <1>2, <2>1
<1>4. \A a \in messages' : MessageSound(a, turn'[a.turn])
  <2>1. \A a \in messages : a.turn \in Turns
    BY DEF Replies, MessageType
  <2>2. QED  BY <1>1, <1>2, <2>1 DEF Replies
<1>5. \A k \in Turns :
          turn'[k].at \in {"touch", "over"} /\ turn'[k].row = "success" =>
              turn'[k].conv \in deleted' \/ Replied(k, messages')
  BY <1>1, <1>2 DEF Replies
<1>6. QED  BY <1>1, <1>3, <1>4, <1>5 DEF Replies

\* A yield: the turn goes on or, with its browser gone, is over.
LEMMA YieldStep ==
    ASSUME Replies, NEW t \in Turns, NEW e \in {"meta", "delta", "last"},
           NEW n \in {"begin", "stream", "over"}, H!Yields(t, e, n),
           messages' = messages, deleted' = deleted, convs \subseteq convs', convs' \subseteq Convs,
           page' = page, loads' = loads,
           turn[t].at \in {"resolve", "ask", "history", "stream", "save", "touch"},
           n # "over" => turn[t].at = (IF n = "begin" THEN "history" ELSE "stream"),
           turn[t].row = "success" => turn[t].conv \in deleted \/ Replied(t, messages),
           \A a \in messages : a.turn = t => a.role # "assistant" \/ turn[t].at = "touch"
    PROVE  Replies'
<1>1. turn[t] \in TurnType /\ TurnSound(turn[t], convs, deleted)
  BY DEF Replies
<1>2. PICK s : s = IF turn[t].kind = "send" THEN [turn[t] EXCEPT !.at = n]
                   ELSE IF turn[t].cut THEN [turn[t] EXCEPT !.at = "over"]
                   ELSE [turn[t] EXCEPT !.at = n, !.sent = Append(@, e)]
  OBVIOUS
<1>3. turn' = [turn EXCEPT ![t] = s]
  BY <1>2 DEF H!Yields
<1>4. Append(turn[t].sent, e) \in Seq({"meta", "delta", "last"})
  BY <1>1 DEF TurnType
<1>5. s \in TurnType /\ s.at \in {n, "over"} /\ s.conv = turn[t].conv /\ s.row = turn[t].row
      /\ s.failed = turn[t].failed
  BY <1>1, <1>2, <1>4 DEF TurnType
<1>6. TurnSound(s, convs', deleted)
  BY <1>1, <1>5 DEF TurnSound
<1>7. \A a \in messages : a.turn = t => MessageSound(a, s)
  BY <1>5 DEF Replies, MessageSound
<1>8. QED  BY <1>3, <1>5, <1>6, <1>7, TurnMoves DEF Replies

LEMMA ResolveStep ==
    ASSUME Replies, NEW t \in Turns, H!ResolveConversation(t)  PROVE Replies'
<1>1. turn[t] \in TurnType /\ TurnSound(turn[t], convs, deleted) /\ turn[t].at = "resolve"
  BY DEF Replies, H!ResolveConversation
<1>2. /\ messages' = messages /\ deleted' = deleted /\ page' = page /\ loads' = loads
      /\ page' \in H!Page /\ loads' \subseteq LoadType
  BY DEF Replies, H!ResolveConversation, H!ServerOnly
<1>3. \A a \in messages : a.turn # t
  BY <1>1 DEF Replies, MessageSound
<1>4. ASSUME NEW k \in Convs, k \in convs', convs \subseteq convs', convs' \subseteq Convs,
             turn' = [turn EXCEPT ![t].conv = k, ![t].at = "ask"]
      PROVE  Replies'
  <2>1. PICK s : s = [turn[t] EXCEPT !.conv = k, !.at = "ask"]
    OBVIOUS
  <2>2. turn' = [turn EXCEPT ![t] = s]
    BY <1>4, <2>1 DEF Replies
  <2>3. s \in TurnType /\ s.at = "ask" /\ s.conv = k /\ s.row = "none"
    BY <1>1, <2>1 DEF TurnType, TurnSound
  <2>4. TurnSound(s, convs', deleted)
    BY <1>4, <2>3 DEF TurnSound
  <2>5. QED  BY <1>2, <1>3, <1>4, <2>2, <2>3, <2>4, TurnMoves
<1>5. CASE turn[t].conv \notin convs \cup {None} /\ H!Throws(t) /\ UNCHANGED convs
  <2>1. H!Yields(t, "last", "over")
    BY <1>5 DEF H!Throws
  <2>2. turn[t].row # "success"
    BY <1>1 DEF TurnSound
  <2>3. convs \subseteq convs' /\ convs' \subseteq Convs
    BY <1>5 DEF Replies
  <2>4. QED  BY <1>1, <1>2, <1>3, <2>1, <2>2, <2>3, YieldStep
<1>6. CASE turn[t].conv \in convs /\ H!Goes(t, "ask") /\ UNCHANGED convs
  <2>1. turn' = [turn EXCEPT ![t].conv = turn[t].conv, ![t].at = "ask"]
    BY <1>1, <1>6 DEF H!Goes, Replies, TurnType
  <2>2. QED  BY <1>4, <1>6, <2>1 DEF Replies
<1>7. CASE \E k \in Convs \ (convs \cup deleted) :
              convs' = convs \cup {k} /\ turn' = [turn EXCEPT ![t].conv = k, ![t].at = "ask"]
  <2>1. PICK k \in Convs : convs' = convs \cup {k} /\ turn' = [turn EXCEPT ![t].conv = k, ![t].at = "ask"]
    BY <1>7
  <2>2. convs \subseteq convs' /\ convs' \subseteq Convs /\ k \in convs'
    BY <2>1 DEF Replies
  <2>3. QED  BY <1>4, <2>1, <2>2
<1>8. QED  BY <1>5, <1>6, <1>7 DEF H!ResolveConversation

\* A turn that stores a message and goes on, or finds its conversation deleted.
LEMMA StoreStep ==
    ASSUME Replies, NEW t \in Turns, NEW role \in {"user", "assistant"}, NEW ok \in BOOLEAN,
           NEW n \in {"history", "touch"},
           turn[t].at = (IF role = "user" THEN "ask" ELSE "save"),
           n = (IF role = "user" THEN "history" ELSE "touch"),
           role = "assistant" => (ok <=> turn[t].row = "success"),
           IF turn[t].conv \in convs
           THEN messages' = messages \cup {H!Message(t, role, ok)} /\ H!Goes(t, n)
           ELSE H!Throws(t) /\ UNCHANGED messages,
           page' = page, loads' = loads, deleted' = deleted, convs' = convs
    PROVE  Replies'
<1>1. turn[t] \in TurnType /\ TurnSound(turn[t], convs, deleted)
      /\ turn[t].conv \in Convs /\ turn[t].conv \in convs \cup deleted
  BY DEF Replies, TurnSound
<1>2. \A a \in messages : a.turn = t => a.role # "assistant"
  BY DEF Replies, MessageSound
<1>3. convs \subseteq convs' /\ convs' \subseteq Convs
  BY DEF Replies
<1>4. CASE turn[t].conv \notin convs
  <2>1. H!Yields(t, "last", "over") /\ messages' = messages
    BY <1>4 DEF H!Throws
  <2>2. turn[t].conv \in deleted
    BY <1>1, <1>4
  <2>3. QED  BY <1>1, <1>2, <1>3, <2>1, <2>2, YieldStep
<1>5. CASE turn[t].conv \in convs
  <2>1. PICK s : s = [turn[t] EXCEPT !.at = n]
    OBVIOUS
  <2>2. turn' = [turn EXCEPT ![t] = s]
    BY <1>5, <2>1 DEF H!Goes, Replies
  <2>3. s \in TurnType /\ s.at = n /\ s.conv = turn[t].conv /\ s.row = turn[t].row
        /\ s.failed = turn[t].failed
    BY <1>1, <2>1 DEF TurnType
  <2>4. turn' \in [Turns -> TurnType] /\ turn'[t] = s /\ \A k \in Turns \ {t} : turn'[k] = turn[k]
    BY <2>2, <2>3 DEF Replies
  <2>5. PICK x : x = H!Message(t, role, ok)
    OBVIOUS
  <2>6. x \in MessageType /\ x.conv = turn[t].conv /\ x.turn = t /\ x.role = role /\ x.ok = ok
    BY <1>1, <2>5 DEF H!Message, MessageType
  <2>7. messages' = messages \cup {x}
    BY <1>5, <2>5
  <2>8. \A k \in Turns : TurnSound(turn'[k], convs', deleted')
    BY <1>1, <2>3, <2>4 DEF Replies, TurnSound
  <2>9. MessageSound(x, s)
    BY <2>3, <2>6 DEF MessageSound
  <2>10. \A a \in messages : a.turn = t => MessageSound(a, s)
    BY <1>2, <2>3 DEF Replies, MessageSound
  <2>11. \A a \in messages : a.turn \in Turns /\ MessageSound(a, turn[a.turn])
    BY DEF Replies, MessageType
  <2>12. \A a \in messages' : MessageSound(a, turn'[a.turn])
    BY <2>4, <2>6, <2>7, <2>9, <2>10, <2>11
  <2>13. \A k \in Turns : Replied(k, messages) => Replied(k, messages')
    BY <2>7 DEF Replied
  <2>14. n = "touch" => Replied(t, messages')
    BY <2>6, <2>7 DEF Replied
  <2>15. \A k \in Turns :
             turn'[k].at \in {"touch", "over"} /\ turn'[k].row = "success" =>
                 turn'[k].conv \in deleted' \/ Replied(k, messages')
    BY <2>3, <2>4, <2>13, <2>14 DEF Replies
  <2>16. QED
    BY <1>3, <2>4, <2>6, <2>7, <2>8, <2>12, <2>15 DEF Replies
<1>6. QED  BY <1>4, <1>5

LEMMA ServerSteps ==
    ASSUME Replies, NEW t \in Turns,
           \/ H!SaveUserMessage(t) \/ H!TellConversation(t) \/ H!Begin(t) \/ H!Delta(t)
           \/ H!StreamEnds(t) \/ H!SaveReply(t) \/ H!TouchConversation(t) \/ H!Sweep(t)
           \/ H!SendPlain(t)
    PROVE  Replies'
<1>1. turn[t] \in TurnType /\ TurnSound(turn[t], convs, deleted)
  BY DEF Replies
<1>2. /\ page' = page /\ loads' = loads /\ deleted' = deleted
      /\ page' \in H!Page /\ loads' \subseteq LoadType
  BY DEF Replies, H!SaveUserMessage, H!TellConversation, H!Begin, H!Delta, H!StreamEnds, H!SaveReply,
         H!TouchConversation, H!Sweep, H!SendPlain, H!ServerOnly
<1>3. ASSUME NEW s \in TurnType, turn' = [turn EXCEPT ![t] = s], UNCHANGED <<convs, messages>>,
             s.conv = turn[t].conv \/ turn[t].at \in {"none", "resolve", "ask"},
             s.row = "success" => s.at = "save" \/ (s.at = turn[t].at /\ s.row = turn[t].row),
             turn[t].row = "success" => s.row = "success",
             TurnSound(s, convs, deleted),
             turn[t].at \in {"touch", "over", "dead"} => s.at = turn[t].at,
             turn[t].at \notin {"none", "resolve", "ask"} => s.at \notin {"none", "resolve", "ask"}
      PROVE  Replies'
  <2>1. convs \subseteq convs' /\ convs' \subseteq Convs /\ messages' = messages
    BY <1>3 DEF Replies
  <2>2. \A a \in messages : a.turn = t => MessageSound(a, s)
    BY <1>1, <1>3 DEF Replies, MessageSound
  <2>3. s.at \in {"touch", "over"} /\ s.row = "success" => s.conv \in deleted \/ Replied(t, messages)
    BY <1>1, <1>3 DEF Replies
  <2>4. TurnSound(s, convs', deleted)
    BY <1>3
  <2>5. QED  BY <1>2, <1>3, <2>1, <2>2, <2>3, <2>4, TurnMoves
<1>4. CASE H!SaveUserMessage(t)
  <2>1. /\ turn[t].at = "ask" /\ convs' = convs
        /\ IF turn[t].conv \in convs
           THEN messages' = messages \cup {H!Message(t, "user", TRUE)} /\ H!Goes(t, "history")
           ELSE H!Throws(t) /\ UNCHANGED messages
    BY <1>4 DEF H!SaveUserMessage
  <2>2. QED  BY <1>2, <2>1, StoreStep
<1>5. CASE H!TellConversation(t)
  <2>1. turn[t].at = "history" /\ H!Yields(t, "meta", "begin") /\ UNCHANGED <<convs, messages>>
    BY <1>5 DEF H!TellConversation
  <2>2. turn[t].row = "none" /\ \A a \in messages : a.turn = t => a.role # "assistant"
    BY <1>1, <2>1 DEF TurnSound, Replies, MessageSound
  <2>3. convs \subseteq convs' /\ convs' \subseteq Convs
    BY <2>1 DEF Replies
  <2>4. QED  BY <1>2, <2>1, <2>2, <2>3, YieldStep
<1>6. CASE H!Begin(t)
  <2>1. turn[t].at = "begin" /\ UNCHANGED <<convs, messages>>
    BY <1>6 DEF H!Begin
  <2>2. CASE turn' = [turn EXCEPT ![t].row = "pending", ![t].at = "stream"]
    <3>1. PICK s : s = [turn[t] EXCEPT !.row = "pending", !.at = "stream"]
      OBVIOUS
    <3>2. turn' = [turn EXCEPT ![t] = s]
      BY <2>2, <3>1 DEF Replies
    <3>3. s \in TurnType /\ s.row = "pending" /\ s.at = "stream" /\ s.conv = turn[t].conv
      BY <1>1, <3>1 DEF TurnType
    <3>4. TurnSound(s, convs, deleted) /\ turn[t].row # "success"
      BY <1>1, <2>1, <3>3 DEF TurnSound
    <3>5. QED  BY <1>3, <2>1, <3>2, <3>3, <3>4
  <2>3. ASSUME NEW w \in {"none", "error", "pending"},
               turn' = [turn EXCEPT ![t].row = w, ![t].failed = TRUE, ![t].at = "save"]
        PROVE  Replies'
    <3>1. PICK s : s = [turn[t] EXCEPT !.row = w, !.failed = TRUE, !.at = "save"]
      OBVIOUS
    <3>2. turn' = [turn EXCEPT ![t] = s]
      BY <2>3, <3>1 DEF Replies
    <3>3. s \in TurnType /\ s.row = w /\ s.at = "save" /\ s.conv = turn[t].conv /\ s.failed = TRUE
      BY <1>1, <3>1 DEF TurnType
    <3>4. TurnSound(s, convs, deleted) /\ turn[t].row # "success"
      BY <1>1, <2>1, <3>3 DEF TurnSound
    <3>5. QED  BY <1>3, <2>1, <3>2, <3>3, <3>4
  <2>4. QED  BY <1>6, <2>2, <2>3 DEF H!Begin
<1>7. CASE H!Delta(t)
  <2>1. turn[t].at = "stream" /\ H!Yields(t, "delta", "stream") /\ UNCHANGED <<convs, messages>>
    BY <1>7 DEF H!Delta
  <2>2. turn[t].row # "success" /\ \A a \in messages : a.turn = t => a.role # "assistant"
    BY <1>1, <2>1 DEF TurnSound, Replies, MessageSound
  <2>3. convs \subseteq convs' /\ convs' \subseteq Convs
    BY <2>1 DEF Replies
  <2>4. QED  BY <1>2, <2>1, <2>2, <2>3, YieldStep
<1>8. CASE H!StreamEnds(t)
  <2>1. turn[t].at = "stream" /\ UNCHANGED <<convs, messages>>
    BY <1>8 DEF H!StreamEnds
  <2>2. PICK x \in H!Outcomes(turn[t].row) :
            turn' = [turn EXCEPT ![t].row = x.row, ![t].failed = x.failed, ![t].at = "save"]
    BY <1>8 DEF H!StreamEnds
  <2>3. /\ x.row \in {"pending", "success", "error"} /\ x.failed \in BOOLEAN
        /\ x.failed <=> x.row # "success"
    <3>1. turn[t].row \in {"pending", "error"}
      BY <1>1, <2>1 DEF TurnSound
    <3>2. \/ x = [row |-> turn[t].row, failed |-> TRUE]
          \/ x = [row |-> "success", failed |-> FALSE]
          \/ x = [row |-> "error", failed |-> TRUE]
      BY <2>2 DEF H!Outcomes
    <3>3. ASSUME x.failed = TRUE, x.row \in {"pending", "error"}
          PROVE  /\ x.row \in {"pending", "success", "error"} /\ x.failed \in BOOLEAN
                 /\ x.failed <=> x.row # "success"
      <4>1. x.row # "success"
        BY <3>3
      <4>2. QED  BY <3>3, <4>1
    <3>4. CASE x = [row |-> "success", failed |-> FALSE]
      <4>1. x.row = "success" /\ x.failed = FALSE
        BY <3>4
      <4>2. QED  BY <4>1
    <3>5. x = [row |-> "success", failed |-> FALSE]
          \/ (x.failed = TRUE /\ x.row \in {"pending", "error"})
      BY <3>1, <3>2
    <3>6. QED  BY <3>3, <3>4, <3>5
  <2>4. PICK s : s = [turn[t] EXCEPT !.row = x.row, !.failed = x.failed, !.at = "save"]
    OBVIOUS
  <2>5. turn' = [turn EXCEPT ![t] = s]
    BY <2>2, <2>4 DEF Replies
  <2>6. s \in TurnType /\ s.row = x.row /\ s.at = "save" /\ s.conv = turn[t].conv /\ s.failed = x.failed
    BY <1>1, <2>3, <2>4 DEF TurnType
  <2>7. TurnSound(s, convs, deleted) /\ turn[t].row # "success"
    BY <1>1, <2>1, <2>3, <2>6 DEF TurnSound
  <2>8. QED  BY <1>3, <2>1, <2>5, <2>6, <2>7
<1>9. CASE H!SaveReply(t)
  <2>1. /\ turn[t].at = "save" /\ convs' = convs
        /\ IF turn[t].conv \in convs
           THEN messages' = messages \cup {H!Message(t, "assistant", ~turn[t].failed)} /\ H!Goes(t, "touch")
           ELSE H!Throws(t) /\ UNCHANGED messages
    BY <1>9 DEF H!SaveReply
  <2>2. ~turn[t].failed <=> turn[t].row = "success"
    BY <1>1, <2>1 DEF TurnSound, TurnType
  <2>3. QED  BY <1>2, <2>1, <2>2, StoreStep
<1>10. CASE H!TouchConversation(t)
  <2>1. /\ turn[t].at = "touch" /\ H!Yields(t, "last", "over") /\ messages' = messages
        /\ convs' = convs \cup {turn[t].conv}
    BY <1>10 DEF H!TouchConversation
  <2>2. convs \subseteq convs' /\ convs' \subseteq Convs
    BY <1>1, <2>1 DEF Replies, TurnSound
  <2>3. turn[t].row = "success" => turn[t].conv \in deleted \/ Replied(t, messages)
    BY <2>1 DEF Replies
  <2>4. QED  BY <1>2, <2>1, <2>2, <2>3, YieldStep
<1>11. CASE H!Sweep(t)
  <2>1. turn[t].row = "pending" /\ UNCHANGED <<convs, messages>>
        /\ turn' = [turn EXCEPT ![t].row = "error"]
    BY <1>11 DEF H!Sweep
  <2>2. PICK s : s = [turn[t] EXCEPT !.row = "error"]
    OBVIOUS
  <2>3. turn' = [turn EXCEPT ![t] = s]
    BY <2>1, <2>2 DEF Replies
  <2>4. s \in TurnType /\ s.row = "error" /\ s.at = turn[t].at /\ s.conv = turn[t].conv
        /\ s.failed = turn[t].failed
    BY <1>1, <2>2 DEF TurnType
  <2>5. TurnSound(s, convs, deleted)
    BY <1>1, <2>1, <2>4 DEF TurnSound
  <2>6. QED  BY <1>3, <2>1, <2>3, <2>4, <2>5
<1>12. CASE H!SendPlain(t)
  <2>1. PICK k \in Convs \cup {None} :
            turn' = [turn EXCEPT ![t].at = "resolve", ![t].kind = "send", ![t].conv = k]
    BY <1>12 DEF H!SendPlain, Replies
  <2>2. turn[t].at = "none" /\ UNCHANGED <<convs, messages>>
    BY <1>12 DEF H!SendPlain
  <2>3. PICK s : s = [turn[t] EXCEPT !.at = "resolve", !.kind = "send", !.conv = k]
    OBVIOUS
  <2>4. turn' = [turn EXCEPT ![t] = s]
    BY <2>1, <2>3 DEF Replies
  <2>5. s \in TurnType /\ s.row = turn[t].row /\ s.at = "resolve"
    BY <1>1, <2>3 DEF TurnType
  <2>6. TurnSound(s, convs, deleted) /\ s.row # "success"
    BY <1>1, <2>2, <2>5 DEF TurnSound
  <2>7. QED  BY <1>3, <2>2, <2>4, <2>5, <2>6
<1>13. QED
  BY <1>4, <1>5, <1>6, <1>7, <1>8, <1>9, <1>10, <1>11, <1>12

LEMMA OnlyPage ==
    ASSUME Replies, UNCHANGED <<convs, messages, turn, deleted>>,
           page' \in H!Page, loads' \subseteq LoadType
    PROVE  Replies'
BY DEF Replies, Replied

\* A page that hears, loses or cuts a turn leaves what it has recorded alone.
LEMMA PageHears ==
    ASSUME Replies, NEW t \in Turns, NEW s \in TurnType, turn' = [turn EXCEPT ![t] = s],
           UNCHANGED <<convs, messages, deleted>>, page' \in H!Page, loads' \subseteq LoadType,
           s.at = turn[t].at, s.row = turn[t].row, s.conv = turn[t].conv, s.failed = turn[t].failed
    PROVE  Replies'
<1>1. TurnSound(s, convs', deleted)
  BY DEF Replies, TurnSound
<1>2. \A a \in messages : a.turn = t => MessageSound(a, s)
  BY DEF Replies, MessageSound
<1>3. s.at \in {"touch", "over"} /\ s.row = "success" => s.conv \in deleted \/ Replied(t, messages)
  BY DEF Replies
<1>4. QED  BY <1>1, <1>2, <1>3, TurnMoves DEF Replies

LEMMA NothingSent == <<>> \in Seq({"meta", "delta", "last"})
  OBVIOUS

LEMMA PageTurnSteps ==
    ASSUME Replies, NEW t \in Turns,
           H!Send(t) \/ H!Hear(t) \/ H!ConnectionLost(t) \/ H!SendEnds(t)
    PROVE  Replies'
<1>1. /\ turn[t] \in TurnType /\ TurnSound(turn[t], convs, deleted)
      /\ page \in H!Page /\ loads \subseteq LoadType
  BY DEF Replies
<1>2. UNCHANGED <<convs, messages, deleted>>
  BY DEF H!Send, H!Hear, H!ConnectionLost, H!SendEnds, H!PageOnly
<1>3. CASE H!Send(t)
  <2>1. PICK q : q = [page EXCEPT !.shown = @ \cup {t}, !.sending = t, !.told[t] = page.conv]
    OBVIOUS
  <2>2. q \in H!Page
    BY <1>1, <2>1 DEF H!Page
  <2>3. H!Settles(q, loads) /\ turn[t].at = "none"
        /\ turn' = [turn EXCEPT ![t].at = "resolve", ![t].conv = page.conv]
    BY <1>3, <2>1 DEF H!Send
  <2>4. page' \in H!Page /\ loads' \subseteq LoadType
    BY <1>1, <2>2, <2>3, SettlesTyped
  <2>5. PICK s : s = [turn[t] EXCEPT !.at = "resolve", !.conv = page.conv]
    OBVIOUS
  <2>6. turn' = [turn EXCEPT ![t] = s]
    BY <2>3, <2>5 DEF Replies
  <2>7. s \in TurnType /\ s.at = "resolve" /\ s.row = "none"
    BY <1>1, <2>3, <2>5 DEF TurnType, H!Page, TurnSound
  <2>8. TurnSound(s, convs', deleted)
    BY <2>7 DEF TurnSound
  <2>9. \A a \in messages : a.turn # t
    BY <2>3 DEF Replies, MessageSound
  <2>10. QED  BY <1>2, <2>4, <2>6, <2>7, <2>8, <2>9, TurnMoves DEF Replies
<1>4. CASE H!Hear(t)
  <2>1. turn' = [turn EXCEPT ![t].sent = Tail(turn[t].sent)] /\ turn[t].sent # <<>>
    BY <1>4 DEF H!Hear, Replies
  <2>2. PICK s : s = [turn[t] EXCEPT !.sent = Tail(turn[t].sent)]
    OBVIOUS
  <2>3. turn' = [turn EXCEPT ![t] = s]
    BY <2>1, <2>2 DEF Replies
  <2>4. Tail(turn[t].sent) \in Seq({"meta", "delta", "last"})
    BY <1>1, <2>1 DEF TurnType
  <2>5. s \in TurnType /\ s.at = turn[t].at /\ s.row = turn[t].row /\ s.conv = turn[t].conv
        /\ s.failed = turn[t].failed
    BY <1>1, <2>2, <2>4 DEF TurnType
  <2>6. page' \in H!Page /\ loads' \subseteq LoadType
    <3>1. CASE UNCHANGED <<page, loads>>
      BY <1>1, <3>1
    <3>2. ASSUME NEW k \in Convs \cup {None},
                 H!Settles([page EXCEPT !.told[t] = k, !.created = k, !.conv = k, !.route = k], loads)
          PROVE  page' \in H!Page /\ loads' \subseteq LoadType
      <4>1. [page EXCEPT !.told[t] = k, !.created = k, !.conv = k, !.route = k] \in H!Page
        BY <1>1 DEF H!Page
      <4>2. QED  BY <1>1, <3>2, <4>1, SettlesTyped
    <3>3. turn[t].conv \in Convs \cup {None}
      BY <1>1 DEF TurnType
    <3>4. QED  BY <1>4, <3>1, <3>2, <3>3 DEF H!Hear, H!OnMeta
  <2>7. QED  BY <1>2, <2>3, <2>5, <2>6, PageHears
<1>5. CASE H!ConnectionLost(t)
  <2>1. PICK s : s = [turn[t] EXCEPT !.cut = TRUE, !.sent = <<>>]
    OBVIOUS
  <2>2. turn' = [turn EXCEPT ![t] = s] /\ UNCHANGED <<page, loads>>
    BY <1>5, <2>1 DEF H!ConnectionLost, Replies
  <2>3. s \in TurnType /\ s.at = turn[t].at /\ s.row = turn[t].row /\ s.conv = turn[t].conv
        /\ s.failed = turn[t].failed
    BY <1>1, <2>1, NothingSent DEF TurnType
  <2>4. QED  BY <1>1, <1>2, <2>2, <2>3, PageHears
<1>6. CASE H!SendEnds(t)
  <2>1. [page EXCEPT !.sending = None, !.created = None] \in H!Page
    BY <1>1 DEF H!Page
  <2>2. page' \in H!Page /\ loads' \subseteq LoadType /\ turn' = turn
    BY <1>1, <1>6, <2>1, SettlesTyped DEF H!SendEnds
  <2>3. QED  BY <1>2, <2>2, OnlyPage
<1>7. QED  BY <1>3, <1>4, <1>5, <1>6

LEMMA PageSteps ==
    ASSUME Replies,
           \/ H!NewChat \/ H!Refresh \/ (\E r \in Convs \cup {None} : H!Navigate(r))
           \/ \E x \in loads : H!Answer(x)
    PROVE  Replies'
<1>1. page \in H!Page /\ loads \subseteq LoadType
  BY DEF Replies
<1>2. UNCHANGED <<convs, messages, deleted>>
  BY DEF H!NewChat, H!Refresh, H!Navigate, H!Answer, H!PageOnly
<1>3. CASE H!NewChat
  <2>1. [page EXCEPT !.route = None, !.conv = None, !.shown = {}] \in H!Page
    BY <1>1 DEF H!Page
  <2>2. H!Stale(loads) \subseteq LoadType
    BY <1>1 DEF H!Stale, LoadType
  <2>3. page' \in H!Page /\ loads' \subseteq LoadType /\ turn' = turn
    BY <1>3, <2>1, <2>2, SettlesTyped DEF H!NewChat
  <2>4. QED  BY <1>2, <2>3, OnlyPage
<1>4. CASE H!Refresh
  <2>1. [H!Blank EXCEPT !.route = page.route, !.told = page.told] \in H!Page
    BY <1>1 DEF H!Page, H!Blank
  <2>2. page' \in H!Page /\ loads' \subseteq LoadType
    BY <1>4, <2>1, SettlesTyped DEF H!Refresh
  <2>3. PICK t \in Turns : t = page.sending
    BY <1>1, <1>4 DEF H!Refresh, H!Page
  <2>4. PICK s : s = [turn[t] EXCEPT !.cut = TRUE, !.sent = <<>>]
    OBVIOUS
  <2>5. turn' = [turn EXCEPT ![t] = s]
    BY <1>4, <2>3, <2>4 DEF H!Refresh, Replies
  <2>6. turn[t] \in TurnType
    BY DEF Replies
  <2>7. s \in TurnType /\ s.at = turn[t].at /\ s.row = turn[t].row /\ s.conv = turn[t].conv
        /\ s.failed = turn[t].failed
    BY <2>4, <2>6, NothingSent DEF TurnType
  <2>8. QED  BY <1>2, <2>2, <2>5, <2>7, PageHears
<1>5. ASSUME NEW r \in Convs \cup {None}, H!Navigate(r)  PROVE Replies'
  <2>1. [page EXCEPT !.route = r] \in H!Page
    BY <1>1 DEF H!Page
  <2>2. page' \in H!Page /\ loads' \subseteq LoadType /\ turn' = turn
    BY <1>1, <1>5, <2>1, SettlesTyped DEF H!Navigate
  <2>3. QED  BY <1>2, <2>2, OnlyPage
<1>6. ASSUME NEW x \in loads, H!Answer(x)  PROVE Replies'
  <2>1. x.conv \in Convs
    BY <1>1 DEF LoadType
  <2>2. [page EXCEPT !.shown = {x.conv}] \in H!Page /\ [page EXCEPT !.shown = {}] \in H!Page
    BY <1>1, <2>1 DEF H!Page
  <2>3. page' \in H!Page /\ loads' \subseteq LoadType /\ turn' = turn
    BY <1>1, <1>6, <2>2 DEF H!Answer, H!Loaded, H!LoadFails
  <2>4. QED  BY <1>2, <2>3, OnlyPage
<1>7. QED  BY <1>3, <1>4, <1>5, <1>6

LEMMA CrashKeeps ==
    ASSUME Replies, H!Crash
    PROVE  Replies'
<1>1. /\ UNCHANGED <<convs, messages, deleted, page, loads>>
      /\ turn' = [t \in Turns |-> IF H!Running(t) THEN [turn[t] EXCEPT !.at = "dead", !.cut = TRUE]
                                                  ELSE turn[t]]
  BY DEF H!Crash, H!ServerOnly
<1>2. ASSUME NEW t \in Turns
      PROVE  /\ turn'[t] \in TurnType /\ turn'[t].row = turn[t].row /\ turn'[t].conv = turn[t].conv
             /\ turn'[t] = turn[t] \/ (turn[t].at \notin {"none", "over", "dead"} /\ turn'[t].at = "dead")
  <2>1. turn[t] \in TurnType
    BY DEF Replies
  <2>2. PICK s : s = [turn[t] EXCEPT !.at = "dead", !.cut = TRUE]
    OBVIOUS
  <2>3. s \in TurnType /\ s.at = "dead" /\ s.row = turn[t].row /\ s.conv = turn[t].conv
    BY <2>1, <2>2 DEF TurnType
  <2>4. turn'[t] = IF H!Running(t) THEN s ELSE turn[t]
    BY <1>1, <2>2
  <2>5. QED  BY <2>1, <2>3, <2>4 DEF H!Running
<1>3. turn' \in [Turns -> TurnType]
  <2>1. \A t \in Turns : turn'[t] \in TurnType
    BY <1>2
  <2>2. QED  BY <1>1, <2>1
<1>4. ASSUME NEW t \in Turns  PROVE TurnSound(turn'[t], convs', deleted')
  <2>1. TurnSound(turn[t], convs, deleted) /\ convs' = convs /\ deleted' = deleted
    BY <1>1 DEF Replies
  <2>2. CASE turn'[t] = turn[t]
    BY <2>1, <2>2
  <2>3. CASE turn'[t].at = "dead"
    BY <2>3 DEF TurnSound
  <2>4. QED  BY <1>2, <2>2, <2>3
<1>5. ASSUME NEW a \in messages'  PROVE MessageSound(a, turn'[a.turn])
  <2>1. a \in messages /\ a.turn \in Turns /\ MessageSound(a, turn[a.turn])
    BY <1>1 DEF Replies, MessageType
  <2>2. QED  BY <1>2, <2>1 DEF MessageSound
<1>6. ASSUME NEW t \in Turns, turn'[t].at \in {"touch", "over"}, turn'[t].row = "success"
      PROVE  turn'[t].conv \in deleted' \/ Replied(t, messages')
  <2>1. turn'[t] = turn[t]
    BY <1>2, <1>6
  <2>2. turn[t].at \in {"touch", "over"} /\ turn[t].row = "success"
    BY <1>6, <2>1
  <2>3. turn[t].conv \in deleted \/ Replied(t, messages)
    BY <2>2 DEF Replies
  <2>4. messages' = messages /\ deleted' = deleted
    BY <1>1
  <2>5. QED  BY <2>1, <2>3, <2>4
<1>7. QED  BY <1>1, <1>3, <1>4, <1>5, <1>6 DEF Replies

LEMMA DeleteKeeps ==
    ASSUME Replies, NEW k \in Convs, H!DeleteConversation(k)
    PROVE  Replies'
<1>1. /\ convs' = convs \ {k} /\ messages' = {a \in messages : a.conv # k}
      /\ deleted' = deleted \cup {k} /\ UNCHANGED <<turn, page, loads>>
  BY DEF H!DeleteConversation
<1>2. \A t \in Turns : TurnSound(turn'[t], convs', deleted')
  BY <1>1 DEF Replies, TurnSound
<1>3. \A a \in messages' : MessageSound(a, turn'[a.turn])
  BY <1>1 DEF Replies
<1>4. ASSUME NEW t \in Turns, turn'[t].at \in {"touch", "over"}, turn'[t].row = "success"
      PROVE  turn'[t].conv \in deleted' \/ Replied(t, messages')
  <2>1. turn[t].conv \in deleted \/ Replied(t, messages)
    BY <1>1, <1>4 DEF Replies
  <2>2. CASE turn[t].conv \in deleted
    BY <1>1, <2>2
  <2>3. ASSUME NEW a \in messages, a.turn = t, a.role = "assistant"
        PROVE  turn[t].conv = k \/ a \in messages'
    BY <1>1, <2>3 DEF Replies, MessageSound
  <2>4. QED  BY <1>1, <2>1, <2>2, <2>3 DEF Replied
<1>5. QED  BY <1>1, <1>2, <1>3, <1>4 DEF Replies

LEMMA ChatInit ==
    ASSUME H!Init, convs = {v1}
    PROVE  Replies
<1>1. /\ messages = {} /\ turn = [t \in Turns |-> H!Unused] /\ page = H!Blank /\ loads = {}
      /\ deleted = {} /\ convs \subseteq Convs
  BY ChatLimits DEF H!Init
<1>2. H!Unused \in TurnType /\ H!Unused.at = "none" /\ H!Unused.row = "none"
  BY NothingSent DEF H!Unused, TurnType
<1>3. H!Blank \in H!Page
  BY DEF H!Blank, H!Page
<1>4. \A t \in Turns : turn[t] = H!Unused /\ TurnSound(turn[t], convs, deleted)
  BY <1>1, <1>2 DEF TurnSound
<1>5. \A t \in Turns : turn[t].at = "none"
  BY <1>2, <1>4
<1>6. turn \in [Turns -> TurnType]
  BY <1>1, <1>2
<1>7. QED  BY <1>1, <1>3, <1>4, <1>5, <1>6 DEF Replies

LEMMA RepliesCorrect == Spec => []RepliesInv
<1>1. Init => RepliesInv
  BY ChatInit DEF Init, RepliesInv
<1>2. RepliesInv /\ [Next]_vars => RepliesInv'
  <2> SUFFICES ASSUME Replies, [Next]_vars, UNCHANGED scope  PROVE Replies'
    BY OneMoves DEF RepliesInv
  <2>1. CASE H!Next
    BY <2>1, ResolveStep, ServerSteps, PageTurnSteps, PageSteps, CrashKeeps, DeleteKeeps DEF H!Next
  <2>2. CASE UNCHANGED chatVars
    BY <2>2 DEF chatVars, Replies
  <2>3. QED  BY <2>1, <2>2, OneMoves
<1>3. QED  BY <1>1, <1>2, PTL DEF Spec

\* The page after the effect on the route, from q and the loads ls.
LEMMA SettlesShows ==
    ASSUME NEW q \in H!Page, NEW ls \in SUBSET LoadType, H!Settles(q, ls),
           q.route = None => ShowsOwn(q) \/ (q.conv # None /\ q.sending = None),
           q.route # None /\ (q.route = q.conv \/ (q.route = q.created /\ q.sending # None)) =>
               /\ \A x \in ls : x.current => x.conv = q.conv /\ x.conv = q.route
               /\ (\E x \in ls : x.current) \/ ShowsOwn(q)
    PROVE  /\ page'.sending = None => page'.route = page'.conv
           /\ \A x \in loads' : x.current => x.conv = page'.conv /\ x.conv = page'.route
           /\ Awaits' \/ ShowsOwn(page')
           /\ page'.sending = q.sending /\ page'.told = q.told
           /\ page'.route = q.route
           /\ q.route = None /\ q.conv = None => page'.conv = None
<1>1. \A x \in H!Stale(ls) : ~x.current
  <2>1. \A x \in ls : [x EXCEPT !.current = FALSE].current = FALSE
    BY DEF LoadType
  <2>2. QED  BY <2>1 DEF H!Stale
<1>2. CASE q.route = None
  <2>2. PICK s : s = [q EXCEPT !.conv = None, !.shown = {}]
    OBVIOUS
  <2>3. s.conv = None /\ s.shown = {} /\ s.route = q.route /\ s.sending = q.sending /\ s.told = q.told
    BY <2>2 DEF H!Page
  <2>4. loads' = H!Stale(ls) /\ page' = IF q.conv # None /\ q.sending = None THEN s ELSE q
    BY <1>2, <2>2 DEF H!Settles
  <2>5. ShowsOwn(s)
    BY <2>3 DEF ShowsOwn
  <2>6. ShowsOwn(page')
    BY <1>2, <2>4, <2>5
  <2>7. QED  BY <1>1, <1>2, <2>3, <2>4, <2>6
<1>3. CASE q.route # None /\ (q.route = q.conv \/ (q.route = q.created /\ q.sending # None))
  <2>1. page' = q /\ loads' = ls
    BY <1>3 DEF H!Settles
  <2>2. QED  BY <1>3, <2>1 DEF Awaits
<1>4. CASE q.route # None /\ ~(q.route = q.conv \/ (q.route = q.created /\ q.sending # None))
  <2>1. page' = [q EXCEPT !.conv = q.route]
        /\ loads' = H!Stale(ls) \cup {[conv |-> q.route, current |-> TRUE]}
    BY <1>4 DEF H!Settles
  <2>2. page'.conv = q.route /\ page'.route = q.route /\ page'.sending = q.sending /\ page'.told = q.told
    BY <2>1 DEF H!Page
  <2>3. \A x \in loads' : x.current => x.conv = q.route
    BY <1>1, <2>1
  <2>4. Awaits'
    <3>1. PICK x : x = [conv |-> q.route, current |-> TRUE]
      OBVIOUS
    <3>2. x.current /\ x \in loads'
      BY <2>1, <3>1
    <3>3. QED  BY <3>2 DEF Awaits
  <2>5. QED  BY <1>4, <2>2, <2>3, <2>4
<1>5. QED  BY <1>2, <1>3, <1>4

LEMMA SendShows ==
    ASSUME Replies, PageSound, NEW t \in Turns, H!Send(t)
    PROVE  PageSound'
<1>1. PICK q : q = [page EXCEPT !.shown = @ \cup {t}, !.sending = t, !.told[t] = page.conv]
  OBVIOUS
<1>2. page \in H!Page /\ loads \subseteq LoadType /\ page.sending = None /\ H!Settles(q, loads)
  BY <1>1 DEF Replies, H!Send
<1>3. /\ q \in H!Page /\ q.shown = page.shown \cup {t} /\ q.sending = t /\ q.told[t] = page.conv
      /\ q.route = page.route /\ q.conv = page.conv /\ q.route = q.conv
      /\ \A s \in Turns : s # t => q.told[s] = page.told[s]
  BY <1>1, <1>2 DEF H!Page, PageSound
<1>4. t \notin Convs /\ t # None
  BY ChatLimits
<1>5. ShowsOwn(page) => ShowsOwn(q)
  BY <1>2, <1>3, <1>4 DEF ShowsOwn, H!Page
<1>6. q.route = None => ShowsOwn(q)
  BY <1>2, <1>3, <1>5, ChatLimits DEF PageSound, Awaits, LoadType
<1>7. /\ \A x \in loads : x.current => x.conv = q.conv /\ x.conv = q.route
      /\ (\E x \in loads : x.current) \/ ShowsOwn(q)
  BY <1>3, <1>5 DEF PageSound, Awaits
<1>8. /\ page'.sending = None => page'.route = page'.conv
      /\ \A x \in loads' : x.current => x.conv = page'.conv /\ x.conv = page'.route
      /\ Awaits' \/ ShowsOwn(page')
      /\ page'.sending = t /\ page'.told = q.told /\ page'.route = q.route
      /\ q.route = None /\ q.conv = None => page'.conv = None
  BY <1>2, <1>3, <1>6, <1>7, SettlesShows
<1>9. H!Nameless' => page'.route = None /\ page'.conv = None
  BY <1>3, <1>8 DEF H!Nameless
<1>10. QED  BY <1>8, <1>9 DEF PageSound

LEMMA HearShows ==
    ASSUME Replies, PageSound, NEW t \in Turns, H!Hear(t)
    PROVE  PageSound'
<1>1. page \in H!Page /\ loads \subseteq LoadType /\ page.sending = t /\ t # None
  BY ChatLimits DEF Replies, H!Hear
<1>2. CASE UNCHANGED <<page, loads>>
  BY <1>2 DEF PageSound, H!Nameless, Awaits
<1>3. CASE page.told[t] = None /\ H!OnMeta(t)
  <2>1. turn[t] \in TurnType
    BY DEF Replies
  <2>2. PICK k \in Convs \cup {None} : k = turn[t].conv
    BY <2>1 DEF TurnType
  <2>3. PICK q : q = [page EXCEPT !.told[t] = k, !.created = k, !.conv = k, !.route = k]
    OBVIOUS
  <2>4. H!Settles(q, loads)
    BY <1>3, <2>2, <2>3 DEF H!OnMeta
  <2>5. /\ q \in H!Page /\ q.conv = k /\ q.route = k /\ q.told[t] = k /\ q.sending = t
        /\ q.shown = page.shown /\ \A s \in Turns : s # t => q.told[s] = page.told[s]
    BY <1>1, <2>3 DEF H!Page
  <2>6. page.route = None /\ page.conv = None
    BY <1>1, <1>3 DEF PageSound, H!Nameless
  <2>7. \A x \in loads : ~x.current
    BY <1>1, <2>6, ChatLimits DEF PageSound, LoadType
  <2>8. ShowsOwn(q)
    BY <1>1, <2>5, <2>6, <2>7, ChatLimits DEF PageSound, Awaits, ShowsOwn, H!Page
  <2>9. /\ page'.sending = None => page'.route = page'.conv
        /\ \A x \in loads' : x.current => x.conv = page'.conv /\ x.conv = page'.route
        /\ Awaits' \/ ShowsOwn(page')
        /\ page'.sending = t /\ page'.told = q.told /\ page'.route = q.route
        /\ q.route = None /\ q.conv = None => page'.conv = None
    BY <1>1, <2>4, <2>5, <2>7, <2>8, SettlesShows
  <2>10. H!Nameless' => page'.route = None /\ page'.conv = None
    BY <2>5, <2>9 DEF H!Nameless
  <2>11. QED  BY <2>9, <2>10 DEF PageSound
<1>4. QED  BY <1>2, <1>3 DEF H!Hear, H!OnMeta

\* Steps after which no turn is being answered, or the page is blank.
LEMMA QuietShows ==
    ASSUME Replies, PageSound, ~left',
           H!NewChat \/ H!Refresh \/ \E t \in Turns : H!SendEnds(t)
    PROVE  PageSound'
<1>1. page \in H!Page /\ loads \subseteq LoadType
  BY DEF Replies
<1>2. ASSUME NEW q \in H!Page, NEW ls \in SUBSET LoadType, H!Settles(q, ls),
             \A x \in ls : x.current => x.conv = q.conv /\ x.conv = q.route,
             (\E x \in ls : x.current) \/ ShowsOwn(q),
             q.sending = None \/ (~H!Nameless /\ q.sending = page.sending /\ q.told = page.told)
      PROVE  PageSound'
  <2>1. q.route = None => ShowsOwn(q)
    BY <1>2, ChatLimits DEF LoadType
  <2>2. /\ page'.sending = None => page'.route = page'.conv
        /\ \A x \in loads' : x.current => x.conv = page'.conv /\ x.conv = page'.route
        /\ Awaits' \/ ShowsOwn(page')
        /\ page'.sending = q.sending /\ page'.told = q.told
    BY <1>2, <2>1, SettlesShows
  <2>3. ~H!Nameless'
    BY <1>2, <2>2 DEF H!Nameless
  <2>4. QED  BY <2>2, <2>3 DEF PageSound
<1>3. CASE H!NewChat
  <2>1. PICK q : q = [page EXCEPT !.route = None, !.conv = None, !.shown = {}]
    OBVIOUS
  <2>2. q \in H!Page /\ q.shown = {} /\ q.sending = page.sending /\ q.told = page.told
    BY <1>1, <2>1 DEF H!Page
  <2>3. \A x \in loads : [x EXCEPT !.current = FALSE] \in LoadType
                         /\ [x EXCEPT !.current = FALSE].current = FALSE
    BY <1>1 DEF LoadType
  <2>4. H!Stale(loads) \in SUBSET LoadType /\ \A x \in H!Stale(loads) : ~x.current
    BY <2>3 DEF H!Stale
  <2>5. H!Settles(q, H!Stale(loads)) /\ ~H!Nameless
    BY <1>3, <2>1 DEF H!NewChat
  <2>6. ShowsOwn(q)
    BY <2>2 DEF ShowsOwn
  <2>7. QED  BY <1>2, <2>2, <2>4, <2>5, <2>6
<1>4. CASE H!Refresh
  <2>1. PICK q : q = [H!Blank EXCEPT !.route = page.route, !.told = page.told]
    OBVIOUS
  <2>2. q \in H!Page /\ q.shown = {} /\ q.sending = None
    BY <1>1, <2>1 DEF H!Page, H!Blank
  <2>3. H!Settles(q, {}) /\ ShowsOwn(q)
    BY <1>4, <2>1, <2>2 DEF H!Refresh, ShowsOwn
  <2>4. {} \in SUBSET LoadType /\ \A x \in {} : x.current => x.conv = q.conv /\ x.conv = q.route
    OBVIOUS
  <2>5. (\E x \in {} : x.current) \/ ShowsOwn(q)
    BY <2>3
  <2>6. QED  BY <1>2, <2>2, <2>3, <2>4, <2>5
<1>5. ASSUME NEW t \in Turns, H!SendEnds(t)  PROVE PageSound'
  <2>1. PICK q : q = [page EXCEPT !.sending = None, !.created = None]
    OBVIOUS
  <2>2. /\ q \in H!Page /\ q.shown = page.shown /\ q.sending = None /\ q.conv = page.conv
        /\ q.route = page.route /\ q.told = page.told
    BY <1>1, <2>1 DEF H!Page
  <2>3. H!Settles(q, loads) /\ (ShowsOwn(page) => ShowsOwn(q))
    BY <1>5, <2>1, <2>2 DEF H!SendEnds, ShowsOwn
  <2>4. \A x \in loads : x.current => x.conv = q.conv /\ x.conv = q.route
    BY <2>2 DEF PageSound
  <2>5. (\E x \in loads : x.current) \/ ShowsOwn(q)
    BY <2>3 DEF PageSound, Awaits
  <2>6. QED  BY <1>1, <1>2, <2>2, <2>3, <2>4, <2>5
<1>6. QED  BY <1>3, <1>4, <1>5

LEMMA NavigateShows ==
    ASSUME Replies, PageSound, ~left', NEW r \in Convs \cup {None}, H!Navigate(r)
    PROVE  PageSound'
<1>1. page \in H!Page /\ loads \subseteq LoadType
  BY DEF Replies
<1>2. PICK q : q = [page EXCEPT !.route = r]
  OBVIOUS
<1>3. /\ q \in H!Page /\ q.route = r /\ q.conv = page.conv /\ q.sending = page.sending
      /\ q.told = page.told /\ q.shown = page.shown /\ q.created = page.created
  BY <1>1, <1>2 DEF H!Page
<1>4. H!Settles(q, loads) /\ ~H!Nameless /\ ~H!Abandons(r) /\ r # page.route
  BY <1>2 DEF H!Navigate
<1>5. ShowsOwn(page) => ShowsOwn(q)
  BY <1>3 DEF ShowsOwn
<1>6. ASSUME NEW x \in loads, x.current
      PROVE  /\ r = None => q.conv # None /\ q.sending = None
             /\ r # q.conv /\ ~(r = q.created /\ q.sending # None)
  <2>1. page.conv = page.route /\ page.conv \in Convs
    BY <1>1, <1>6 DEF PageSound, LoadType
  <2>2. page.sending # None => r # None /\ r # page.created
    BY <1>4, <1>6 DEF H!Abandons
  <2>3. QED  BY <1>3, <1>4, <2>1, <2>2, ChatLimits
<1>7. Awaits \/ ShowsOwn(q)
  BY <1>5 DEF PageSound
<1>8. q.route = None => ShowsOwn(q) \/ (q.conv # None /\ q.sending = None)
  BY <1>3, <1>6, <1>7 DEF Awaits
<1>9. q.route # None /\ (q.route = q.conv \/ (q.route = q.created /\ q.sending # None)) =>
          /\ \A x \in loads : x.current => x.conv = q.conv /\ x.conv = q.route
          /\ (\E x \in loads : x.current) \/ ShowsOwn(q)
  BY <1>3, <1>6, <1>7 DEF Awaits
<1>10. /\ page'.sending = None => page'.route = page'.conv
       /\ \A x \in loads' : x.current => x.conv = page'.conv /\ x.conv = page'.route
       /\ Awaits' \/ ShowsOwn(page')
       /\ page'.sending = q.sending /\ page'.told = q.told
  BY <1>1, <1>3, <1>4, <1>8, <1>9, SettlesShows
<1>11. ~H!Nameless'
  BY <1>3, <1>4, <1>10 DEF H!Nameless
<1>12. QED  BY <1>10, <1>11 DEF PageSound

LEMMA AnswerShows ==
    ASSUME Replies, PageSound, NEW x \in loads, H!Answer(x)
    PROVE  PageSound'
<1>1. page \in H!Page /\ x \in LoadType /\ loads' = loads \ {x}
  BY DEF Replies, H!Answer
<1>2. \/ page' = page /\ ~x.current
      \/ page' = [page EXCEPT !.shown = {x.conv}] /\ x.current
      \/ page' = [page EXCEPT !.shown = {}]
  BY DEF H!Answer, H!Loaded, H!LoadFails, PageSound
<1>3. /\ page'.route = page.route /\ page'.conv = page.conv /\ page'.sending = page.sending
      /\ page'.told = page.told
  BY <1>1, <1>2 DEF H!Page
<1>4. CASE page' = page /\ ~x.current
  <2>1. Awaits => Awaits'
    BY <1>1, <1>4 DEF Awaits
  <2>2. QED  BY <1>1, <1>4, <2>1 DEF PageSound, H!Nameless
<1>5. CASE ~(page' = page /\ ~x.current)
  <2>1. page'.shown = {} \/ (page'.shown = {x.conv} /\ x.conv = page.conv /\ x.conv \in Convs)
    BY <1>1, <1>2, <1>5 DEF H!Page, PageSound, LoadType
  <2>2. ShowsOwn(page')
    BY <1>3, <2>1 DEF ShowsOwn
  <2>3. QED  BY <1>1, <1>3, <2>2 DEF PageSound, H!Nameless
<1>6. QED  BY <1>4, <1>5

LEMMA PageCorrect == Spec => []PageInv
<1>1. Init => PageInv
  <2> SUFFICES ASSUME H!Init  PROVE PageSound
    BY DEF Init, PageInv
  <2>1. page.route = None /\ page.conv = None /\ page.shown = {} /\ loads = {}
    BY DEF H!Init, H!Blank
  <2>2. QED  BY <2>1 DEF PageSound, ShowsOwn
<1>2. RepliesInv /\ PageInv /\ [Next]_vars => PageInv'
  <2> SUFFICES ASSUME Replies, [Next]_vars, ~left => PageSound, ~left'
               PROVE  PageSound'
    BY OneMoves DEF RepliesInv, PageInv
  <2>1. CASE UNCHANGED <<page, loads>> /\ ~left
    BY <2>1 DEF PageSound, H!Nameless, Awaits
  <2>2. CASE H!Next
    <3>1. ~left
      BY <2>2 DEF H!Next, H!ServerOnly, H!PageOnly, H!Navigate, H!NewChat, H!ResolveConversation,
         H!SaveUserMessage, H!TellConversation, H!Begin, H!Delta, H!StreamEnds, H!SaveReply,
         H!TouchConversation, H!Sweep, H!SendPlain, H!Send, H!Hear, H!ConnectionLost, H!SendEnds,
         H!Crash, H!Refresh, H!DeleteConversation, H!Answer
    <3>2. CASE \E t \in Turns :
                  \/ H!ResolveConversation(t) \/ H!SaveUserMessage(t) \/ H!TellConversation(t)
                  \/ H!Begin(t) \/ H!Delta(t) \/ H!StreamEnds(t) \/ H!SaveReply(t)
                  \/ H!TouchConversation(t) \/ H!Sweep(t) \/ H!SendPlain(t) \/ H!ConnectionLost(t)
      BY <2>1, <3>1, <3>2 DEF H!ServerOnly, H!ResolveConversation,
         H!SaveUserMessage, H!TellConversation, H!Begin, H!Delta, H!StreamEnds, H!SaveReply,
         H!TouchConversation, H!Sweep, H!SendPlain, H!ConnectionLost
    <3>3. CASE H!Crash \/ \E k \in Convs : H!DeleteConversation(k)
      BY <2>1, <3>1, <3>3 DEF H!ServerOnly, H!Crash, H!DeleteConversation
    <3>4. QED
      BY <2>2, <3>1, <3>2, <3>3, SendShows, HearShows, QuietShows, NavigateShows, AnswerShows
      DEF H!Next
  <2>3. CASE UNCHANGED chatVars
    BY <2>1, <2>3 DEF chatVars
  <2>4. QED  BY <2>2, <2>3, OneMoves
<1>3. QED  BY <1>1, <1>2, RepliesCorrect, PTL DEF Spec

\* A reply that reads as an answer is one the ledger has as a success, and what the
\* vendor completed is stored unless the server dies or the conversation is deleted;
\* the page shows nothing of a conversation but the one it would send to:
\* ChatService.sendStream with InvokeService.stream, and ChatPage.
THEOREM ChatAgreesCorrect == Spec => []ChatAgrees
<1>1. RepliesInv /\ PageInv => ChatAgrees
  <2>1. ASSUME Replies  PROVE H!RepliesMatchLedger
    BY <2>1 DEF Replies, H!RepliesMatchLedger, MessageSound, Replied
  <2>2. ASSUME left \/ PageSound  PROVE H!PageShowsItsConversation
    BY <2>2 DEF PageSound, ShowsOwn, Awaits, H!PageShowsItsConversation
  <2>3. QED  BY <2>1, <2>2 DEF RepliesInv, PageInv, ChatAgrees
<1>2. QED  BY <1>1, RepliesCorrect, PageCorrect, PTL

(***************************************************************************)
(* Registry.                                                               *)
(***************************************************************************)
\* The catalog y has every revision of x, and perhaps more.
HistoryKept(x, y) ==
    \A u \in R!Resources :
        /\ Len(x.revs[u]) <= Len(y.revs[u])
        /\ \A k \in 1..Len(x.revs[u]) : y.revs[u][k] = x.revs[u][k]
Grown(x, y) == y \in R!CatalogType /\ HistoryKept(x, y)

\* The snapshots of all instances, and what the next one would be.
Held ==
    (UNION {pending[n] \cup {snap[n]} : n \in Instances}) \cup {[epoch |-> epoch, catalog |-> db]}
HeldSound ==
    /\ \A x \in Held : /\ x \in R!Snapshot /\ x.epoch <= epoch
                       /\ x.epoch = 0 => x.catalog = R!Empty
                       /\ x.catalog = R!Empty \/ R!Builds(x.catalog)
    /\ \A x, y \in Held : x.epoch <= y.epoch => HistoryKept(x.catalog, y.catalog)
    /\ \A x, y \in Held : x.epoch = y.epoch => x.catalog = y.catalog

\* What a Task has pinned is in the catalog d.
PinHeld(d, pin) ==
    /\ pin.revision \in 1..Len(d.revs[pin.model])
    /\ d.revs[pin.model][pin.revision].life = "active"
    /\ pin.rate # 0 => /\ pin.rate \in 1..Len(d.revs[RateOf[pin.model]])
                       /\ d.revs[RateOf[pin.model]][pin.rate].life = "active"
    /\ d.revs[pin.model][pin.revision].priced <=> pin.rate # 0
    /\ \A k \in d.revs[pin.model][pin.revision].uses : R!Exists(d, k)
\* The channel a Task was sent through could serve its model then.
RouteHeld(d, pin, route) ==
    /\ route.channel \in Channels /\ Owner[route.channel] = Owner[pin.model]
    /\ route.channel \in d.revs[pin.model][pin.revision].uses
    /\ route.revision \in 1..Len(d.revs[route.channel])
    /\ d.revs[pin.model][pin.revision].adapters \subseteq d.revs[route.channel][route.revision].adapters
    /\ d.revs[route.channel][route.revision].life # "revoked"
PinSound(x) ==
    /\ x = [pin |-> x.pin, epoch |-> x.epoch, route |-> x.route]
    /\ x.epoch \in 1..epoch /\ x.pin.model \in Models
    /\ \A y \in Held : x.epoch <= y.epoch => PinHeld(y.catalog, x.pin)
    /\ x.route = R!NoRoute \/ RouteHeld(db, x.pin, x.route)

RegistrySound ==
    /\ db \in R!CatalogType /\ epoch \in 0..MaxEpoch
    /\ snap \in [Instances -> R!Snapshot] /\ pending \in [Instances -> SUBSET R!Snapshot]
    /\ own \in [Instances -> 0..MaxEpoch]
    /\ HeldSound
    /\ \A n \in Instances : /\ own[n] <= epoch
                            /\ pending[n] = {} => own[n] <= snap[n].epoch
                            /\ \A x \in pending[n] : x.epoch = own[n]
    /\ \A x \in pins : PinSound(x)
RegistryInv == scope = "registry" => RegistrySound

LEMMA HistoryKeptSelf ==
    ASSUME NEW x \in R!CatalogType  PROVE HistoryKept(x, x)
<1>1. \A u \in R!Resources : Len(x.revs[u]) \in Nat
  BY DEF R!CatalogType
<1>2. QED  BY <1>1 DEF HistoryKept

LEMMA HistoryKeptOn ==
    ASSUME NEW x \in R!CatalogType, NEW y \in R!CatalogType, NEW s \in R!CatalogType,
           HistoryKept(x, y), HistoryKept(y, s)
    PROVE  HistoryKept(x, s)
<1>1. ASSUME NEW u \in R!Resources
      PROVE  /\ Len(x.revs[u]) <= Len(s.revs[u])
             /\ \A k \in 1..Len(x.revs[u]) : s.revs[u][k] = x.revs[u][k]
  <2>1. Len(x.revs[u]) \in Nat /\ Len(y.revs[u]) \in Nat /\ Len(s.revs[u]) \in Nat
    BY DEF R!CatalogType
  <2>2. /\ Len(x.revs[u]) <= Len(y.revs[u])
        /\ \A k \in 1..Len(x.revs[u]) : y.revs[u][k] = x.revs[u][k]
    BY DEF HistoryKept
  <2>3. /\ Len(y.revs[u]) <= Len(s.revs[u])
        /\ \A k \in 1..Len(y.revs[u]) : s.revs[u][k] = y.revs[u][k]
    BY DEF HistoryKept
  <2>4. 1..Len(x.revs[u]) \subseteq 1..Len(y.revs[u])
    BY <2>1, <2>2
  <2>5. QED  BY <2>1, <2>2, <2>3, <2>4
<1>2. QED  BY <1>1 DEF HistoryKept

LEMMA GrownOn ==
    ASSUME NEW x \in R!CatalogType, NEW y, NEW s, Grown(x, y), Grown(y, s)
    PROVE  Grown(x, s)
BY HistoryKeptOn DEF Grown

\* The fields of a catalog.
LEMMA CatalogFields ==
    ASSUME NEW d \in R!CatalogType
    PROVE  /\ d.revs \in [R!Resources -> Seq(R!Document)] /\ d.release \in R!Releases \cup {0}
           /\ d.enabled \in [Providers \cup Channels \cup Models -> BOOLEAN]
           /\ d.cred \in [Channels -> {"none", "disabled", "enabled"}]
BY DEF R!CatalogType

\* A revision is appended.
LEMMA AppendedGrows ==
    ASSUME NEW d \in R!CatalogType, NEW u \in R!Resources, NEW doc \in R!Document
    PROVE  /\ Grown(d, R!Appended(d, u, doc))
           /\ \A v \in R!Resources : v # u => R!Appended(d, u, doc).revs[v] = d.revs[v]
<1>1. PICK h : h = [d.revs EXCEPT ![u] = Append(d.revs[u], doc)]
  OBVIOUS
<1>2. d.revs \in [R!Resources -> Seq(R!Document)]
  BY CatalogFields
<1>3. Append(d.revs[u], doc) \in Seq(R!Document)
  BY <1>2
<1>4. h \in [R!Resources -> Seq(R!Document)] /\ h[u] = Append(d.revs[u], doc)
      /\ \A v \in R!Resources : v # u => h[v] = d.revs[v]
  BY <1>1, <1>2, <1>3
<1>5. PICK e : e = [d EXCEPT !.revs = h]
  OBVIOUS
<1>6. R!Appended(d, u, doc) = e
  BY <1>1, <1>5 DEF R!Appended, R!CatalogType
<1>7. e \in R!CatalogType /\ e.revs = h
  BY <1>4, <1>5 DEF R!CatalogType
<1>8. HistoryKept(d, e)
  <2>1. ASSUME NEW v \in R!Resources
        PROVE  /\ Len(d.revs[v]) <= Len(h[v])
               /\ \A k \in 1..Len(d.revs[v]) : h[v][k] = d.revs[v][k]
    <3>1. d.revs[v] \in Seq(R!Document)
      BY <1>2
    <3>2. CASE v = u
      BY <1>4, <3>1, <3>2
    <3>3. CASE v # u
      BY <1>4, <3>1, <3>3
    <3>4. QED  BY <3>2, <3>3
  <2>2. QED  BY <1>7, <2>1 DEF HistoryKept
<1>9. QED  BY <1>4, <1>6, <1>7, <1>8 DEF Grown

\* Only switches or credentials change.
LEMMA SettingsGrow ==
    ASSUME NEW d \in R!CatalogType, NEW e \in R!CatalogType, e.revs = d.revs
    PROVE  Grown(d, e)
BY HistoryKeptSelf DEF Grown, HistoryKept

LEMMA EnabledGrows ==
    ASSUME NEW d \in R!CatalogType, NEW u, NEW on1 \in BOOLEAN
    PROVE  Grown(d, [d EXCEPT !.enabled[u] = on1])
<1>1. PICK h : h = [d.enabled EXCEPT ![u] = on1]
  OBVIOUS
<1>2. h \in [Providers \cup Channels \cup Models -> BOOLEAN]
  BY <1>1, CatalogFields
<1>3. PICK e : e = [d EXCEPT !.enabled = h]
  OBVIOUS
<1>4. e \in R!CatalogType /\ e.revs = d.revs
  BY <1>2, <1>3 DEF R!CatalogType
<1>5. [d EXCEPT !.enabled[u] = on1] = e
  BY <1>1, <1>3 DEF R!CatalogType
<1>6. QED  BY <1>4, <1>5, SettingsGrow

\* The document of a resource that exists.
LEMMA DocTyped ==
    ASSUME NEW d \in R!CatalogType, NEW u \in R!Resources, R!Exists(d, u)
    PROVE  /\ R!Doc(d, u) \in R!Document /\ R!Doc(d, u) = d.revs[u][Len(d.revs[u])]
           /\ Len(d.revs[u]) \in Nat \ {0}
<1>1. d.revs[u] \in Seq(R!Document) /\ d.revs[u] # <<>>
  BY CatalogFields DEF R!Exists
<1>2. QED  BY <1>1 DEF R!Doc, R!Last

\* A document derived from another keeps its type.
LEMMA LifeTyped ==
    ASSUME NEW doc \in R!Document
    PROVE  [doc EXCEPT !.life = "retired"] \in R!Document
BY DEF R!Document

LEMMA SpeakingTyped ==
    ASSUME NEW doc \in R!Document, NEW A \in SUBSET Adapters, NEW a \in AuthMethods
    PROVE  R!Speaking(doc, A, a) \in R!Document
BY DEF R!Document, R!Speaking

LEMMA ActiveTyped ==
    /\ R!Active \in R!Document
    /\ \A A \in SUBSET Adapters : [R!Active EXCEPT !.adapters = A] \in R!Document
    /\ R!ModelDocs \subseteq R!Document
<1>1. R!Active \in R!Document
  BY DEF R!Active, R!Document
<1>2. ASSUME NEW A \in SUBSET Adapters  PROVE [R!Active EXCEPT !.adapters = A] \in R!Document
  BY <1>1 DEF R!Document
<1>4. ASSUME NEW a \in Adapters, NEW K \in (SUBSET Channels) \ {{}}, NEW b \in BOOLEAN
      PROVE  R!ModelDoc(a, K, b) \in R!Document
  BY <1>1 DEF R!Document, R!ModelDoc
<1>5. R!ModelDocs \subseteq R!Document
  <2>1. SUFFICES ASSUME NEW x \in R!ModelDocs  PROVE x \in R!Document
    OBVIOUS
  <2>2. PICK a \in Adapters, K \in (SUBSET Channels) \ {{}}, b \in BOOLEAN :
            x = R!ModelDoc(a, K, b)
    BY <2>1 DEF R!ModelDocs
  <2>3. QED  BY <1>4, <2>2
<1>6. QED  BY <1>1, <1>2, <1>5

LEMMA CreateGrows ==
    ASSUME NEW d \in R!CatalogType, NEW u \in R!Resources, NEW doc \in R!Document, NEW s \in BOOLEAN
    PROVE  Grown(d, R!CreateWith(d, u, doc, s))
<1>1. Grown(d, R!Appended(d, u, doc))
  BY AppendedGrows
<1>2. PICK e : e = R!Appended(d, u, doc)
  OBVIOUS
<1>3. e \in R!CatalogType
  BY <1>1, <1>2 DEF Grown
<1>4. Grown(e, [e EXCEPT !.enabled[u] = s])
  BY <1>3, EnabledGrows
<1>5. R!CreateWith(d, u, doc, s) = [e EXCEPT !.enabled[u] = s]
  BY <1>2 DEF R!CreateWith
<1>6. QED  BY <1>1, <1>2, <1>4, <1>5, GrownOn

LEMMA RetireGrows ==
    ASSUME NEW d \in R!CatalogType, NEW u \in R!Resources, R!Exists(d, u)
    PROVE  /\ Grown(d, R!Retire(d, u)) /\ Grown(d, R!RetireSettled(d, u))
           /\ \A v \in R!Resources : v # u => R!Retire(d, u).revs[v] = d.revs[v]
<1>1. [R!Doc(d, u) EXCEPT !.life = "retired"] \in R!Document
  BY DocTyped, LifeTyped
<1>2. PICK e : e = R!Retire(d, u)
  OBVIOUS
<1>3. Grown(d, e) /\ \A v \in R!Resources : v # u => e.revs[v] = d.revs[v]
  BY <1>1, <1>2, AppendedGrows DEF R!Retire
<1>4. e \in R!CatalogType
  BY <1>3 DEF Grown
<1>5. Grown(e, [e EXCEPT !.enabled[u] = FALSE])
  BY <1>4, EnabledGrows
<1>6. R!RetireSettled(d, u) = [e EXCEPT !.enabled[u] = FALSE]
  BY <1>2 DEF R!RetireSettled
<1>7. QED  BY <1>2, <1>3, <1>5, <1>6, GrownOn

LEMMA ResourceKinds ==
    /\ Providers \subseteq R!Resources /\ Channels \subseteq R!Resources
    /\ Models \subseteq R!Resources /\ \A x \in Models : RateOf[x] \in R!Resources
BY DEF R!Resources, R!Rates

LEMMA CurrentExists ==
    ASSUME NEW d, NEW u, R!Current(d, u)  PROVE R!Exists(d, u)
BY DEF R!Current

LEMMA ProviderWrites ==
    ASSUME NEW d \in R!CatalogType,
           NEW e \in R!CreatedProviders(d) \cup R!UpdatedProviders(d) \cup R!RemovedProviders(d)
    PROVE  Grown(d, e)
<1>1. CASE e \in R!CreatedProviders(d)
  <2>1. PICK u \in {v \in Providers \cap R!Local : ~R!Exists(d, v) /\ R!NameFree(d, Providers, v)},
             A \in (SUBSET Adapters) \ {{}}, a \in AuthMethods, s \in BOOLEAN :
            e = R!CreateWith(d, u, R!Speaking(R!Active, A, a), s)
    BY <1>1 DEF R!CreatedProviders
  <2>2. R!Speaking(R!Active, A, a) \in R!Document
    BY ActiveTyped, SpeakingTyped
  <2>3. QED  BY <2>1, <2>2, CreateGrows, ResourceKinds
<1>2. CASE e \in R!UpdatedProviders(d)
  <2>1. PICK x \in (Providers \cap R!Local) \X ((SUBSET Adapters) \ {{}}) \X AuthMethods :
            /\ R!Current(d, x[1])
            /\ e = R!Appended(d, x[1], R!Speaking(R!Doc(d, x[1]), x[2], x[3]))
    BY <1>2 DEF R!UpdatedProviders
  <2>2. PICK u \in Providers, A \in SUBSET Adapters, a \in AuthMethods :
            u = x[1] /\ A = x[2] /\ a = x[3]
    BY <2>1
  <2>3. R!Doc(d, u) \in R!Document
    BY <2>1, <2>2, DocTyped, CurrentExists, ResourceKinds
  <2>4. R!Speaking(R!Doc(d, u), A, a) \in R!Document
    BY <2>3, SpeakingTyped
  <2>5. QED  BY <2>1, <2>2, <2>4, AppendedGrows, ResourceKinds
<1>3. CASE e \in R!RemovedProviders(d)
  <2>1. PICK u \in Providers : R!Current(d, u) /\ e = R!RetireSettled(d, u)
    BY <1>3 DEF R!RemovedProviders
  <2>2. QED  BY <2>1, RetireGrows, CurrentExists, ResourceKinds
<1>4. QED  BY <1>1, <1>2, <1>3

LEMMA ChannelWrites ==
    ASSUME NEW d \in R!CatalogType,
           NEW e \in R!CreatedChannels(d) \cup R!UpdatedChannels(d) \cup R!RemovedChannels(d)
    PROVE  Grown(d, e)
<1>1. ASSUME NEW x \in (Channels \cap R!Local) \X {[R!Active EXCEPT !.adapters = A] : A \in SUBSET Adapters}
      PROVE  x[1] \in R!Resources /\ x[2] \in R!Document
  <2>1. x[1] \in Channels /\ x[2] \in {[R!Active EXCEPT !.adapters = A] : A \in SUBSET Adapters}
    BY <1>1
  <2>2. QED  BY <2>1, ActiveTyped, ResourceKinds
<1>2. CASE e \in R!CreatedChannels(d)
  <2>1. PICK x \in (Channels \cap R!Local) \X {[R!Active EXCEPT !.adapters = A] : A \in SUBSET Adapters},
             s \in BOOLEAN : e = R!CreateWith(d, x[1], x[2], s)
    BY <1>2 DEF R!CreatedChannels
  <2>2. QED  BY <1>1, <2>1, CreateGrows
<1>3. CASE e \in R!UpdatedChannels(d)
  <2>1. PICK x \in (Channels \cap R!Local) \X {[R!Active EXCEPT !.adapters = A] : A \in SUBSET Adapters} :
             e = R!Appended(d, x[1], x[2])
    BY <1>3 DEF R!UpdatedChannels
  <2>2. QED  BY <1>1, <2>1, AppendedGrows
<1>4. CASE e \in R!RemovedChannels(d)
  <2>1. PICK u \in Channels : R!Current(d, u) /\ e = R!RetireSettled(d, u)
    BY <1>4 DEF R!RemovedChannels
  <2>2. QED  BY <2>1, RetireGrows, CurrentExists, ResourceKinds
<1>5. QED  BY <1>2, <1>3, <1>4

LEMMA GrownExists ==
    ASSUME NEW d \in R!CatalogType, NEW e, Grown(d, e), NEW u \in R!Resources, R!Exists(d, u)
    PROVE  R!Exists(e, u)
<1>1. d.revs[u] \in Seq(R!Document) /\ e.revs[u] \in Seq(R!Document)
  BY CatalogFields DEF Grown
<1>2. Len(d.revs[u]) # 0 /\ Len(d.revs[u]) <= Len(e.revs[u])
  BY <1>1 DEF Grown, HistoryKept, R!Exists
<1>3. QED  BY <1>1, <1>2 DEF R!Exists

LEMMA SelfGrown ==
    ASSUME NEW d \in R!CatalogType  PROVE Grown(d, d)
BY HistoryKeptSelf DEF Grown

\* A catalog that builds has the card of each priced model.
LEMMA CardExists ==
    ASSUME NEW d \in R!CatalogType, R!ModelsServable(d), NEW x \in Models, R!Current(d, x),
           R!Doc(d, x).priced
    PROVE  RateOf[x] \in R!Resources /\ R!Exists(d, RateOf[x])
BY ResourceKinds, CurrentExists DEF R!ModelsServable

LEMMA WithRateGrows ==
    ASSUME NEW d \in R!CatalogType, NEW x \in Models, NEW doc
    PROVE  Grown(d, R!WithRate(d, x, doc))
BY AppendedGrows, ActiveTyped, ResourceKinds, SelfGrown DEF R!WithRate

LEMMA RepricesGrow ==
    ASSUME NEW d \in R!CatalogType, R!ModelsServable(d), NEW x \in Models, R!Current(d, x), NEW doc,
           NEW e \in R!Reprices(d, x, doc)
    PROVE  Grown(d, e)
<1>1. Grown(d, R!Appended(d, RateOf[x], R!Active))
  BY AppendedGrows, ActiveTyped, ResourceKinds
<1>2. R!Doc(d, x).priced => Grown(d, R!Retire(d, RateOf[x]))
  BY CardExists, RetireGrows
<1>3. \/ e = d \/ e = R!Appended(d, RateOf[x], R!Active)
      \/ R!Doc(d, x).priced /\ e = R!Retire(d, RateOf[x])
  BY DEF R!Reprices
<1>4. QED  BY <1>1, <1>2, <1>3, SelfGrown

\* Something grown, and then a revision more.
LEMMA ThenAppended ==
    ASSUME NEW d \in R!CatalogType, NEW e, Grown(d, e), NEW u \in R!Resources, NEW doc \in R!Document
    PROVE  Grown(d, R!Appended(e, u, doc)) /\ \A s \in BOOLEAN : Grown(d, R!CreateWith(e, u, doc, s))
<1>1. e \in R!CatalogType
  BY DEF Grown
<1>2. Grown(e, R!Appended(e, u, doc)) /\ \A s \in BOOLEAN : Grown(e, R!CreateWith(e, u, doc, s))
  BY <1>1, AppendedGrows, CreateGrows
<1>3. QED  BY <1>2, GrownOn

LEMMA ModelWrites ==
    ASSUME NEW d \in R!CatalogType, R!ModelsServable(d),
           NEW e \in R!CreatedModels(d) \cup R!UpdatedModels(d) \cup R!ForkedModels(d)
                     \cup R!RemovedModels(d)
    PROVE  Grown(d, e)
<1>1. CASE e \in R!CreatedModels(d)
  <2>1. PICK s \in BOOLEAN, x \in (Models \cap R!Local) \X R!ModelDocs :
            e = R!CreateWith(R!WithRate(d, x[1], x[2]), x[1], x[2], s)
    BY <1>1 DEF R!CreatedModels
  <2>2. x[1] \in Models /\ x[1] \in R!Resources /\ x[2] \in R!Document
    BY ActiveTyped, ResourceKinds
  <2>3. Grown(d, R!WithRate(d, x[1], x[2]))
    BY <2>2, WithRateGrows
  <2>4. QED  BY <2>1, <2>2, <2>3, ThenAppended
<1>2. CASE e \in R!UpdatedModels(d)
  <2>1. CASE e \in R!StructuralUpdates(d)
    <3>1. PICK x \in (Models \cap R!Local) \X R!ModelDocs :
              /\ R!Current(d, x[1])
              /\ e \in {R!Appended(g, x[1], x[2]) : g \in R!Reprices(d, x[1], x[2])}
      BY <2>1 DEF R!StructuralUpdates
    <3>2. PICK g \in R!Reprices(d, x[1], x[2]) : e = R!Appended(g, x[1], x[2])
      BY <3>1
    <3>3. x[1] \in Models /\ x[1] \in R!Resources /\ x[2] \in R!Document
      BY ActiveTyped, ResourceKinds
    <3>4. Grown(d, g)
      BY <3>1, <3>3, RepricesGrow
    <3>5. QED  BY <3>2, <3>3, <3>4, ThenAppended
  <2>2. CASE \E x \in Models : R!Current(d, x) /\ e \in R!Reprices(d, x, R!Doc(d, x))
    BY <2>2, RepricesGrow
  <2>3. QED  BY <1>2, <2>1, <2>2 DEF R!UpdatedModels
<1>3. CASE e \in R!ForkedModels(d)
  <2>1. PICK x \in (Models \cap R!Local) \X Models :
            /\ R!Current(d, x[2])
            /\ e = R!CreateWith(R!WithRate(d, x[1], R!Doc(d, x[2])), x[1], R!Doc(d, x[2]), FALSE)
    BY <1>3 DEF R!ForkedModels
  <2>2. x[1] \in Models /\ x[1] \in R!Resources /\ x[2] \in R!Resources
    BY ResourceKinds
  <2>3. R!Doc(d, x[2]) \in R!Document
    BY <2>1, <2>2, DocTyped, CurrentExists
  <2>4. Grown(d, R!WithRate(d, x[1], R!Doc(d, x[2])))
    BY <2>2, WithRateGrows
  <2>5. QED  BY <2>1, <2>2, <2>3, <2>4, ThenAppended
<1>4. CASE e \in R!RemovedModels(d)
  <2>1. PICK u \in Models : R!Current(d, u) /\ e = R!RetireSettled(R!RetireRate(d, u), u)
    BY <1>4 DEF R!RemovedModels
  <2>2. Grown(d, R!RetireRate(d, u))
    BY <2>1, CardExists, RetireGrows, SelfGrown DEF R!RetireRate
  <2>3. R!RetireRate(d, u) \in R!CatalogType /\ R!Exists(R!RetireRate(d, u), u)
    BY <2>1, <2>2, GrownExists, CurrentExists, ResourceKinds DEF Grown
  <2>4. Grown(R!RetireRate(d, u), e)
    BY <2>1, <2>3, RetireGrows, ResourceKinds
  <2>5. QED  BY <2>2, <2>4, GrownOn
<1>5. QED  BY <1>1, <1>2, <1>3, <1>4

LEMMA SettingWrites ==
    ASSUME NEW d \in R!CatalogType,
           NEW e \in R!Switched(d) \cup R!CredentialsSet(d) \cup R!CredentialsArchived(d)
                     \cup R!Onboarded(d)
    PROVE  Grown(d, e)
<1>1. ASSUME NEW k \in Channels, NEW s \in {"none", "disabled", "enabled"}
      PROVE  Grown(d, [d EXCEPT !.cred[k] = s])
  <2>1. PICK h : h = [d.cred EXCEPT ![k] = s]
    OBVIOUS
  <2>2. h \in [Channels -> {"none", "disabled", "enabled"}]
    BY <2>1, CatalogFields
  <2>3. PICK g : g = [d EXCEPT !.cred = h]
    OBVIOUS
  <2>4. g \in R!CatalogType /\ g.revs = d.revs
    BY <2>2, <2>3 DEF R!CatalogType
  <2>5. [d EXCEPT !.cred[k] = s] = g
    BY <2>1, <2>3 DEF R!CatalogType
  <2>6. QED  BY <2>4, <2>5, SettingsGrow
<1>2. CASE e \in R!Switched(d)
  <2>1. PICK u \in DOMAIN d.enabled : e = [d EXCEPT !.enabled[u] = ~d.enabled[u]]
    BY <1>2 DEF R!Switched
  <2>2. PICK s \in BOOLEAN : e = [d EXCEPT !.enabled[u] = s]
    BY <2>1, Zenon
  <2>3. QED  BY <2>2, EnabledGrows
<1>3. CASE e \in R!CredentialsSet(d)
  <2>1. PICK k \in Channels, s \in {"disabled", "enabled"} : e = [d EXCEPT !.cred[k] = s]
    BY <1>3 DEF R!CredentialsSet
  <2>2. QED  BY <1>1, <2>1
<1>4. CASE e \in R!CredentialsArchived(d)
  <2>1. PICK k \in Channels : e = [d EXCEPT !.cred[k] = "none"]
    BY <1>4 DEF R!CredentialsArchived
  <2>2. QED  BY <1>1, <2>1
<1>5. CASE e \in R!Onboarded(d)
  <2>1. PICK x \in Channels \X SUBSET (Models \cap Official) :
            e = [d EXCEPT !.cred[x[1]] = "enabled",
                          !.enabled = R!SwitchedOn(d, {x[1], Owner[x[1]]} \cup x[2])]
    BY <1>5 DEF R!Onboarded
  <2>2. PICK h : h = R!SwitchedOn(d, {x[1], Owner[x[1]]} \cup x[2])
    OBVIOUS
  <2>3. h \in [Providers \cup Channels \cup Models -> BOOLEAN]
    BY <2>2, CatalogFields DEF R!SwitchedOn
  <2>4. PICK k : k = [d.cred EXCEPT ![x[1]] = "enabled"]
    OBVIOUS
  <2>5. k \in [Channels -> {"none", "disabled", "enabled"}]
    BY <2>4, CatalogFields
  <2>6. e = [d EXCEPT !.cred = k, !.enabled = h]
    BY <2>1, <2>2, <2>4 DEF R!CatalogType
  <2>7. e \in R!CatalogType /\ e.revs = d.revs
    BY <2>3, <2>5, <2>6 DEF R!CatalogType
  <2>8. QED  BY <2>7, SettingsGrow
<1>6. QED  BY <1>2, <1>3, <1>4, <1>5

\* Whatever an administrator writes keeps all revisions.
LEMMA LocalWritesGrow ==
    ASSUME NEW d \in R!CatalogType, R!ModelsServable(d), NEW e \in R!LocalWrites(d)
    PROVE  Grown(d, e)
BY ProviderWrites, ChannelWrites, ModelWrites, SettingWrites DEF R!LocalWrites

\* And so does the activation of a release.
LEMMA ActivateGrows ==
    ASSUME NEW d \in R!CatalogType, NEW n \in R!Releases
    PROVE  Grown(d, R!Activate(d, n))
<1>1. PICK h : h = [u \in R!Resources |->
                 IF u \in DOMAIN Bundles[n] /\ R!HeadOf(d, u) < Bundles[n][u].revision
                 THEN Append(d.revs[u], Bundles[n][u].document) ELSE d.revs[u]]
  OBVIOUS
<1>2. ASSUME NEW u \in R!Resources
      PROVE  /\ h[u] \in Seq(R!Document) /\ Len(d.revs[u]) <= Len(h[u])
             /\ \A k \in 1..Len(d.revs[u]) : h[u][k] = d.revs[u][k]
  <2>1. d.revs[u] \in Seq(R!Document)
    BY CatalogFields
  <2>2. u \in DOMAIN Bundles[n] => Bundles[n][u].document \in R!Document
    BY CatalogLimits
  <2>3. CASE h[u] = d.revs[u]
    BY <2>1, <2>3
  <2>4. CASE u \in DOMAIN Bundles[n] /\ h[u] = Append(d.revs[u], Bundles[n][u].document)
    BY <2>1, <2>2, <2>4
  <2>5. QED  BY <1>1, <2>3, <2>4
<1>3. h \in [R!Resources -> Seq(R!Document)]
  BY <1>1, <1>2
<1>4. PICK e : e = [d EXCEPT !.release = n, !.revs = h]
  OBVIOUS
<1>5. R!Activate(d, n) = e
  BY <1>1, <1>4 DEF R!Activate
<1>6. e \in R!CatalogType /\ e.revs = h
  BY <1>3, <1>4 DEF R!CatalogType
<1>7. QED  BY <1>2, <1>5, <1>6 DEF Grown, HistoryKept

\* The empty catalog, which every other continues.
LEMMA EmptyTyped ==
    /\ R!Empty \in R!CatalogType /\ R!emptySnapshot \in R!Snapshot
    /\ \A u \in R!Resources : ~R!Exists(R!Empty, u)
    /\ \A y \in R!CatalogType : HistoryKept(R!Empty, y)
    /\ R!ModelsServable(R!Empty)
<1>1. R!Empty \in R!CatalogType /\ \A u \in R!Resources : R!Empty.revs[u] = <<>>
  <2>1. <<>> \in Seq(R!Document)
    OBVIOUS
  <2>2. QED  BY <2>1 DEF R!Empty, R!CatalogType
<1>2. \A u \in R!Resources : ~R!Exists(R!Empty, u)
  BY <1>1 DEF R!Exists
<1>3. ASSUME NEW y \in R!CatalogType  PROVE HistoryKept(R!Empty, y)
  <2>1. \A u \in R!Resources : Len(y.revs[u]) \in Nat
    BY CatalogFields
  <2>2. QED  BY <1>1, <2>1 DEF HistoryKept
<1>4. R!ModelsServable(R!Empty)
  BY <1>2, ResourceKinds DEF R!ModelsServable, R!Current
<1>5. R!emptySnapshot \in R!Snapshot
  BY <1>1, CatalogLimits DEF R!emptySnapshot, R!Snapshot
<1>6. QED  BY <1>1, <1>2, <1>3, <1>4, <1>5

\* What is pinned stays, however the catalog continues.
LEMMA PinStays ==
    ASSUME NEW x \in R!CatalogType, NEW y \in R!CatalogType, HistoryKept(x, y),
           NEW pin, pin.model \in Models, PinHeld(x, pin)
    PROVE  PinHeld(y, pin) /\ y.revs[pin.model][pin.revision] = x.revs[pin.model][pin.revision]
<1>1. \A u \in R!Resources : /\ x.revs[u] \in Seq(R!Document) /\ y.revs[u] \in Seq(R!Document)
                             /\ Len(x.revs[u]) \in Nat /\ Len(y.revs[u]) \in Nat
  BY CatalogFields
<1>2. \A u \in R!Resources : \A k \in 1..Len(x.revs[u]) :
          k \in 1..Len(y.revs[u]) /\ y.revs[u][k] = x.revs[u][k]
  BY <1>1 DEF HistoryKept
<1>3. y.revs[pin.model][pin.revision] = x.revs[pin.model][pin.revision]
      /\ pin.revision \in 1..Len(y.revs[pin.model])
  BY <1>2, ResourceKinds DEF PinHeld
<1>4. pin.rate # 0 => /\ pin.rate \in 1..Len(y.revs[RateOf[pin.model]])
                      /\ y.revs[RateOf[pin.model]][pin.rate].life = "active"
  BY <1>2, ResourceKinds DEF PinHeld
<1>5. ASSUME NEW k \in y.revs[pin.model][pin.revision].uses  PROVE R!Exists(y, k)
  <2>1. R!Exists(x, k)
    BY <1>3, <1>5 DEF PinHeld
  <2>2. x.revs[pin.model][pin.revision] \in R!Document
    BY <1>1, ResourceKinds DEF PinHeld
  <2>3. k \in R!Resources
    BY <1>3, <1>5, <2>2, ResourceKinds DEF R!Document
  <2>4. QED  BY <2>1, <2>3, GrownExists DEF Grown
<1>6. QED  BY <1>3, <1>4, <1>5 DEF PinHeld

LEMMA RouteStays ==
    ASSUME NEW x \in R!CatalogType, NEW y \in R!CatalogType, HistoryKept(x, y),
           NEW pin, pin.model \in Models, PinHeld(x, pin), NEW route, RouteHeld(x, pin, route)
    PROVE  RouteHeld(y, pin, route)
<1>1. y.revs[pin.model][pin.revision] = x.revs[pin.model][pin.revision]
  BY PinStays
<1>2. route.channel \in R!Resources
  BY ResourceKinds DEF RouteHeld
<1>3. x.revs[route.channel] \in Seq(R!Document) /\ y.revs[route.channel] \in Seq(R!Document)
  BY <1>2, CatalogFields
<1>4. route.revision \in 1..Len(y.revs[route.channel])
      /\ y.revs[route.channel][route.revision] = x.revs[route.channel][route.revision]
  BY <1>2, <1>3 DEF RouteHeld, HistoryKept
<1>5. QED  BY <1>1, <1>4 DEF RouteHeld

\* What is pinned of a catalog that builds is in it.
LEMMA PinTaken ==
    ASSUME NEW d \in R!CatalogType, R!ModelsServable(d), NEW x \in Models, R!Current(d, x)
    PROVE  PinHeld(d, R!PinOf(d, x)) /\ R!PinOf(d, x).model = x
<1>1. /\ R!Doc(d, x) = d.revs[x][Len(d.revs[x])] /\ Len(d.revs[x]) \in Nat \ {0}
      /\ R!Doc(d, x) \in R!Document
  BY DocTyped, CurrentExists, ResourceKinds
<1>2. R!Doc(d, x).priced => /\ R!Doc(d, RateOf[x]) = d.revs[RateOf[x]][Len(d.revs[RateOf[x]])]
                            /\ Len(d.revs[RateOf[x]]) \in Nat \ {0}
                            /\ R!Doc(d, RateOf[x]).life = "active"
  BY DocTyped, CurrentExists, ResourceKinds DEF R!ModelsServable, R!Current
<1>3. PICK pin : pin = R!PinOf(d, x)
  OBVIOUS
<1>4. pin.model = x /\ pin.revision = Len(d.revs[x])
      /\ pin.rate = IF R!Doc(d, x).priced THEN Len(d.revs[RateOf[x]]) ELSE 0
  BY <1>3 DEF R!PinOf, R!HeadOf
<1>5. R!Doc(d, x).life = "active"
  BY DEF R!Current
<1>6. \A k \in R!Doc(d, x).uses : R!Exists(d, k)
  BY CurrentExists DEF R!ModelsServable, R!Compatible
<1>7. R!Doc(d, x).priced <=> pin.rate # 0
  BY <1>2, <1>4
<1>8. PinHeld(d, pin)
  BY <1>1, <1>2, <1>4, <1>5, <1>6, <1>7 DEF PinHeld
<1>9. QED  BY <1>3, <1>4, <1>8

\* The snapshot of the stored catalog, and what a snapshot is.
LEMMA HeldTyped ==
    ASSUME RegistrySound
    PROVE  /\ \A x \in Held : x.epoch \in Nat /\ x.catalog \in R!CatalogType
           /\ \A n \in Instances : snap[n] \in Held /\ pending[n] \subseteq Held
           /\ R!emptySnapshot.epoch = 0 /\ R!emptySnapshot.catalog = R!Empty
           /\ \E x \in Held : x.epoch = epoch /\ x.catalog = db
           /\ epoch \in Nat /\ MaxEpoch \in Nat
<1>1. epoch \in Nat /\ MaxEpoch \in Nat
  BY CatalogLimits DEF RegistrySound
<1>2. \A x \in Held : x.epoch \in Nat /\ x.catalog \in R!CatalogType
  BY <1>1 DEF RegistrySound, HeldSound, R!Snapshot
<1>3. \A n \in Instances : snap[n] \in Held /\ pending[n] \subseteq Held
  BY DEF Held
<1>4. R!emptySnapshot.epoch = 0 /\ R!emptySnapshot.catalog = R!Empty
  BY DEF R!emptySnapshot
<1>5. \E x \in Held : x.epoch = epoch /\ x.catalog = db
  <2>1. PICK x : x = [epoch |-> epoch, catalog |-> db]
    OBVIOUS
  <2>2. x \in Held /\ x.epoch = epoch /\ x.catalog = db
    BY <2>1 DEF Held
  <2>3. QED  BY <2>2
<1>6. QED  BY <1>1, <1>2, <1>3, <1>4, <1>5

\* The catalog that is stored can be served.
LEMMA StoredServes ==
    ASSUME RegistrySound
    PROVE  /\ R!ModelsServable(db) /\ (db = R!Empty \/ R!Builds(db))
           /\ \A n \in Instances : R!ModelsServable(snap[n].catalog)
<1>1. \A x \in Held : x.catalog = R!Empty \/ R!Builds(x.catalog)
  BY DEF RegistrySound, HeldSound
<1>2. \A x \in Held : R!ModelsServable(x.catalog)
  BY <1>1, EmptyTyped DEF R!Builds
<1>3. QED  BY <1>1, <1>2, HeldTyped

\* Snapshots are dropped, or an instance starts with the empty one.
LEMMA HeldShrinks ==
    ASSUME RegistrySound, epoch' = epoch, \A y \in Held' : y \in Held \/ y = R!emptySnapshot
    PROVE  HeldSound'
<1>1. \A x \in Held' : /\ x \in R!Snapshot /\ x.epoch <= epoch'
                       /\ x.epoch = 0 => x.catalog = R!Empty
                       /\ x.catalog = R!Empty \/ R!Builds(x.catalog)
  BY HeldTyped, EmptyTyped DEF RegistrySound, HeldSound
<1>2. ASSUME NEW x \in Held', NEW y \in Held'
      PROVE  /\ x.epoch <= y.epoch => HistoryKept(x.catalog, y.catalog)
             /\ x.epoch = y.epoch => x.catalog = y.catalog
  <2>1. CASE x \in Held /\ y \in Held
    BY <2>1 DEF RegistrySound, HeldSound
  <2>2. CASE x = R!emptySnapshot
    <3>1. y.catalog \in R!CatalogType /\ (y.epoch = 0 => y.catalog = R!Empty)
      BY <1>1 DEF R!Snapshot
    <3>2. QED  BY <2>2, <3>1, HeldTyped, EmptyTyped
  <2>3. CASE y = R!emptySnapshot
    <3>1. x.catalog \in R!CatalogType /\ (x.epoch = 0 => x.catalog = R!Empty) /\ x.epoch \in Nat
      BY <1>1, HeldTyped DEF R!Snapshot
    <3>2. x.epoch <= 0 => x.catalog = R!Empty
      BY <3>1
    <3>3. QED  BY <2>3, <3>1, <3>2, HeldTyped, EmptyTyped
  <2>4. QED  BY <2>1, <2>2, <2>3
<1>3. QED  BY <1>1, <1>2 DEF HeldSound

\* A catalog is committed.
LEMMA HeldGrows ==
    ASSUME RegistrySound, NEW s \in R!Snapshot, s.epoch = epoch', s.catalog = db',
           R!Builds(db'), Grown(db, db'),
           (epoch' = epoch /\ db' = db) \/ epoch' = epoch + 1,
           \A y \in Held' : y \in Held \/ y = s
    PROVE  HeldSound'
<1>1. \A x \in Held : /\ x \in R!Snapshot /\ x.epoch <= epoch
                      /\ x.epoch = 0 => x.catalog = R!Empty
                      /\ x.catalog = R!Empty \/ R!Builds(x.catalog)
  BY DEF RegistrySound, HeldSound
<1>2. \A x, y \in Held : /\ x.epoch <= y.epoch => HistoryKept(x.catalog, y.catalog)
                         /\ x.epoch = y.epoch => x.catalog = y.catalog
  BY DEF RegistrySound, HeldSound
<1>3. PICK z \in Held : z.epoch = epoch /\ z.catalog = db
  BY HeldTyped
<1>4. db \in R!CatalogType /\ db' \in R!CatalogType /\ epoch \in Nat
  BY HeldTyped DEF RegistrySound, Grown
<1>5. CASE epoch' = epoch /\ db' = db
  <2>1. s = z
    BY <1>1, <1>3, <1>5 DEF R!Snapshot
  <2>2. \A y \in Held' : y \in Held
    BY <1>3, <2>1
  <2>3. QED  BY <1>1, <1>2, <1>5, <2>2 DEF HeldSound
<1>6. CASE epoch' = epoch + 1
  <2>1. \A x \in Held' : /\ x \in R!Snapshot /\ x.epoch <= epoch'
                         /\ x.epoch = 0 => x.catalog = R!Empty
                         /\ x.catalog = R!Empty \/ R!Builds(x.catalog)
    BY <1>1, <1>4, <1>6, HeldTyped
  <2>2. ASSUME NEW x \in Held
        PROVE  x.epoch < s.epoch /\ HistoryKept(x.catalog, s.catalog)
    <3>1. x.epoch <= epoch /\ x.epoch \in Nat /\ x.catalog \in R!CatalogType
      BY <1>1, HeldTyped
    <3>2. HistoryKept(x.catalog, db)
      BY <1>2, <1>3, <3>1
    <3>3. HistoryKept(x.catalog, db')
      BY <1>4, <3>1, <3>2, HistoryKeptOn DEF Grown
    <3>4. QED  BY <1>4, <1>6, <3>1, <3>3
  <2>3. HistoryKept(s.catalog, s.catalog)
    BY <1>4, HistoryKeptSelf
  <2>4. s.epoch \in Nat /\ \A x \in Held : x.epoch \in Nat
    BY <1>4, <1>6, HeldTyped
  <2>5. ASSUME NEW x \in Held', NEW y \in Held'
        PROVE  /\ x.epoch <= y.epoch => HistoryKept(x.catalog, y.catalog)
               /\ x.epoch = y.epoch => x.catalog = y.catalog
    <3>1. CASE x \in Held /\ y \in Held
      BY <1>2, <3>1
    <3>2. CASE x \in Held /\ y = s
      BY <2>2, <2>4, <3>2
    <3>3. CASE x = s /\ y \in Held
      BY <2>2, <2>4, <3>3
    <3>4. CASE x = s /\ y = s
      BY <2>3, <3>4
    <3>5. QED  BY <3>1, <3>2, <3>3, <3>4
  <2>6. QED  BY <2>1, <2>5 DEF HeldSound
<1>7. QED  BY <1>5, <1>6

\* What Tasks have pinned survives both.
LEMMA PinsKept ==
    ASSUME RegistrySound, epoch' \in Nat, epoch <= epoch', Grown(db, db'),
           \A y \in Held' : y \in Held \/ y = R!emptySnapshot \/ y.catalog = db',
           NEW x \in pins
    PROVE  PinSound(x)'
<1>1. PinSound(x) /\ epoch \in Nat
  BY HeldTyped DEF RegistrySound
<1>2. db \in R!CatalogType /\ db' \in R!CatalogType /\ HistoryKept(db, db')
  BY DEF RegistrySound, Grown
<1>3. PinHeld(db, x.pin)
  BY <1>1, HeldTyped DEF PinSound
<1>4. PinHeld(db', x.pin)
  BY <1>1, <1>2, <1>3, PinStays DEF PinSound
<1>5. x.epoch \in 1..epoch' /\ x.pin.model \in Models
      /\ x = [pin |-> x.pin, epoch |-> x.epoch, route |-> x.route]
  BY <1>1 DEF PinSound
<1>6. \A y \in Held' : x.epoch <= y.epoch => PinHeld(y.catalog, x.pin)
  BY <1>1, <1>4, <1>5, HeldTyped DEF PinSound
<1>7. x.route = R!NoRoute \/ RouteHeld(db', x.pin, x.route)
  BY <1>1, <1>2, <1>3, RouteStays DEF PinSound
<1>8. QED  BY <1>5, <1>6, <1>7 DEF PinSound

\* What is held after a step.
LEMMA HeldNext ==
    ASSUME NEW x \in Held'
    PROVE  \/ \E n \in Instances : x \in pending'[n] \/ x = snap'[n]
           \/ x = [epoch |-> epoch', catalog |-> db']
BY DEF Held

\* MutateLocal and Reload commit.
LEMMA CommitStep ==
    ASSUME RegistrySound, NEW n \in Instances, R!Queued(n), NEW d, NEW e, Grown(db, d),
           (e = epoch /\ d = db) \/ e = epoch + 1, R!CommitEpoch(n, d, e)
    PROVE  RegistrySound'
<1>1. /\ e <= MaxEpoch /\ R!Builds(d) /\ db' = d /\ epoch' = e /\ snap' = snap /\ pins' = pins
      /\ \/ /\ pending' = [pending EXCEPT ![n] = pending[n] \cup {[epoch |-> e, catalog |-> d]}]
            /\ own' = [own EXCEPT ![n] = e]
         \/ pending' = pending /\ own' = own
  BY DEF R!CommitEpoch, R!BuildsNow
<1>2. epoch \in Nat /\ MaxEpoch \in Nat
  BY HeldTyped
<1>3. e \in Nat /\ e \in 0..MaxEpoch /\ epoch <= e
  BY <1>1, <1>2
<1>4. d \in R!CatalogType
  BY DEF Grown
<1>5. PICK s : s = [epoch |-> e, catalog |-> d]
  OBVIOUS
<1>6. s \in R!Snapshot /\ s.epoch = e /\ s.catalog = d
  BY <1>3, <1>4, <1>5 DEF R!Snapshot
<1>7. /\ snap \in [Instances -> R!Snapshot] /\ pending \in [Instances -> SUBSET R!Snapshot]
      /\ own \in [Instances -> 0..MaxEpoch] /\ pending[n] = {}
  BY DEF RegistrySound, R!Queued
<1>8. \/ pending' = [pending EXCEPT ![n] = {s}] /\ own' = [own EXCEPT ![n] = e]
      \/ pending' = pending /\ own' = own
  BY <1>1, <1>5, <1>7
<1>9. pending' \in [Instances -> SUBSET R!Snapshot] /\ own' \in [Instances -> 0..MaxEpoch]
  BY <1>3, <1>6, <1>7, <1>8
<1>10. ASSUME NEW y \in Held'  PROVE y \in Held \/ y = s
  <2>1. CASE y = [epoch |-> epoch', catalog |-> db']
    BY <1>1, <1>5, <2>1
  <2>2. ASSUME NEW k \in Instances, y \in pending'[k] \/ y = snap'[k]  PROVE y \in Held \/ y = s
    <3>1. y \in pending[k] \/ y = snap[k] \/ y = s
      BY <1>1, <1>7, <1>8, <2>2
    <3>2. QED  BY <3>1, HeldTyped
  <2>3. QED  BY <2>1, <2>2, HeldNext
<1>11. HeldSound'
  BY <1>1, <1>6, <1>10, HeldGrows
<1>12. ASSUME NEW k \in Instances
       PROVE  /\ own'[k] <= epoch' /\ (pending'[k] = {} => own'[k] <= snap'[k].epoch)
              /\ \A x \in pending'[k] : x.epoch = own'[k]
  <2>1. /\ own[k] <= epoch /\ own[k] \in Nat /\ (pending[k] = {} => own[k] <= snap[k].epoch)
        /\ \A x \in pending[k] : x.epoch = own[k]
    BY DEF RegistrySound
  <2>2. \/ pending'[k] = {s} /\ own'[k] = e
        \/ pending'[k] = pending[k] /\ own'[k] = own[k]
    BY <1>7, <1>8
  <2>3. CASE pending'[k] = {s} /\ own'[k] = e
    BY <1>1, <1>3, <1>6, <2>3
  <2>4. CASE pending'[k] = pending[k] /\ own'[k] = own[k]
    BY <1>1, <1>2, <1>3, <2>1, <2>4
  <2>5. QED  BY <2>2, <2>3, <2>4
<1>13. ASSUME NEW x \in pins  PROVE PinSound(x)'
  <2>1. \A y \in Held' : y \in Held \/ y = R!emptySnapshot \/ y.catalog = db'
    BY <1>1, <1>6, <1>10
  <2>2. QED  BY <1>1, <1>3, <2>1, PinsKept
<1>14. QED
  BY <1>1, <1>3, <1>4, <1>7, <1>9, <1>11, <1>12, <1>13 DEF RegistrySound

LEMMA WriteSteps ==
    ASSUME RegistrySound, NEW n \in Instances, R!MutateLocal(n) \/ R!Reload(n)
    PROVE  RegistrySound'
<1>1. db \in R!CatalogType
  BY DEF RegistrySound
<1>2. CASE R!MutateLocal(n)
  <2>1. PICK d \in R!LocalWrites(db) : R!Queued(n) /\ R!CommitEpoch(n, d, epoch + 1)
    BY <1>2 DEF R!MutateLocal
  <2>2. Grown(db, d)
    BY <1>1, StoredServes, LocalWritesGrow
  <2>3. QED  BY <2>1, <2>2, CommitStep
<1>3. CASE R!Reload(n)
  <2>1. PICK d \in R!Imported(n) : R!Queued(n) /\ R!CommitEpoch(n, d, R!EpochOf(d))
    BY <1>3 DEF R!Reload
  <2>2. d = db \/ d = R!Activate(db, Bundle[n])
    BY DEF R!Imported
  <2>3. Grown(db, d)
    BY <1>1, <2>2, SelfGrown, ActivateGrows, CatalogLimits
  <2>4. (R!EpochOf(d) = epoch /\ d = db) \/ R!EpochOf(d) = epoch + 1
    BY DEF R!EpochOf
  <2>5. QED  BY <2>1, <2>3, <2>4, CommitStep
<1>4. QED  BY <1>2, <1>3

\* The steps that commit nothing: what is held was held or is empty.
LEMMA MemorySteps ==
    ASSUME RegistrySound, NEW n \in Instances, R!SetSnapshot(n) \/ R!Restart(n)
    PROVE  RegistrySound'
<1>1. db' = db /\ epoch' = epoch /\ pins' = pins
  BY DEF R!SetSnapshot, R!Restart
<1>2. /\ snap \in [Instances -> R!Snapshot] /\ pending \in [Instances -> SUBSET R!Snapshot]
      /\ own \in [Instances -> 0..MaxEpoch] /\ db \in R!CatalogType /\ epoch \in 0..MaxEpoch
      /\ epoch \in Nat /\ MaxEpoch \in Nat /\ R!emptySnapshot \in R!Snapshot
      /\ R!emptySnapshot.epoch = 0
  BY HeldTyped, EmptyTyped DEF RegistrySound
<1>3. \A k \in Instances : /\ own[k] <= epoch /\ (pending[k] = {} => own[k] <= snap[k].epoch)
                           /\ \A x \in pending[k] : x.epoch = own[k]
  BY DEF RegistrySound
<1>4. /\ snap' \in [Instances -> R!Snapshot] /\ pending' \in [Instances -> SUBSET R!Snapshot]
      /\ own' \in [Instances -> 0..MaxEpoch]
      /\ \A k \in Instances : \/ /\ pending'[k] \subseteq pending[k] /\ own'[k] = own[k]
                                 /\ \/ snap'[k] = snap[k] /\ pending'[k] = pending[k]
                                    \/ snap'[k] \in pending[k]
                              \/ pending'[k] = {} /\ own'[k] = 0 /\ snap'[k] = R!emptySnapshot
  <2>1. CASE R!SetSnapshot(n)
    <3>1. PICK s \in pending[n] : /\ snap' = [snap EXCEPT ![n] = s] /\ own' = own
                                  /\ pending' = [pending EXCEPT ![n] = pending[n] \ {s}]
      BY <2>1 DEF R!SetSnapshot
    <3>2. s \in R!Snapshot
      BY <1>2, <3>1
    <3>3. QED  BY <1>2, <3>1, <3>2
  <2>2. CASE R!Restart(n)
    <3>1. /\ snap' = [snap EXCEPT ![n] = R!emptySnapshot] /\ pending' = [pending EXCEPT ![n] = {}]
          /\ own' = [own EXCEPT ![n] = 0]
      BY <2>2 DEF R!Restart
    <3>2. 0 \in 0..MaxEpoch
      BY <1>2
    <3>3. QED  BY <1>2, <3>1, <3>2
  <2>3. QED  BY <2>1, <2>2
<1>5. ASSUME NEW y \in Held'  PROVE y \in Held \/ y = R!emptySnapshot
  <2>1. CASE y = [epoch |-> epoch', catalog |-> db']
    BY <1>1, <2>1 DEF Held
  <2>2. ASSUME NEW k \in Instances, y \in pending'[k] \/ y = snap'[k]
        PROVE  y \in Held \/ y = R!emptySnapshot
    <3>1. y \in pending[k] \/ y = snap[k] \/ y = R!emptySnapshot
      BY <1>4, <2>2
    <3>2. QED  BY <3>1, HeldTyped
  <2>3. QED  BY <2>1, <2>2, HeldNext
<1>6. HeldSound'
  BY <1>1, <1>5, HeldShrinks
<1>7. ASSUME NEW k \in Instances
      PROVE  /\ own'[k] <= epoch' /\ (pending'[k] = {} => own'[k] <= snap'[k].epoch)
             /\ \A x \in pending'[k] : x.epoch = own'[k]
  <2>1. own[k] \in Nat
    BY <1>2
  <2>2. CASE pending'[k] = {} /\ own'[k] = 0 /\ snap'[k] = R!emptySnapshot
    BY <1>1, <1>2, <2>2
  <2>3. CASE own'[k] = own[k] /\ snap'[k] = snap[k] /\ pending'[k] = pending[k]
    BY <1>1, <1>3, <2>3
  <2>4. CASE own'[k] = own[k] /\ snap'[k] \in pending[k] /\ pending'[k] \subseteq pending[k]
    <3>1. snap'[k].epoch = own[k]
      BY <1>3, <2>4
    <3>2. QED  BY <1>1, <1>3, <2>1, <2>4, <3>1
  <2>5. QED  BY <1>4, <2>2, <2>3, <2>4
<1>8. ASSUME NEW x \in pins  PROVE PinSound(x)'
  <2>1. Grown(db, db') /\ epoch' \in Nat /\ epoch <= epoch'
    BY <1>1, <1>2, SelfGrown
  <2>2. \A y \in Held' : y \in Held \/ y = R!emptySnapshot \/ y.catalog = db'
    BY <1>5
  <2>3. QED  BY <2>1, <2>2, PinsKept
<1>9. QED  BY <1>1, <1>2, <1>4, <1>6, <1>7, <1>8 DEF RegistrySound

\* A Task is created, or sent: the catalogs stay.
LEMMA SamePins ==
    ASSUME RegistrySound, UNCHANGED <<db, epoch, snap, pending, own>>,
           \A x \in pins' : x = [pin |-> x.pin, epoch |-> x.epoch, route |-> x.route]
               /\ x.epoch \in 1..epoch /\ x.pin.model \in Models
               /\ (\A y \in Held : x.epoch <= y.epoch => PinHeld(y.catalog, x.pin))
               /\ (x.route = R!NoRoute \/ RouteHeld(db, x.pin, x.route))
    PROVE  RegistrySound'
<1>1. db' = db /\ epoch' = epoch /\ snap' = snap /\ pending' = pending /\ own' = own
  OBVIOUS
<1>2. Held' = Held
  BY <1>1 DEF Held
<1>3. HeldSound'
  BY <1>1, <1>2 DEF RegistrySound, HeldSound
<1>4. \A x \in pins' : PinSound(x)'
  BY <1>1, <1>2 DEF PinSound
<1>5. QED  BY <1>1, <1>3, <1>4 DEF RegistrySound

LEMMA TakePinStep ==
    ASSUME RegistrySound, NEW n \in Instances, R!TakePin(n)
    PROVE  RegistrySound'
<1>1. PICK x \in Models :
          /\ R!Available(snap[n].catalog, x)
          /\ pins' = {[pin |-> R!PinOf(snap[n].catalog, x), epoch |-> snap[n].epoch,
                       route |-> R!NoRoute]}
  BY DEF R!TakePin
<1>2. UNCHANGED <<db, epoch, snap, pending, own>>
  BY DEF R!TakePin
<1>3. PICK d : d = snap[n].catalog
  OBVIOUS
<1>4. R!Current(d, x)
  BY <1>1, <1>3 DEF R!Available, R!Pinnable
<1>5. /\ snap[n] \in Held /\ d \in R!CatalogType /\ R!ModelsServable(d)
      /\ snap[n].epoch \in Nat /\ snap[n].epoch <= epoch /\ epoch \in Nat
      /\ snap[n].epoch = 0 => d = R!Empty
  BY <1>3, HeldTyped, StoredServes DEF RegistrySound, HeldSound
<1>6. snap[n].epoch # 0
  BY <1>4, <1>5, EmptyTyped, CurrentExists, ResourceKinds
<1>7. PICK pin : pin = R!PinOf(d, x)
  OBVIOUS
<1>8. PinHeld(d, pin) /\ pin.model = x
  BY <1>4, <1>5, <1>7, PinTaken
<1>9. ASSUME NEW y \in Held, snap[n].epoch <= y.epoch  PROVE PinHeld(y.catalog, pin)
  <2>1. HistoryKept(d, y.catalog) /\ y.catalog \in R!CatalogType
    BY <1>3, <1>5, <1>9, HeldTyped DEF RegistrySound, HeldSound
  <2>2. QED  BY <1>5, <1>8, <2>1, PinStays
<1>10. \A z \in pins' : z = [pin |-> z.pin, epoch |-> z.epoch, route |-> z.route]
                        /\ z.pin = pin /\ z.epoch = snap[n].epoch /\ z.route = R!NoRoute
  BY <1>1, <1>3, <1>7
<1>11. snap[n].epoch \in 1..epoch
  BY <1>5, <1>6
<1>12. QED  BY <1>2, <1>8, <1>9, <1>10, <1>11, SamePins

\* What Candidates picks is a way the pinned revision names, at the channel's head.
LEMMA RouteTaken ==
    ASSUME NEW d \in R!CatalogType, NEW now \in R!CatalogType, HistoryKept(d, now),
           NEW pin, pin.model \in Models, NEW any, NEW k \in R!Candidates(d, pin, any)
    PROVE  RouteHeld(now, pin, R!RouteOf(d, k))
<1>1. R!Resolves(d, pin) /\ k \in R!Serving(d, pin.model, d.revs[pin.model][pin.revision])
  BY DEF R!Candidates
<1>2. \A u \in R!Resources : d.revs[u] \in Seq(R!Document) /\ now.revs[u] \in Seq(R!Document)
  BY CatalogFields
<1>3. pin.revision \in DOMAIN d.revs[pin.model]
  <2>1. PICK x \in UNION {{y} \X DOMAIN d.revs[y] : y \in Models} : x = <<pin.model, pin.revision>>
    BY <1>1 DEF R!Resolves, R!ByRevision
  <2>2. PICK y \in Models : x \in {y} \X DOMAIN d.revs[y]
    BY <2>1
  <2>3. QED  BY <2>1, <2>2
<1>4. PICK doc : doc = d.revs[pin.model][pin.revision]
  OBVIOUS
<1>5. doc \in R!Document /\ now.revs[pin.model][pin.revision] = doc
  <2>1. d.revs[pin.model] \in Seq(R!Document)
    BY <1>2, ResourceKinds
  <2>2. pin.revision \in 1..Len(d.revs[pin.model])
    BY <1>3, <2>1
  <2>3. QED  BY <1>4, <2>1, <2>2, ResourceKinds DEF HistoryKept
<1>6. /\ k \in doc.uses /\ R!Current(d, k) /\ Owner[k] = Owner[pin.model]
      /\ doc.adapters \subseteq R!Doc(d, k).adapters
  BY <1>1, <1>4 DEF R!Serving
<1>7. k \in Channels /\ k \in R!Resources
  BY <1>5, <1>6, ResourceKinds DEF R!Document
<1>8. /\ R!Doc(d, k) = d.revs[k][Len(d.revs[k])] /\ Len(d.revs[k]) \in Nat \ {0}
      /\ R!Doc(d, k).life = "active"
  BY <1>6, <1>7, DocTyped, CurrentExists DEF R!Current
<1>9. Len(d.revs[k]) \in 1..Len(d.revs[k]) /\ Len(d.revs[k]) \in 1..Len(now.revs[k])
  BY <1>2, <1>7, <1>8 DEF HistoryKept
<1>10. now.revs[k][Len(d.revs[k])] = R!Doc(d, k)
  BY <1>7, <1>8, <1>9 DEF HistoryKept
<1>11. PICK route : route = R!RouteOf(d, k)
  OBVIOUS
<1>12. route.channel = k /\ route.revision = Len(d.revs[k])
  BY <1>11 DEF R!RouteOf, R!HeadOf
<1>13. QED
  BY <1>5, <1>6, <1>7, <1>8, <1>9, <1>10, <1>11, <1>12 DEF RouteHeld

LEMMA DispatchStep ==
    ASSUME RegistrySound, NEW n \in Instances, R!Dispatch(n)
    PROVE  RegistrySound'
<1>0. PICK x \in pins : \E k \in R!Candidates(snap[n].catalog, x.pin, db) :
          pins' = {[x EXCEPT !.route = R!RouteOf(snap[n].catalog, k)]}
  BY DEF R!Dispatch
<1>1. PICK k \in R!Candidates(snap[n].catalog, x.pin, db) :
          pins' = {[x EXCEPT !.route = R!RouteOf(snap[n].catalog, k)]}
  BY <1>0
<1>2. UNCHANGED <<db, epoch, snap, pending, own>>
  BY DEF R!Dispatch
<1>3. PinSound(x) /\ db \in R!CatalogType
  BY DEF RegistrySound
<1>4. snap[n].catalog \in R!CatalogType /\ HistoryKept(snap[n].catalog, db)
  BY HeldTyped DEF RegistrySound, HeldSound
<1>5. RouteHeld(db, x.pin, R!RouteOf(snap[n].catalog, k))
  BY <1>3, <1>4, RouteTaken DEF PinSound
<1>6. \A z \in pins' : /\ z = [pin |-> z.pin, epoch |-> z.epoch, route |-> z.route]
                       /\ z.pin = x.pin /\ z.epoch = x.epoch
                       /\ z.route = R!RouteOf(snap[n].catalog, k)
  BY <1>1, <1>3 DEF PinSound
<1>7. QED  BY <1>2, <1>3, <1>5, <1>6, SamePins DEF PinSound

LEMMA RegistryInit == Init => RegistryInv
<1> SUFFICES ASSUME R!Init  PROVE RegistrySound
  BY DEF Init, RegistryInv
<1>1. /\ snap = [n \in Instances |-> R!emptySnapshot] /\ pending = [n \in Instances |-> {}]
      /\ own = [n \in Instances |-> 0] /\ pins = {}
      /\ (db = R!Empty /\ epoch = 0) \/ (db = InUse /\ epoch = 1)
  BY DEF R!Init
<1>2. /\ R!emptySnapshot \in R!Snapshot /\ R!emptySnapshot.epoch = 0
      /\ R!emptySnapshot.catalog = R!Empty /\ R!Empty \in R!CatalogType
  BY EmptyTyped DEF R!emptySnapshot
<1>3. /\ db \in R!CatalogType /\ epoch \in 0..MaxEpoch /\ epoch \in {0, 1}
      /\ db = R!Empty \/ R!Builds(db)
  BY <1>1, <1>2, CatalogLimits
<1>4. PICK s : s = [epoch |-> epoch, catalog |-> db]
  OBVIOUS
<1>5. s \in R!Snapshot /\ s.epoch = epoch /\ s.catalog = db
  BY <1>3, <1>4 DEF R!Snapshot
<1>6. \A x \in Held : x = R!emptySnapshot \/ x = s
  BY <1>1, <1>4 DEF Held
<1>7. \A x \in Held : /\ x \in R!Snapshot /\ x.epoch <= epoch
                      /\ x.epoch = 0 => x.catalog = R!Empty
                      /\ x.catalog = R!Empty \/ R!Builds(x.catalog)
  BY <1>1, <1>2, <1>3, <1>5, <1>6
<1>8. ASSUME NEW x \in Held, NEW y \in Held
      PROVE  /\ x.epoch <= y.epoch => HistoryKept(x.catalog, y.catalog)
             /\ x.epoch = y.epoch => x.catalog = y.catalog
  <2>1. HistoryKept(R!Empty, db) /\ HistoryKept(R!Empty, R!Empty) /\ HistoryKept(db, db)
    BY <1>2, <1>3, EmptyTyped, HistoryKeptSelf
  <2>2. QED  BY <1>1, <1>2, <1>5, <1>6, <2>1
<1>9. HeldSound
  BY <1>7, <1>8 DEF HeldSound
<1>10. /\ snap \in [Instances -> R!Snapshot] /\ pending \in [Instances -> SUBSET R!Snapshot]
       /\ own \in [Instances -> 0..MaxEpoch]
  BY <1>1, <1>2, CatalogLimits
<1>11. QED  BY <1>1, <1>2, <1>3, <1>9, <1>10 DEF RegistrySound

LEMMA RegistryStep == RegistryInv /\ [Next]_vars => RegistryInv'
<1> SUFFICES ASSUME RegistrySound, [Next]_vars, scope = "registry"  PROVE RegistrySound'
  BY OneMoves DEF RegistryInv
<1>1. CASE R!Next
  BY <1>1, WriteSteps, MemorySteps, TakePinStep, DispatchStep DEF R!Next
<1>2. CASE UNCHANGED registryVars
  <2>1. UNCHANGED <<db, epoch, snap, pending, own>> /\ pins' = pins
    BY <1>2 DEF registryVars
  <2>2. QED  BY <2>1, SamePins DEF RegistrySound, PinSound
<1>3. QED  BY <1>1, <1>2, OneMoves

LEMMA RegistryCorrect == Spec => []RegistryInv
BY RegistryInit, RegistryStep, PTL DEF Spec

\* What a Task has pinned is found in every later snapshot.
LEMMA PinResolves ==
    ASSUME NEW d \in R!CatalogType, NEW pin, pin.model \in Models, PinHeld(d, pin),
           \A u \in {pin.model, Owner[pin.model], RateOf[pin.model]} : ~R!Revoked(d, u)
    PROVE  R!Resolves(d, pin)
<1>1. d.revs[pin.model] \in Seq(R!Document) /\ d.revs[RateOf[pin.model]] \in Seq(R!Document)
  BY CatalogFields, ResourceKinds
<1>2. pin.revision \in DOMAIN d.revs[pin.model]
  BY <1>1 DEF PinHeld
<1>3. <<pin.model, pin.revision>> \in R!ByRevision(d)
  BY <1>2 DEF PinHeld, R!ByRevision
<1>4. ASSUME pin.rate # 0  PROVE <<RateOf[pin.model], pin.rate>> \in R!RateRevisions(d)
  <2>1. pin.rate \in DOMAIN d.revs[RateOf[pin.model]] /\ RateOf[pin.model] \in R!Rates
    BY <1>1, <1>4 DEF PinHeld, R!Rates
  <2>2. QED  BY <1>4, <2>1 DEF PinHeld, R!RateRevisions
<1>5. d.revs[pin.model][pin.revision].priced <=> pin.rate # 0
  BY DEF PinHeld
<1>6. QED  BY <1>3, <1>4, <1>5 DEF R!Resolves

\* And the way it was sent, which the database keeps.
LEMMA RouteReaches ==
    ASSUME NEW d \in R!CatalogType, NEW now \in R!CatalogType, HistoryKept(d, now),
           NEW pin, pin.model \in Models, PinHeld(d, pin), NEW route, RouteHeld(now, pin, route),
           ~R!Revoked(d, route.channel)
    PROVE  R!Historical(d, pin, route, now)
<1>1. now.revs[pin.model][pin.revision] = d.revs[pin.model][pin.revision]
  BY PinStays
<1>2. R!Exists(d, route.channel)
  BY <1>1 DEF PinHeld, RouteHeld
<1>3. QED  BY <1>1, <1>2 DEF RouteHeld, R!Historical

\* The stored catalog can always be built; the pin and the route of a Task serve it
\* in every later snapshot of every instance until a revocation; an instance with
\* nothing under way serves what it wrote; and an epoch names one content:
\* RegistryBootstrapService, the writers behind it and RegistryService.
THEOREM CatalogServesCorrect == Spec => []CatalogServes
<1>1. RegistryInv => CatalogServes
  <2> SUFFICES ASSUME RegistrySound
               PROVE  /\ R!StoredCatalogBuilds /\ R!TaskStaysReachable
                      /\ R!OwnWritesServed /\ R!EpochNamesContent
    BY DEF RegistryInv, CatalogServes
  <2>1. R!StoredCatalogBuilds
    BY StoredServes DEF R!StoredCatalogBuilds
  <2>2. R!TaskStaysReachable
    <3>1. ASSUME NEW x \in pins, NEW n \in Instances, snap[n].epoch >= x.epoch,
                 ~\E u \in {x.pin.model, Owner[x.pin.model], RateOf[x.pin.model]} :
                      R!Revoked(snap[n].catalog, u)
          PROVE  /\ R!Resolves(snap[n].catalog, x.pin)
                 /\ \/ x.route = R!NoRoute
                    \/ \E u \in {x.route.channel} : R!Revoked(snap[n].catalog, u)
                    \/ R!Reaches(snap[n].catalog, x.pin, x.route, db)
      <4>1. PinSound(x) /\ x.epoch <= snap[n].epoch
        BY <3>1, HeldTyped DEF RegistrySound, PinSound
      <4>2. /\ snap[n].catalog \in R!CatalogType /\ db \in R!CatalogType
            /\ HistoryKept(snap[n].catalog, db)
        BY HeldTyped DEF RegistrySound, HeldSound
      <4>3. PinHeld(snap[n].catalog, x.pin) /\ x.pin.model \in Models
        BY <4>1, HeldTyped DEF PinSound
      <4>4. R!Resolves(snap[n].catalog, x.pin)
        BY <3>1, <4>2, <4>3, PinResolves
      <4>5. ASSUME RouteHeld(db, x.pin, x.route), ~R!Revoked(snap[n].catalog, x.route.channel)
            PROVE  R!Historical(snap[n].catalog, x.pin, x.route, db)
        BY <4>2, <4>3, <4>5, RouteReaches
      <4>6. QED  BY <4>1, <4>4, <4>5 DEF PinSound, R!Reaches
    <3>2. QED  BY <3>1 DEF R!TaskStaysReachable
  <2>3. R!OwnWritesServed
    <3>1. \A n \in Instances : /\ own[n] \in Nat /\ snap[n].epoch \in Nat
                               /\ pending[n] = {} => own[n] <= snap[n].epoch
      BY HeldTyped DEF RegistrySound
    <3>2. QED  BY <3>1 DEF R!OwnWritesServed
  <2>4. R!EpochNamesContent
    BY DEF RegistrySound, HeldSound, Held, R!EpochNamesContent
  <2>5. QED  BY <2>1, <2>2, <2>3, <2>4
<1>2. QED  BY <1>1, RegistryCorrect, PTL

(***************************************************************************)
(* All components.                                                         *)
(***************************************************************************)
\* Every variable of every component keeps to its type: the rows, records, queues
\* and caches have the shapes their modules give them, whatever step was taken.
THEOREM WorkspaceTyped == Spec => []TypeOK
<1>1. ASSUME RegistrySound  PROVE R!TypeOK
  <2>1. epoch \in Nat /\ MaxEpoch \in Nat /\ epoch <= MaxEpoch
    BY <1>1, HeldTyped DEF RegistrySound
  <2>2. \A x \in pins : x.epoch \in 1..MaxEpoch
    BY <1>1, <2>1 DEF RegistrySound, PinSound
  <2>3. \A n \in Instances : \A x \in pending[n] : x \in R!Snapshot
    BY <1>1 DEF RegistrySound
  <2>4. QED  BY <1>1, <2>2, <2>3 DEF RegistrySound, R!TypeOK
<1>2. ASSUME Replies  PROVE H!TypeOK
  <2>1. \A t \in Turns : turn[t] \in H!Turn(turn[t].sent)
    <3>1. ASSUME NEW t \in Turns  PROVE turn[t] \in H!Turn(turn[t].sent)
      <4>1. turn[t] \in TurnType
        BY <1>2 DEF Replies
      <4>2. QED  BY <4>1 DEF TurnType, H!Turn
    <3>2. QED  BY <3>1
  <2>2. \A a \in messages : a.conv \in Convs /\ a.turn \in Turns
    BY <1>2 DEF Replies, MessageType
  <2>3. \A x \in loads : x \in [conv : Convs, current : BOOLEAN]
    BY <1>2 DEF Replies, LoadType
  <2>4. QED  BY <1>2, <2>1, <2>2, <2>3 DEF Replies, H!TypeOK
<1>3. CanvasInv /\ WritebackInv /\ PollingInv /\ UploadsInv /\ RegistryInv /\ RunnerInv /\ RepliesInv
      => TypeOK
  BY <1>1, <1>2 DEF CanvasInv, CanvasTyped, WritebackInv, PollingInv, UploadsInv, RegistryInv,
     RunnerInv, RepliesInv, TypeOK
<1>4. QED
  BY <1>3, CanvasCorrect, WritebackCorrect, PollingCorrect, UploadsCorrect, RegistryCorrect,
     RunnerCorrect, RepliesCorrect, PTL
============================================================================
