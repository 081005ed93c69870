---------------------------- MODULE MCWorkspace ----------------------------
(***************************************************************************)
(* The instances of the modules around canvases, uploads, chats and the    *)
(* model registry that TLC checks, side by side in one run as in MCSecrets:      *)
(* scope names the one component that moves.                               *)
(***************************************************************************)
EXTENDS Naturals, Sequences, FiniteSets, TLC

CONSTANTS
    None,
    Nodes, n1, n2, Clients, Editor, MaxVersion,        \* CanvasGraph
    Tasks, Savers,                                     \* NodeWriteback
    Clicked, MaxGeneration, MaxVisits,                 \* NodePolling: the Tasks of its node
    Requests, Cleaners, Declared, bad, Poster,         \* Uploads
    Instances, Providers, Channels, Models, Owner, RateOf, Name, Official, Bundles,
    Adapters, AuthMethods, Bundle, InUse, MaxEpoch, MaxHead,    \* Registry
    i1, i2, op, oc, om, on, p, c, m, f, rm, rf, rom, ron,       \* its small instance
    Works, Concurrency,                                \* TaskRunner
    Convs, v1, Turns, MaxLoads                         \* Chat

ASSUME RunnerLimits == IsFiniteSet(Works) /\ Concurrency \in Nat /\ None \notin Nat

VARIABLES scope,
          graph, version, shots, edits, view, raced, lost,
          node, task, order, ending, copy, overwritten,
          server, born, shown, undo, gen, current, lastSub, calls, poll, answers,
          resume, visits, author, dropped,
          draft, late, staged, final, asset, locks, attempts, pass, undone, reput,
          db, epoch, snap, pending, own, pins,
          dispatching, inFlight, rounds, work,
          convs, messages, turn, page, loads, left, deleted

-----------------------------------------------------------------------------
(* The catalog: an administrator's provider p with a channel, a model m and *)
(* the slug of a fork f of it; an official provider op with the model om of *)
(* release 1, which release 2 revokes and replaces by on, under f's name.   *)

SmallOwner == (c :> p) @@ (m :> p) @@ (f :> p) @@ (oc :> op) @@ (om :> op) @@ (on :> op)
SmallRateOf == (m :> rm) @@ (f :> rf) @@ (om :> rom) @@ (on :> ron)
SmallName == (p :> "p") @@ (op :> "op") @@ (m :> "m") @@ (f :> "f") @@ (om :> "om") @@ (on :> "f")

Live == [life |-> "active", adapters |-> {"a"}, auth |-> "none", uses |-> {}, priced |-> FALSE]
OfficialModel == [Live EXCEPT !.uses = {oc}]
Rev(n, doc) == [revision |-> n, document |-> doc]
Release1 == (op :> Rev(1, [Live EXCEPT !.auth = "key"])) @@ (oc :> Rev(1, Live))
            @@ (om :> Rev(1, OfficialModel))
Release2 == (om :> Rev(2, [OfficialModel EXCEPT !.life = "revoked"]))
            @@ (on :> Rev(1, OfficialModel)) @@ Release1
SmallBundles == <<Release1, Release2>>
\* An upgrade under way: i1 still runs the build with release 1.
SmallBundle == (i1 :> 1) @@ (i2 :> 2)

SmallResources == Providers \cup Channels \cup Models \cup {RateOf[x] : x \in Models}
LocalOnes == (p :> [Live EXCEPT !.adapters = Adapters, !.auth = "key"]) @@ (c :> [Live EXCEPT !.adapters = Adapters])
             @@ (m :> [Live EXCEPT !.uses = {c}, !.priced = TRUE])
             @@ (rm :> [Live EXCEPT !.adapters = {}])
SmallInUse ==
    [revs |-> [u \in SmallResources |-> IF u \in DOMAIN LocalOnes THEN <<LocalOnes[u]>>
                                   ELSE IF u \in DOMAIN Release1 THEN <<Release1[u].document>>
                                   ELSE <<>>],
     release |-> 1,
     enabled |-> [u \in Providers \cup Channels \cup Models |-> u \notin {on, f}],
     cred |-> (c :> "enabled") @@ (oc :> "none")]

-----------------------------------------------------------------------------
C == INSTANCE CanvasGraph WITH req <- edits
W == INSTANCE NodeWriteback
P == INSTANCE NodePolling WITH Tasks <- Clicked
U == INSTANCE Uploads WITH Contents <- Declared \cup {bad}, req <- attempts
R == INSTANCE Registry
T == INSTANCE TaskRunner
H == INSTANCE Chat

\* What stands for a missing row is no row.
ASSUME NoneIsNoRow == None \notin W!DataType /\ None \notin U!AssetType /\ None \notin Declared
ASSUME NoneIsNoPoll == None \notin P!NodeData /\ None \notin P!Entry /\ None \notin P!Statuses
ASSUME PollingLimits == MaxGeneration \in Nat /\ MaxVisits \in Nat
ASSUME TasksDiffer ==
    /\ None \notin Tasks /\ IsFiniteSet(Tasks)
    /\ None \notin Clicked /\ IsFiniteSet(Clicked)
ASSUME CanvasLimits ==
    /\ Editor \in Clients /\ IsFiniteSet(Clients) /\ MaxVersion \in Nat
    /\ None \notin Nodes \cup (Nodes \X Nodes) /\ None \notin C!Graphs
    /\ Nodes \cap (Nodes \X Nodes) = {}

\* What the catalog starts with and every release are catalogs, and the former builds.
ASSUME CatalogLimits ==
    /\ InUse \in R!CatalogType /\ R!Builds(InUse)
    /\ Bundle \in [Instances -> R!Releases] /\ MaxEpoch \in Nat \ {0}
    /\ \A x \in R!Releases : \A u \in DOMAIN Bundles[x] : Bundles[x][u].document \in R!Document
ASSUME ChatLimits ==
    /\ v1 \in Convs /\ None \notin Convs \cup Turns /\ Convs \cap Turns = {}

canvasVars    == <<graph, version, shots, edits, view, raced, lost>>
writebackVars == <<node, task, order, ending, copy, overwritten>>
pollingVars   == <<server, born, shown, undo, gen, current, lastSub, calls, poll,
                  answers, resume, visits, author, dropped>>
uploadsVars   == <<draft, late, staged, final, asset, locks, attempts, pass, undone, reput>>
registryVars  == <<db, epoch, snap, pending, own, pins>>
runnerVars    == <<dispatching, inFlight, rounds, work>>
chatVars      == <<convs, messages, turn, page, loads, left, deleted>>
vars == <<scope, canvasVars, writebackVars, pollingVars, uploadsVars, registryVars,
          runnerVars, chatVars>>

\* A component that does not move has next to no state.
CanvasRests ==
    /\ graph = None /\ version = None /\ shots = None /\ edits = None /\ view = None
    /\ raced = None /\ lost = None
WritebackRests ==
    /\ node = None /\ task = None /\ order = None /\ ending = None /\ copy = None
    /\ overwritten = None
PollingRests ==
    /\ server = None /\ born = None /\ shown = None /\ undo = None /\ gen = None
    /\ current = None /\ lastSub = None /\ calls = None /\ poll = None /\ answers = None
    /\ resume = None /\ visits = None /\ author = None /\ dropped = None
UploadsRests ==
    /\ draft = [status |-> "none", cleaned |-> FALSE] /\ late = None /\ staged = None
    /\ final = None /\ asset = None /\ locks = None /\ attempts = None /\ pass = None
    /\ undone = None /\ reput = None
RegistryRests ==
    /\ db = None /\ epoch = None /\ snap = None /\ pending = None /\ own = None
    /\ pins = None
RunnerRests ==
    /\ dispatching = None /\ inFlight = None /\ rounds = None /\ work = None
ChatRests ==
    /\ convs = None /\ messages = None /\ turn = None /\ page = None /\ loads = None
    /\ left = None /\ deleted = None

Init ==
    /\ scope \in {"canvas", "writeback", "polling", "uploads", "registry", "runner",
                  "replies", "chat page"}
    /\ IF scope = "canvas" THEN C!Init /\ graph.edges \subseteq {<<n1, n2>>} ELSE CanvasRests
    /\ IF scope = "writeback" THEN W!Init ELSE WritebackRests
    /\ IF scope = "polling" THEN P!Init ELSE PollingRests
    /\ IF scope = "uploads" THEN U!Init ELSE UploadsRests
    /\ IF scope = "registry" THEN R!Init ELSE RegistryRests
    /\ IF scope = "runner" THEN T!Init ELSE RunnerRests
    /\ IF scope \in {"replies", "chat page"} THEN H!Init /\ convs = {v1} ELSE ChatRests

\* Bound: a canvas is left when what its invariants except has happened, which
\* is never taken back; and it starts without edges or with n1 -> n2.
CanvasMoves ==
    /\ scope = "canvas" /\ ~raced /\ ~lost /\ C!Next
    /\ UNCHANGED <<scope, writebackVars, pollingVars, uploadsVars, registryVars,
                   runnerVars, chatVars>>
WritebackMoves ==
    /\ scope = "writeback" /\ W!Next
    /\ UNCHANGED <<scope, canvasVars, pollingVars, uploadsVars, registryVars,
                   runnerVars, chatVars>>
PollingMoves ==
    /\ scope = "polling" /\ P!Next
    /\ UNCHANGED <<scope, canvasVars, writebackVars, uploadsVars, registryVars,
                   runnerVars, chatVars>>
UploadsMoves ==
    /\ scope = "uploads" /\ U!Next
    /\ UNCHANGED <<scope, canvasVars, writebackVars, pollingVars, registryVars,
                   runnerVars, chatVars>>
RegistryMoves ==
    /\ scope = "registry" /\ R!Next
    /\ UNCHANGED <<scope, canvasVars, writebackVars, pollingVars, uploadsVars,
                   runnerVars, chatVars>>
RunnerMoves ==
    /\ scope = "runner" /\ T!Next
    /\ UNCHANGED <<scope, canvasVars, writebackVars, pollingVars, uploadsVars,
                   registryVars, chatVars>>

\* Bounds: with a faulty server the page stays where it is and hears each event
\* before the next; while the user moves about, turns succeed, their text is not
\* told apart, and the page acts when the server waits for the vendor or for no
\* one.  One conversation at most is deleted, and nothing is explored after what
\* the page does not promise.
Waiting == \A t \in Turns : turn[t].at \in {"none", "resolve", "stream", "over"}
ChatMoves ==
    /\ scope \in {"replies", "chat page"} /\ ~left /\ H!Next
    /\ Cardinality(deleted') <= 1
    /\ IF scope = "replies"
       THEN loads' = {} /\ \A t \in Turns : Len(turn'[t].sent) <= 1
       ELSE /\ deleted' = {} /\ (Waiting \/ UNCHANGED <<page, loads>>)
            /\ \A t \in Turns :
                  /\ turn'[t].kind = "stream" /\ turn'[t].at # "dead"
                  /\ ~turn'[t].failed /\ turn'[t].row # "error"
                  /\ \A i \in DOMAIN turn'[t].sent : turn'[t].sent[i] # "delta"
    /\ UNCHANGED <<scope, canvasVars, writebackVars, pollingVars, uploadsVars,
                   registryVars, runnerVars>>

Next ==
    \/ CanvasMoves \/ WritebackMoves \/ PollingMoves \/ UploadsMoves
    \/ RegistryMoves \/ RunnerMoves \/ ChatMoves

Spec == Init /\ [][Next]_vars

-----------------------------------------------------------------------------
\* The variables have their types.
TypeOK ==
    /\ scope = "canvas" => C!TypeOK
    /\ scope = "writeback" => W!TypeOK
    /\ scope = "polling" => P!TypeOK
    /\ scope = "uploads" => U!TypeOK
    /\ scope = "registry" => R!TypeOK
    /\ scope = "runner" => T!TypeOK
    /\ scope \in {"replies", "chat page"} => H!TypeOK

\* A canvas becomes cyclic only by an overtaken check or client (CanvasGraph).
AcyclicUnlessRaced == scope = "canvas" => C!AcyclicUnlessRaced
\* A snapshot of the current version is the current graph, and a sole editor shows
\* the server's graph, undo included (CanvasGraph).
CanvasAgrees == scope = "canvas" => C!SnapshotCurrent /\ C!SoleEditorAgrees
\* The result of the newest Task is shown, unless overwritten (NodeWriteback).
NewestResultShown == scope = "writeback" => W!NewestResultShown
\* A live Task that is shown is polled (NodePolling).
LiveTaskFollowed == scope = "polling" => P!LiveTaskFollowed
\* No late answer takes a node back (NodePolling).
ShownMovesForward == P!ShownMovesForward
\* An asset has the object that was verified for it, and a staged object is known
\* to a row that a cleanup selects (Uploads).
ObjectsAccountedFor == scope = "uploads" => U!AssetHasItsObject /\ U!StagingReclaimable
\* An upload that has expired does not become an asset (Uploads).
ExpiredStaysExpired == U!ExpiredStaysExpired
\* The stored catalog can always be built into a snapshot, and a Task keeps its
\* model, price and route until a revocation; an instance serves its own writes,
\* and an epoch names one content everywhere (Registry).
CatalogServes ==
    scope = "registry" =>
        /\ R!StoredCatalogBuilds /\ R!TaskStaysReachable
        /\ R!OwnWritesServed /\ R!EpochNamesContent
\* The page shows the conversation it is in, and replies are answers exactly where
\* the ledger has a success (Chat).
ChatAgrees ==
    /\ scope = "chat page" => H!PageShowsItsConversation
    /\ scope = "replies" => H!RepliesMatchLedger
\* Invokes and polls share one hard cap (TaskRunner).
CapKept == scope = "runner" => T!CapKept
=============================================================================
