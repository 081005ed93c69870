---------------------------- MODULE CanvasGraph ----------------------------
(***************************************************************************)
(* The canvas of a project: its nodes and edges, the version that stands   *)
(* for them, the snapshots kept per version, and the browsers that edit it.*)
(*                                                                         *)
(* Most operations of the API write in one statement and bump the version  *)
(* in another; createEdge checks for a cycle before it inserts; a snapshot *)
(* reads version, nodes and edges apart; restore deletes and inserts again *)
(* without a transaction.  A client keeps the graph it shows and an undo   *)
(* step, and after an undo replaces the server's graph by its own.  A      *)
(* client has one request under way at a time.                             *)
(***************************************************************************)
EXTENDS Naturals, FiniteSets

CONSTANTS
    Nodes, Clients,
    Editor,     \* the client whose shown graph and undo step are followed
    MaxVersion, \* bound: no change starts that could pass this version
    None

VARIABLES
    graph,   \* canvas_nodes and canvas_edges
    version, \* canvases.version
    shots,   \* canvas_snapshots: version -> payload
    req,     \* the request each client has under way
    view,    \* the graph the editor shows, and its undo step
    raced,   \* history: an overtaken write made the graph cyclic
    lost     \* history: a version stands for a graph it should not

vars == <<graph, version, shots, req, view, raced, lost>>

Graphs == [nodes : SUBSET Nodes, edges : SUBSET (Nodes \X Nodes)]
Shown == [nodes : SUBSET Nodes, edges : SUBSET (Nodes \X Nodes), behind : BOOLEAN]
Empty == [nodes |-> {}, edges |-> {}]
ReqType == [at : {"idle", "bump", "link", "load", "shoot", "clearedges", "putnodes",
                  "putedges", "push", "rename"},
            new : Nodes \cup (Nodes \X Nodes) \cup {None}, ver : 0..MaxVersion,
            todo : SUBSET {"nodes", "edges"}, copy : Graphs, stale : BOOLEAN]
Idle == [at |-> "idle", new |-> None, ver |-> 0, todo |-> {}, copy |-> Empty,
         stale |-> FALSE]

-----------------------------------------------------------------------------
(* Graphs. *)

\* A set of nodes that no edge leaves and that holds t holds s as well.
Reaches(E, t, s) ==
    \A S \in SUBSET Nodes :
        (t \in S /\ \A e \in E : e[1] \in S => e[2] \in S) => s \in S
\* Every set of nodes has one without an edge into the set.
Acyclic(E) ==
    \A S \in (SUBSET Nodes) \ {{}} : \E n \in S : \A e \in E : ~(e[1] = n /\ e[2] \in S)

MakesCycleOut(E, s, t) == Reaches(E, s, t) \* mutant: searches from the source
MakesCycle(E, s, t) == Reaches(E, t, s)

WithEdge(g, e) == [g EXCEPT !.edges = @ \cup {e}]
WithNode(g, n) == [g EXCEPT !.nodes = @ \cup {n}]
WithoutEdge(g, e) == [g EXCEPT !.edges = @ \ {e}]
WithoutNodesOnly(g, N) == [g EXCEPT !.nodes = @ \ N] \* mutant: no cascade
\* Foreign keys cascade.
WithoutNodes(g, N) ==
    [g EXCEPT !.nodes = @ \ N, !.edges = {e \in @ : e[1] \notin N /\ e[2] \notin N}]
\* deleteSelected filters the store by hand.
HideNodeOnly(g, n) == [g EXCEPT !.nodes = @ \ {n}] \* mutant: leaves its edges
HideNode(g, n) == WithoutNodes(g, {n})
\* What replace keeps of a client's graph.
Kept(g) == [nodes |-> g.nodes,
            edges |-> {e \in g.edges : e[1] \in g.nodes /\ e[2] \in g.nodes}]
Of(g) == [nodes |-> g.nodes, edges |-> g.edges]

-----------------------------------------------------------------------------
(* A request of client p. *)

At(p, step) == req[p].at = step
MayChange(p) ==
    /\ At(p, "idle")
    /\ version + Cardinality({q \in Clients : req[q].at \notin {"idle", "load", "shoot",
                                                                "rename"}}) < MaxVersion

\* p changes the graph to g and goes on with r; the others are overtaken.
Change(p, g, r) ==
    /\ graph' = g
    /\ req' = [q \in Clients |-> IF q = p THEN r
                                 ELSE IF At(q, "idle") \/ g = graph THEN req[q]
                                 ELSE [req[q] EXCEPT !.stale = TRUE]]
Continue(p, r) == req' = [req EXCEPT ![p] = r]
End(p) == Continue(p, Idle)

\* The editor's store shows s and keeps the state before as the undo step; a
\* change by another client leaves the editor behind.
Show(p, s, changed) ==
    view' = IF p = Editor
            THEN [now |-> s, past |-> IF Of(s) = Of(view.now) THEN view.past ELSE view.now]
            ELSE [view EXCEPT !.now.behind = @ \/ changed]
Same == view.now
\* What client p can point at.
Sees(p) == IF p = Editor THEN Of(view.now) ELSE graph

Init ==
    /\ graph \in {g \in Graphs : g.nodes = Nodes /\ Acyclic(g.edges)}
    /\ version = 0
    /\ shots = [v \in 0..MaxVersion |-> None]
    /\ req = [p \in Clients |-> Idle]
    /\ LET s == [nodes |-> graph.nodes, edges |-> graph.edges, behind |-> FALSE] IN
       view = [now |-> s, past |-> s]
    /\ raced = FALSE /\ lost = FALSE

-----------------------------------------------------------------------------
(* Single changes: a write, then bumpVersion. *)

CreateNode(p, n) ==
    /\ MayChange(p) /\ n \notin graph.nodes
    /\ Change(p, WithNode(graph, n), [Idle EXCEPT !.at = "bump", !.new = n])
    /\ Show(p, Same, TRUE)
    /\ UNCHANGED <<version, shots, raced, lost>>

RemoveNode(p, n) ==
    /\ MayChange(p) /\ n \in Sees(p).nodes /\ n \in graph.nodes
    /\ Change(p, WithoutNodes(graph, {n}), [Idle EXCEPT !.at = "bump"])
    /\ Show(p, HideNode(view.now, n), TRUE)
    /\ UNCHANGED <<version, shots, raced, lost>>

RemoveEdgeQuietly(p, e) == \* mutant: no bump
    /\ MayChange(p) /\ e \in Sees(p).edges /\ e \in graph.edges
    /\ Change(p, WithoutEdge(graph, e), Idle)
    /\ Show(p, WithoutEdge(view.now, e), TRUE)
    /\ UNCHANGED <<version, shots, raced, lost>>
RemoveEdge(p, e) ==
    /\ MayChange(p) /\ e \in Sees(p).edges /\ e \in graph.edges
    /\ Change(p, WithoutEdge(graph, e), [Idle EXCEPT !.at = "bump"])
    /\ Show(p, WithoutEdge(view.now, e), TRUE)
    /\ UNCHANGED <<version, shots, raced, lost>>

\* createEdge reads and checks; foreign keys and uk_edge_endpoints check again
\* when it saves, the cycle is not checked again.
CheckEdge(p, s, t) ==
    /\ MayChange(p) /\ {s, t} \subseteq Sees(p).nodes
    /\ {s, t} \subseteq graph.nodes
    /\ <<s, t>> \notin graph.edges
    /\ ~MakesCycle(graph.edges, s, t)
    /\ Continue(p, [Idle EXCEPT !.at = "link", !.new = <<s, t>>])
    /\ UNCHANGED <<graph, version, shots, view, raced, lost>>

SaveEdge(p) ==
    LET e == req[p].new g == WithEdge(graph, e) IN
    /\ At(p, "link")
    /\ UNCHANGED <<version, shots, lost>>
    /\ \/ /\ {e[1], e[2]} \subseteq graph.nodes /\ e \notin graph.edges
          /\ Change(p, g, [Idle EXCEPT !.at = "bump", !.new = e])
          /\ Show(p, Same, TRUE)
          /\ raced' = (raced \/ (req[p].stale /\ ~Acyclic(g.edges)))
       \/ /\ ~({e[1], e[2]} \subseteq graph.nodes /\ e \notin graph.edges)
          /\ End(p)
          /\ UNCHANGED <<graph, view, raced>>

\* The answer reaches the client, which adds what was created.
Created(p) ==
    LET s == view.now IN
    IF req[p].new = None THEN s
    ELSE IF req[p].new \in Nodes THEN WithNode(s, req[p].new) ELSE WithEdge(s, req[p].new)

Bump(p) ==
    /\ At(p, "bump")
    /\ version' = version + 1
    /\ Show(p, Created(p), FALSE)
    /\ End(p)
    /\ UNCHANGED <<graph, shots, raced, lost>>

-----------------------------------------------------------------------------
(* Changes in one transaction. *)

\* A batch of the mutator: a new node and an edge to it.
Batch(p, s, n) ==
    /\ MayChange(p) /\ s \in graph.nodes /\ n \notin graph.nodes
    /\ Change(p, WithEdge(WithNode(graph, n), <<s, n>>), Idle)
    /\ Show(p, [view.now EXCEPT !.behind = TRUE], TRUE)
    /\ version' = version + 1
    /\ UNCHANGED <<shots, raced, lost>>

\* Undo or redo in the store; the debounced reconcile follows.
Undo(p) ==
    /\ p = Editor /\ MayChange(p) /\ Of(view.past) # Of(view.now)
    /\ view' = [now |-> view.past, past |-> view.now]
    /\ Continue(p, [Idle EXCEPT !.at = "push"])
    /\ UNCHANGED <<graph, version, shots, raced, lost>>

\* replace: upsert, prune and bump in one transaction; the client is trusted.
Push(p) ==
    LET s == view.now g == Kept(s) IN
    /\ At(p, "push")
    /\ Change(p, g, Idle)
    /\ version' = version + 1
    /\ Show(p, [s EXCEPT !.behind = Of(s) # g], TRUE)
    /\ raced' = (raced \/ (s.behind /\ ~Acyclic(g.edges)))
    /\ UNCHANGED <<shots, lost>>

-----------------------------------------------------------------------------
(* Reads of the whole graph: fullPayload, and SnapshotService.create. *)

Load(p) ==
    /\ p = Editor /\ At(p, "idle")
    /\ Continue(p, [Idle EXCEPT !.at = "load", !.todo = {"nodes", "edges"}])
    /\ UNCHANGED <<graph, version, shots, view, raced, lost>>

\* A version that has its snapshot gets no other.
Shoot(p) ==
    /\ At(p, "idle") /\ shots[version] = None
    /\ Continue(p, [Idle EXCEPT !.at = "shoot", !.ver = version, !.todo = {"nodes", "edges"}])
    /\ UNCHANGED <<graph, version, shots, view, raced, lost>>

\* The two queries run in parallel.
ReadPart(p, part) ==
    /\ part \in req[p].todo
    /\ Continue(p, [req[p] EXCEPT !.todo = @ \ {part}, !.copy[part] = graph[part]])
    /\ UNCHANGED <<graph, version, shots, view, raced, lost>>

Hydrate(p) ==
    /\ At(p, "load") /\ req[p].todo = {}
    /\ Show(p, [nodes |-> req[p].copy.nodes, edges |-> req[p].copy.edges,
                behind |-> req[p].stale], FALSE)
    /\ End(p)
    /\ UNCHANGED <<graph, version, shots, raced, lost>>

\* The unique index refuses a second snapshot of a version.
SaveShot(p) ==
    /\ At(p, "shoot") /\ req[p].todo = {}
    /\ shots' = [shots EXCEPT ![req[p].ver] = IF @ = None THEN req[p].copy ELSE @]
    /\ End(p)
    /\ UNCHANGED <<graph, version, view, raced, lost>>

-----------------------------------------------------------------------------
(* SnapshotService.restore, a statement at a time; the client reloads after. *)

Restore(p, v) ==
    /\ MayChange(p) /\ shots[v] # None
    /\ Change(p, WithoutNodes(graph, Nodes), [Idle EXCEPT !.at = "clearedges", !.copy = shots[v]])
    /\ Show(p, [view.now EXCEPT !.behind = TRUE], TRUE)
    /\ UNCHANGED <<version, shots, raced, lost>>

ClearEdges(p) ==
    /\ At(p, "clearedges")
    /\ Change(p, [graph EXCEPT !.edges = {}], [req[p] EXCEPT !.at = "putnodes", !.stale = FALSE])
    /\ Show(p, Same, TRUE)
    /\ UNCHANGED <<version, shots, raced, lost>>

PutNodes(p) ==
    /\ At(p, "putnodes")
    /\ Change(p, [graph EXCEPT !.nodes = @ \cup req[p].copy.nodes], [req[p] EXCEPT !.at = "putedges"])
    /\ Show(p, Same, TRUE)
    /\ UNCHANGED <<version, shots, raced, lost>>

\* All edges or none: a missing end or an edge made meanwhile refuses them.
PutEdges(p) ==
    LET E == req[p].copy.edges
        fits == \A e \in E : {e[1], e[2]} \subseteq graph.nodes /\ e \notin graph.edges
        g == [graph EXCEPT !.edges = @ \cup E] IN
    /\ At(p, "putedges")
    /\ UNCHANGED <<version, shots>>
    /\ \/ /\ fits
          /\ Change(p, g, [Idle EXCEPT !.at = "bump"])
          /\ Show(p, Same, TRUE)
          /\ raced' = (raced \/ (req[p].stale /\ ~Acyclic(g.edges)))
          /\ UNCHANGED lost
       \/ /\ ~fits
          /\ End(p)
          /\ lost' = TRUE
          /\ UNCHANGED <<graph, view, raced>>

-----------------------------------------------------------------------------
(* CanvasService.update saves the row it read; what else has changed in the *)
(* row since, the version too, is written back.                             *)

ReadCanvas(p) ==
    /\ At(p, "idle") /\ version < MaxVersion
    /\ Continue(p, [Idle EXCEPT !.at = "rename", !.ver = version])
    /\ UNCHANGED <<graph, version, shots, view, raced, lost>>

SaveCanvas(p) ==
    /\ At(p, "rename")
    /\ version' = req[p].ver
    /\ lost' = (lost \/ version # req[p].ver)
    /\ End(p)
    /\ UNCHANGED <<graph, shots, view, raced>>

\* The process dies between the statements of a change.
Crash(p) ==
    /\ req[p].at \in {"bump", "clearedges", "putnodes", "putedges"}
    /\ Show(p, [view.now EXCEPT !.behind = TRUE], FALSE)
    /\ End(p)
    /\ lost' = TRUE
    /\ UNCHANGED <<graph, version, shots, raced>>

Next == \E p \in Clients :
    \/ \E n \in Nodes : CreateNode(p, n) \/ RemoveNode(p, n)
    \/ \E s, t \in Nodes : CheckEdge(p, s, t) \/ RemoveEdge(p, <<s, t>>) \/ Batch(p, s, t)
    \/ SaveEdge(p) \/ Bump(p)
    \/ Undo(p) \/ Push(p)
    \/ Load(p) \/ Shoot(p) \/ Hydrate(p) \/ SaveShot(p)
    \/ \E part \in {"nodes", "edges"} : ReadPart(p, part)
    \/ \E v \in 0..MaxVersion : Restore(p, v)
    \/ ClearEdges(p) \/ PutNodes(p) \/ PutEdges(p)
    \/ ReadCanvas(p) \/ SaveCanvas(p) \/ Crash(p)

Spec == Init /\ [][Next]_vars

-----------------------------------------------------------------------------
\* The variables have their types, and the edges their ends (foreign keys).
TypeOK ==
    /\ graph \in Graphs /\ graph = Kept(graph)
    /\ version \in 0..MaxVersion
    /\ \A v \in 0..MaxVersion : shots[v] = None \/ shots[v] \in Graphs
    /\ req \in [Clients -> ReqType]
    /\ view.now \in Shown /\ view.past \in Shown
    /\ raced \in BOOLEAN /\ lost \in BOOLEAN

\* The dependency graph of a canvas stays acyclic (assertNoCycle) unless the
\* write that closes a cycle comes from a check, or a client, that another
\* request has overtaken.
AcyclicUnlessRaced == Acyclic(graph.edges) \/ raced

\* While no change is under way, a snapshot of the current version is the
\* current graph, so that keeping the first snapshot of a version loses
\* nothing.  A change cut off before its bump and a version written back by
\* CanvasService.update are excepted.
SnapshotCurrent ==
    lost \/ shots[version] = None \/ shots[version] = graph
         \/ \E p \in Clients : req[p].at \in {"bump", "clearedges", "putnodes", "putedges"}

\* An editor that nobody interferes with shows the server's graph after every
\* request, undo and redo included.
SoleEditorAgrees ==
    At(Editor, "idle") /\ ~view.now.behind => Of(view.now) = graph
=============================================================================
