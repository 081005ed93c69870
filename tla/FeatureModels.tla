---------------------------- MODULE FeatureModels ----------------------------
(***************************************************************************)
(* The models a feature of the server uses: FeatureConfigService, which    *)
(* stores one ordered chain of models per feature and picks the first that *)
(* can be called, and the settings page FeatureConfig that edits it.       *)
(*                                                                         *)
(* A save is a READ COMMITTED transaction of several statements: it finds  *)
(* the config, stores it if something differs, deletes the bindings it     *)
(* sees, and inserts the new ones.  Nothing but the row locks and the      *)
(* unique indexes keeps two saves apart.  One feature is followed, and one *)
(* save per administrator at a time.                                       *)
(***************************************************************************)
EXTENDS Naturals, Sequences, FiniteSets, Functions, Subsequence

CONSTANTS Models, Admins, None,
          Editor,     \* the administrator whose page is followed
          Compatible  \* the models of the required task type

Lists == UNION {[1..n -> Models] : n \in 0..Cardinality(Models)}
Chains == {s \in Lists : IsInjective(s)}
Forms == [enabled : BOOLEAN, chain : Lists]

VARIABLES
    config,    \* the committed row of feature_model_configs: its enabled, or None
    bindings,  \* the committed rows of feature_model_bindings
    tx,        \* per administrator: the save under way
    page,      \* the settings page of the Editor
    begun,     \* history: the administrators that began a save; bound: one each
    saved,     \* history: the chains whose save was committed
    joined     \* history: a save put its rows beside those of another

vars == <<config, bindings, tx, page, begun, saved, joined>>

\* priority counts from 0; `by' is the save that inserted the row: a row that is
\* inserted again is another row.
Rows(chain, by) == {[model |-> chain[n], priority |-> n - 1, by |-> by] : n \in DOMAIN chain}
Idle == [at |-> "idle", chain |-> <<>>, enabled |-> TRUE, found |-> None,
         seen |-> {}, gone |-> {}, known |-> {}, new |-> {}]
NoPage == [known |-> None, editing |-> None, saving |-> FALSE]

Init ==
    /\ \E c \in Chains : 
          /\ bindings = Rows(c, None) /\ saved = {c}
          /\ config \in {TRUE} \cup IF c = <<>> THEN {None} ELSE {}
    /\ tx = [a \in Admins |-> Idle] /\ page = NoPage
    /\ begun = {} /\ joined = FALSE

Others(a) == Admins \ {a}
Stage(a, t) == tx' = [tx EXCEPT ![a] = t] /\ UNCHANGED <<page, begun>>
Failed == [Idle EXCEPT !.at = "failed"]

\* findEntityByKey: one statement, bindings in the order of their priority.
Below(rows, b) == {c \in rows : c.priority < b.priority}
InOrder(rows) ==
    [n \in 1..Cardinality(rows) |-> (CHOOSE b \in rows : Cardinality(Below(rows, b)) = n - 1).model]
Stored == IF config = None THEN None ELSE [enabled |-> config, chain |-> InOrder(bindings)]

-----------------------------------------------------------------------------
(* upsert. *)

\* uniqueResourceUids and requireCatalogModels, on the snapshot of the catalog.
AnyList(f) == Range(f.chain) \subseteq Compatible      \* mutant: duplicates are let in
MaySave(f) == IsInjective(f.chain) /\ Range(f.chain) \subseteq Compatible
Begin(a, f) ==
    tx' = [tx EXCEPT ![a] = IF MaySave(f) THEN [Idle EXCEPT !.at = "begun",
                                                           !.chain = f.chain, !.enabled = f.enabled]
                            ELSE Failed]

FindConfig(a) ==
    /\ tx[a].at = "begun"
    /\ Stage(a, [tx[a] EXCEPT !.at = "found", !.found = config])
    /\ UNCHANGED <<config, bindings, saved, joined>>

\* What differs is updated, or inserted, and locked until the end.
Locks(b) == tx[b].found # tx[b].enabled
Holds(b) == tx[b].at \in {"stored", "deleting", "deleted", "looked", "inserted"} /\ Locks(b)
SaveConfig(a) ==
    /\ tx[a].at = "found"
    /\ Locks(a) => \A b \in Others(a) : ~Holds(b)
    /\ Stage(a, IF tx[a].found = None /\ config # None THEN Failed ELSE [tx[a] EXCEPT !.at = "stored"])
    /\ UNCHANGED <<config, bindings, saved, joined>>

\* The rows the DELETE sees; it waits for those that another save has deleted,
\* and leaves out the ones that are gone then.
BeginDelete(a) ==
    /\ tx[a].at = "stored"
    /\ Stage(a, [tx[a] EXCEPT !.at = "deleting", !.seen = bindings])
    /\ UNCHANGED <<config, bindings, saved, joined>>
EndDelete(a) ==
    /\ tx[a].at = "deleting"
    /\ \A b \in Others(a) : tx[b].gone \cap tx[a].seen = {}
    /\ Stage(a, [tx[a] EXCEPT !.at = "deleted", !.gone = tx[a].seen \cap bindings, !.seen = {}])
    /\ UNCHANGED <<config, bindings, saved, joined>>

\* The primary key, and UNIQUE (feature_config_id, priority).
Clash(x, y) == x.model = y.model \/ x.priority = y.priority
Clashes(S, T) == \E x \in S, y \in T : Clash(x, y)

\* save looks the rows up first: one that another save has committed since the
\* DELETE is left alone if it has the priority it shall have, and can only be
\* moved onto the priority of another one otherwise, which fails.
LookUp(a) ==
    LET there == {b \in bindings \ tx[a].gone : b.model \in Range(tx[a].chain)} IN
    /\ tx[a].at = "deleted"
    /\ Stage(a, IF \A b \in there : b.priority < Len(tx[a].chain) /\ tx[a].chain[b.priority + 1] = b.model
                THEN [tx[a] EXCEPT !.at = "looked", !.known = {b.model : b \in there}] ELSE Failed)
    /\ UNCHANGED <<config, bindings, saved, joined>>

\* It waits for rows whose fate is open, and fails on one that stays.
InsertBindings(a) ==
    LET new == {b \in Rows(tx[a].chain, a) : b.model \notin tx[a].known} IN
    /\ tx[a].at = "looked"
    /\ \A b \in Others(a) : ~Clashes(new, tx[b].new) /\ ~Clashes(new, tx[b].gone)
    /\ Stage(a, IF Clashes(new, bindings \ tx[a].gone) THEN Failed
                ELSE [tx[a] EXCEPT !.at = "inserted", !.new = new])
    /\ UNCHANGED <<config, bindings, saved, joined>>

\* The answer is what the transaction sees at its end.
Commit(a) ==
    /\ tx[a].at = "inserted"
    /\ config' = IF Locks(a) THEN tx[a].enabled ELSE config
    /\ bindings' = (bindings \ tx[a].gone) \cup tx[a].new
    /\ saved' = saved \cup {tx[a].chain}
    /\ joined' = (joined \/ (tx[a].known # {} /\ tx[a].new # {}))
    /\ Stage(a, [Idle EXCEPT !.at = "done",
                    !.found = [enabled |-> config', chain |-> InOrder(bindings')]])

\* delete: a save that has found the config meets nothing, and fails.
DeleteFeature ==
    /\ config # None /\ \A a \in Admins : ~Holds(a) /\ tx[a].new = {} /\ tx[a].gone = {}
    /\ config' = None /\ bindings' = {}
    /\ tx' = [a \in Admins |-> IF tx[a].at \notin {"idle", "done", "failed", "begun"} /\ tx[a].found # None
                               THEN Failed ELSE tx[a]]
    /\ saved' = saved \cup {<<>>}
    /\ UNCHANGED <<page, begun, joined>>

-----------------------------------------------------------------------------
(* resolveModelSelection, in one snapshot of the catalog: `available' are   *)
(* the models that are current and can be called.                           *)

Callable(chain, available) == {n \in DOMAIN chain : chain[n] \in available}
Least(places) == CHOOSE n \in places : \A m \in places : n <= m
Selected(chain, places) == IF places = {} THEN None ELSE chain[Least(places)]
ResolveModelSelection(available) ==
    LET chain == InOrder(bindings)
    IN IF config = TRUE THEN Selected(chain, Callable(chain, available)) ELSE None

-----------------------------------------------------------------------------
(* The settings page of one administrator; the others call the API.        *)

Show(p) == page' = p /\ UNCHANGED <<config, bindings, tx, begun, saved, joined>>

\* Once, when the page is opened.
Load ==
    /\ page = NoPage /\ Stored # None
    /\ Show([page EXCEPT !.known = Stored])

OpenEdit ==
    /\ page.known # None /\ page.editing = None
    /\ Show([page EXCEPT !.editing = page.known])

\* The drawer can be closed while it saves.
CloseDrawer ==
    /\ page.editing # None
    /\ Show([page EXCEPT !.editing = None])

\* toggleResourceUid and moveResourceUid.
ToggleResourceUid(chain, m) ==
    IF m \in Range(chain) THEN Select(chain, LAMBDA x : x # m) ELSE Append(chain, m)
MoveResourceUid(chain, n) == [chain EXCEPT ![n] = chain[n + 1], ![n + 1] = chain[n]]
Edits(f) ==
    {[f EXCEPT !.enabled = ~@]}
    \cup {[f EXCEPT !.chain = ToggleResourceUid(f.chain, m)] : m \in Range(f.chain) \cup Compatible}
    \cup {[f EXCEPT !.chain = MoveResourceUid(f.chain, n)] : n \in 1..(Len(f.chain) - 1)}
Edit ==
    /\ page.editing # None
    /\ \E f \in Edits(page.editing) : Show([page EXCEPT !.editing = f])

MayBegin(a) == tx[a].at = "idle" /\ a \notin begun /\ begun' = begun \cup {a}

\* The form as it is shown, unless a bound model is not compatible any more.
SaveEdit ==
    /\ MayBegin(Editor) /\ page.editing # None /\ ~page.saving
    /\ Range(page.editing.chain) \subseteq Compatible
    /\ Begin(Editor, page.editing)
    /\ page' = [page EXCEPT !.saving = TRUE]
    /\ UNCHANGED <<config, bindings, saved, joined>>

Put(a) ==
    /\ MayBegin(a) /\ \E f \in Forms : Begin(a, f)
    /\ UNCHANGED <<config, bindings, page, saved, joined>>

\* The saved config is shown, and whichever drawer is open is closed; after an
\* error, which may hide a commit, it stays.
Answered(a) ==
    /\ tx[a].at \in {"done", "failed"}
    /\ tx' = [tx EXCEPT ![a] = Idle]
    /\ page' \in IF a # Editor THEN {page}
                 ELSE {[page EXCEPT !.saving = FALSE]}
                      \cup IF tx[a].at = "failed" THEN {}
                           ELSE {[known |-> tx[a].found, editing |-> None, saving |-> FALSE]}
    /\ UNCHANGED <<config, bindings, begun, saved, joined>>

Next ==
    \/ \E a \in Admins :
          \/ FindConfig(a) \/ SaveConfig(a) \/ BeginDelete(a) \/ EndDelete(a) \/ LookUp(a)
          \/ InsertBindings(a) \/ Commit(a) \/ Answered(a)
    \/ \E a \in Others(Editor) : Put(a)
    \/ DeleteFeature
    \/ Load \/ OpenEdit \/ CloseDrawer \/ Edit \/ SaveEdit

Spec == Init /\ [][Next]_vars

-----------------------------------------------------------------------------
\* The variables have their types.
TypeOK ==
    /\ config \in BOOLEAN \cup {None}
    /\ \A b \in bindings : b.model \in Models /\ b.priority \in 0..(Cardinality(Models) - 1)
    /\ \A a \in Admins : tx[a].chain \in Chains
    /\ page.saving \in BOOLEAN /\ begun \subseteq Admins /\ saved \subseteq Chains

\* Whatever two saves and a removal overlap, or any number of saves of which none
\* found rows of another to put its own beside, the chain that is stored is the
\* chain of one of them, whole and in its order, and the model an enabled feature
\* is given is the first of that chain that can be called.
ChainIsOfOneSave ==
    (~joined \/ \E a, b \in Admins : begun \subseteq {a, b}) =>
    /\ {b.priority : b \in bindings} = {n - 1 : n \in 1..Cardinality(bindings)}
    /\ InOrder(bindings) \in saved
    /\ config = TRUE => \A S \in SUBSET Models : \E b \in bindings \cup {None} :
          /\ IF b = None THEN ResolveModelSelection(S) = None ELSE ResolveModelSelection(S) = b.model
          /\ b = None => \A c \in bindings : c.model \notin S
          /\ b # None => b.model \in S /\ \A c \in bindings : c.model \in S => b.priority <= c.priority
==============================================================================
