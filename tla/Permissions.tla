---------------------------- MODULE Permissions ----------------------------
(***************************************************************************)
(* What one user may do, as PermissionGuard finds it: the bindings and the *)
(* roles' capabilities in the database, and the sets resolved from them,   *)
(* cached in Redis under a key per scope and listed in an index of the     *)
(* user's keys.                                                            *)
(*                                                                         *)
(* AuthzService reads the database and fills the cache in separate         *)
(* commands; RoleBindingService commits a change and then invalidates; a   *)
(* starting process rewrites the built-in roles row by row.                *)
(***************************************************************************)
EXTENDS FiniteSets

CONSTANTS Requests, Caps, None,
          ProjectRoles, SystemRoles, SuperRole,
          Before,   \* the capabilities of each built-in role before an upgrade
          After     \* and as the catalog of the upgraded code has them; the
                    \* super role has every capability in both

Roles == ProjectRoles \cup SystemRoles
Scopes == {"system", "project"}

VARIABLES
    bound,    \* role_bindings of the user: at most one per scope
    grants,   \* role_permissions
    cache,    \* the cached set of each scope
    index,    \* the keys listed in the user's set
    req,      \* where each request stands
    lapsed    \* history: a change that nobody will invalidate
vars == <<bound, grants, cache, index, req, lapsed>>

Idle == [at |-> "idle", scope |-> None, caps |-> {}, role |-> None, overtaken |-> FALSE]

OfRole(r) == IF r = None THEN {} ELSE grants[r]

\* What the database grants in a scope; system bindings apply everywhere.
Granted(s) ==
    IF bound["system"] = SuperRole THEN Caps
    ELSE OfRole(bound["system"]) \cup (IF s = "project" THEN OfRole(bound["project"]) ELSE {})

Init ==
    /\ bound \in [Scopes -> Roles \cup {None}]
    /\ bound["system"] \in SystemRoles \cup {None}
    /\ bound["project"] \in ProjectRoles \cup {None}
    /\ grants = Before
    /\ cache = [s \in Scopes |-> None]
    /\ index = {}
    /\ req = [p \in Requests |-> Idle]
    /\ lapsed = FALSE

\* The requests that have read the database when it changes under them, and the
\* cache with the entries they have written but not listed.
Overtaken(rs) ==
    [p \in Requests |->
        IF rs[p].at \in {"project", "set"} THEN [rs[p] EXCEPT !.overtaken = TRUE] ELSE rs[p]]
CacheOvertaken ==
    [s \in Scopes |->
        IF cache[s] # None /\ \E p \in Requests : req[p].at = "sadd" /\ req[p].scope = s
        THEN [cache[s] EXCEPT !.overtaken = TRUE]
        ELSE cache[s]]

-----------------------------------------------------------------------------
(* AuthzService.resolveCapabilities, one command at a time.                *)

\* isSuperOrOwner, then the cached set if there is one.
BeginResolve(p, s) ==
    /\ req[p] = Idle
    /\ bound["system"] # SuperRole
    /\ req' = [req EXCEPT ![p] = [Idle EXCEPT !.at = "lookup", !.scope = s]]
    /\ UNCHANGED <<bound, grants, cache, index, lapsed>>

Lookup(p) ==
    /\ req[p].at = "lookup"
    /\ req' = [req EXCEPT ![p] = IF cache[req[p].scope] # None THEN Idle
                                 ELSE [@ EXCEPT !.at = "system"]]
    /\ UNCHANGED <<bound, grants, cache, index, lapsed>>

ReadSystem(p) ==
    /\ req[p].at = "system"
    /\ req' = [req EXCEPT ![p].caps = OfRole(bound["system"]),
                          ![p].at = IF req[p].scope = "project" THEN "project" ELSE "set"]
    /\ UNCHANGED <<bound, grants, cache, index, lapsed>>

ReadProject(p) ==
    /\ req[p].at = "project"
    /\ req' = [req EXCEPT ![p].caps = @ \cup OfRole(bound["project"]), ![p].at = "set"]
    /\ UNCHANGED <<bound, grants, cache, index, lapsed>>

StoreCaps(p) ==
    /\ req[p].at = "set"
    /\ cache' = [cache EXCEPT ![req[p].scope] =
                    [caps |-> req[p].caps, overtaken |-> req[p].overtaken]]
    /\ req' = [req EXCEPT ![p].at = "sadd", ![p].caps = {}, ![p].overtaken = FALSE]
    /\ UNCHANGED <<bound, grants, index, lapsed>>

ListKey(p) ==
    /\ req[p].at = "sadd"
    /\ index' = index \cup {req[p].scope}
    /\ req' = [req EXCEPT ![p] = Idle]
    /\ UNCHANGED <<bound, grants, cache, lapsed>>

\* CACHE_TTL ends.
Expire(s) ==
    /\ cache[s] # None
    /\ cache' = [cache EXCEPT ![s] = None]
    /\ UNCHANGED <<bound, grants, index, req, lapsed>>

-----------------------------------------------------------------------------
(* AuthzService.invalidate, one command at a time.                         *)

\* The request goes on to invalidate; "next" is what it does afterwards.
Invalidating == {"smembers", "del", "unlist"}

ReadIndex(p) ==
    /\ req[p].at = "smembers"
    /\ req' = [req EXCEPT ![p].at = "del", ![p].caps = index]
    /\ UNCHANGED <<bound, grants, cache, index, lapsed>>

DeleteEntries(p) ==
    /\ req[p].at = "del"
    /\ cache' = [s \in Scopes |-> IF s \in req[p].caps THEN None ELSE cache[s]]
    /\ req' = [req EXCEPT ![p].at = "unlist", ![p].caps = {}]
    /\ UNCHANGED <<bound, grants, index, lapsed>>

DeleteIndex(p) ==
    /\ req[p].at = "unlist"
    /\ index' = {}
    /\ req' = [req EXCEPT ![p] = Idle]
    /\ UNCHANGED <<bound, grants, cache, lapsed>>

-----------------------------------------------------------------------------
(* Changes of bindings: committed, then invalidated.                       *)

Rebind(p, s, r) ==
    /\ bound' = [bound EXCEPT ![s] = r]
    /\ cache' = CacheOvertaken
    /\ req' = [Overtaken(req) EXCEPT ![p] = [Idle EXCEPT !.at = "smembers"]]
    /\ UNCHANGED <<grants, index, lapsed>>

\* assignProjectRole; the unique index makes two overlapping ones exclude each
\* other, and the one that fails changes nothing.
AssignProjectRole(p, r) == req[p] = Idle /\ r \in ProjectRoles /\ Rebind(p, "project", r)

RemoveUninvalidated(p) == \* mutant: the cache is left alone
    /\ req[p] = Idle
    /\ bound' = [bound EXCEPT !["project"] = None]
    /\ cache' = CacheOvertaken
    /\ req' = Overtaken(req)
    /\ UNCHANGED <<grants, index, lapsed>>
RemoveProjectMember(p) == req[p] = Idle /\ Rebind(p, "project", None)

\* setSystemRole; that a super admin is left is InstanceAdmin's subject.
SetSystemRole(p, r) ==
    req[p] = Idle /\ r \in SystemRoles \cup {None} /\ Rebind(p, "system", r)

\* MergeService gives the survivor the merged account's system binding, if it
\* has none, and invalidates nothing.
InheritSystemRole(r) ==
    /\ bound["system"] = None
    /\ bound' = [bound EXCEPT !["system"] = r]
    /\ cache' = CacheOvertaken
    /\ req' = Overtaken(req)
    /\ lapsed' = TRUE
    /\ UNCHANGED <<grants, index>>

-----------------------------------------------------------------------------
(* AuthzBootstrapService.seedBuiltinRoles of an upgraded process: for each *)
(* role a DELETE and an INSERT per capability, each committed on its own.  *)

ClearRole(p, r) ==
    /\ req[p] = Idle
    /\ grants[r] # After[r]
    /\ \A q \in Requests : req[q].at # "seed"
    /\ grants' = [grants EXCEPT ![r] = {}]
    /\ cache' = CacheOvertaken
    /\ req' = [Overtaken(req) EXCEPT ![p] = [Idle EXCEPT !.at = "seed", !.role = r]]
    /\ UNCHANGED <<bound, index, lapsed>>

InsertCap(p, c) ==
    /\ req[p].at = "seed"
    /\ c \in After[req[p].role] \ grants[req[p].role]
    /\ grants' = [grants EXCEPT ![req[p].role] = @ \cup {c}]
    /\ cache' = CacheOvertaken
    /\ req' = Overtaken(req)
    /\ UNCHANGED <<bound, index, lapsed>>

\* invalidateByRoleId: the holders of the role as they are now.
FindHolders(p) ==
    /\ req[p].at = "seed"
    /\ grants[req[p].role] = After[req[p].role]
    /\ req' = [req EXCEPT ![p] = IF req[p].role \in {bound[s] : s \in Scopes}
                                 THEN [Idle EXCEPT !.at = "smembers"] ELSE Idle]
    /\ UNCHANGED <<bound, grants, cache, index, lapsed>>

\* The process dies, or Redis fails a command; a change stays uninvalidated.
Crash(p) ==
    /\ req[p] # Idle
    /\ req' = [req EXCEPT ![p] = Idle]
    /\ lapsed' = (lapsed \/ req[p].at \in {"seed", "smembers", "del"})
    /\ UNCHANGED <<bound, grants, cache, index>>

Next ==
    \/ \E p \in Requests :
          \/ \E s \in Scopes : BeginResolve(p, s)
          \/ Lookup(p) \/ ReadSystem(p) \/ ReadProject(p) \/ StoreCaps(p) \/ ListKey(p)
          \/ ReadIndex(p) \/ DeleteEntries(p) \/ DeleteIndex(p)
          \/ \E r \in ProjectRoles : AssignProjectRole(p, r)
          \/ RemoveProjectMember(p)
          \/ \E r \in SystemRoles \cup {None} : SetSystemRole(p, r)
          \/ \E r \in Roles : ClearRole(p, r)
          \/ \E c \in Caps : InsertCap(p, c)
          \/ FindHolders(p)
          \/ Crash(p)
    \/ \E s \in Scopes : Expire(s)
    \/ \E r \in SystemRoles : InheritSystemRole(r)

Spec == Init /\ [][Next]_vars

-----------------------------------------------------------------------------
EntryType == [caps : SUBSET Caps, overtaken : BOOLEAN]
Resolving == {"lookup", "system", "project", "set", "sadd"}
\* The caps of a request that deletes entries are the keys it has read.
RequestType == [at : {"idle", "seed"} \cup Resolving \cup Invalidating,
                scope : Scopes \cup {None}, caps : SUBSET (Caps \cup Scopes),
                role : Roles \cup {None}, overtaken : BOOLEAN]

\* The variables have their types.
TypeOK ==
    /\ bound \in [Scopes -> Roles \cup {None}]
    /\ grants \in [Roles -> SUBSET Caps]
    /\ cache \in [Scopes -> EntryType \cup {None}]
    /\ index \subseteq Scopes
    /\ req \in [Requests -> RequestType]
    /\ \A p \in Requests :
          /\ req[p].at # "del" => req[p].caps \subseteq Caps
          /\ req[p].at \in Resolving => req[p].scope \in Scopes
          /\ req[p].at = "seed" => req[p].role \in Roles
    /\ lapsed \in BOOLEAN

\* With no change under way, a cached set that is listed is what the database
\* grants, unless the resolve that stored it was overtaken by a change before it
\* was listed, or some change was never invalidated (a crash, a merge).
CachedAsGranted ==
    \A s \in Scopes :
        /\ ~lapsed
        /\ \A p \in Requests : req[p].at \notin Invalidating \cup {"seed"}
        /\ s \in index /\ cache[s] # None /\ ~cache[s].overtaken
        /\ bound["system"] # SuperRole
        => cache[s].caps = Granted(s)
=============================================================================
