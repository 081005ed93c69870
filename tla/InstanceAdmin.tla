--------------------------- MODULE InstanceAdmin ---------------------------
(***************************************************************************)
(* Who administers the instance: the one-time setup (SetupService), the    *)
(* owner-recovery script, system roles (RoleBindingService.setSystemRole)  *)
(* and what an account merge does to them (MergeService.doMerge).          *)
(*                                                                         *)
(* setSystemRole is a transaction under READ COMMITTED that locks binding  *)
(* rows one after the other (SELECT ... FOR UPDATE): a statement sees the  *)
(* rows committed when it began, waits for each that another transaction   *)
(* has locked, and skips it if it was deleted meanwhile.  A binding row    *)
(* therefore has an identity, which a replacement changes.  The other      *)
(* transactions hold one advisory lock, or write their rows at once, and   *)
(* are single steps.                                                       *)
(***************************************************************************)
EXTENDS Naturals, FiniteSets

CONSTANTS
    Users, Instances,
    Requests,   \* setSystemRole requests under way at the same time
    MaxRows,    \* binding rows a user may have had
    Merges,     \* whether accounts are merged
    SuperRole,  \* the row of it_super_admin in canvas.roles
    None

VARIABLES
    status,      \* users.status, "none" before the account exists
    binding,     \* role_bindings of scope system: role and row id (one row per user)
    owner,       \* users with is_instance_owner (a unique index: at most one)
    setup,       \* account.instance_setup: no row, pending, done
    initialized, \* per instance: down, or SetupService.initialized
    asked,       \* per instance: a setup request that passed the first check
    tx           \* the setSystemRole transactions

vars == <<status, binding, owner, setup, initialized, asked, tx>>

Roles == {"none", "sys_admin", "super"}
BindingType == [role : Roles, row : 0..MaxRows]
TxType == [at : {"idle", "own", "role", "others", "write"}, user : Users \cup {None}, role : Roles,
           row : 0..MaxRows, was_super : BOOLEAN, todo : SUBSET Users,
           locked : SUBSET (Users \cup {SuperRole}), others : SUBSET Users]
Idle == [at |-> "idle", user |-> None, role |-> "none", row |-> 0, was_super |-> FALSE,
         todo |-> {}, locked |-> {}, others |-> {}]

Active == {u \in Users : status[u] = "active"}
Supers == {u \in Active : binding[u].role = "super"}
Administrators == Supers \cup (owner \cap Active)

\* A fresh database, or one from before the setup existed.
Init ==
    /\ status \in [Users -> {"none", "active"}]
    /\ binding \in [Users -> {[role |-> r, row |-> 0] : r \in Roles}]
    /\ \A u \in Users : status[u] = "none" => binding[u].role = "none"
    /\ owner \in {S \in SUBSET Active : Cardinality(S) <= 1}
    /\ setup = "absent"
    /\ initialized = [i \in Instances |-> "down"]
    /\ asked = [i \in Instances |-> FALSE]
    /\ tx = [p \in Requests |-> Idle]

NewRow(u, r) == [role |-> r, row |-> binding[u].row + 1]
MayInsert(u) == binding[u].row < MaxRows

-----------------------------------------------------------------------------
(* SetupService *)

\* [mutant] The field's initial value outlives ensureState.
FlagUnset(required) == "yes"
FlagFor(required) == IF required THEN "no" ELSE "yes"

\* ensureState when the process starts: adopt an administrator, or refuse to
\* start over users without one, or wait for the setup.
EnsureState(i) ==
    /\ initialized[i] = "down"
    /\ \/ /\ setup = "done"
          /\ UNCHANGED <<owner, setup>>
          /\ initialized' = [initialized EXCEPT ![i] = FlagFor(FALSE)]
       \/ /\ setup # "done" /\ Administrators # {}
          /\ \E u \in IF owner \cap Active # {} THEN owner \cap Active ELSE Supers :
                owner \subseteq {u} /\ owner' = {u}
          /\ setup' = "done"
          /\ initialized' = [initialized EXCEPT ![i] = FlagFor(FALSE)]
       \/ /\ setup # "done" /\ Administrators = {} /\ \A u \in Users : status[u] = "none"
          /\ setup' = "pending"
          /\ initialized' = [initialized EXCEPT ![i] = FlagFor(TRUE)]
          /\ UNCHANGED owner
    /\ UNCHANGED <<status, binding, asked, tx>>

\* complete: the cheap check comes before the password is hashed.
AssertPending(i) ==
    /\ initialized[i] # "down" /\ ~asked[i]
    /\ setup = "pending"
    /\ asked' = [asked EXCEPT ![i] = TRUE]
    /\ UNCHANGED <<status, binding, owner, setup, initialized, tx>>

\* complete's transaction, under the advisory lock and the row's lock.
Complete(i, u) ==
    /\ asked[i]
    /\ asked' = [asked EXCEPT ![i] = FALSE]
    /\ IF setup = "pending"
       THEN /\ status[u] = "none" /\ owner = {} /\ MayInsert(u)
            /\ status' = [status EXCEPT ![u] = "active"]
            /\ binding' = [binding EXCEPT ![u] = NewRow(u, "super")]
            /\ owner' = {u}
            /\ setup' = "done"
            /\ initialized' = [initialized EXCEPT ![i] = "yes"]
       ELSE UNCHANGED <<status, binding, owner, setup, initialized>>
    /\ UNCHANGED tx

\* SetupGuard on any other route: isRequired refreshes the flag from the row.
Admit(i) ==
    /\ initialized[i] = "no" /\ setup = "done"
    /\ initialized' = [initialized EXCEPT ![i] = "yes"]
    /\ UNCHANGED <<status, binding, owner, setup, asked, tx>>

Register(i, u) ==
    /\ initialized[i] = "yes" /\ status[u] = "none"
    /\ status' = [status EXCEPT ![u] = "active"]
    /\ UNCHANGED <<binding, owner, setup, initialized, asked, tx>>

\* recover-instance-owner.mjs
Recover(u) ==
    /\ u \in Active
    /\ owner' = {u}
    /\ setup' = "done"
    /\ UNCHANGED <<status, binding, initialized, asked, tx>>

Stop(i) ==
    /\ initialized[i] # "down"
    /\ initialized' = [initialized EXCEPT ![i] = "down"]
    /\ asked' = [asked EXCEPT ![i] = FALSE]
    /\ UNCHANGED <<status, binding, owner, setup, tx>>

-----------------------------------------------------------------------------
(* RoleBindingService.setSystemRole *)

Continue(p, r) == tx' = [tx EXCEPT ![p] = r]
End(p) == Continue(p, Idle)
At(p, step) == tx[p].at = step
\* v: a user, for the binding row, or SuperRole
LockedByOther(p, v) == \E q \in Requests \ {p} : v \in tx[q].locked
Quiet == <<status, owner, setup, initialized, asked>>

\* The first SELECT begins: it sees the target's super binding, if any.
BeginRole(p, u, r) ==
    /\ At(p, "idle") /\ u \in Active
    /\ \E i \in Instances : initialized[i] = "yes"
    /\ MayInsert(u)
    /\ Continue(p, [Idle EXCEPT !.at = IF binding[u].role = "super" THEN "own" ELSE "write",
                                !.user = u, !.role = r, !.row = binding[u].row])
    /\ UNCHANGED <<binding, Quiet>>

\* ... and locks it, unless it was deleted while the statement waited.
LockOwn(p) ==
    LET r == tx[p]
        still == binding[r.user].role = "super" /\ binding[r.user].row = r.row
    IN /\ At(p, "own") /\ ~LockedByOther(p, r.user)
       /\ Continue(p,
            IF ~still THEN [r EXCEPT !.at = "write"]
            ELSE [r EXCEPT !.at = "role", !.was_super = TRUE, !.locked = {r.user}])
       /\ UNCHANGED <<binding, Quiet>>

\* [mutant] Only taking the role away counts, not replacing it by sys_admin.
Removes(r) == r.role = "none"
Demotes(r) == r.role # "super"

\* FOR UPDATE without OF locks the joined role, too; then the second SELECT
\* begins and sees the other active super admins.
LockSuperRole(p) ==
    LET r == tx[p]
    IN /\ At(p, "role") /\ ~LockedByOther(p, SuperRole)
       /\ Continue(p,
            [r EXCEPT !.locked = @ \cup {SuperRole},
                      !.at = IF Demotes(r) THEN "others" ELSE "write",
                      !.todo = IF Demotes(r) THEN Supers \ {r.user} ELSE {}])
       /\ UNCHANGED <<binding, Quiet>>

\* The second SELECT locks the other super admins' rows, in any order.
LockOther(p, v) ==
    /\ At(p, "others") /\ v \in tx[p].todo
    /\ ~LockedByOther(p, v)
    /\ Continue(p, [tx[p] EXCEPT !.todo = @ \ {v},
            !.locked = IF v \in Supers THEN @ \cup {v} ELSE @,
            !.others = IF v \in Supers THEN @ \cup {v} ELSE @])
    /\ UNCHANGED <<binding, Quiet>>

\* LAST_SUPER_ADMIN, or go on.
CountOthers(p) ==
    /\ At(p, "others") /\ tx[p].todo = {}
    /\ IF tx[p].others = {} THEN End(p) ELSE Continue(p, [tx[p] EXCEPT !.at = "write"])
    /\ UNCHANGED <<binding, Quiet>>

\* Delete the target's binding, insert the new one (whose foreign key needs the
\* role's row), commit.
WriteRole(p) ==
    LET u == tx[p].user
    IN /\ At(p, "write") /\ ~LockedByOther(p, u) /\ MayInsert(u)
       /\ tx[p].role = "super" => ~LockedByOther(p, SuperRole)
       /\ binding' = [binding EXCEPT ![u] = NewRow(u, tx[p].role)]
       /\ End(p)
       /\ UNCHANGED Quiet

\* The rows p may be waiting for.
Wanted(p) ==
    CASE At(p, "own")    -> {tx[p].user}
      [] At(p, "role")   -> {SuperRole}
      [] At(p, "others") -> tx[p].todo
      [] At(p, "write")  -> {tx[p].user} \cup (IF tx[p].role = "super" THEN {SuperRole} ELSE {})
      [] OTHER           -> {}
Waits(p, q) == p # q /\ Wanted(p) \cap tx[q].locked # {}

\* PostgreSQL ends one of two transactions that wait for each other.
DeadlockDetected(p) ==
    /\ \E q \in Requests : Waits(p, q) /\ Waits(q, p)
    /\ End(p)
    /\ UNCHANGED <<binding, Quiet>>

-----------------------------------------------------------------------------
(* MergeService.doMerge: x absorbs y with y's powers. *)

\* ON CONFLICT DO NOTHING: a user has one system binding.
HandedBinding(x, y) ==
    IF binding[x].role = "none" /\ binding[y].role # "none" THEN NewRow(x, binding[y].role)
    ELSE binding[x]
\* [mutant] The absorbed account keeps the flag, too.
OwnerBoth(x, y) == IF y \in owner THEN owner \cup {x} ELSE owner
HandedOwner(x, y) == IF y \in owner THEN {x} ELSE owner

Merge(x, y) ==
    /\ Merges
    /\ {x, y} \subseteq Active /\ x # y
    /\ \A p \in Requests :
        /\ y \notin tx[p].locked
        /\ HandedBinding(x, y).role = "super" /\ binding[x].role = "none"
           => SuperRole \notin tx[p].locked
    /\ MayInsert(x) /\ MayInsert(y)
    /\ binding' = [binding EXCEPT ![x] = HandedBinding(x, y), ![y] = NewRow(y, "none")]
    /\ owner' = HandedOwner(x, y)
    /\ status' = [status EXCEPT ![y] = "merged"]
    /\ UNCHANGED <<setup, initialized, asked, tx>>

Next ==
    \/ \E i \in Instances :
        \/ EnsureState(i) \/ AssertPending(i) \/ Admit(i) \/ Stop(i)
        \/ \E u \in Users : Complete(i, u) \/ Register(i, u)
    \/ \E u \in Users : Recover(u)
    \/ \E p \in Requests :
        \/ \E u \in Users, r \in Roles : BeginRole(p, u, r)
        \/ LockOwn(p) \/ LockSuperRole(p) \/ CountOthers(p) \/ WriteRole(p) \/ DeadlockDetected(p)
        \/ \E v \in Users : LockOther(p, v)
    \/ \E x, y \in Users : Merge(x, y)

Spec == Init /\ [][Next]_vars

-----------------------------------------------------------------------------
TypeOK ==
    /\ status \in [Users -> {"none", "active", "merged"}]
    /\ binding \in [Users -> BindingType]
    /\ owner \in {S \in SUBSET Users : Cardinality(S) <= 1}
    /\ setup \in {"absent", "pending", "done"}
    /\ initialized \in [Instances -> {"down", "no", "yes"}]
    /\ asked \in [Instances -> BOOLEAN]
    /\ tx \in [Requests -> TxType]

\* No route but the setup is served before somebody can administer the instance
\* (SetupGuard's cached flag), and that stays so through races of two setups,
\* adoption, recovery and merges: an active instance owner exists.
GateOpensWithOwner ==
    \A i \in Instances :
        initialized[i] = "yes" => setup = "done" /\ \E u \in owner : u \in Active

\* The row a waiting demotion saw was replaced by a concurrent grant.
Replaced(p) == At(p, "write") /\ ~tx[p].was_super /\ binding[tx[p].user].role = "super"

\* setSystemRole's comment ("concurrent demotions can't both pass and zero out
\* the super admins"): role changes leave a super admin, except a demotion whose
\* target was granted the role while it waited.
SuperAdminKept ==
    [][Supers # {} /\ status' = status /\ ~(\E p \in Requests : Replaced(p) /\ tx'[p] = Idle)
       => Supers' # {}]_vars

\* doMerge's comment: "a merge can never strand the last super admin".
MergeKeepsSuperAdmin == [][Supers # {} /\ status' # status => Supers' # {}]_vars
=============================================================================
