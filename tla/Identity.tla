------------------------------ MODULE Identity ------------------------------
(***************************************************************************)
(* IdentityService and MergeService: which account holds which login       *)
(* method, and how accounts are merged.                                    *)
(*                                                                         *)
(* Binding, unbinding, stealing one method and absorbing an account all    *)
(* read first, decide, and write in a later statement; only the unique     *)
(* index on (provider, provider_uid) ties the two together.  An identity   *)
(* is its (provider, provider_uid); Group says which login method it       *)
(* counts as (loginMethodCount), Union its unionid.  The caller has proved *)
(* control of the identity a request names.                                *)
(***************************************************************************)
EXTENDS Naturals, FiniteSets

CONSTANTS
    Users, Identities, Requests,
    Password, WeChat, \* the two groups the code treats specially
    Group,            \* the login method an identity counts as
    None

VARIABLES
    holder,  \* auth_identities.user_id, or None when there is no row
    account, \* users: active or merged, into whom, whether it owns content
    req      \* requests: what they have read, and their next statement

vars == <<holder, account, req>>

AccountType == [status : {"none", "active", "merged"}, into : Users \cup {None},
                content : BOOLEAN]
ReqType == [at : {"idle", "insert", "create", "delete", "steal", "merge", "keep"},
            by : Users \cup {None}, from : Users \cup {None},
            id : Identities \cup {None}, seen : SUBSET Identities,
            moved : SUBSET Identities, clear : BOOLEAN]

NewAccount == [status |-> "active", into |-> None, content |-> FALSE]
NoAccount == [status |-> "none", into |-> None, content |-> FALSE]
Idle == [at |-> "idle", by |-> None, from |-> None, id |-> None, seen |-> {},
         moved |-> {}, clear |-> TRUE]

\* The WeChat identities of the model share one unionid.
Family == {i \in Identities : Group[i] = WeChat}
Held(u) == {i \in Identities : holder[i] = u}
Active == {u \in Users : account[u].status = "active"}

Init ==
    /\ holder \in [Identities -> Users]
    /\ account = [u \in Users |->
                    IF \E i \in Identities : holder[i] = u THEN NewAccount ELSE NoAccount]
    /\ req = [p \in Requests |-> Idle]

At(p, step) == req[p].at = step
Continue(p, r) == req' = [req EXCEPT ![p] = r]
End(p) == Continue(p, Idle)

\* Distinct usable login methods; a family counts once.
LoginMethodCount(S) == Cardinality({Group[i] : i \in S})

-----------------------------------------------------------------------------
(* bindResolved: find, then insert; the unique index refuses a second row. *)

BindFind(p, u, i) ==
    /\ At(p, "idle")
    /\ u \in Active /\ holder[i] = None /\ Group[i] # Password
    /\ Continue(p, [Idle EXCEPT !.at = "insert", !.by = u, !.id = i])
    /\ UNCHANGED <<holder, account>>

BindInsert(p) ==
    /\ At(p, "insert")
    /\ holder' = [holder EXCEPT ![req[p].id] = IF @ = None THEN req[p].by ELSE @]
    /\ End(p)
    /\ UNCHANGED account

(* unbind: read all, count without the one, delete by id. *)

UnbindFind(p, u, i) ==
    /\ At(p, "idle")
    /\ u \in Active /\ holder[i] = u
    /\ LoginMethodCount(Held(u) \ {i}) >= 1
    /\ Continue(p, [Idle EXCEPT !.at = "delete", !.by = u, !.from = u, !.id = i,
                                !.seen = Held(u), !.moved = {i}])
    /\ UNCHANGED <<holder, account>>

UnbindDelete(p) ==
    /\ At(p, "delete")
    /\ holder' = [holder EXCEPT ![req[p].id] = None]
    /\ End(p)
    /\ UNCHANGED account

-----------------------------------------------------------------------------
(* forceBind: steal one identity, of WeChat the whole family; the account   *)
(* it is taken from must keep a login method.                               *)

MovedWith(i, S) == IF i \in Family THEN S \cap Family ELSE {i}

\* [mutant] The guard looks at what the account has, not at what it keeps.
KeepsSome(S, M) == LoginMethodCount(S) >= 1
KeepsLogin(S, M) == LoginMethodCount(S \ M) >= 1

ForceBindCheck(p, u, i) ==
    LET y == holder[i]
        S == Held(y)
    IN /\ At(p, "idle")
       /\ u \in Active /\ y \notin {None, u} /\ Group[i] # Password
       /\ KeepsLogin(S, MovedWith(i, S))
       /\ Continue(p, [Idle EXCEPT !.at = "steal", !.by = u, !.from = y, !.id = i,
                                   !.seen = S, !.moved = MovedWith(i, S)])
       /\ UNCHANGED <<holder, account>>

\* UPDATE ... WHERE id IN (movedIds): rows deleted meanwhile are not updated.
ForceBind(p) ==
    /\ At(p, "steal")
    /\ holder' = [i \in Identities |->
                    IF i \in req[p].moved /\ holder[i] # None THEN req[p].by ELSE holder[i]]
    /\ End(p)
    /\ UNCHANGED account

-----------------------------------------------------------------------------
(* Merging: the checks, then doMerge's transaction, which checks nothing.   *)

\* fullMerge: the caller absorbs the account that holds i.
FullMergeCheck(p, u, i) ==
    LET y == holder[i]
    IN /\ At(p, "idle")
       /\ u \in Active /\ y \notin {None, u} /\ Group[i] # Password
       /\ ~account[y].content
       /\ Continue(p, [Idle EXCEPT !.at = "merge", !.by = u, !.from = y])
       /\ UNCHANGED <<holder, account>>

\* findOrCreate with a late unionid: the login's own account and the one the
\* unionid points at.  trySilentMerge looks at the login's account first ...
SilentMergeCheck(p, i, k) ==
    /\ At(p, "idle")
    /\ {i, k} \subseteq Family /\ None \notin {holder[i], holder[k]}
    /\ holder[i] # holder[k]
    /\ Continue(p, IF account[holder[i]].content
                   THEN [Idle EXCEPT !.at = "keep", !.by = holder[i], !.from = holder[k]]
                   ELSE [Idle EXCEPT !.at = "merge", !.by = holder[k], !.from = holder[i]])
    /\ UNCHANGED <<holder, account>>

\* ... and, when that owns content, at the other one.
SilentMergeOther(p) ==
    /\ At(p, "keep")
    /\ IF account[req[p].from].content THEN End(p)
       ELSE Continue(p, [req[p] EXCEPT !.at = "merge"])
    /\ UNCHANGED <<holder, account>>

MovedIdentities(x, y) == [i \in Identities |-> IF holder[i] = y THEN x ELSE holder[i]]

DoMerge(p) ==
    LET x == req[p].by
        y == req[p].from
    IN /\ At(p, "merge")
       /\ holder' = MovedIdentities(x, y)
       /\ account' = [account EXCEPT ![y].status = "merged", ![y].into = x]
       /\ End(p)

-----------------------------------------------------------------------------
(* findOrCreate of an unknown identity: find, then one transaction.  With a *)
(* unionid the account that holds the family gets it, else a new account.   *)
LoginFind(p, i) ==
    /\ At(p, "idle")
    /\ holder[i] = None /\ Group[i] # Password
    /\ \E u \in Users \cup {None} :
        /\ IF i \in Family /\ \E k \in Family : holder[k] # None
           THEN \E k \in Family : u = holder[k] /\ u # None
           ELSE u = None
        /\ Continue(p, [Idle EXCEPT !.at = "create", !.by = u, !.id = i])
    /\ UNCHANGED <<holder, account>>

LoginCreate(p) ==
    /\ At(p, "create")
    /\ \/ holder[req[p].id] # None /\ UNCHANGED <<holder, account>>
       \/ /\ holder[req[p].id] = None /\ req[p].by # None
          /\ holder' = [holder EXCEPT ![req[p].id] = req[p].by]
          /\ UNCHANGED account
       \/ /\ holder[req[p].id] = None /\ req[p].by = None
          /\ \E u \in Users :
              /\ account[u].status = "none"
              /\ account' = [account EXCEPT ![u] = NewAccount]
              /\ holder' = [holder EXCEPT ![req[p].id] = u]
    /\ End(p)

\* An account comes to own its first project, task, asset, ...
CreateContent(u) ==
    /\ u \in Active /\ ~account[u].content
    /\ account' = [account EXCEPT ![u].content = TRUE]
    /\ UNCHANGED <<holder, req>>

Next ==
    \/ \E p \in Requests :
        \/ \E u \in Users, i \in Identities :
            \/ BindFind(p, u, i) \/ UnbindFind(p, u, i)
            \/ ForceBindCheck(p, u, i) \/ FullMergeCheck(p, u, i)
        \/ BindInsert(p) \/ UnbindDelete(p) \/ ForceBind(p)
        \/ \E i, k \in Identities : SilentMergeCheck(p, i, k)
        \/ SilentMergeOther(p) \/ DoMerge(p)
        \/ \E i \in Identities : LoginFind(p, i)
        \/ LoginCreate(p)
    \/ \E u \in Users : CreateContent(u)

Spec == Init /\ [][Next]_vars

-----------------------------------------------------------------------------
TypeOK ==
    /\ holder \in [Identities -> Users \cup {None}]
    /\ account \in [Users -> AccountType]
    /\ req \in [Requests -> ReqType]

\* Following merged_into_user_id from u leads to no active account: among absorbed
\* accounts it never ends (two may have absorbed each other), or it ends elsewhere.
Stranded(u) ==
    \E S \in SUBSET (Users \ Active) :
        u \in S /\ \A v \in S : account[v].status = "merged" => account[v].into \in S

\* An account its owner can come back to: active with a login method, or absorbed,
\* methods and all, by one that is; content never moves, so it had none.
Reachable(u) ==
    /\ account[u].status = "active" => Held(u) # {}
    /\ account[u].status = "merged" => ~Stranded(u) /\ Held(u) = {} /\ ~account[u].content

\* What the request that is about to write has read is no longer so.
Overtaken(p) ==
    LET r == req[p]
    IN CASE r.at \in {"delete", "steal"} -> Held(r.from) # r.seen \/ r.by \notin Active
         [] r.at = "merge"  -> r.by \notin Active \/ r.from \notin Active \/ account[r.from].content
         [] r.at \in {"insert", "create"} -> r.by # None /\ r.by \notin Active
         [] OTHER -> FALSE

\* Nobody loses an account (unbind, forceBind, fullMerge, trySilentMerge,
\* findOrCreate): a step after which an account cannot be reached any more is the
\* write of a request that was overtaken between its check and its write.
LostOnlyWhenOvertaken ==
    [][(\A u \in Users : Reachable(u)) /\ ~(\A u \in Users : Reachable(u)')
       => \E p \in Requests : Overtaken(p) /\ req'[p] = Idle]_vars
=============================================================================
