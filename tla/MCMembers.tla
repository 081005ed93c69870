----------------------------- MODULE MCMembers -----------------------------
(***************************************************************************)
(* The instances of Identity and InstanceAdmin that TLC checks, side by    *)
(* side in one run as in MCSecrets: the accounts of the members of an      *)
(* instance, and who administers it.                                       *)
(***************************************************************************)
EXTENDS Naturals, FiniteSets, TLC

CONSTANTS Scopes, Users, Requests, Instances, None, MaxRows, Merges, SuperRole,
          email, mini, web, Password, WeChat

\* An e-mail address, and the WeChat mini program and web site of one person.
Identities == {email, mini, web}
Group == (email :> email) @@ (mini :> WeChat) @@ (web :> WeChat)

-----------------------------------------------------------------------------
VARIABLES scope,
          holder, account, req,
          status, binding, owner, setup, initialized, asked, tx

I == INSTANCE Identity
A == INSTANCE InstanceAdmin

\* What stands for a missing account is no account.
ASSUME NoneIsNoUser == None \notin Users
ASSUME RowLimit == MaxRows \in Nat

identityVars == <<holder, account, req>>
adminVars    == <<status, binding, owner, setup, initialized, asked, tx>>

\* The components that do not move are in one fixed state.
IdentityRests ==
    /\ account = [u \in Users |-> I!NoAccount]
    /\ holder = [i \in Identities |-> None]
    /\ req = [p \in Requests |-> I!Idle]
AdminRests == A!Init /\ \A u \in Users : status[u] = "none"

Init ==
    /\ scope \in Scopes
    /\ IF scope = "identity" THEN I!Init ELSE IdentityRests
    /\ IF scope = "admin" THEN A!Init ELSE AdminRests

\* Bound: while role changes are under way, an instance is down and none starts
\* or stops.  They meet in the tables; the flags of two instances are about the
\* setup.
AdminBounded ==
    \/ \A p \in Requests : tx'[p] = A!Idle
    \/ /\ \A p \in Requests : tx[p] # A!Idle => initialized' = initialized
       /\ \E i \in Instances : initialized'[i] = "down"

Next ==
    /\ UNCHANGED scope
    /\ \/ scope = "identity" /\ I!Next /\ UNCHANGED adminVars
       \/ scope = "admin" /\ A!Next /\ AdminBounded /\ UNCHANGED identityVars

vars == <<scope, identityVars, adminVars>>
Spec == Init /\ [][Next]_vars

Symmetry == Permutations(Users) \cup Permutations(Requests) \cup Permutations(Instances)

-----------------------------------------------------------------------------
\* The variables have their types.
TypeOK ==
    /\ scope = "identity" => I!TypeOK
    /\ scope = "admin" => A!TypeOK

\* An account is lost only to a request overtaken between its check and its
\* write (Identity).
LostOnlyWhenOvertaken == I!LostOnlyWhenOvertaken
\* Routes other than the setup are served only when there is an active owner
\* (InstanceAdmin).
GateOpensWithOwner == scope = "admin" => A!GateOpensWithOwner
\* Concurrent role changes leave a super admin (InstanceAdmin).
SuperAdminKept == A!SuperAdminKept
\* A merge leaves a super admin (InstanceAdmin; it does not always).
MergeKeepsSuperAdmin == A!MergeKeepsSuperAdmin
=============================================================================
