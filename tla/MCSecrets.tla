----------------------------- MODULE MCSecrets -----------------------------
(***************************************************************************)
(* The instances of Session, Verification, Keyring, ObjectStorage,         *)
(* Permissions and VendorCall that TLC checks.  They share no state, so one run checks them side by side:  *)
(* Init picks the component a behaviour is about and only that one moves,  *)
(* which adds the state spaces up where an interleaving would multiply     *)
(* them.                                                                   *)
(***************************************************************************)
EXTENDS Naturals, FiniteSets, TLC

CONSTANTS Requests, Tokens, Devices, None, MaxDevices, Ttl, CacheTtl, MaxTime, Crashes,
          MaxChallenges, MaxAttempts, MaxRecent,
          i1, i2, Rows, MaxId, Generated, Given, Configs, Secrets,
          SuperRole, Admin, Auditor, read, edit,
          MaxFailover, MaxRetries

ASSUME RequestsFinite == IsFiniteSet(Requests)
ASSUME CodeLimits == MaxChallenges \in Nat /\ MaxAttempts \in Nat \ {0}

\* What stands for NULL and for nothing is none of the values.
ASSUME NoneIsNoValue ==
    /\ None \notin Configs /\ None \notin Secrets
    /\ None \notin [config : Configs, verified : BOOLEAN, secret : Secrets]
    /\ None \notin {i1, i2}

\* An upgrade takes a capability from the project role.
Capabilities == {read, edit}
OldCatalog == [r \in {SuperRole, Auditor, Admin} |-> IF r = Auditor THEN {read} ELSE Capabilities]
NewCatalog == [OldCatalog EXCEPT ![Admin] = {read}]

VARIABLES scope,
          row, live, tomb, req, now,
          challenge, asked, tried, accepted,
          file, env, boot, mem, holder, payload, trusted,
          stored, runtime, saves, probed, overlap,
          bound, grants, cache, index, checks, lapsed,
          adapter, cand, phase, request, tries, answer, wire, taken, job, report, verdict

S == INSTANCE Session
V == INSTANCE Verification WITH Guessers <- Requests
K == INSTANCE Keyring WITH Instances <- {i1, i2}
O == INSTANCE ObjectStorage WITH Instances <- {i1}, At <- [p \in Requests |-> i1],
                                 row <- stored, req <- saves
P == INSTANCE Permissions WITH Caps <- Capabilities, ProjectRoles <- {Admin},
                               SystemRoles <- {SuperRole, Auditor},
                               Before <- OldCatalog, After <- NewCatalog, req <- checks
N == INSTANCE VendorCall

sessionVars == <<row, live, tomb, req, now>>
verifyVars  == <<challenge, asked, tried, accepted>>
keyringVars == <<file, env, boot, mem, holder, payload, trusted>>
storageVars == <<stored, runtime, saves, probed, overlap>>
permissionVars == <<bound, grants, cache, index, checks, lapsed>>
vendorVars  == <<adapter, cand, phase, request, tries, answer, wire, taken, job, report,
                 verdict>>
vars == <<scope, sessionVars, verifyVars, keyringVars, storageVars, permissionVars,
          vendorVars>>

Init ==
    /\ scope \in {"session", "verification", "keyring", "storage", "permissions", "vendor"}
    /\ S!Init /\ V!Init /\ K!Init /\ O!Init /\ P!Init /\ N!Init
    /\ scope # "permissions" => \A s \in P!Scopes : bound[s] = None
    /\ scope # "vendor" => adapter = "image"

\* Bounds: the storage settings are left when saves have overlapped, and the
\* permissions when a change will never be invalidated.
Next ==
    /\ UNCHANGED scope
    /\ \/ scope = "session" /\ S!Next
          /\ UNCHANGED <<verifyVars, keyringVars, storageVars, permissionVars,
                         vendorVars>>
       \/ scope = "verification" /\ V!Next
          /\ UNCHANGED <<sessionVars, keyringVars, storageVars, permissionVars,
                         vendorVars>>
       \/ scope = "keyring" /\ K!Next
          /\ UNCHANGED <<sessionVars, verifyVars, storageVars, permissionVars,
                         vendorVars>>
       \/ scope = "storage" /\ ~overlap /\ O!Next
          /\ UNCHANGED <<sessionVars, verifyVars, keyringVars, permissionVars,
                         vendorVars>>
       \/ scope = "vendor" /\ N!Next
          /\ UNCHANGED <<sessionVars, verifyVars, keyringVars, storageVars,
                         permissionVars>>
       \/ scope = "permissions" /\ ~lapsed /\ P!Next
          /\ UNCHANGED <<sessionVars, verifyVars, keyringVars, storageVars, vendorVars>>

Spec == Init /\ [][Next]_vars

Symmetry == Permutations(Requests) \cup Permutations(Tokens)

ASSUME SessionLimits ==
    Ttl \in Nat \ {0} /\ CacheTtl \in Nat \ {0} /\ MaxTime \in Nat /\ MaxDevices \in Nat

ASSUME VendorLimits == MaxFailover \in Nat \ {0} /\ MaxRetries \in Nat

\* No answer and no report stands for a missing one.
ASSUME NothingReported ==
    None \notin N!Answers \cup N!JobStates \cup {"error"} /\ None \notin N!ReportType

\* The roles are distinct, and no role and no cached set is missing.
ASSUME RolesDistinct ==
    /\ SuperRole # Admin /\ SuperRole # Auditor /\ Admin # Auditor
    /\ None \notin {SuperRole, Admin, Auditor} /\ None \notin P!EntryType

\* There is a first key id, and no key and no keyring stands for a missing one.
ASSUME KeyringLimits == MaxId \in Nat \ {0} /\ None \notin K!Contents /\ None \notin K!Ring

-----------------------------------------------------------------------------
\* The variables have their types.
TypeOK ==
    /\ scope = "session" => S!TypeOK
    /\ scope = "verification" => V!TypeOK
    /\ scope = "keyring" => K!TypeOK
    /\ scope = "storage" => O!TypeOK
    /\ scope = "permissions" => P!TypeOK
    /\ scope = "vendor" => N!TypeOK

\* A session that was kicked is never accepted again, and a live one is let in
\* (Session).
SessionsJudged == scope = "session" => S!KickIsFinal /\ S!ActiveLetIn
\* A revocation takes effect at once (Session; it does not always).
RevocationInstant == scope = "session" => S!RevocationInstant
\* A code or link lets one request in, and overlapping guesses exceed the attempt
\* limit by at most their number (Verification).
CodesHold == scope = "verification" => V!AcceptedOnce /\ V!GuessesBounded
\* An instance that starts can decrypt what is stored (Keyring).
StartReadsAll == K!StartReadsAll
\* Settings stored as verified were probed (ObjectStorage).
VerifiedWasProbed == scope = "storage" => O!VerifiedWasProbed
\* A cached capability set is what the database grants (Permissions).
CachedAsGranted == scope = "permissions" => P!CachedAsGranted
\* An invocation leaves at most one job at the vendors, and what is reported of
\* the vendor is so (VendorCall).
VendorJobsReported == scope = "vendor" => N!OneJobPerInvocation /\ N!ReportsAreTrue
=============================================================================
