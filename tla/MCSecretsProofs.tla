-------------------------- MODULE MCSecretsProofs --------------------------
(***************************************************************************)
(* Proofs about the components that MCSecrets sets side by side.  They     *)
(* share no state, so each has an inductive invariant of its own, which    *)
(* the steps of the others leave alone.                                    *)
(***************************************************************************)
EXTENDS MCSecrets, FiniteSetTheorems, WellFoundedInduction, TLAPS

\* A step is a step of one component, and the others rest.
LEMMA OneMoves ==
    ASSUME [Next]_vars
    PROVE  /\ UNCHANGED scope
           /\ [S!Next]_sessionVars /\ [V!Next]_verifyVars /\ [K!Next]_keyringVars
           /\ [O!Next]_storageVars /\ [P!Next]_permissionVars /\ [N!Next]_vendorVars
BY DEF Next, vars

(***************************************************************************)
(* ObjectStorage.                                                          *)
(***************************************************************************)
\* The steps at which a request holds a candidate, and those after its probe.
Candidates == {"probe", "look", "write", "use"}
Probed == {"look", "write", "use"}

\* What a request has read by the step it is at, with the row st and the settings
\* pr that were probed: a candidate marked as verified is probed before it is saved.
Fits(r, st, pr) ==
    /\ r \in O!RequestType
    /\ r.step = "resolve" => r.config \in Configs
    /\ r.step \in Candidates => r.new \in O!Row
    /\ r.step = "load" => r.seen \in O!Row
    /\ r.seen # None => st # None
    /\ r.step \in Probed /\ r.new.verified => O!Client(r.new) \in pr

RequestsFit == \A p \in Requests : Fits(saves[p], stored, probed)

StorageInv == O!TypeOK /\ RequestsFit /\ O!VerifiedWasProbed

LEMMA StorageInit == O!Init => StorageInv
<1> SUFFICES ASSUME O!Init  PROVE StorageInv
  OBVIOUS
<1>1. O!Idle \in O!RequestType
  BY DEF O!Idle, O!RequestType
<1>2. O!TypeOK
  BY <1>1 DEF O!Init, O!TypeOK
<1>3. RequestsFit
  BY <1>1 DEF O!Init, O!Idle, RequestsFit, Fits, Candidates, Probed
<1>4. QED  BY <1>2, <1>3 DEF StorageInv, O!VerifiedWasProbed, O!Init, O!Stored

\* What fits goes on fitting, and so does what one request becomes.
LEMMA FitsStays ==
    ASSUME NEW r, NEW st, NEW pr, NEW st2, NEW pr2, Fits(r, st, pr),
           st # None => st2 # None, pr \subseteq pr2
    PROVE  Fits(r, st2, pr2)
BY DEF Fits

LEMMA StorageContinue ==
    ASSUME StorageInv, NEW p \in Requests, NEW r, O!Continue(p, r),
           stored # None => stored' # None, probed \subseteq probed',
           Fits(r, stored', probed')
    PROVE  RequestsFit' /\ saves' \in [Requests -> O!RequestType]
<1>1. saves'[p] = r /\ \A q \in Requests \ {p} : saves'[q] = saves[q]
  BY DEF O!Continue, StorageInv, O!TypeOK
<1>2. \A q \in Requests : Fits(saves'[q], stored', probed')
  BY <1>1, FitsStays DEF StorageInv, RequestsFit
<1>3. saves' \in [Requests -> O!RequestType]
  BY DEF O!Continue, StorageInv, O!TypeOK, Fits
<1>4. QED  BY <1>2, <1>3 DEF RequestsFit

LEMMA IdleFits ==
    ASSUME NEW st, NEW pr
    PROVE  Fits(O!Idle, st, pr)
BY DEF Fits, O!Idle, O!RequestType, Candidates, Probed

\* The requests move on; what is stored and probed stays.
LEMMA StorageMovesOn ==
    ASSUME StorageInv, NEW p \in Requests, NEW r, O!Continue(p, r),
           UNCHANGED <<stored, probed, overlap>>, Fits(r, stored, probed),
           \A i \in {i1} : runtime'[i] = None \/ runtime'[i] \in [config : Configs, secret : Secrets]
    PROVE  StorageInv'
<1>1. RequestsFit' /\ saves' \in [Requests -> O!RequestType]
  BY StorageContinue
<1>2. QED  BY <1>1 DEF StorageInv, O!TypeOK, O!VerifiedWasProbed, O!Stored

LEMMA StorageNext ==
    ASSUME StorageInv, O!Next
    PROVE  StorageInv'
<1> USE DEF StorageInv
<1>1. ASSUME NEW p \in Requests, O!Ask(p)  PROVE StorageInv'
  <2>1. PICK c \in Configs, s \in Secrets \cup {None}, t \in BOOLEAN :
          O!Continue(p, [O!Idle EXCEPT !.step = "resolve", !.config = c, !.secret = s, !.test = t])
    BY <1>1 DEF O!Ask
  <2>2. Fits([O!Idle EXCEPT !.step = "resolve", !.config = c, !.secret = s, !.test = t], stored, probed)
    BY DEF Fits, O!Idle, O!RequestType, Candidates, Probed
  <2>3. QED  BY <1>1, <2>1, <2>2, StorageMovesOn DEF O!Ask, O!TypeOK
<1>2. ASSUME NEW p \in Requests, O!Resolve(p)  PROVE StorageInv'
  <2> DEFINE s == IF saves[p].secret # None THEN saves[p].secret
                  ELSE IF O!Stored THEN stored.secret ELSE None
             new == [config |-> saves[p].config, verified |-> O!Marked(saves[p].test), secret |-> s]
             next == [O!Idle EXCEPT !.step = IF saves[p].test THEN "probe" ELSE "look", !.new = new]
  <2>1. UNCHANGED <<stored, runtime, probed, overlap>> /\ saves[p].step = "resolve"
    BY <1>2 DEF O!Resolve
  <2>2. CASE s = None /\ O!Continue(p, O!Idle)
    BY <2>1, <2>2, IdleFits, StorageMovesOn DEF O!TypeOK
  <2>3. CASE s # None /\ O!Continue(p, next)
    <3>1. s \in Secrets /\ saves[p].config \in Configs /\ saves[p].test \in BOOLEAN
      BY <2>1, <2>3 DEF RequestsFit, Fits, O!RequestType, O!TypeOK, O!Stored, O!Row
    <3>2. new \in O!Row /\ new.verified = saves[p].test
      BY <3>1 DEF O!Row, O!Marked
    <3>3. Fits(next, stored, probed)
      <4>1. /\ next \in O!RequestType /\ next.seen = None /\ next.new = new
            /\ next.step = IF saves[p].test THEN "probe" ELSE "look"
        BY <3>1, <3>2 DEF O!Idle, O!RequestType
      <4>2. QED  BY <3>2, <4>1 DEF Fits, Candidates, Probed
    <3>4. QED  BY <2>1, <2>3, <3>3, StorageMovesOn DEF O!TypeOK
  <2>4. QED  BY <1>2, <2>2, <2>3 DEF O!Resolve
<1>3. ASSUME NEW p \in Requests, O!Probe(p)  PROVE StorageInv'
  <2>1. saves[p].step = "probe" /\ UNCHANGED <<stored, runtime, overlap>> /\ Fits(saves[p], stored, probed)
    BY <1>3 DEF O!Probe, RequestsFit
  <2>2. CASE O!Continue(p, O!Idle) /\ UNCHANGED probed
    BY <2>1, <2>2, IdleFits, StorageMovesOn DEF O!TypeOK
  <2>3. CASE /\ O!Continue(p, [saves[p] EXCEPT !.step = "look"])
             /\ probed' = probed \cup {O!Client(saves[p].new)}
    <3>1. Fits([saves[p] EXCEPT !.step = "look"], stored', probed')
      BY <2>1, <2>3 DEF Fits, O!RequestType, Candidates, Probed
    <3>2. RequestsFit' /\ saves' \in [Requests -> O!RequestType]
      BY <2>1, <2>3, <3>1, StorageContinue
    <3>3. O!Client(saves[p].new) \in [config : Configs, secret : Secrets]
      BY <2>1 DEF Fits, O!Row, O!Client, Candidates
    <3>4. QED
      BY <2>1, <2>3, <3>2, <3>3 DEF O!TypeOK, O!VerifiedWasProbed, O!Stored, O!Client
  <2>4. QED  BY <1>3, <2>2, <2>3 DEF O!Probe
<1>4. ASSUME NEW p \in Requests, O!Look(p)  PROVE StorageInv'
  <2>1. saves[p].step = "look" /\ Fits(saves[p], stored, probed) /\ UNCHANGED <<stored, runtime, probed, overlap>>
    BY <1>4 DEF O!Look, RequestsFit
  <2>2. Fits([saves[p] EXCEPT !.step = "write", !.seen = stored], stored, probed)
    BY <2>1, NoneIsNoValue DEF Fits, O!RequestType, O!TypeOK, O!Row, Candidates, Probed
  <2>3. QED  BY <1>4, <2>1, <2>2, StorageMovesOn DEF O!Look, O!TypeOK
<1>5. ASSUME NEW p \in Requests, O!Write(p)  PROVE StorageInv'
  <2> DEFINE new == saves[p].new
             same == /\ saves[p].seen # None /\ new.config = saves[p].seen.config
                     /\ ~new.verified /\ ~saves[p].seen.verified
  <2>1. /\ saves[p].step = "write" /\ Fits(saves[p], stored, probed)
        /\ UNCHANGED <<runtime, probed>>
    BY <1>5 DEF O!Write, RequestsFit
  <2>2. new \in O!Row /\ (new.verified => O!Client(new) \in probed)
    BY <2>1 DEF Fits, Candidates, Probed
  <2>3. CASE O!Continue(p, O!Idle) /\ UNCHANGED <<stored, overlap>>
    BY <2>1, <2>3, IdleFits, StorageMovesOn DEF O!TypeOK
  <2>4. CASE /\ stored' = IF same THEN [stored EXCEPT !.secret = new.secret] ELSE new
             /\ overlap' = (overlap \/ stored # saves[p].seen)
             /\ O!Continue(p, [saves[p] EXCEPT !.step = "use", !.seen = None])
    <3>1. stored' \in O!Row
      BY <2>1, <2>2, <2>4 DEF Fits, O!TypeOK, O!Row
    <3>2. stored' # None
      BY <3>1, NoneIsNoValue DEF O!Row
    <3>3. Fits([saves[p] EXCEPT !.step = "use", !.seen = None], stored', probed')
      BY <2>1, <2>2 DEF Fits, O!RequestType, Candidates, Probed
    <3>4. RequestsFit' /\ saves' \in [Requests -> O!RequestType]
      BY <2>1, <2>4, <3>2, <3>3, StorageContinue
    <3>5. stored'.verified /\ ~overlap' => O!Client(stored)' \in probed
      <4>1. CASE same
        BY <2>1, <2>4, <4>1 DEF O!TypeOK, O!Row, Fits
      <4>2. CASE ~same
        BY <2>2, <2>4, <4>2 DEF O!Client
      <4>3. QED  BY <4>1, <4>2
    <3>6. overlap' \in BOOLEAN
      BY <2>4 DEF O!TypeOK
    <3>7. QED
      BY <2>1, <3>1, <3>4, <3>5, <3>6 DEF O!TypeOK, O!VerifiedWasProbed
  <2>5. QED  BY <1>5, <2>3, <2>4 DEF O!Write
<1>6. ASSUME NEW p \in Requests, O!Use(p) \/ O!SetRuntime(p)  PROVE StorageInv'
  <2>1. /\ O!Continue(p, O!Idle) /\ UNCHANGED <<stored, probed, overlap>>
        /\ \E r \in O!Row : runtime' = [runtime EXCEPT ![i1] = O!Client(r)]
    BY <1>6 DEF O!Use, O!SetRuntime, RequestsFit, Fits, Candidates
  <2>2. \A i \in {i1} : runtime'[i] = None \/ runtime'[i] \in [config : Configs, secret : Secrets]
    BY <2>1 DEF O!Row, O!Client, O!TypeOK
  <2>3. QED  BY <2>1, <2>2, IdleFits, StorageMovesOn
<1>7. ASSUME NEW p \in Requests, O!ReadRow(p)  PROVE StorageInv'
  <2>1. /\ O!Continue(p, [O!Idle EXCEPT !.step = "load", !.seen = stored])
        /\ UNCHANGED <<stored, runtime, probed, overlap>> /\ stored \in O!Row
    BY <1>7 DEF O!ReadRow, O!Stored, O!TypeOK
  <2>2. Fits([O!Idle EXCEPT !.step = "load", !.seen = stored], stored, probed)
    BY <2>1, NoneIsNoValue DEF Fits, O!Idle, O!RequestType, O!Row, Candidates, Probed
  <2>3. QED  BY <2>1, <2>2, StorageMovesOn DEF O!TypeOK
<1>8. ASSUME NEW i \in {i1}, O!Restart(i)  PROVE StorageInv'
  <2>1. /\ UNCHANGED <<stored, probed, overlap>>
        /\ saves' \in [Requests -> {O!Idle}]
        /\ runtime' = [runtime EXCEPT ![i1] = None]
    BY <1>8 DEF O!Restart
  <2>2. O!Idle \in O!RequestType
    BY IdleFits DEF Fits
  <2>3. saves' \in [Requests -> O!RequestType] /\ RequestsFit'
    BY <2>1, <2>2, IdleFits DEF RequestsFit
  <2>4. \A j \in {i1} : runtime'[j] = None \/ runtime'[j] \in [config : Configs, secret : Secrets]
    BY <2>1 DEF O!TypeOK
  <2>5. QED  BY <2>1, <2>3, <2>4 DEF O!TypeOK, O!VerifiedWasProbed, O!Stored, O!Client
<1>9. QED
  BY <1>1, <1>2, <1>3, <1>4, <1>5, <1>6, <1>7, <1>8 DEF O!Next

LEMMA StorageCorrect == Spec => []StorageInv
<1>1. Init => StorageInv
  BY StorageInit DEF Init
<1>2. StorageInv /\ [Next]_vars => StorageInv'
  <2> SUFFICES ASSUME StorageInv, [Next]_vars  PROVE StorageInv'
    OBVIOUS
  <2>1. CASE O!Next
    BY <2>1, StorageNext
  <2>2. CASE UNCHANGED storageVars
    BY <2>2 DEF storageVars, StorageInv, O!TypeOK, RequestsFit, O!VerifiedWasProbed, O!Stored, O!Client
  <2>3. QED  BY <2>1, <2>2, OneMoves
<1>3. QED  BY <1>1, <1>2, PTL DEF Spec

\* What object storage settings are stored as verified were probed with these very
\* settings, whatever else is saved between the probe and the save: updateSettings
\* and testSettings of ObjectStorageClient.
THEOREM VerifiedCorrect == Spec => []VerifiedWasProbed
BY StorageCorrect, PTL DEF StorageInv, VerifiedWasProbed

(***************************************************************************)
(* Numbers.                                                                *)
(***************************************************************************)
LEMMA LeastNatural ==
    ASSUME NEW T \in SUBSET Nat, T # {}
    PROVE  \E n \in T : \A m \in T : n <= m
<1>1. PICK n \in T : \A m \in T : <<m, n>> \notin OpToRel(<, Nat)
  BY WFMin, NatLessThanWellFounded
<1>2. \A m \in T : ~(m < n)
  BY <1>1 DEF OpToRel
<1>3. QED  BY <1>2

LEMMA GreatestBelow ==
    ASSUME NEW b \in Nat, NEW T \in SUBSET (1..b), T # {}
    PROVE  \E n \in T : \A m \in T : m <= n
<1> DEFINE F == {k \in Nat : \A m \in T : m <= k}
<1>1. F \in SUBSET Nat /\ b \in F
  OBVIOUS
<1>2. PICK k \in F : \A m \in F : k <= m
  BY <1>1, LeastNatural
<1>3. CASE k \in T
  BY <1>3
<1>4. CASE k \notin T
  <2>1. \A m \in T : m <= k - 1 /\ m \in 1..b
    BY <1>4
  <2>2. k - 1 \in Nat
    <3>1. PICK m \in T : TRUE
      OBVIOUS
    <3>2. QED  BY <2>1, <3>1
  <2>3. k - 1 \in F
    BY <2>1, <2>2
  <2>4. QED  BY <1>2, <2>3
<1>5. QED  BY <1>3, <1>4

(***************************************************************************)
(* Verification.                                                           *)
(***************************************************************************)
\* The requests that have compared a wrong code with c and not counted it yet.
Uncounted(c) == {p \in Requests : asked[p].at = "wrong" /\ asked[p].on = c}

\* What is known of a challenge ch that let a requests in and was compared with t
\* wrong codes, n of them not counted yet.
ChallengeSound(ch, a, t, n) ==
    /\ ch.kind = "none" => ~ch.used /\ t = 0
    /\ a <= 1 /\ (~ch.used => a = 0)
    /\ ~ch.used /\ ch.attempts < MaxAttempts => t <= ch.attempts + n

ChallengesSound ==
    \A c \in V!Challenges :
        ChallengeSound(challenge[c], accepted[c], tried[c], Cardinality(Uncounted(c)))

AskedSound ==
    \A p \in Requests : asked[p].at \in {"wrong", "right", "magic"} => asked[p].on \in V!Sent

VerifyInv == V!TypeOK /\ AskedSound /\ ChallengesSound /\ V!GuessesBounded

LEMMA SameCount == \A T : V!Cardinality(T) = Cardinality(T)
BY DEF V!Cardinality, Cardinality

LEMMA UncountedSize ==
    ASSUME NEW c
    PROVE  /\ Cardinality(Uncounted(c)) \in Nat
           /\ Cardinality(Uncounted(c)) <= Cardinality(Requests)
           /\ IsFiniteSet(Uncounted(c))
           /\ Cardinality(Requests) \in Nat
BY FS_Subset, FS_CardinalityType, RequestsFinite DEF Uncounted

LEMMA VerifyInit == V!Init => VerifyInv
<1> SUFFICES ASSUME V!Init  PROVE VerifyInv
  OBVIOUS
<1>1. V!TypeOK
  BY CodeLimits DEF V!Init, V!TypeOK, V!Challenges, V!NoChallenge, V!ChallengeType, V!Idle, V!AskType
<1>2. AskedSound
  BY DEF V!Init, AskedSound, V!Idle
<1>3. \A c : Cardinality(Uncounted(c)) \in Nat /\ Cardinality(Requests) \in Nat
  BY UncountedSize
<1>4. \A c \in V!Challenges :
        challenge[c] = V!NoChallenge /\ accepted[c] = 0 /\ tried[c] = 0
  BY DEF V!Init
<1>5. ChallengesSound
  BY <1>3, <1>4 DEF ChallengesSound, ChallengeSound, V!NoChallenge
<1>6. V!GuessesBounded
  <2>1. Cardinality(Requests) \in Nat
    BY FS_CardinalityType, RequestsFinite
  <2>2. 0 < MaxAttempts + Cardinality(Requests)
    BY <2>1, CodeLimits
  <2>3. QED  BY <1>4, <2>2, SameCount DEF V!GuessesBounded
<1>7. QED  BY <1>1, <1>2, <1>5, <1>6 DEF VerifyInv

\* A request that neither had nor has a wrong code to count.
LEMMA CountsNothing ==
    ASSUME V!TypeOK, NEW p \in Requests, NEW at, NEW n, V!Continue(p, at, n),
           asked[p].at # "wrong", at # "wrong"
    PROVE  \A c : Uncounted(c)' = Uncounted(c)
BY DEF V!TypeOK, V!Continue, Uncounted

LEMMA ContinueTyped ==
    ASSUME V!TypeOK, NEW p \in Requests, NEW at, NEW n, V!Continue(p, at, n),
           [at |-> at, on |-> n] \in V!AskType
    PROVE  /\ asked' \in [Requests -> V!AskType]
           /\ asked'[p] = [at |-> at, on |-> n]
           /\ \A q \in Requests \ {p} : asked'[q] = asked[q]
BY DEF V!TypeOK, V!Continue

\* Steps that leave the counts alone, and the challenges as far as they matter.
LEMMA VerifyFrame ==
    ASSUME VerifyInv, V!TypeOK', AskedSound', UNCHANGED <<tried, accepted>>,
           \A c : Uncounted(c)' = Uncounted(c),
           \A c \in V!Challenges :
              /\ challenge'[c].used = challenge[c].used
              /\ challenge'[c].attempts = challenge[c].attempts
              /\ challenge'[c].kind = "none" => challenge[c].kind = "none"
    PROVE  VerifyInv'
<1>1. ChallengesSound'
  BY DEF VerifyInv, ChallengesSound, ChallengeSound
<1>2. QED  BY <1>1 DEF VerifyInv, V!GuessesBounded

LEMMA InsertSound ==
    ASSUME VerifyInv, NEW kind \in {"code", "magic"}, V!Insert(kind)
    PROVE  /\ challenge' \in [V!Challenges -> V!ChallengeType]
           /\ \A c \in V!Challenges :
                /\ challenge'[c].used = challenge[c].used
                /\ challenge'[c].kind = "none" => challenge[c].kind = "none"
                /\ \/ challenge'[c] = challenge[c]
                   \/ tried[c] = 0 /\ challenge'[c].attempts = 0
<1>1. PICK c \in V!Challenges :
        /\ V!Sent = 1..(c - 1)
        /\ challenge' = [challenge EXCEPT ![c] = [V!NoChallenge EXCEPT !.kind = kind, !.recent = TRUE]]
  BY DEF V!Insert
<1>2. c \notin V!Sent
  BY <1>1 DEF V!Challenges
<1>3. challenge[c].kind = "none" /\ ~challenge[c].used /\ tried[c] = 0
  BY <1>2 DEF V!Sent, VerifyInv, ChallengesSound, ChallengeSound
<1>4. challenge \in [V!Challenges -> V!ChallengeType]
  BY DEF VerifyInv, V!TypeOK
<1>5. V!NoChallenge \in V!ChallengeType /\ ~V!NoChallenge.used /\ V!NoChallenge.attempts = 0
  BY CodeLimits DEF V!NoChallenge, V!ChallengeType
<1>6. PICK fresh : fresh = [V!NoChallenge EXCEPT !.kind = kind, !.recent = TRUE]
  OBVIOUS
<1>7. /\ fresh \in V!ChallengeType
      /\ ~fresh.used /\ fresh.kind = kind /\ fresh.attempts = 0
  BY <1>5, <1>6 DEF V!ChallengeType
<1>8. challenge' = [challenge EXCEPT ![c] = fresh]
  BY <1>1, <1>6
<1>9. challenge' \in [V!Challenges -> V!ChallengeType]
  BY <1>4, <1>7, <1>8
<1>10. \A d \in V!Challenges : challenge'[d] = IF d = c THEN fresh ELSE challenge[d]
  BY <1>4, <1>8
<1>11. kind # "none" /\ c \in V!Challenges /\ fresh.used \in BOOLEAN /\ challenge[c].used \in BOOLEAN
  BY <1>1, <1>4, <1>7 DEF V!ChallengeType
<1>12. ASSUME NEW d \in V!Challenges
       PROVE  /\ challenge'[d].used = challenge[d].used
              /\ challenge'[d].kind = "none" => challenge[d].kind = "none"
              /\ \/ challenge'[d] = challenge[d]
                 \/ tried[d] = 0 /\ challenge'[d].attempts = 0
  <2>1. CASE d = c
    BY <1>3, <1>7, <1>10, <1>11, <2>1
  <2>2. CASE d # c
    BY <1>10, <2>2
  <2>3. QED  BY <2>1, <2>2
<1>13. QED  BY <1>9, <1>12

\* A challenge that is sent has seen no wrong code.
LEMMA InsertKeeps ==
    ASSUME VerifyInv, NEW kind \in {"code", "magic"}, V!Insert(kind),
           asked' \in [Requests -> V!AskType], AskedSound', UNCHANGED <<tried, accepted>>,
           \A c : Uncounted(c)' = Uncounted(c)
    PROVE  VerifyInv'
<1>1. V!TypeOK'
  BY InsertSound DEF VerifyInv, V!TypeOK
<1>2. ChallengesSound'
  BY InsertSound, UncountedSize DEF VerifyInv, ChallengesSound, ChallengeSound
<1>3. QED  BY <1>1, <1>2 DEF VerifyInv, V!GuessesBounded

LEMMA NewestUnused ==
    ASSUME V!Unused # {}
    PROVE  V!Newest(V!Unused) \in V!Unused
<1>1. V!Unused \in SUBSET (1..MaxChallenges)
  BY DEF V!Unused, V!Sent, V!Challenges
<1>2. \E c \in V!Unused : \A d \in V!Unused : d <= c
  BY <1>1, CodeLimits, GreatestBelow
<1>3. QED  BY <1>2 DEF V!Newest

\* A request that compared a wrong code raises the count of the challenge, and of
\* what is not counted of it.
LEMMA GuessedWrong ==
    ASSUME VerifyInv, NEW p \in Requests, NEW c \in V!Challenges,
           asked[p].at = "idle", V!Continue(p, "wrong", c)
    PROVE  /\ Cardinality(Uncounted(c)') = Cardinality(Uncounted(c)) + 1
           /\ \A d \in V!Challenges \ {c} : Uncounted(d)' = Uncounted(d)
<1>1. asked \in [Requests -> V!AskType]
  BY DEF VerifyInv, V!TypeOK
<1>2. /\ asked' = [asked EXCEPT ![p] = [at |-> "wrong", on |-> c]]
      /\ asked'[p] = [at |-> "wrong", on |-> c]
  BY <1>1 DEF V!Continue
<1>3. Uncounted(c)' = Uncounted(c) \cup {p} /\ p \notin Uncounted(c)
  BY <1>1, <1>2 DEF Uncounted
<1>4. Cardinality(Uncounted(c) \cup {p}) = Cardinality(Uncounted(c)) + 1
  BY <1>3, UncountedSize, FS_AddElement
<1>5. \A d \in V!Challenges \ {c} : Uncounted(d)' = Uncounted(d)
  BY <1>1, <1>2 DEF Uncounted
<1>6. QED  BY <1>3, <1>4, <1>5

LEMMA CountedWrong ==
    ASSUME VerifyInv, NEW p \in Requests, NEW c \in V!Challenges,
           asked[p].at = "wrong", asked[p].on = c, V!End(p)
    PROVE  /\ Cardinality(Uncounted(c)') = Cardinality(Uncounted(c)) - 1
           /\ \A d \in V!Challenges \ {c} : Uncounted(d)' = Uncounted(d)
<1>1. asked \in [Requests -> V!AskType]
  BY DEF VerifyInv, V!TypeOK
<1>2. /\ asked' = [asked EXCEPT ![p] = [at |-> "idle", on |-> 0]]
      /\ asked'[p] = [at |-> "idle", on |-> 0]
  BY <1>1 DEF V!Continue, V!End
<1>3. Uncounted(c)' = Uncounted(c) \ {p} /\ p \in Uncounted(c)
  BY <1>1, <1>2 DEF Uncounted
<1>4. Cardinality(Uncounted(c) \ {p}) = Cardinality(Uncounted(c)) - 1
  BY <1>3, UncountedSize, FS_RemoveElement
<1>5. \A d \in V!Challenges \ {c} : Uncounted(d)' = Uncounted(d)
  BY <1>1, <1>2 DEF Uncounted
<1>6. QED  BY <1>3, <1>4, <1>5

LEMMA VerifySend ==
    ASSUME VerifyInv, NEW p \in Requests, V!SendCount(p) \/ V!SendSave(p)
    PROVE  VerifyInv'
<1>1. ASSUME V!SendCount(p)  PROVE VerifyInv'
  <2>1. V!Continue(p, "save", 0) /\ asked[p].at = "idle" /\ UNCHANGED <<challenge, tried, accepted>>
    BY <1>1 DEF V!SendCount, V!At
  <2>2. [at |-> "save", on |-> 0] \in V!AskType
    BY CodeLimits DEF V!AskType
  <2>3. V!TypeOK' /\ AskedSound'
    BY <2>1, <2>2, ContinueTyped DEF VerifyInv, V!TypeOK, AskedSound, V!Sent
  <2>4. \A c : Uncounted(c)' = Uncounted(c)
    BY <2>1, CountsNothing DEF VerifyInv
  <2>5. QED  BY <2>1, <2>3, <2>4, VerifyFrame
<1>2. ASSUME V!SendSave(p)  PROVE VerifyInv'
  <2>1. V!Continue(p, "idle", 0) /\ asked[p].at = "save" /\ V!Insert("code")
        /\ UNCHANGED <<tried, accepted>>
    BY <1>2 DEF V!SendSave, V!At, V!End
  <2>2. [at |-> "idle", on |-> 0] \in V!AskType
    BY CodeLimits DEF V!AskType
  <2>3. asked' \in [Requests -> V!AskType] /\ AskedSound'
    BY <2>1, <2>2, ContinueTyped, InsertSound DEF VerifyInv, V!TypeOK, AskedSound, V!Sent
  <2>4. \A c : Uncounted(c)' = Uncounted(c)
    BY <2>1, CountsNothing DEF VerifyInv
  <2>5. QED  BY <2>1, <2>3, <2>4, InsertKeeps
<1>3. QED  BY <1>1, <1>2

LEMMA VerifySendMagic ==
    ASSUME VerifyInv, V!SendMagic
    PROVE  VerifyInv'
<1>1. V!Insert("magic") /\ UNCHANGED <<asked, tried, accepted>>
  BY DEF V!SendMagic
<1>2. asked' \in [Requests -> V!AskType] /\ AskedSound'
  BY <1>1, InsertSound DEF VerifyInv, V!TypeOK, AskedSound, V!Sent
<1>3. \A c : Uncounted(c)' = Uncounted(c)
  BY <1>1 DEF Uncounted
<1>4. QED  BY <1>1, <1>2, <1>3, InsertKeeps

LEMMA VerifyGuess ==
    ASSUME VerifyInv, NEW p \in Requests, NEW right \in BOOLEAN, V!Guess(p, right)
    PROVE  VerifyInv'
<1>1. PICK c \in V!Challenges :
        /\ c \in V!Unused /\ asked[p].at = "idle" /\ challenge[c].attempts < MaxAttempts
        /\ V!Continue(p, IF right THEN "right" ELSE "wrong", c)
        /\ tried' = IF right THEN tried ELSE [tried EXCEPT ![c] = @ + 1]
        /\ UNCHANGED <<challenge, accepted>>
  BY NewestUnused DEF V!Guess, V!Unused, V!Sent, V!At
<1>2. c \in 1..MaxChallenges /\ c \in 0..MaxChallenges
  BY CodeLimits DEF V!Challenges
<1>3. ~challenge[c].used /\ challenge[c].kind # "none"
  BY <1>1 DEF V!Unused, V!Sent
<1>4. [at |-> IF right THEN "right" ELSE "wrong", on |-> c] \in V!AskType
  BY <1>2 DEF V!AskType
<1>5. asked' \in [Requests -> V!AskType] /\ AskedSound'
  BY <1>1, <1>3, <1>4, ContinueTyped DEF VerifyInv, V!TypeOK, AskedSound, V!Sent
<1>6. V!TypeOK'
  BY <1>1, <1>5 DEF VerifyInv, V!TypeOK
<1>7. CASE right
  <2>1. \A d : Uncounted(d)' = Uncounted(d)
    BY <1>1, <1>7, CountsNothing DEF VerifyInv
  <2>2. QED  BY <1>1, <1>5, <1>6, <1>7, <2>1, VerifyFrame
<1>8. CASE ~right
  <2>1. /\ Cardinality(Uncounted(c)') = Cardinality(Uncounted(c)) + 1
        /\ \A d \in V!Challenges \ {c} : Uncounted(d)' = Uncounted(d)
    BY <1>1, <1>8, GuessedWrong
  <2>2. /\ tried \in [V!Challenges -> Nat] /\ tried' = [tried EXCEPT ![c] = @ + 1]
        /\ challenge[c].attempts \in 0..MaxAttempts
    BY <1>1, <1>8 DEF VerifyInv, V!TypeOK, V!ChallengeType
  <2>3. tried[c] <= challenge[c].attempts + Cardinality(Uncounted(c))
    BY <1>1, <1>3 DEF VerifyInv, ChallengesSound, ChallengeSound
  <2>4. /\ Cardinality(Uncounted(c)) \in Nat /\ Cardinality(Requests) \in Nat
        /\ Cardinality(Uncounted(c)') <= Cardinality(Requests)
    <3>1. Uncounted(c)' \in SUBSET Requests
      BY DEF Uncounted
    <3>2. QED  BY <3>1, UncountedSize, FS_Subset, RequestsFinite
  <2>5. /\ tried'[c] = tried[c] + 1 /\ tried[c] \in Nat
        /\ \A d \in V!Challenges \ {c} : tried'[d] = tried[d]
    BY <2>2
  <2>6. tried'[c] <= challenge[c].attempts + Cardinality(Uncounted(c)')
    BY <2>1, <2>2, <2>3, <2>4, <2>5
  <2>7. ASSUME NEW d \in V!Challenges
        PROVE  ChallengeSound(challenge'[d], accepted'[d], tried'[d], Cardinality(Uncounted(d)'))
    <3>1. CASE d = c
      BY <1>1, <1>3, <2>6, <3>1 DEF VerifyInv, ChallengesSound, ChallengeSound
    <3>2. CASE d # c
      BY <1>1, <2>1, <2>5, <3>2 DEF VerifyInv, ChallengesSound
    <3>3. QED  BY <3>1, <3>2
  <2>8. tried'[c] < MaxAttempts + Cardinality(Requests)
    BY <1>1, <2>1, <2>2, <2>4, <2>5, <2>6, CodeLimits
  <2>9. QED
    BY <1>5, <1>6, <2>5, <2>7, <2>8, SameCount DEF VerifyInv, ChallengesSound, V!GuessesBounded
<1>9. QED  BY <1>7, <1>8

\* Ending a request leaves what the others read as sound as it was.
LEMMA EndKeeps ==
    ASSUME VerifyInv, NEW p \in Requests, V!End(p),
           \A c \in V!Challenges : challenge'[c].kind = challenge[c].kind
    PROVE  asked' \in [Requests -> V!AskType] /\ AskedSound'
<1>1. V!Continue(p, "idle", 0) /\ [at |-> "idle", on |-> 0] \in V!AskType
  BY CodeLimits DEF V!End, V!AskType
<1>2. QED  BY <1>1, ContinueTyped DEF VerifyInv, AskedSound, V!Sent

LEMMA VerifyWrongCode ==
    ASSUME VerifyInv, NEW p \in Requests, V!WrongCode(p)
    PROVE  VerifyInv'
<1>1. PICK c \in V!Challenges :
        /\ c = asked[p].on /\ asked[p].at = "wrong" /\ challenge[c].kind # "none"
  BY DEF V!WrongCode, V!At, VerifyInv, AskedSound, V!Sent
<1>2. /\ V!End(p) /\ UNCHANGED <<tried, accepted>>
      /\ challenge' = IF ~challenge[c].used /\ challenge[c].attempts < MaxAttempts
                      THEN [challenge EXCEPT ![c].attempts = @ + 1] ELSE challenge
  BY <1>1 DEF V!WrongCode, V!MayCount
<1>3. /\ challenge \in [V!Challenges -> V!ChallengeType]
      /\ challenge[c].attempts \in 0..MaxAttempts /\ tried[c] \in Nat
  BY DEF VerifyInv, V!TypeOK, V!ChallengeType
<1>4. /\ challenge' \in [V!Challenges -> V!ChallengeType]
      /\ \A d \in V!Challenges : challenge'[d].kind = challenge[d].kind
      /\ \A d \in V!Challenges \ {c} : challenge'[d] = challenge[d]
      /\ challenge'[c].used = challenge[c].used
  BY <1>2, <1>3, CodeLimits DEF V!ChallengeType
<1>5. asked' \in [Requests -> V!AskType] /\ AskedSound'
  BY <1>2, <1>4, EndKeeps
<1>6. V!TypeOK'
  BY <1>2, <1>4, <1>5 DEF VerifyInv, V!TypeOK
<1>7. /\ Cardinality(Uncounted(c)') = Cardinality(Uncounted(c)) - 1
      /\ \A d \in V!Challenges \ {c} : Uncounted(d)' = Uncounted(d)
  BY <1>1, <1>2, CountedWrong
<1>8. Cardinality(Uncounted(c)) \in Nat
  BY UncountedSize
<1>9. ~challenge'[c].used /\ challenge'[c].attempts < MaxAttempts =>
        challenge'[c].attempts = challenge[c].attempts + 1
  BY <1>2, <1>3
<1>10. ASSUME NEW d \in V!Challenges
       PROVE  ChallengeSound(challenge'[d], accepted'[d], tried'[d], Cardinality(Uncounted(d)'))
  <2>1. ChallengeSound(challenge[d], accepted[d], tried[d], Cardinality(Uncounted(d)))
    BY DEF VerifyInv, ChallengesSound
  <2>2. tried'[d] = tried[d] /\ accepted'[d] = accepted[d]
    BY <1>2
  <2>3. CASE d = c
    <3>1. ~challenge'[c].used /\ challenge'[c].attempts < MaxAttempts =>
            tried[c] <= challenge'[c].attempts + Cardinality(Uncounted(c)')
      BY <1>2, <1>3, <1>4, <1>7, <1>8, <1>9, <2>1, <2>3, CodeLimits DEF ChallengeSound
    <3>2. QED  BY <1>1, <1>4, <2>1, <2>2, <2>3, <3>1 DEF ChallengeSound
  <2>4. CASE d # c
    BY <1>4, <1>7, <2>1, <2>2, <2>4
  <2>5. QED  BY <2>3, <2>4
<1>11. QED  BY <1>2, <1>5, <1>6, <1>10 DEF VerifyInv, ChallengesSound, V!GuessesBounded

LEMMA VerifyConsume ==
    ASSUME VerifyInv, NEW p \in Requests, V!Consume(p)
    PROVE  VerifyInv'
<1>1. PICK c \in V!Challenges :
        /\ c = asked[p].on /\ challenge[c].kind # "none" /\ asked[p].at \in {"right", "magic"}
  BY DEF V!Consume, V!At, VerifyInv, AskedSound, V!Sent
<1>2. V!End(p) /\ V!Continue(p, "idle", 0) /\ UNCHANGED tried
  BY DEF V!Consume, V!End
<1>3. \A d : Uncounted(d)' = Uncounted(d)
  BY <1>1, <1>2, CountsNothing DEF VerifyInv
<1>4. CASE UNCHANGED <<challenge, accepted>>
  <2>1. asked' \in [Requests -> V!AskType] /\ AskedSound'
    BY <1>2, <1>4, EndKeeps
  <2>2. V!TypeOK'
    BY <1>2, <1>4, <2>1 DEF VerifyInv, V!TypeOK
  <2>3. QED  BY <1>2, <1>3, <1>4, <2>1, <2>2, VerifyFrame
<1>5. CASE /\ ~challenge[c].used
           /\ challenge' = [challenge EXCEPT ![c].used = TRUE]
           /\ accepted' = [accepted EXCEPT ![c] = @ + 1]
  <2>1. /\ challenge \in [V!Challenges -> V!ChallengeType]
        /\ accepted \in [V!Challenges -> Nat]
    BY DEF VerifyInv, V!TypeOK
  <2>2. /\ challenge' \in [V!Challenges -> V!ChallengeType]
        /\ \A d \in V!Challenges : challenge'[d].kind = challenge[d].kind
        /\ \A d \in V!Challenges \ {c} : challenge'[d] = challenge[d]
        /\ challenge'[c].used
    BY <1>5, <2>1 DEF V!ChallengeType
  <2>8. /\ accepted' \in [V!Challenges -> Nat] /\ accepted'[c] = accepted[c] + 1
        /\ \A d \in V!Challenges \ {c} : accepted'[d] = accepted[d]
    BY <1>5, <2>1
  <2>3. asked' \in [Requests -> V!AskType] /\ AskedSound'
    BY <1>2, <2>2, EndKeeps
  <2>4. V!TypeOK'
    BY <1>2, <2>2, <2>3, <2>8 DEF VerifyInv, V!TypeOK
  <2>5. accepted[c] = 0
    BY <1>5 DEF VerifyInv, ChallengesSound, ChallengeSound
  <2>6. ASSUME NEW d \in V!Challenges
        PROVE  ChallengeSound(challenge'[d], accepted'[d], tried'[d], Cardinality(Uncounted(d)'))
    <3>1. CASE d = c
      BY <1>1, <2>2, <2>5, <2>8, <3>1 DEF ChallengeSound
    <3>2. CASE d # c
      BY <1>2, <1>3, <2>2, <2>8, <3>2 DEF VerifyInv, ChallengesSound
    <3>3. QED  BY <3>1, <3>2
  <2>7. QED  BY <1>2, <2>3, <2>4, <2>6 DEF VerifyInv, ChallengesSound, V!GuessesBounded
<1>6. QED  BY <1>1, <1>4, <1>5 DEF V!Consume, V!MayConsume

LEMMA VerifyOpenMagic ==
    ASSUME VerifyInv, NEW p \in Requests, NEW c \in V!Challenges, V!OpenMagic(p, c)
    PROVE  VerifyInv'
<1>1. /\ asked[p].at = "idle" /\ c \in V!Sent /\ V!Continue(p, "magic", c)
      /\ UNCHANGED <<challenge, tried, accepted>>
  BY DEF V!OpenMagic, V!At, V!Unused
<1>2. [at |-> "magic", on |-> c] \in V!AskType
  BY CodeLimits DEF V!AskType, V!Challenges
<1>3. V!TypeOK' /\ AskedSound'
  BY <1>1, <1>2, ContinueTyped DEF VerifyInv, V!TypeOK, AskedSound, V!Sent
<1>4. \A d : Uncounted(d)' = Uncounted(d)
  BY <1>1, CountsNothing DEF VerifyInv
<1>5. QED  BY <1>1, <1>3, <1>4, VerifyFrame

LEMMA VerifyClock ==
    ASSUME VerifyInv, NEW c \in V!Challenges, V!Expire(c) \/ V!MinutePasses(c)
    PROVE  VerifyInv'
<1>1. /\ UNCHANGED <<asked, tried, accepted>>
      /\ \/ challenge' = [challenge EXCEPT ![c].expired = TRUE, ![c].recent = FALSE]
         \/ challenge' = [challenge EXCEPT ![c].recent = FALSE]
  BY DEF V!Expire, V!MinutePasses
<1>2. challenge \in [V!Challenges -> V!ChallengeType]
  BY DEF VerifyInv, V!TypeOK
<1> DEFINE Aged(ch) == /\ ch \in [V!Challenges -> V!ChallengeType]
                       /\ \A d \in V!Challenges :
                            /\ ch[d].used = challenge[d].used
                            /\ ch[d].attempts = challenge[d].attempts
                            /\ ch[d].kind = challenge[d].kind
<1>3. Aged(challenge')
  <2>1. ASSUME NEW ch, ch = [challenge EXCEPT ![c].recent = FALSE]  PROVE Aged(ch)
    BY <1>2, <2>1 DEF V!ChallengeType
  <2>2. ASSUME NEW ch, ch = [challenge EXCEPT ![c].expired = TRUE, ![c].recent = FALSE]
        PROVE  Aged(ch)
    BY <1>2, <2>2 DEF V!ChallengeType
  <2>3. QED  BY <1>1, <2>1, <2>2
<1>4. V!TypeOK' /\ AskedSound'
  BY <1>1, <1>3 DEF VerifyInv, V!TypeOK, AskedSound, V!Sent
<1>5. \A d : Uncounted(d)' = Uncounted(d)
  BY <1>1 DEF Uncounted
<1>6. QED  BY <1>1, <1>3, <1>4, <1>5, VerifyFrame

LEMMA VerifyNext ==
    ASSUME VerifyInv, V!Next
    PROVE  VerifyInv'
BY VerifySend, VerifySendMagic, VerifyGuess, VerifyWrongCode, VerifyConsume, VerifyOpenMagic,
   VerifyClock DEF V!Next

LEMMA VerifyCorrect == Spec => []VerifyInv
<1>1. Init => VerifyInv
  BY VerifyInit DEF Init
<1>2. VerifyInv /\ [Next]_vars => VerifyInv'
  <2> SUFFICES ASSUME VerifyInv, [Next]_vars  PROVE VerifyInv'
    OBVIOUS
  <2>1. CASE V!Next
    BY <2>1, VerifyNext
  <2>2. CASE UNCHANGED verifyVars
    <3>1. \A d : Uncounted(d)' = Uncounted(d)
      BY <2>2 DEF verifyVars, Uncounted
    <3>2. V!TypeOK' /\ AskedSound'
      BY <2>2 DEF verifyVars, VerifyInv, V!TypeOK, AskedSound, V!Sent
    <3>3. QED  BY <2>2, <3>1, <3>2, VerifyFrame DEF verifyVars
  <2>3. QED  BY <2>1, <2>2, OneMoves
<1>3. QED  BY <1>1, <1>2, PTL DEF Spec

\* A one-time code or a magic link lets one request in, however many requests
\* found it unused, and wrong guesses exceed the attempt limit by at most the
\* number of requests that overlapped: verifyCode and consumeMagic of
\* VerificationService.
THEOREM CodesHoldCorrect == Spec => []CodesHold
<1>1. VerifyInv => CodesHold
  BY DEF VerifyInv, CodesHold, V!AcceptedOnce, ChallengesSound, ChallengeSound
<1>2. QED  BY <1>1, VerifyCorrect, PTL

(***************************************************************************)
(* Keyring.                                                                *)
(***************************************************************************)
\* The keyring f is the keyring ring, perhaps with more keys.
Extended(ring, f) ==
    /\ ring \in K!Ring /\ f \in K!Ring
    /\ \A k \in K!Ids : ring.keys[k] \in {None, f.keys[k]}

\* Instances with the keys m at the steps b, the file f and the holder h of the
\* lock: one instance loads at a time, and what runs has keys that are in the file.
BootSound(b, m, f, h) ==
    \A i \in {i1, i2} :
        /\ b[i] \in {"load", "check"} => h = i
        /\ b[i] = "check" => f \in K!Ring
        /\ b[i] = "running" => Extended(m[i], f) /\ K!Valid(m[i])

\* The file f holds the keys of all payloads p, unless it was trusted.
Holds(f, p, t) ==
    f \in K!Ring =>
        /\ K!Valid(f)
        /\ t \/ \A r \in Rows : p[r] # None => f.keys[p[r].id] = p[r].key

KeyringInv ==
    K!TypeOK /\ BootSound(boot, mem, file, holder) /\ Holds(file, payload, trusted)

LEMMA KeyringInit == K!Init => KeyringInv
<1> SUFFICES ASSUME K!Init  PROVE KeyringInv
  OBVIOUS
<1>1. K!Bare \in K!Environment
  BY DEF K!Bare, K!Environment, K!NoKeys
<1>2. K!TypeOK
  BY <1>1 DEF K!Init, K!TypeOK
<1>3. BootSound(boot, mem, file, holder)
  BY DEF K!Init, BootSound
<1>4. Holds(file, payload, trusted)
  BY KeyringLimits DEF K!Init, Holds
<1>5. QED  BY <1>2, <1>3, <1>4 DEF KeyringInv

LEMMA MergeExtends ==
    ASSUME NEW ring \in K!Ring, NEW e \in K!Environment, K!Agrees(ring, e)
    PROVE  Extended(ring, K!Merged(ring, e))
<1>1. K!Merged(ring, e) \in K!Ring
  BY DEF K!Ring, K!Environment, K!Merged, K!Keys, K!Contents
<1>2. ASSUME NEW k \in K!Ids  PROVE ring.keys[k] \in {None, K!Merged(ring, e).keys[k]}
  BY DEF K!Merged, K!Agrees
<1>3. QED  BY <1>1, <1>2 DEF Extended

LEMMA ExtendedOn ==
    ASSUME NEW a, NEW b, NEW c, Extended(a, b), Extended(b, c)
    PROVE  Extended(a, c)
BY DEF Extended

LEMMA KeyringOutside ==
    ASSUME KeyringInv, NEW i \in {i1, i2}, K!Configure(i) \/ K!LoseFile \/ K!Stop(i) \/ K!Lock(i)
    PROVE  KeyringInv'
<1>1. CASE K!Configure(i)
  <2>1. K!TypeOK'
    BY <1>1 DEF K!Configure, KeyringInv, K!TypeOK
  <2>2. QED  BY <1>1, <2>1 DEF K!Configure, KeyringInv
<1>2. CASE K!LoseFile
  <2>1. K!TypeOK'
    BY <1>2 DEF K!LoseFile, KeyringInv, K!TypeOK
  <2>2. BootSound(boot', mem', file', holder') /\ Holds(file', payload', trusted')
    BY <1>2, KeyringLimits DEF K!LoseFile, KeyringInv, BootSound, Holds
  <2>3. QED  BY <2>1, <2>2 DEF KeyringInv
<1>3. CASE K!Stop(i)
  <2>1. K!TypeOK'
    BY <1>3 DEF K!Stop, KeyringInv, K!TypeOK
  <2>2. \A j \in {i1, i2} : /\ boot'[j] = IF j = i THEN "off" ELSE boot[j]
                            /\ j # i => mem'[j] = mem[j]
    BY <1>3, <2>1 DEF K!Stop, KeyringInv, K!TypeOK
  <2>3. BootSound(boot', mem', file', holder')
    BY <1>3, <2>2 DEF K!Stop, KeyringInv, BootSound
  <2>4. QED  BY <1>3, <2>1, <2>3 DEF K!Stop, KeyringInv
<1>4. CASE K!Lock(i)
  <2>1. K!TypeOK'
    BY <1>4 DEF K!Lock, KeyringInv, K!TypeOK
  <2>2. \A j \in {i1, i2} : boot'[j] = IF j = i THEN "load" ELSE boot[j]
    BY <1>4 DEF K!Lock, KeyringInv, K!TypeOK
  <2>3. \A j \in {i1, i2} : boot[j] \notin {"load", "check"}
    BY <1>4, NoneIsNoValue DEF K!Lock, KeyringInv, BootSound
  <2>4. BootSound(boot', mem', file', holder')
    BY <1>4, <2>2, <2>3 DEF K!Lock, KeyringInv, BootSound
  <2>5. QED  BY <1>4, <2>1, <2>4 DEF K!Lock, KeyringInv
<1>5. QED  BY <1>1, <1>2, <1>3, <1>4

\* An instance that refuses gives up the lock.
LEMMA KeyringRefuse ==
    ASSUME KeyringInv, NEW i \in {i1, i2}, boot[i] = "load", K!Refuse(i),
           UNCHANGED <<file, env, mem, payload, trusted>>
    PROVE  KeyringInv'
<1>1. K!TypeOK'
  BY DEF K!Refuse, K!Goes, KeyringInv, K!TypeOK
<1>2. \A j \in {i1, i2} : boot'[j] = IF j = i THEN "off" ELSE boot[j]
  BY DEF K!Refuse, K!Goes, KeyringInv, K!TypeOK
<1>3. \A j \in {i1, i2} \ {i} : boot[j] \notin {"load", "check"}
  BY DEF KeyringInv, BootSound
<1>4. BootSound(boot', mem', file', holder')
  BY <1>2, <1>3 DEF KeyringInv, BootSound
<1>5. QED  BY <1>1, <1>4 DEF KeyringInv

\* An instance that has written the keyring ring goes on to check the payloads.
LEMMA KeyringWrite ==
    ASSUME KeyringInv, NEW i \in {i1, i2}, boot[i] = "load", K!Goes(i, "check"),
           UNCHANGED <<env, mem, holder, payload>>, trusted' \in BOOLEAN,
           file' \in K!Ring, file \in K!Ring => Extended(file, file'),
           file = None \/ file \in K!Ring, Holds(file', payload', trusted')
    PROVE  KeyringInv'
<1>1. K!TypeOK'
  BY DEF K!Goes, KeyringInv, K!TypeOK
<1>2. \A j \in {i1, i2} : boot'[j] = IF j = i THEN "check" ELSE boot[j]
  BY DEF K!Goes, KeyringInv, K!TypeOK
<1>3. \A j \in {i1, i2} : boot[j] = "running" => Extended(mem[j], file') /\ K!Valid(mem[j])
  BY ExtendedOn DEF KeyringInv, BootSound, Extended
<1>4. BootSound(boot', mem', file', holder')
  BY <1>2, <1>3 DEF KeyringInv, BootSound, K!Valid
<1>5. QED  BY <1>1, <1>4 DEF KeyringInv

LEMMA KeyringLoad ==
    ASSUME KeyringInv, NEW i \in {i1, i2}, K!LoadFile(i)
    PROVE  KeyringInv'
<1>1. /\ boot[i] = "load" /\ file \in K!Ring /\ env[i] \in K!Environment
      /\ UNCHANGED <<env, mem, payload, trusted>>
  BY DEF K!LoadFile, KeyringInv, K!TypeOK
<1>2. CASE /\ K!Agrees(file, env[i]) /\ K!Valid(K!Merged(file, env[i]))
           /\ file' = K!Merged(file, env[i])
           /\ K!Goes(i, "check") /\ UNCHANGED holder
  <2>1. Extended(file, file')
    BY <1>1, <1>2, MergeExtends
  <2>2. K!Valid(file')
    BY <1>2 DEF K!Valid
  <2>3. ASSUME ~trusted, NEW r \in Rows, payload[r] # None
        PROVE  file'.keys[payload[r].id] = payload[r].key
    <3>1. payload[r].id \in K!Ids /\ payload[r].key \in K!Contents
      BY <2>3 DEF KeyringInv, K!TypeOK, K!Payload
    <3>2. file.keys[payload[r].id] = payload[r].key
      BY <1>1, <2>3 DEF KeyringInv, Holds
    <3>3. QED  BY <2>1, <3>1, <3>2, KeyringLimits DEF Extended
  <2>4. Holds(file', payload', trusted')
    BY <1>1, <2>2, <2>3 DEF Holds
  <2>5. QED  BY <1>1, <1>2, <2>1, <2>4, KeyringWrite DEF Extended, KeyringInv, K!TypeOK
<1>3. CASE K!Refuse(i) /\ UNCHANGED file
  BY <1>1, <1>3, KeyringRefuse
<1>4. QED  BY <1>2, <1>3 DEF K!LoadFile

LEMMA KeyringImport ==
    ASSUME KeyringInv, NEW i \in {i1, i2}, K!Import(i)
    PROVE  KeyringInv'
<1> DEFINE bare == [keys |-> K!NoKeys, current |-> 1]
<1>1. /\ boot[i] = "load" /\ file = None /\ env[i] \in K!Environment
      /\ UNCHANGED <<env, mem, payload>>
  BY DEF K!Import, KeyringInv, K!TypeOK
<1>2. bare \in K!Ring /\ K!Agrees(bare, env[i])
  BY KeyringLimits DEF K!Ring, K!Keys, K!NoKeys, K!Ids, K!Agrees
<1>3. CASE /\ K!Valid(K!Merged(bare, env[i])) /\ file' = K!Merged(bare, env[i])
           /\ trusted' = (trusted \/ K!Encrypted # {})
           /\ K!Goes(i, "check") /\ UNCHANGED holder
  <2>1. file' \in K!Ring
    BY <1>1, <1>2, <1>3, MergeExtends DEF Extended
  <2>2. Holds(file', payload', trusted')
    BY <1>1, <1>3 DEF Holds, K!Encrypted
  <2>3. trusted' \in BOOLEAN
    BY <1>3
  <2>4. QED  BY <1>1, <1>3, <2>1, <2>2, <2>3, KeyringLimits, KeyringWrite
<1>4. CASE K!Refuse(i) /\ UNCHANGED <<file, trusted>>
  BY <1>1, <1>4, KeyringRefuse
<1>5. QED  BY <1>3, <1>4 DEF K!Import

LEMMA KeyringGenerate ==
    ASSUME KeyringInv, NEW i \in {i1, i2}, K!Generate(i)
    PROVE  KeyringInv'
<1>1. boot[i] = "load" /\ file = None /\ UNCHANGED <<env, mem, payload, trusted>>
  BY DEF K!Generate
<1>2. CASE /\ K!Encrypted = {}
           /\ file' = [keys |-> [K!NoKeys EXCEPT ![1] = Generated], current |-> 1]
           /\ K!Goes(i, "check") /\ UNCHANGED holder
  <2>1. K!NoKeys \in K!Keys /\ 1 \in K!Ids /\ Generated \in K!Contents
    BY KeyringLimits DEF K!NoKeys, K!Keys, K!Ids, K!Contents
  <2>2. file' \in K!Ring /\ file'.keys[file'.current] = Generated
    BY <1>2, <2>1 DEF K!Ring, K!Keys
  <2>3. Holds(file', payload', trusted')
    BY <1>1, <1>2, <2>1, <2>2, KeyringLimits DEF Holds, K!Encrypted, K!Valid
  <2>4. trusted' \in BOOLEAN
    BY <1>1 DEF KeyringInv, K!TypeOK
  <2>5. QED  BY <1>1, <1>2, <2>2, <2>3, <2>4, KeyringLimits, KeyringWrite
<1>3. CASE K!Refuse(i) /\ UNCHANGED file
  BY <1>1, <1>3, KeyringRefuse
<1>4. QED  BY <1>2, <1>3 DEF K!Generate, K!MayGenerate

LEMMA KeyringCheck ==
    ASSUME KeyringInv, NEW i \in {i1, i2}, K!Check(i)
    PROVE  KeyringInv'
<1>1. /\ boot[i] = "check" /\ file \in K!Ring /\ K!Valid(file) /\ holder' = None
      /\ UNCHANGED <<file, env, payload, trusted>>
  BY DEF K!Check, KeyringInv, BootSound, Holds
<1>2. \/ mem' = [mem EXCEPT ![i] = file] /\ boot' = [boot EXCEPT ![i] = "running"]
      \/ boot' = [boot EXCEPT ![i] = "off"] /\ UNCHANGED mem
  BY DEF K!Check, K!Goes
<1>3. K!TypeOK'
  BY <1>1, <1>2 DEF KeyringInv, K!TypeOK
<1>4. \A j \in {i1, i2} \ {i} : boot[j] \notin {"load", "check"} /\ boot'[j] = boot[j]
  BY <1>1, <1>2 DEF KeyringInv, BootSound, K!TypeOK
<1>5. boot'[i] \in {"off", "running"}
  BY <1>2 DEF KeyringInv, K!TypeOK
<1>6. ASSUME NEW j \in {i1, i2}, boot'[j] = "running"
      PROVE  Extended(mem'[j], file') /\ K!Valid(mem'[j])
  <2>1. CASE j = i
    <3>1. boot \in [{i1, i2} -> {"off", "load", "check", "running"}]
      BY DEF KeyringInv, K!TypeOK
    <3>2. CASE mem' = [mem EXCEPT ![i] = file]
      <4>1. mem'[i] = file
        BY <3>2 DEF KeyringInv, K!TypeOK
      <4>2. QED  BY <1>1, <2>1, <4>1 DEF Extended, K!Valid
    <3>3. QED  BY <1>2, <1>6, <2>1, <3>1, <3>2
  <2>2. CASE j # i
    <3>1. mem'[j] = mem[j] /\ boot[j] = "running"
      BY <1>2, <1>4, <1>6, <2>2 DEF KeyringInv, K!TypeOK
    <3>2. QED  BY <1>1, <3>1 DEF KeyringInv, BootSound
  <2>3. QED  BY <2>1, <2>2
<1>7. BootSound(boot', mem', file', holder')
  BY <1>4, <1>5, <1>6 DEF BootSound
<1>8. QED  BY <1>1, <1>3, <1>7 DEF KeyringInv

LEMMA KeyringEncrypt ==
    ASSUME KeyringInv, NEW i \in {i1, i2}, NEW r \in Rows, K!Encrypt(i, r)
    PROVE  KeyringInv'
<1> DEFINE ring == mem[i]
           sealed == [id |-> ring.current, key |-> ring.keys[ring.current]]
<1>1. /\ boot[i] = "running" /\ UNCHANGED <<file, env, boot, mem, holder, trusted>>
      /\ payload' = [payload EXCEPT ![r] = sealed]
  BY DEF K!Encrypt
<1>2. Extended(ring, file) /\ K!Valid(ring)
  BY <1>1 DEF KeyringInv, BootSound
<1>3. /\ ring.current \in K!Ids /\ ring.keys[ring.current] \in K!Contents
      /\ file.keys[ring.current] = ring.keys[ring.current]
  BY <1>2 DEF Extended, K!Valid, K!Ring, K!Keys
<1>4. sealed \in K!Payload /\ file.keys[sealed.id] = sealed.key
  BY <1>3 DEF K!Payload
<1> HIDE DEF sealed
<1>5. K!TypeOK'
  BY <1>1, <1>4 DEF KeyringInv, K!TypeOK
<1>6. \A s \in Rows : payload'[s] = IF s = r THEN sealed ELSE payload[s]
  BY <1>1 DEF KeyringInv, K!TypeOK
<1>7. Holds(file', payload', trusted')
  BY <1>1, <1>4, <1>6 DEF KeyringInv, Holds
<1>8. QED  BY <1>1, <1>5, <1>7 DEF KeyringInv

LEMMA KeyringCorrect == Spec => []KeyringInv
<1>1. Init => KeyringInv
  BY KeyringInit DEF Init
<1>2. KeyringInv /\ [Next]_vars => KeyringInv'
  <2> SUFFICES ASSUME KeyringInv, [Next]_vars  PROVE KeyringInv'
    OBVIOUS
  <2>1. CASE K!Next
    BY <2>1, KeyringOutside, KeyringLoad, KeyringImport, KeyringGenerate, KeyringCheck,
       KeyringEncrypt DEF K!Next
  <2>2. CASE UNCHANGED keyringVars
    BY <2>2 DEF keyringVars, KeyringInv, K!TypeOK
  <2>3. QED  BY <2>1, <2>2, OneMoves
<1>3. QED  BY <1>1, <1>2, PTL DEF Spec

\* An instance that has come up can decrypt every payload in the database, through
\* rotations, changed environments, a lost file and restarts, as long as no lost
\* file was written anew from an environment: loadOrCreate of
\* EncryptionKeyringStore and assertReferencedKeysExist.
THEOREM StartReadsAllCorrect == Spec => StartReadsAll
<1> DEFINE A == \A i \in {i1, i2} : boot[i] = "check" /\ boot'[i] = "running" =>
                  trusted \/ \A r \in K!Encrypted : K!Readable(mem'[i], r)
<1>1. ASSUME KeyringInv, [Next]_vars  PROVE A
  <2> SUFFICES ASSUME NEW i \in {i1, i2}, boot[i] = "check", boot'[i] = "running", ~trusted,
                      NEW r \in K!Encrypted
               PROVE  K!Readable(mem'[i], r)
    OBVIOUS
  <2>1. boot \in [{i1, i2} -> {"off", "load", "check", "running"}]
    BY <1>1 DEF KeyringInv, K!TypeOK
  <2>2. K!Check(i)
    <3>1. K!Next
      BY <1>1, OneMoves DEF keyringVars
    <3>2. PICK j \in {i1, i2} :
            \/ K!LoseFile \/ K!Configure(j) \/ K!Stop(j) \/ K!Lock(j) \/ K!LoadFile(j)
            \/ K!Import(j) \/ K!Generate(j) \/ K!Check(j) \/ \E s \in Rows : K!Encrypt(j, s)
      BY <3>1 DEF K!Next
    <3>3. QED
      BY <2>1, <3>2 DEF K!LoseFile, K!Configure, K!Stop, K!Lock, K!LoadFile, K!Import,
         K!Generate, K!Check, K!Encrypt, K!Goes, K!Refuse
  <2>3. mem'[i] = file /\ file \in K!Ring
    BY <1>1, <2>1, <2>2 DEF K!Check, K!Goes, KeyringInv, K!TypeOK, BootSound
  <2>4. QED  BY <1>1, <2>3 DEF KeyringInv, Holds, K!Readable, K!Encrypted
<1>2. QED  BY <1>1, KeyringCorrect, PTL DEF Spec, StartReadsAll, K!StartReadsAll

(***************************************************************************)
(* Permissions.                                                            *)
(***************************************************************************)
LEMMA CatalogFacts ==
    /\ OldCatalog \in [P!Roles -> SUBSET Capabilities]
    /\ NewCatalog \in [P!Roles -> SUBSET Capabilities]
    /\ OldCatalog[SuperRole] = Capabilities /\ NewCatalog[SuperRole] = Capabilities
<1>1. P!Roles = {SuperRole, Auditor, Admin}
  BY DEF P!Roles
<1>2. QED  BY <1>1, RolesDistinct DEF OldCatalog, NewCatalog, Capabilities

\* What the bindings b and the grants g of the roles grant in the scope s.
OfRoleBy(g, r) == IF r = None THEN {} ELSE g[r]
GrantedBy(b, g, s) ==
    IF b["system"] = SuperRole THEN Capabilities
    ELSE OfRoleBy(g, b["system"])
           \cup (IF s = "project" THEN OfRoleBy(g, b["project"]) ELSE {})

LEMMA GrantedIs == /\ \A s : P!Granted(s) = GrantedBy(bound, grants, s)
                   /\ \A r : P!OfRole(r) = OfRoleBy(grants, r)
BY DEF P!Granted, P!OfRole, GrantedBy, OfRoleBy

\* A set cached for s that the database does not grant will be deleted: somebody
\* is to delete it, or changes a role that the user holds.
Covered(s) ==
    \E p \in Requests :
        \/ checks[p].at = "smembers"
        \/ checks[p].at = "del" /\ s \in checks[p].caps
        \/ checks[p].at = "seed" /\ checks[p].role \in {bound["system"], bound["project"]}

Listing(s) == \E p \in Requests : checks[p].at = "sadd" /\ checks[p].scope = s

\* A wrong set that no change has overtaken is not about to be listed, and when it
\* is listed it is about to be deleted.
EntrySound(s) ==
    cache[s] # None /\ ~cache[s].overtaken =>
        cache[s].caps = GrantedBy(bound, grants, s) \/ (~Listing(s) /\ (s \in index => Covered(s)))

\* A request r no change has overtaken has read what the database grants.
ReadFits(r, b, g) ==
    /\ r.at = "project" => r.scope = "project"
    /\ ~r.overtaken =>
         /\ r.at = "project" => r.caps = OfRoleBy(g, b["system"])
         /\ r.at = "set" => r.caps = GrantedBy(b, g, r.scope)

PermissionInv ==
    /\ P!TypeOK
    /\ grants[SuperRole] = Capabilities
    /\ \A p \in Requests : ReadFits(checks[p], bound, grants)
    /\ ~lapsed => \A s \in P!Scopes : EntrySound(s)

LEMMA PermissionInit == P!Init => PermissionInv
<1> SUFFICES ASSUME P!Init  PROVE PermissionInv
  OBVIOUS
<1>1. P!Idle \in P!RequestType /\ P!Idle.at = "idle" /\ P!Idle.caps = {}
  BY DEF P!Idle, P!RequestType
<1>2. P!TypeOK
  BY <1>1, CatalogFacts DEF P!Init, P!TypeOK, P!Resolving
<1>3. \A p \in Requests : ReadFits(checks[p], bound, grants)
  BY <1>1 DEF P!Init, ReadFits
<1>4. \A s \in P!Scopes : EntrySound(s)
  BY DEF P!Init, EntrySound
<1>5. QED  BY <1>2, <1>3, <1>4, CatalogFacts DEF PermissionInv, P!Init

\* One request goes on; the database, the cache and the index stay.
LEMMA PermissionMove ==
    ASSUME PermissionInv, NEW p \in Requests, NEW r \in P!RequestType,
           checks' = [checks EXCEPT ![p] = r],
           UNCHANGED <<bound, grants, cache, index, lapsed>>,
           checks[p].at \notin {"smembers", "del", "seed"}, r.at # "sadd", r.at # "del",
           r.caps \subseteq Capabilities,
           r.at \in P!Resolving => r.scope \in P!Scopes, r.at # "seed",
           ReadFits(r, bound, grants)
    PROVE  PermissionInv'
<1>1. checks \in [Requests -> P!RequestType]
  BY DEF PermissionInv, P!TypeOK
<1>2. checks'[p] = r /\ \A q \in Requests \ {p} : checks'[q] = checks[q]
  BY <1>1
<1>3. P!TypeOK'
  BY <1>1, <1>2 DEF PermissionInv, P!TypeOK
<1>4. ASSUME NEW q \in Requests  PROVE ReadFits(checks'[q], bound', grants')
  BY <1>2 DEF PermissionInv
<1>5. ASSUME ~lapsed, NEW s \in P!Scopes  PROVE EntrySound(s)'
  <2>1. Covered(s) => Covered(s)'
    BY <1>2 DEF Covered
  <2>2. Listing(s)' => Listing(s)
    BY <1>2 DEF Listing
  <2>3. QED  BY <1>5, <2>1, <2>2 DEF PermissionInv, EntrySound
<1>6. QED  BY <1>3, <1>4, <1>5 DEF PermissionInv

LEMMA PermissionResolve ==
    ASSUME PermissionInv, NEW p \in Requests,
           \/ \E s \in P!Scopes : P!BeginResolve(p, s)
           \/ P!Lookup(p) \/ P!ReadSystem(p) \/ P!ReadProject(p)
    PROVE  PermissionInv'
<1> DEFINE r == checks[p]
<1>1. /\ checks \in [Requests -> P!RequestType] /\ r \in P!RequestType
      /\ r.at # "del" => r.caps \subseteq Capabilities
      /\ r.at \in P!Resolving => r.scope \in P!Scopes
      /\ bound \in [P!Scopes -> P!Roles \cup {None}]
      /\ grants \in [P!Roles -> SUBSET Capabilities]
  BY DEF PermissionInv, P!TypeOK
<1>2. P!Idle \in P!RequestType /\ P!Idle.at = "idle" /\ P!Idle.caps = {}
  BY DEF P!Idle, P!RequestType
<1>3. \A q \in P!Roles \cup {None} : OfRoleBy(grants, q) \in SUBSET Capabilities
  BY <1>1, RolesDistinct DEF OfRoleBy, P!Roles
<1>4. bound["system"] \in P!Roles \cup {None} /\ bound["project"] \in P!Roles \cup {None}
  BY <1>1 DEF P!Scopes
<1> DEFINE Moves(n) ==
      /\ n \in P!RequestType
      /\ n.at \notin {"sadd", "del", "seed"} /\ n.caps \subseteq Capabilities
      /\ n.at \in P!Resolving => n.scope \in P!Scopes
      /\ ReadFits(n, bound, grants)
<1>5. ASSUME NEW s \in P!Scopes, P!BeginResolve(p, s)  PROVE PermissionInv'
  <2>1. PICK n : n = [P!Idle EXCEPT !.at = "lookup", !.scope = s]
    OBVIOUS
  <2>2. Moves(n)
    BY <1>2, <2>1 DEF P!RequestType, P!Resolving, ReadFits
  <2>3. QED  BY <1>2, <1>5, <2>1, <2>2, PermissionMove DEF P!BeginResolve
<1>6. ASSUME P!Lookup(p)  PROVE PermissionInv'
  <2>1. PICK n : n = IF cache[r.scope] # None THEN P!Idle ELSE [r EXCEPT !.at = "system"]
    OBVIOUS
  <2>2. Moves(n)
    BY <1>1, <1>2, <1>6, <2>1 DEF P!Lookup, P!RequestType, P!Resolving, ReadFits
  <2>3. checks' = [checks EXCEPT ![p] = n]
    BY <1>1, <1>6, <2>1 DEF P!Lookup
  <2>4. QED  BY <1>6, <2>2, <2>3, PermissionMove DEF P!Lookup
<1>7. ASSUME P!ReadSystem(p)  PROVE PermissionInv'
  <2>1. PICK n : n = [r EXCEPT !.caps = OfRoleBy(grants, bound["system"]),
                               !.at = IF r.scope = "project" THEN "project" ELSE "set"]
    OBVIOUS
  <2>2. OfRoleBy(grants, bound["system"]) = GrantedBy(bound, grants, "system")
    BY RolesDistinct DEF PermissionInv, OfRoleBy, GrantedBy
  <2>3. r.at = "system" /\ r.scope \in P!Scopes
    BY <1>1, <1>7 DEF P!ReadSystem, P!Resolving
  <2>4. Moves(n)
    <3>1. n \in P!RequestType /\ n.at \in {"project", "set"} /\ n.scope = r.scope
          /\ n.caps = OfRoleBy(grants, bound["system"]) /\ n.caps \subseteq Capabilities
          /\ (n.at = "project" <=> r.scope = "project")
      BY <1>1, <1>3, <1>4, <2>1 DEF P!RequestType, P!Resolving
    <3>2. n.at = "set" => n.scope = "system"
      BY <2>3, <3>1 DEF P!Scopes
    <3>3. QED  BY <2>2, <2>3, <3>1, <3>2 DEF ReadFits
  <2>5. checks' = [checks EXCEPT ![p] = n]
    BY <1>1, <1>7, <2>1, GrantedIs DEF P!ReadSystem
  <2>6. QED  BY <1>7, <2>3, <2>4, <2>5, PermissionMove DEF P!ReadSystem
<1>8. ASSUME P!ReadProject(p)  PROVE PermissionInv'
  <2>1. PICK n : n = [r EXCEPT !.caps = r.caps \cup OfRoleBy(grants, bound["project"]),
                               !.at = "set"]
    OBVIOUS
  <2>2. r.at = "project" /\ r.scope = "project"
    BY <1>8 DEF P!ReadProject, PermissionInv, ReadFits
  <2>3. ~r.overtaken => r.caps = OfRoleBy(grants, bound["system"])
    BY <2>2 DEF PermissionInv, ReadFits
  <2>4. OfRoleBy(grants, bound["system"]) \cup OfRoleBy(grants, bound["project"])
          = GrantedBy(bound, grants, "project")
    BY <1>3, <1>4, RolesDistinct DEF PermissionInv, OfRoleBy, GrantedBy
  <2>5. /\ n \in P!RequestType /\ n.at = "set" /\ n.scope = "project" /\ n.overtaken = r.overtaken
        /\ n.caps = r.caps \cup OfRoleBy(grants, bound["project"])
        /\ n.caps \subseteq Capabilities
    BY <1>1, <1>3, <1>4, <2>1, <2>2 DEF P!RequestType, P!Resolving
  <2>6. Moves(n)
    BY <2>3, <2>4, <2>5 DEF ReadFits, P!Scopes
  <2>7. checks' = [checks EXCEPT ![p] = n]
    BY <1>1, <1>8, <2>1, GrantedIs DEF P!ReadProject
  <2>8. QED  BY <1>8, <2>2, <2>6, <2>7, PermissionMove DEF P!ReadProject
<1>9. QED  BY <1>5, <1>6, <1>7, <1>8

\* One request goes on without a change of the database; what becomes of its
\* record is given by its fields.
LEMMA PermissionStore ==
    ASSUME PermissionInv, NEW p \in Requests, P!StoreCaps(p)
    PROVE  PermissionInv'
<1> DEFINE r == checks[p]
           e == [caps |-> r.caps, overtaken |-> r.overtaken]
<1>1. /\ checks \in [Requests -> P!RequestType] /\ r \in P!RequestType
      /\ r.at = "set" /\ r.caps \subseteq Capabilities /\ r.scope \in P!Scopes
      /\ cache \in [P!Scopes -> P!EntryType \cup {None}]
  BY DEF PermissionInv, P!TypeOK, P!StoreCaps, P!Resolving
<1>2. PICK n : n = [r EXCEPT !.at = "sadd", !.caps = {}, !.overtaken = FALSE]
  OBVIOUS
<1>3. /\ n \in P!RequestType /\ n.at = "sadd" /\ n.scope = r.scope
      /\ n.caps = {} /\ n.overtaken = FALSE
  BY <1>1, <1>2 DEF P!RequestType, P!Resolving
<1>4. e \in P!EntryType /\ e.caps = r.caps /\ e.overtaken = r.overtaken
  BY <1>1 DEF P!EntryType, P!RequestType
<1> HIDE DEF e
<1>5. /\ cache' = [cache EXCEPT ![r.scope] = e]
      /\ checks' = [checks EXCEPT ![p] = n]
      /\ UNCHANGED <<bound, grants, index, lapsed>>
  BY <1>1, <1>2 DEF P!StoreCaps, e
<1>6. checks'[p] = n /\ \A q \in Requests \ {p} : checks'[q] = checks[q]
  BY <1>1, <1>5
<1>7. cache'[r.scope] = e /\ \A s \in P!Scopes \ {r.scope} : cache'[s] = cache[s]
  BY <1>1, <1>5
<1>8. P!TypeOK'
  <2>1. checks' \in [Requests -> P!RequestType] /\ cache' \in [P!Scopes -> P!EntryType \cup {None}]
    BY <1>1, <1>3, <1>4, <1>5
  <2>2. QED  BY <1>1, <1>3, <1>5, <1>6, <2>1 DEF PermissionInv, P!TypeOK
<1>9. \A q \in Requests : ReadFits(checks'[q], bound', grants')
  BY <1>3, <1>5, <1>6 DEF PermissionInv, ReadFits
<1>10. ~e.overtaken => e.caps = GrantedBy(bound, grants, r.scope)
  BY <1>1, <1>4 DEF PermissionInv, ReadFits
<1>11. ASSUME ~lapsed, NEW s \in P!Scopes  PROVE EntrySound(s)'
  <2>1. CASE s = r.scope
    BY <1>5, <1>7, <1>10, <2>1 DEF EntrySound
  <2>2. CASE s # r.scope
    <3>1. Covered(s) => Covered(s)'
      BY <1>1, <1>5, <1>6 DEF Covered
    <3>2. Listing(s)' => Listing(s)
      BY <1>3, <1>6, <2>2 DEF Listing
    <3>3. QED  BY <1>5, <1>7, <1>11, <2>2, <3>1, <3>2 DEF PermissionInv, EntrySound
  <2>3. QED  BY <2>1, <2>2
<1>12. QED  BY <1>5, <1>8, <1>9, <1>11 DEF PermissionInv

LEMMA PermissionList ==
    ASSUME PermissionInv, NEW p \in Requests, P!ListKey(p) \/ P!DeleteIndex(p)
    PROVE  PermissionInv'
<1> DEFINE r == checks[p]
<1>1. /\ checks \in [Requests -> P!RequestType] /\ r \in P!RequestType
      /\ r.at = "sadd" => r.scope \in P!Scopes
  BY DEF PermissionInv, P!TypeOK, P!Resolving
<1>2. P!Idle \in P!RequestType /\ P!Idle.at = "idle" /\ P!Idle.caps = {}
  BY DEF P!Idle, P!RequestType
<1>3. /\ checks' = [checks EXCEPT ![p] = P!Idle]
      /\ UNCHANGED <<bound, grants, cache, lapsed>>
      /\ \/ r.at = "sadd" /\ index' = index \cup {r.scope}
         \/ r.at = "unlist" /\ index' = {}
  BY DEF P!ListKey, P!DeleteIndex
<1>4. checks'[p] = P!Idle /\ \A q \in Requests \ {p} : checks'[q] = checks[q]
  BY <1>1, <1>3
<1>5. P!TypeOK'
  <2>1. checks' \in [Requests -> P!RequestType] /\ index' \subseteq P!Scopes
    BY <1>1, <1>2, <1>3 DEF PermissionInv, P!TypeOK
  <2>2. QED  BY <1>2, <1>3, <1>4, <2>1 DEF PermissionInv, P!TypeOK, P!Resolving
<1>6. \A q \in Requests : ReadFits(checks'[q], bound', grants')
  BY <1>2, <1>3, <1>4 DEF PermissionInv, ReadFits
<1>7. ASSUME ~lapsed, NEW s \in P!Scopes  PROVE EntrySound(s)'
  <2>1. Covered(s) => Covered(s)'
    BY <1>3, <1>4 DEF Covered
  <2>2. Listing(s)' => Listing(s)
    BY <1>2, <1>4 DEF Listing
  <2>3. s \in index' => s \in index \/ Listing(s)
    BY <1>3 DEF Listing
  <2>4. QED  BY <1>3, <1>7, <2>1, <2>2, <2>3 DEF PermissionInv, EntrySound
<1>8. QED  BY <1>3, <1>5, <1>6, <1>7 DEF PermissionInv

LEMMA PermissionExpire ==
    ASSUME PermissionInv, NEW x \in P!Scopes, P!Expire(x)
    PROVE  PermissionInv'
<1>1. /\ cache \in [P!Scopes -> P!EntryType \cup {None}]
      /\ cache' = [cache EXCEPT ![x] = None]
      /\ UNCHANGED <<bound, grants, index, checks, lapsed>>
  BY DEF P!Expire, PermissionInv, P!TypeOK
<1>2. \A s \in P!Scopes : cache'[s] = None \/ cache'[s] = cache[s]
  BY <1>1
<1>3. P!TypeOK'
  BY <1>1 DEF PermissionInv, P!TypeOK
<1>4. \A s \in P!Scopes : (Covered(s)' <=> Covered(s)) /\ (Listing(s)' <=> Listing(s))
  BY <1>1 DEF Covered, Listing
<1>5. QED  BY <1>1, <1>2, <1>3, <1>4 DEF PermissionInv, EntrySound

LEMMA OvertakenFacts ==
    ASSUME P!TypeOK, NEW q \in Requests, NEW o, o = P!Overtaken(checks)[q]
    PROVE  /\ o \in P!RequestType
           /\ o.at = checks[q].at /\ o.scope = checks[q].scope
           /\ o.caps = checks[q].caps /\ o.role = checks[q].role
           /\ o.at \in {"project", "set"} => o.overtaken
<1>1. checks[q] \in P!RequestType
  BY DEF P!TypeOK
<1>2. o = IF checks[q].at \in {"project", "set"} THEN [checks[q] EXCEPT !.overtaken = TRUE]
          ELSE checks[q]
  BY DEF P!Overtaken
<1>3. QED  BY <1>1, <1>2 DEF P!RequestType

LEMMA CacheOvertakenFacts ==
    ASSUME P!TypeOK
    PROVE  /\ P!CacheOvertaken \in [P!Scopes -> P!EntryType \cup {None}]
           /\ \A s \in P!Scopes :
                 P!CacheOvertaken[s] # None /\ ~P!CacheOvertaken[s].overtaken =>
                    P!CacheOvertaken[s] = cache[s] /\ ~Listing(s)
<1> SUFFICES ASSUME NEW s \in P!Scopes
             PROVE  /\ P!CacheOvertaken[s] \in P!EntryType \cup {None}
                    /\ P!CacheOvertaken[s] # None /\ ~P!CacheOvertaken[s].overtaken =>
                         P!CacheOvertaken[s] = cache[s] /\ ~Listing(s)
  BY DEF P!CacheOvertaken
<1>1. cache[s] \in P!EntryType \cup {None}
  BY DEF P!TypeOK
<1>2. CASE cache[s] # None /\ Listing(s)
  <2>1. PICK e : e = [cache[s] EXCEPT !.overtaken = TRUE]
    OBVIOUS
  <2>2. e \in P!EntryType /\ e.overtaken
    BY <1>1, <1>2, <2>1 DEF P!EntryType
  <2>3. P!CacheOvertaken[s] = e
    BY <1>2, <2>1 DEF P!CacheOvertaken, Listing
  <2>4. QED  BY <2>2, <2>3
<1>3. CASE ~(cache[s] # None /\ Listing(s))
  <2>1. P!CacheOvertaken[s] = cache[s]
    BY <1>3 DEF P!CacheOvertaken, Listing
  <2>2. QED  BY <1>1, <1>3, <2>1
<1>4. QED  BY <1>2, <1>3

\* The database changes: what was read before counts as overtaken, and a set that
\* is now wrong is about to be deleted.
LEMMA PermissionChange ==
    ASSUME PermissionInv, cache' = P!CacheOvertaken, UNCHANGED index, lapsed' \in BOOLEAN,
           lapsed => lapsed',
           bound' \in [P!Scopes -> P!Roles \cup {None}],
           grants' \in [P!Roles -> SUBSET Capabilities], grants'[SuperRole] = Capabilities,
           checks' \in [Requests -> P!RequestType],
           \A q \in Requests :
              /\ checks'[q].at # "del" => checks'[q].caps \subseteq Capabilities
              /\ checks'[q].at \in P!Resolving =>
                    /\ checks'[q].at = checks[q].at /\ checks'[q].scope = checks[q].scope
                    /\ checks'[q].at \in {"project", "set"} => checks'[q].overtaken
              /\ checks'[q].at = "seed" => checks'[q].role \in P!Roles,
           ~lapsed' =>
             \A s \in P!Scopes :
              \/ Covered(s)'
              \/ /\ GrantedBy(bound', grants', s) = GrantedBy(bound, grants, s)
                 /\ Covered(s) => Covered(s)'
    PROVE  PermissionInv'
<1>1. P!TypeOK
  BY DEF PermissionInv
<1>2. P!TypeOK'
  BY <1>1, CacheOvertakenFacts DEF P!TypeOK
<1>3. \A q \in Requests : ReadFits(checks'[q], bound', grants')
  BY DEF PermissionInv, ReadFits, P!Resolving
<1>4. ASSUME ~lapsed', NEW s \in P!Scopes  PROVE EntrySound(s)'
  <2>1. Listing(s)' => Listing(s)
    BY DEF Listing, P!Resolving
  <2>2. SUFFICES ASSUME cache'[s] # None, ~cache'[s].overtaken
                 PROVE  cache'[s].caps = GrantedBy(bound', grants', s)
                          \/ (~Listing(s)' /\ (s \in index' => Covered(s)'))
    BY DEF EntrySound
  <2>3. cache'[s] = cache[s] /\ ~Listing(s)
    BY <1>1, <2>2, CacheOvertakenFacts
  <2>4. cache[s].caps = GrantedBy(bound, grants, s) \/ (s \in index => Covered(s))
    BY <1>4, <2>2, <2>3 DEF PermissionInv, EntrySound
  <2>5. QED  BY <1>4, <2>1, <2>3, <2>4
<1>5. QED  BY <1>2, <1>3, <1>4 DEF PermissionInv

LEMMA PermissionRebind ==
    ASSUME PermissionInv, NEW p \in Requests,
           \/ \E r \in {Admin} : P!AssignProjectRole(p, r)
           \/ P!RemoveProjectMember(p)
           \/ \E r \in {SuperRole, Auditor} \cup {None} : P!SetSystemRole(p, r)
    PROVE  PermissionInv'
<1>1. PICK s \in P!Scopes, r \in P!Roles \cup {None} : P!Rebind(p, s, r)
  BY DEF P!AssignProjectRole, P!RemoveProjectMember, P!SetSystemRole, P!Scopes, P!Roles
<1>2. PICK n : n = [P!Idle EXCEPT !.at = "smembers"]
  OBVIOUS
<1>3. n \in P!RequestType /\ n.at = "smembers" /\ n.caps = {}
  BY <1>2 DEF P!Idle, P!RequestType, P!Invalidating
<1>4. /\ bound' = [bound EXCEPT ![s] = r] /\ cache' = P!CacheOvertaken
      /\ checks' = [P!Overtaken(checks) EXCEPT ![p] = n]
      /\ UNCHANGED <<grants, index, lapsed>>
  BY <1>1, <1>2 DEF P!Rebind
<1>5. \A q \in Requests : checks'[q] = IF q = p THEN n ELSE P!Overtaken(checks)[q]
  BY <1>4 DEF P!Overtaken
<1>6. DOMAIN checks' = Requests /\ checks' = [q \in Requests |-> checks'[q]]
  BY <1>4 DEF P!Overtaken
<1>7. P!TypeOK
  BY DEF PermissionInv
<1>8. \A q \in Requests :
        /\ checks'[q] \in P!RequestType
        /\ checks'[q].at # "del" => checks'[q].caps \subseteq Capabilities
        /\ checks'[q].at \in P!Resolving =>
              /\ checks'[q].at = checks[q].at /\ checks'[q].scope = checks[q].scope
              /\ checks'[q].at \in {"project", "set"} => checks'[q].overtaken
        /\ checks'[q].at = "seed" => checks'[q].role \in P!Roles
  BY <1>3, <1>5, <1>7, OvertakenFacts DEF P!TypeOK, P!Resolving
<1>9. bound' \in [P!Scopes -> P!Roles \cup {None}]
  BY <1>4, <1>7 DEF P!TypeOK
<1>10. \A x : Covered(x)'
  BY <1>3, <1>5 DEF Covered
<1>11. checks' \in [Requests -> P!RequestType]
  BY <1>6, <1>8
<1>12. QED
  BY <1>4, <1>7, <1>8, <1>9, <1>10, <1>11, PermissionChange DEF PermissionInv, P!TypeOK

LEMMA OvertakenAll ==
    ASSUME PermissionInv, checks' = P!Overtaken(checks)
    PROVE  /\ checks' \in [Requests -> P!RequestType]
           /\ \A q \in Requests :
                /\ checks'[q].at = checks[q].at /\ checks'[q].scope = checks[q].scope
                /\ checks'[q].caps = checks[q].caps /\ checks'[q].role = checks[q].role
                /\ checks'[q].at \in {"project", "set"} => checks'[q].overtaken
                /\ checks'[q].at # "del" => checks'[q].caps \subseteq Capabilities
                /\ checks'[q].at = "seed" => checks'[q].role \in P!Roles
<1>1. \A q \in Requests : checks'[q] = P!Overtaken(checks)[q]
  BY DEF P!Overtaken
<1>2. \A q \in Requests : checks'[q] \in P!RequestType
  BY <1>1, OvertakenFacts DEF PermissionInv
<1>3. checks' \in [Requests -> P!RequestType]
  BY <1>2 DEF P!Overtaken
<1>4. QED  BY <1>1, <1>3, OvertakenFacts DEF PermissionInv, P!TypeOK

LEMMA PermissionInherit ==
    ASSUME PermissionInv, NEW r \in {SuperRole, Auditor}, P!InheritSystemRole(r)
    PROVE  PermissionInv'
<1>1. /\ bound' = [bound EXCEPT !["system"] = r] /\ cache' = P!CacheOvertaken
      /\ checks' = P!Overtaken(checks) /\ lapsed' = TRUE /\ UNCHANGED <<grants, index>>
  BY DEF P!InheritSystemRole
<1>2. bound' \in [P!Scopes -> P!Roles \cup {None}]
  BY <1>1 DEF PermissionInv, P!TypeOK, P!Scopes, P!Roles
<1>3. QED
  BY <1>1, <1>2, OvertakenAll, PermissionChange DEF PermissionInv, P!TypeOK, P!Resolving

LEMMA PermissionClear ==
    ASSUME PermissionInv, NEW p \in Requests, NEW r \in P!Roles, P!ClearRole(p, r)
    PROVE  PermissionInv'
<1>1. PICK n : n = [P!Idle EXCEPT !.at = "seed", !.role = r]
  OBVIOUS
<1>2. n \in P!RequestType /\ n.at = "seed" /\ n.caps = {} /\ n.role = r
  BY <1>1 DEF P!Idle, P!RequestType
<1>3. /\ checks[p] = P!Idle /\ grants[r] # NewCatalog[r]
      /\ grants' = [grants EXCEPT ![r] = {}] /\ cache' = P!CacheOvertaken
      /\ checks' = [P!Overtaken(checks) EXCEPT ![p] = n]
      /\ UNCHANGED <<bound, index, lapsed>>
  BY <1>1 DEF P!ClearRole
<1>4. P!TypeOK /\ grants[SuperRole] = Capabilities
  BY DEF PermissionInv
<1>5. \A q \in Requests : checks'[q] = IF q = p THEN n ELSE P!Overtaken(checks)[q]
  BY <1>3 DEF P!Overtaken
<1>6. checks' = [q \in Requests |-> checks'[q]]
  BY <1>3 DEF P!Overtaken
<1>7. \A q \in Requests :
        /\ checks'[q] \in P!RequestType
        /\ checks'[q].at # "del" => checks'[q].caps \subseteq Capabilities
        /\ checks'[q].at \in P!Resolving =>
              /\ checks'[q].at = checks[q].at /\ checks'[q].scope = checks[q].scope
              /\ checks'[q].at \in {"project", "set"} => checks'[q].overtaken
        /\ checks'[q].at = "seed" => checks'[q].role \in P!Roles
  BY <1>2, <1>4, <1>5, OvertakenFacts DEF P!TypeOK, P!Resolving
<1>8. checks' \in [Requests -> P!RequestType]
  BY <1>6, <1>7
<1>9. grants' \in [P!Roles -> SUBSET Capabilities] /\ grants'[SuperRole] = Capabilities
  BY <1>3, <1>4, CatalogFacts DEF P!TypeOK, P!Roles
<1>10. ASSUME NEW s \in P!Scopes
       PROVE  \/ Covered(s)'
              \/ /\ GrantedBy(bound', grants', s) = GrantedBy(bound, grants, s)
                 /\ Covered(s) => Covered(s)'
  <2>1. CASE r \in {bound["system"], bound["project"]}
    BY <1>2, <1>3, <1>5, <2>1 DEF Covered
  <2>2. CASE r \notin {bound["system"], bound["project"]}
    <3>1. GrantedBy(bound', grants', s) = GrantedBy(bound, grants, s)
      <4>1. /\ grants \in [P!Roles -> SUBSET Capabilities]
            /\ bound["system"] \in P!Roles \cup {None} /\ bound["project"] \in P!Roles \cup {None}
        BY <1>3, <1>4 DEF P!TypeOK, P!Scopes
      <4>2. GrantedBy(bound, [grants EXCEPT ![r] = {}], s) = GrantedBy(bound, grants, s)
        BY <2>2, <4>1 DEF GrantedBy, OfRoleBy
      <4>3. QED  BY <1>3, <4>2
    <3>2. Covered(s) => Covered(s)'
      BY <1>3, <1>4, <1>5, OvertakenFacts DEF Covered, P!Idle
    <3>3. QED  BY <3>1, <3>2
  <2>3. QED  BY <2>1, <2>2
<1>11. QED
  BY <1>3, <1>4, <1>7, <1>8, <1>9, <1>10, PermissionChange DEF P!TypeOK

LEMMA PermissionInsert ==
    ASSUME PermissionInv, NEW p \in Requests, NEW c \in Capabilities, P!InsertCap(p, c)
    PROVE  PermissionInv'
<1> DEFINE r == checks[p].role
<1>1. /\ checks[p].at = "seed" /\ c \in NewCatalog[r]
      /\ grants' = [grants EXCEPT ![r] = grants[r] \cup {c}] /\ cache' = P!CacheOvertaken
      /\ checks' = P!Overtaken(checks) /\ UNCHANGED <<bound, index, lapsed>>
  BY DEF P!InsertCap
<1>2. P!TypeOK /\ grants[SuperRole] = Capabilities /\ r \in P!Roles
  BY <1>1 DEF PermissionInv, P!TypeOK
<1>3. grants' \in [P!Roles -> SUBSET Capabilities] /\ grants'[SuperRole] = Capabilities
  BY <1>1, <1>2 DEF P!TypeOK, P!Roles
<1>4. ASSUME NEW s \in P!Scopes
      PROVE  \/ Covered(s)'
             \/ /\ GrantedBy(bound', grants', s) = GrantedBy(bound, grants, s)
                /\ Covered(s) => Covered(s)'
  <2>1. CASE r \in {bound["system"], bound["project"]}
    BY <1>1, <2>1, OvertakenAll DEF Covered
  <2>2. CASE r \notin {bound["system"], bound["project"]}
    <3>1. GrantedBy(bound', grants', s) = GrantedBy(bound, grants, s)
      <4>1. /\ grants \in [P!Roles -> SUBSET Capabilities]
            /\ bound["system"] \in P!Roles \cup {None} /\ bound["project"] \in P!Roles \cup {None}
        BY <1>1, <1>2 DEF P!TypeOK, P!Scopes
      <4>2. GrantedBy(bound, [grants EXCEPT ![r] = grants[r] \cup {c}], s) = GrantedBy(bound, grants, s)
        BY <2>2, <4>1 DEF GrantedBy, OfRoleBy
      <4>3. QED  BY <1>1, <4>2
    <3>2. Covered(s) => Covered(s)'
      BY <1>1, OvertakenAll DEF Covered
    <3>3. QED  BY <3>1, <3>2
  <2>3. QED  BY <2>1, <2>2
<1>5. QED
  BY <1>1, <1>2, <1>3, <1>4, OvertakenAll, PermissionChange DEF P!TypeOK, P!Resolving

\* One request goes on to invalidate, or stops: what it covered stays covered.
LEMMA PermissionStep ==
    ASSUME PermissionInv, NEW p \in Requests, NEW n \in P!RequestType,
           checks' = [checks EXCEPT ![p] = n],
           UNCHANGED <<bound, grants, index>>, lapsed' \in BOOLEAN, lapsed => lapsed',
           cache' \in [P!Scopes -> P!EntryType \cup {None}],
           \A s \in P!Scopes : cache'[s] = None \/ cache'[s] = cache[s],
           n.at \notin {"seed"} \cup P!Resolving, n.at # "del" => n.caps \subseteq Capabilities,
           ~lapsed' => \A s \in P!Scopes :
              cache'[s] # None /\ s \in index /\ Covered(s) => Covered(s)'
    PROVE  PermissionInv'
<1>1. checks \in [Requests -> P!RequestType]
  BY DEF PermissionInv, P!TypeOK
<1>2. checks'[p] = n /\ \A q \in Requests \ {p} : checks'[q] = checks[q]
  BY <1>1
<1>3. P!TypeOK'
  BY <1>1, <1>2 DEF PermissionInv, P!TypeOK
<1>4. \A q \in Requests : ReadFits(checks'[q], bound', grants')
  BY <1>2 DEF PermissionInv, ReadFits, P!Resolving
<1>5. ASSUME ~lapsed', NEW s \in P!Scopes  PROVE EntrySound(s)'
  <2>1. Listing(s)' => Listing(s)
    BY <1>2 DEF Listing, P!Resolving
  <2>2. QED  BY <1>5, <2>1 DEF PermissionInv, EntrySound
<1>6. QED  BY <1>3, <1>4, <1>5 DEF PermissionInv

LEMMA PermissionInvalidate ==
    ASSUME PermissionInv, NEW p \in Requests,
           P!ReadIndex(p) \/ P!DeleteEntries(p) \/ P!FindHolders(p) \/ P!Crash(p)
    PROVE  PermissionInv'
<1> DEFINE r == checks[p]
<1>1. /\ checks \in [Requests -> P!RequestType] /\ r \in P!RequestType
      /\ cache \in [P!Scopes -> P!EntryType \cup {None}]
      /\ index \subseteq P!Scopes /\ lapsed \in BOOLEAN
  BY DEF PermissionInv, P!TypeOK
<1>2. P!Idle \in P!RequestType /\ P!Idle.at = "idle" /\ P!Idle.caps = {}
  BY DEF P!Idle, P!RequestType
<1>3. ASSUME P!ReadIndex(p)  PROVE PermissionInv'
  <2>1. PICK n : n = [r EXCEPT !.at = "del", !.caps = index]
    OBVIOUS
  <2>2. n \in P!RequestType /\ n.at = "del" /\ n.caps = index
    BY <1>1, <2>1 DEF P!RequestType, P!Invalidating
  <2>3. checks' = [checks EXCEPT ![p] = n] /\ UNCHANGED <<bound, grants, cache, index, lapsed>>
    BY <1>1, <1>3, <2>1 DEF P!ReadIndex
  <2>4. checks'[p] = n
    BY <1>1, <2>3
  <2>5. \A s \in P!Scopes : s \in index => Covered(s)'
    BY <2>2, <2>4 DEF Covered
  <2>6. QED  BY <1>1, <2>2, <2>3, <2>5, PermissionStep DEF P!Resolving
<1>4. ASSUME P!DeleteEntries(p)  PROVE PermissionInv'
  <2>1. PICK n : n = [r EXCEPT !.at = "unlist", !.caps = {}]
    OBVIOUS
  <2>2. n \in P!RequestType /\ n.at = "unlist" /\ n.caps = {} /\ r.at = "del"
    BY <1>1, <1>4, <2>1 DEF P!RequestType, P!Invalidating, P!DeleteEntries
  <2>3. /\ checks' = [checks EXCEPT ![p] = n] /\ UNCHANGED <<bound, grants, index, lapsed>>
        /\ cache' = [s \in P!Scopes |-> IF s \in r.caps THEN None ELSE cache[s]]
    BY <1>1, <1>4, <2>1 DEF P!DeleteEntries
  <2>4. \A q \in Requests \ {p} : checks'[q] = checks[q]
    BY <1>1, <2>3
  <2>5. \A s \in P!Scopes : cache'[s] # None /\ Covered(s) => Covered(s)'
    BY <2>2, <2>3, <2>4 DEF Covered
  <2>6. cache' \in [P!Scopes -> P!EntryType \cup {None}]
    BY <1>1, <2>3
  <2>7. \A s \in P!Scopes : cache'[s] = None \/ cache'[s] = cache[s]
    BY <2>3
  <2>8. QED  BY <1>1, <2>2, <2>3, <2>5, <2>6, <2>7, PermissionStep DEF P!Resolving
<1>5. ASSUME P!FindHolders(p)  PROVE PermissionInv'
  <2>1. r.at = "seed" /\ UNCHANGED <<bound, grants, cache, index, lapsed>>
    BY <1>5 DEF P!FindHolders
  <2>2. PICK n : n = IF r.role \in {bound[s] : s \in P!Scopes}
                     THEN [P!Idle EXCEPT !.at = "smembers"] ELSE P!Idle
    OBVIOUS
  <2>3. /\ n \in P!RequestType /\ n.caps = {} /\ n.at \in {"smembers", "idle"}
        /\ r.role \in {bound["system"], bound["project"]} => n.at = "smembers"
    BY <1>2, <2>2 DEF P!RequestType, P!Invalidating, P!Idle, P!Scopes
  <2>4. checks' = [checks EXCEPT ![p] = n]
    BY <1>5, <2>2 DEF P!FindHolders
  <2>5. checks'[p] = n /\ \A q \in Requests \ {p} : checks'[q] = checks[q]
    BY <1>1, <2>4
  <2>6. \A s \in P!Scopes : Covered(s) => Covered(s)'
    BY <2>1, <2>3, <2>5 DEF Covered
  <2>7. QED  BY <1>1, <2>1, <2>3, <2>4, <2>6, PermissionStep DEF P!Resolving
<1>6. ASSUME P!Crash(p)  PROVE PermissionInv'
  <2>1. /\ checks' = [checks EXCEPT ![p] = P!Idle] /\ UNCHANGED <<bound, grants, cache, index>>
        /\ lapsed' = (lapsed \/ r.at \in {"seed", "smembers", "del"})
    BY <1>6 DEF P!Crash
  <2>2. checks'[p] = P!Idle /\ \A q \in Requests \ {p} : checks'[q] = checks[q]
    BY <1>1, <2>1
  <2>3. ~lapsed' => \A s \in P!Scopes : Covered(s) => Covered(s)'
    BY <2>1, <2>2 DEF Covered
  <2>4. lapsed' \in BOOLEAN /\ (lapsed => lapsed')
    BY <1>1, <2>1
  <2>5. QED  BY <1>1, <1>2, <2>1, <2>3, <2>4, PermissionStep DEF P!Resolving
<1>7. QED  BY <1>3, <1>4, <1>5, <1>6

LEMMA PermissionCorrect == Spec => []PermissionInv
<1>1. Init => PermissionInv
  BY PermissionInit DEF Init
<1>2. PermissionInv /\ [Next]_vars => PermissionInv'
  <2> SUFFICES ASSUME PermissionInv, [Next]_vars  PROVE PermissionInv'
    OBVIOUS
  <2>1. CASE P!Next
    BY <2>1, PermissionResolve, PermissionStore, PermissionList, PermissionExpire,
       PermissionRebind, PermissionInherit, PermissionClear, PermissionInsert,
       PermissionInvalidate DEF P!Next
  <2>2. CASE UNCHANGED permissionVars
    <3>1. P!TypeOK'
      BY <2>2 DEF permissionVars, PermissionInv, P!TypeOK
    <3>2. \A s : (Covered(s)' <=> Covered(s)) /\ (Listing(s)' <=> Listing(s))
      BY <2>2 DEF permissionVars, Covered, Listing
    <3>3. QED  BY <2>2, <3>1, <3>2 DEF permissionVars, PermissionInv, EntrySound
  <2>3. QED  BY <2>1, <2>2, OneMoves
<1>3. QED  BY <1>1, <1>2, PTL DEF Spec

\* With no change of the roles or of the bindings under way, a cached set of
\* capabilities that is listed is what the database grants, unless the resolve that
\* stored it was overtaken or a change was never invalidated: resolveCapabilities
\* and invalidate of AuthzService.
THEOREM CachedAsGrantedCorrect == Spec => []CachedAsGranted
<1>1. ASSUME PermissionInv  PROVE P!CachedAsGranted
  <2> SUFFICES ASSUME NEW s \in P!Scopes, ~lapsed,
                      \A p \in Requests : checks[p].at \notin P!Invalidating \cup {"seed"},
                      s \in index, cache[s] # None, ~cache[s].overtaken
               PROVE  cache[s].caps = P!Granted(s)
    BY DEF P!CachedAsGranted
  <2>1. ~Covered(s)
    BY DEF Covered, P!Invalidating
  <2>2. QED  BY <1>1, <2>1, GrantedIs DEF PermissionInv, EntrySound
<1>2. PermissionInv => CachedAsGranted
  BY <1>1 DEF CachedAsGranted
<1>3. QED  BY <1>2, PermissionCorrect, PTL

(***************************************************************************)
(* VendorCall.                                                             *)
(***************************************************************************)
\* The answers that only a submission without a job gets.
NoJobAnswers == {"bare", "bareKey", "refused", "refusedKey", "badKey", "limited", "redirect"}

Untouched(c) == taken[c] = 0 /\ job[c] = None /\ c \notin wire /\ report[c] = None
Jobless(c) == job[c] = None /\ c \notin wire

\* The candidates before the present one have no job and get none, and the later
\* ones have not been tried.
OthersSound ==
    /\ \A c \in N!Candidates : c < cand => Jobless(c)
    /\ \A c \in N!Candidates : c > cand => Untouched(c)
    /\ \A c \in N!Candidates : taken[c] <= 1 /\ (c \in wire => taken[c] = 0 /\ job[c] = None)

\* What the answer a to a submission says of its candidate c, with the vendor's
\* jobs j and the submissions w under way.
AnswerSound(c, a, j, w) ==
    /\ a \in N!Answers
    /\ a # N!Lost => c \notin w
    /\ a \in NoJobAnswers => j[c] = None
    /\ a = "content" => j[c] # None

\* What a report r says of its candidate c.
ReportSound(c, r) ==
    r # None =>
        /\ r.outcome = "rejected" => \/ Jobless(c)
                                     \/ r.answer = "garbled"
                                     \/ adapter = "stream" /\ r.answer = "down"
        /\ r.outcome = "rejected" /\ r.failover => Jobless(c)
        /\ r.outcome = "running" => job[c] # None /\ c \notin wire

\* How the present candidate c stands, by the phase of its request.
StandsAt(c) ==
    /\ phase = "prepare" => Untouched(c) /\ request = "submit" /\ tries = 0
    /\ request = "submit" /\ phase = "waiting" /\ answer = None => taken[c] = 0 /\ job[c] = None
    /\ request = "submit" /\ phase \in {"waiting", "answered"} /\ answer # None
         => AnswerSound(c, answer, job, wire)
    /\ phase = "answered" => answer # None
    /\ phase = "reported" => report[c] # None
    /\ request # "submit" => report[c] # None /\ report[c].outcome = "running"
    /\ ReportSound(c, report[c])
    /\ request = "query" /\ answer \in {"succeeded", "failed"} => job[c] = answer

\* A verdict is about the job of the present candidate c.
VerdictSound(c) ==
    /\ verdict.result # None => request # "submit"
    /\ verdict.result \in {"succeeded", "failed"} =>
          verdict.result = job[c] \/ verdict.answer = "garbled"

VendorInv == N!TypeOK /\ OthersSound /\ StandsAt(cand) /\ VerdictSound(cand)

LEMMA VendorInit == N!Init => VendorInv
<1> SUFFICES ASSUME N!Init  PROVE VendorInv
  OBVIOUS
<1>1. /\ N!TypeOK /\ cand = 1 /\ phase = "prepare" /\ request = "submit" /\ answer = None /\ tries = 0
      /\ verdict.result = None
  BY VendorLimits DEF N!Init, N!TypeOK, N!Candidates, N!NoVerdict, N!VerdictType, N!AnswerType
<1>2. \A c \in N!Candidates : Untouched(c)
  BY DEF N!Init, Untouched
<1>3. cand \in N!Candidates
  BY <1>1 DEF N!TypeOK
<1>4. OthersSound
  BY <1>1, <1>2 DEF OthersSound, Untouched, Jobless
<1>5. StandsAt(cand) /\ VerdictSound(cand)
  BY <1>1, <1>2, <1>3, NothingReported DEF StandsAt, VerdictSound, ReportSound, Untouched
<1>6. QED  BY <1>1, <1>4, <1>5 DEF VendorInv

LEMMA ReportTyped ==
    ASSUME NEW o \in N!Outcomes, NEW b \in BOOLEAN, NEW a \in N!AnswerType
    PROVE  /\ N!Report(o, b, a) \in N!ReportType
           /\ N!Report(o, b, a).outcome = o /\ N!Report(o, b, a).failover = b
           /\ N!Report(o, b, a).answer = a
BY DEF N!Report, N!ReportType

LEMMA VendorPrepares ==
    ASSUME VendorInv, N!FailToPrepare \/ N!Submit
    PROVE  VendorInv'
<1>1. N!TypeOK /\ cand \in N!Candidates /\ Untouched(cand) /\ request = "submit" /\ tries = 0
  BY DEF VendorInv, N!TypeOK, StandsAt, N!FailToPrepare, N!Submit
<1>2. ASSUME N!FailToPrepare  PROVE VendorInv'
  <2>1. PICK r \in N!PreparationReports :
          report' = [report EXCEPT ![cand] = r] /\ phase' = "reported"
          /\ UNCHANGED <<adapter, cand, request, tries, answer, wire, taken, job, verdict>>
    BY <1>2 DEF N!FailToPrepare, N!vendor
  <2>2. r \in N!ReportType /\ r.outcome \in {"rejected", "unknown"} /\ r # None
    <3>1. \E o \in {"rejected", "unknown"}, b \in BOOLEAN : r = N!Report(o, b, None)
      BY DEF N!PreparationReports
    <3>2. QED  BY <3>1, ReportTyped, NothingReported DEF N!Outcomes, N!AnswerType
  <2>3. report'[cand] = r /\ \A c \in N!Candidates \ {cand} : report'[c] = report[c]
    BY <1>1, <2>1 DEF N!TypeOK
  <2>4. N!TypeOK'
    BY <1>1, <2>1, <2>2 DEF N!TypeOK
  <2>5. OthersSound'
    BY <1>1, <2>1, <2>3 DEF VendorInv, OthersSound, Untouched, Jobless, N!TypeOK, N!Candidates
  <2>6. StandsAt(cand)'
    BY <1>1, <2>1, <2>2, <2>3 DEF StandsAt, ReportSound, Untouched, Jobless
  <2>7. VerdictSound(cand)'
    BY <2>1 DEF VendorInv, VerdictSound
  <2>8. QED  BY <2>4, <2>5, <2>6, <2>7 DEF VendorInv
<1>3. ASSUME N!Submit  PROVE VendorInv'
  <2>1. /\ phase' = "waiting" /\ answer' = None /\ wire' = wire \cup {cand} /\ tries' = tries + 1
        /\ UNCHANGED <<adapter, cand, request, taken, job, report, verdict>>
    BY <1>1, <1>3 DEF N!Submit, N!SendOnce
  <2>2. tries' \in 0..MaxRetries + 1
    BY <1>1, <2>1, VendorLimits
  <2>3. N!TypeOK'
    BY <1>1, <2>1, <2>2 DEF N!TypeOK, N!AnswerType
  <2>4. OthersSound'
    BY <1>1, <2>1 DEF VendorInv, OthersSound, Untouched, Jobless, N!TypeOK, N!Candidates
  <2>5. StandsAt(cand)'
    BY <1>1, <2>1, NothingReported DEF StandsAt, ReportSound, Untouched, N!JobStates
  <2>6. VerdictSound(cand)'
    BY <2>1 DEF VendorInv, VerdictSound
  <2>7. QED  BY <2>3, <2>4, <2>5, <2>6 DEF VendorInv
<1>4. QED  BY <1>2, <1>3

LEMMA LostSound ==
    ASSUME NEW c, NEW j, NEW w
    PROVE  AnswerSound(c, N!Lost, j, w)
BY DEF AnswerSound, N!Answers, N!Lost, NoJobAnswers

\* The vendor takes the submission of the present candidate, or it gets lost.
LEMMA VendorTaken ==
    ASSUME VendorInv, NEW c \in N!Candidates,
           \/ \E creates \in BOOLEAN : N!VendorTakes(c, creates)
           \/ N!SubmissionLost(c)
    PROVE  VendorInv'
<1>1. /\ N!TypeOK /\ cand \in N!Candidates /\ c \in wire /\ taken[c] = 0 /\ job[c] = None
      /\ c = cand
  BY DEF VendorInv, N!TypeOK, OthersSound, Untouched, Jobless, N!Candidates, N!VendorTakes,
     N!SubmissionLost
<1>2. phase # "prepare" /\ request = "submit"
  BY <1>1 DEF VendorInv, StandsAt, Untouched, ReportSound
<1>3. phase \in {"waiting", "answered"} /\ answer # None => answer = N!Lost
  BY <1>1, <1>2 DEF VendorInv, StandsAt, AnswerSound
<1>4. wire' = wire \ {c} /\ UNCHANGED <<adapter, cand, phase, request, tries, report, verdict>>
  BY DEF N!VendorTakes, N!SubmissionLost, N!http
<1>5. VerdictSound(cand)'
  BY <1>2, <1>4, NothingReported DEF VendorInv, VerdictSound, N!JobStates
<1>6. ASSUME NEW creates \in BOOLEAN, N!VendorTakes(c, creates)  PROVE VendorInv'
  <2>1. /\ taken' = [taken EXCEPT ![c] = @ + 1]
        /\ job' = IF creates THEN [job EXCEPT ![c] = "running"] ELSE job
        /\ IF phase = "waiting" /\ answer = None
           THEN answer' \in IF creates THEN N!AnswersWithJob ELSE N!AnswersWithoutJob
           ELSE answer' = answer
    BY <1>1, <1>2, <1>6 DEF N!VendorTakes
  <2>2. /\ taken' \in [N!Candidates -> Nat] /\ taken'[c] = 1
        /\ \A d \in N!Candidates \ {c} : taken'[d] = taken[d]
    BY <1>1, <2>1 DEF N!TypeOK
  <2>3. /\ job' \in [N!Candidates -> N!JobStates \cup {None}]
        /\ creates => job'[c] = "running"
        /\ ~creates => job'[c] = None
        /\ \A d \in N!Candidates \ {c} : job'[d] = job[d]
    BY <1>1, <2>1 DEF N!TypeOK, N!JobStates
  <2>4. answer' \in N!AnswerType
    BY <1>1, <2>1 DEF N!TypeOK, N!AnswerType, N!Answers
  <2>5. N!TypeOK'
    BY <1>1, <1>4, <2>2, <2>3, <2>4 DEF N!TypeOK
  <2>6. OthersSound'
    BY <1>1, <1>4, <2>2, <2>3 DEF VendorInv, OthersSound, Untouched, Jobless, N!TypeOK, N!Candidates
  <2>7. "running" # None
    BY NothingReported DEF N!JobStates
  <2>8. phase \in {"waiting", "answered"} /\ answer' # None => AnswerSound(cand, answer', job', wire')
    <3>1. CASE phase = "waiting" /\ answer = None /\ creates
      <4>1. answer' \in N!Answers /\ answer' \notin NoJobAnswers
        <5>1. answer' \in N!AnswersWithJob
          BY <2>1, <3>1
        <5>2. QED  BY <5>1 DEF N!Answers, N!AnswersWithJob, NoJobAnswers
      <4>2. QED  BY <1>1, <1>4, <2>3, <2>7, <3>1, <4>1 DEF AnswerSound
    <3>2. CASE phase = "waiting" /\ answer = None /\ ~creates
      <4>1. answer' \in N!Answers /\ answer' # "content"
        <5>1. answer' \in N!AnswersWithoutJob
          BY <2>1, <3>2
        <5>2. QED  BY <5>1 DEF N!Answers, N!AnswersWithoutJob
      <4>2. QED  BY <1>1, <1>4, <2>3, <3>2, <4>1 DEF AnswerSound
    <3>3. CASE ~(phase = "waiting" /\ answer = None)
      BY <1>3, <2>1, <3>3, LostSound
    <3>4. QED  BY <3>1, <3>2, <3>3
  <2>9. ReportSound(cand, report[cand])'
    BY <1>1, <1>2, <1>4, <2>3 DEF VendorInv, StandsAt, ReportSound, Jobless
  <2>10. StandsAt(cand)'
    <3>1. phase = "answered" => answer' # None
      BY <2>1 DEF VendorInv, StandsAt
    <3>2. phase = "waiting" /\ answer' = None => taken'[cand] = 0 /\ job'[cand] = None
      BY <2>1, NothingReported DEF N!Answers
    <3>3. QED  BY <1>2, <1>4, <2>8, <2>9, <3>1, <3>2 DEF VendorInv, StandsAt
  <2>11. QED  BY <1>5, <2>5, <2>6, <2>10 DEF VendorInv
<1>7. ASSUME N!SubmissionLost(c)  PROVE VendorInv'
  <2>1. UNCHANGED <<answer, taken, job>>
    BY <1>7 DEF N!SubmissionLost, N!http
  <2>2. N!TypeOK'
    BY <1>1, <1>4, <2>1 DEF N!TypeOK
  <2>3. OthersSound'
    BY <1>1, <1>4, <2>1 DEF VendorInv, OthersSound, Untouched, Jobless
  <2>4. StandsAt(cand)'
    BY <1>1, <1>2, <1>4, <2>1 DEF VendorInv, StandsAt, ReportSound, Jobless, AnswerSound
  <2>5. QED  BY <1>5, <2>2, <2>3, <2>4 DEF VendorInv
<1>8. QED  BY <1>6, <1>7

\* The client's own steps leave the vendor and the reports alone.
LEMMA VendorClient ==
    ASSUME VendorInv, UNCHANGED <<adapter, cand, wire, taken, job, report, verdict>>,
           N!TypeOK', StandsAt(cand)', request' = request
    PROVE  VendorInv'
<1>1. OthersSound'
  BY DEF VendorInv, OthersSound, Untouched, Jobless
<1>2. VerdictSound(cand)'
  BY DEF VendorInv, VerdictSound
<1>3. QED  BY <1>1, <1>2 DEF VendorInv

LEMMA VendorWaits ==
    ASSUME VendorInv, N!GiveUp \/ N!Receive \/ N!Retry
    PROVE  VendorInv'
<1>1. N!TypeOK /\ StandsAt(cand)
  BY DEF VendorInv
<1>2. ASSUME N!GiveUp  PROVE VendorInv'
  <2>1. /\ phase = "waiting" /\ phase' = "answered" /\ answer' = N!Lost
        /\ UNCHANGED <<adapter, cand, request, tries, wire, taken, job, report, verdict>>
    BY <1>2 DEF N!GiveUp, N!vendor
  <2>2. N!TypeOK'
    BY <1>1, <2>1 DEF N!TypeOK, N!AnswerType, N!Answers
  <2>3. N!Lost # None /\ N!Lost \notin {"succeeded", "failed"}
    BY NothingReported DEF N!Answers, N!Lost
  <2>4. StandsAt(cand)'
    BY <1>1, <2>1, <2>3, LostSound DEF StandsAt, ReportSound, Jobless
  <2>5. QED  BY <2>1, <2>2, <2>4, VendorClient
<1>3. ASSUME N!Receive  PROVE VendorInv'
  <2>1. /\ phase = "waiting" /\ phase' = "answered" /\ answer # None
        /\ UNCHANGED <<adapter, cand, request, tries, answer, wire, taken, job, report, verdict>>
    BY <1>3 DEF N!Receive, N!vendor
  <2>2. N!TypeOK'
    BY <1>1, <2>1 DEF N!TypeOK
  <2>3. StandsAt(cand)'
    BY <1>1, <2>1 DEF StandsAt, ReportSound, Jobless
  <2>4. QED  BY <2>1, <2>2, <2>3, VendorClient
<1>4. ASSUME N!Retry  PROVE VendorInv'
  <2>1. /\ request # "submit" /\ phase' = "waiting" /\ answer' = None /\ tries' = tries + 1
        /\ tries <= MaxRetries
        /\ UNCHANGED <<adapter, cand, request, wire, taken, job, report, verdict>>
    BY <1>4 DEF N!Retry, N!SendOnce, N!MayRetry, N!Safe
  <2>2. N!TypeOK'
    BY <1>1, <2>1, VendorLimits DEF N!TypeOK, N!AnswerType
  <2>3. StandsAt(cand)'
    BY <1>1, <2>1, NothingReported DEF StandsAt, ReportSound, Jobless, N!JobStates
  <2>4. QED  BY <2>1, <2>2, <2>3, VendorClient
<1>5. QED  BY <1>2, <1>3, <1>4

\* What an adapter reports of the answer to a submission.
LEMMA ReportsSound ==
    ASSUME N!TypeOK, NEW a \in N!Answers, NEW r \in N!Reports(a)
    PROVE  /\ r \in N!ReportType /\ r.answer = a
           /\ r.outcome = "rejected" => \/ a \in NoJobAnswers /\ a # N!Lost
                                        \/ a = "garbled"
                                        \/ adapter = "stream" /\ a = "down"
           /\ r.outcome = "rejected" /\ r.failover => a \in NoJobAnswers /\ a # N!Lost
           /\ r.outcome = "running" => a = "content"
<1>1. a \in N!AnswerType /\ adapter \in N!Adapters
  BY DEF N!AnswerType, N!TypeOK
<1>2. N!MovesOn(a) \in BOOLEAN
  BY DEF N!MovesOn
<1>3. N!MovesOn(a) => a \in NoJobAnswers
  BY DEF N!MovesOn, NoJobAnswers
<1>4. N!Lost \notin NoJobAnswers
  BY DEF N!Lost, NoJobAnswers
<1>5. a \in NoJobAnswers \cup {"content", "garbled", "huge", "down", N!Lost}
  BY DEF N!Answers, N!AnswersWithJob, N!AnswersWithoutJob, NoJobAnswers
<1>6. \E o \in N!Outcomes, b \in BOOLEAN :
        /\ r = N!Report(o, b, a)
        /\ o = "rejected" => \/ a \in NoJobAnswers
                             \/ a = "garbled"
                             \/ adapter = "stream" /\ a = "down"
        /\ o = "rejected" /\ b => a \in NoJobAnswers
        /\ o = "running" => a = "content"
  <2>1. CASE adapter = "image"
    <3>1. r \in N!ImageReports(a)
      BY <2>1 DEF N!Reports
    <3>2. CASE a = "content"
      BY <3>1, <3>2 DEF N!ImageReports, N!Outcomes
    <3>3. CASE a \in {"bare", "bareKey", "garbled"}
      BY <1>2, <1>3, <3>1, <3>3 DEF N!ImageReports, N!Rejected, N!Outcomes, NoJobAnswers
    <3>4. CASE a \notin {"content", "bare", "bareKey", "garbled"}
      BY <1>2, <1>3, <1>5, <3>1, <3>4 DEF N!ImageReports, N!HttpError, N!Dispatched, N!Safe,
         N!Outcomes, N!Lost
    <3>5. QED  BY <3>2, <3>3, <3>4
  <2>2. CASE adapter = "video"
    <3>1. r \in N!VideoReports(a)
      BY <2>2 DEF N!Reports
    <3>2. CASE a = "content"
      BY <3>1, <3>2 DEF N!VideoReports, N!Outcomes
    <3>3. CASE a \in {"bare", "bareKey", "garbled"}
      BY <1>2, <1>3, <3>1, <3>3 DEF N!VideoReports, N!Rejected, N!Outcomes, NoJobAnswers
    <3>4. CASE a \notin {"content", "bare", "bareKey", "garbled"}
      BY <1>2, <1>3, <1>5, <3>1, <3>4 DEF N!VideoReports, N!HttpError, N!Dispatched, N!Safe,
         N!Outcomes, N!Lost
    <3>5. QED  BY <3>2, <3>3, <3>4
  <2>3. CASE adapter = "chat"
    <3>1. r \in N!ChatReports(a)
      BY <2>3 DEF N!Reports
    <3>2. CASE a \in {"content", "bare", "bareKey", "garbled"}
      BY <3>1, <3>2 DEF N!ChatReports, N!Outcomes
    <3>3. CASE a \notin {"content", "bare", "bareKey", "garbled"}
      BY <1>2, <1>3, <1>5, <3>1, <3>3 DEF N!ChatReports, N!HttpError, N!Dispatched, N!Safe,
         N!Outcomes, N!Lost
    <3>4. QED  BY <3>2, <3>3
  <2>4. CASE adapter = "stream"
    <3>1. r \in N!StreamReports(a)
      BY <2>4 DEF N!Reports
    <3>2. CASE a \in {"content", "bare", "bareKey", "garbled"}
      BY <3>1, <3>2 DEF N!StreamReports, N!Outcomes
    <3>3. CASE a \in {"huge", "redirect", N!Lost}
      BY <3>1, <3>3 DEF N!StreamReports, N!Outcomes, N!Lost
    <3>4. CASE a \notin {"content", "bare", "bareKey", "garbled", "huge", "redirect", N!Lost}
      BY <1>5, <2>4, <3>1, <3>4 DEF N!StreamReports, N!Outcomes, N!Lost
    <3>5. QED  BY <3>2, <3>3, <3>4
  <2>5. CASE adapter = "cli"
    <3>1. r \in N!CliReports(a)
      BY <2>5 DEF N!Reports
    <3>2. QED  BY <3>1 DEF N!CliReports, N!Outcomes
  <2>6. QED  BY <1>1, <2>1, <2>2, <2>3, <2>4, <2>5 DEF N!Adapters
<1>7. QED  BY <1>1, <1>4, <1>6, ReportTyped

LEMMA VendorReports ==
    ASSUME VendorInv, N!ConcludeSubmission
    PROVE  VendorInv'
<1>1. /\ N!TypeOK /\ cand \in N!Candidates /\ request = "submit" /\ phase = "answered"
      /\ AnswerSound(cand, answer, job, wire)
      /\ phase' = "reported"
      /\ UNCHANGED <<adapter, cand, request, tries, answer, wire, taken, job, verdict>>
  BY DEF VendorInv, N!TypeOK, StandsAt, N!ConcludeSubmission, N!Settled, N!vendor
<1>2. PICK r \in N!Reports(answer) : report' = [report EXCEPT ![cand] = r]
  BY DEF N!ConcludeSubmission
<1>3. /\ r \in N!ReportType /\ r # None
      /\ r.outcome = "rejected" => \/ Jobless(cand)
                                   \/ r.answer = "garbled"
                                   \/ adapter = "stream" /\ r.answer = "down"
      /\ r.outcome = "rejected" /\ r.failover => Jobless(cand)
      /\ r.outcome = "running" => job[cand] # None /\ cand \notin wire
  BY <1>1, ReportsSound, NothingReported DEF AnswerSound, Jobless, N!Lost
<1>4. report'[cand] = r /\ \A c \in N!Candidates \ {cand} : report'[c] = report[c]
  BY <1>1, <1>2 DEF N!TypeOK
<1>5. N!TypeOK'
  BY <1>1, <1>2, <1>3 DEF N!TypeOK
<1>6. OthersSound'
  BY <1>1, <1>4 DEF VendorInv, OthersSound, Untouched, Jobless, N!TypeOK, N!Candidates
<1>7. StandsAt(cand)'
  BY <1>1, <1>3, <1>4 DEF StandsAt, ReportSound, Jobless
<1>8. VerdictSound(cand)'
  BY <1>1 DEF VendorInv, VerdictSound
<1>9. QED  BY <1>5, <1>6, <1>7, <1>8 DEF VendorInv

LEMMA VendorFailsOver ==
    ASSUME VendorInv, N!Failover
    PROVE  VendorInv'
<1>1. /\ N!TypeOK /\ cand \in N!Candidates /\ cand < MaxFailover /\ cand' = cand + 1
      /\ report[cand].outcome = "rejected" /\ report[cand].failover /\ report[cand] # None
      /\ phase' = "prepare" /\ tries' = 0 /\ answer' = None
      /\ UNCHANGED <<adapter, request, wire, taken, job, report, verdict>>
  BY DEF VendorInv, N!TypeOK, StandsAt, N!Failover, N!vendor
<1>2. Jobless(cand) /\ request = "submit"
  BY <1>1 DEF VendorInv, StandsAt, ReportSound
<1>3. cand' \in N!Candidates /\ cand < cand' /\ Untouched(cand')
  BY <1>1, VendorLimits DEF N!Candidates, VendorInv, OthersSound
<1>4. N!TypeOK'
  BY <1>1, <1>3, VendorLimits DEF N!TypeOK, N!AnswerType
<1>5. OthersSound'
  <2>1. \A c \in N!Candidates : c \in Nat
    BY DEF N!Candidates
  <2>2. \A c \in N!Candidates : c < cand' => c < cand \/ c = cand
    BY <1>1, <2>1
  <2>3. \A c \in N!Candidates : c > cand' => c > cand
    BY <1>1, <2>1
  <2>4. QED  BY <1>1, <1>2, <2>2, <2>3 DEF VendorInv, OthersSound, Untouched, Jobless
<1>6. StandsAt(cand)'
  BY <1>1, <1>2, <1>3, NothingReported DEF StandsAt, ReportSound, Untouched, N!JobStates
<1>7. VerdictSound(cand)'
  BY <1>1, <1>2, NothingReported DEF VendorInv, VerdictSound, N!JobStates
<1>8. QED  BY <1>4, <1>5, <1>6, <1>7 DEF VendorInv

\* A vendor's job ends, or an answer to a query or a cancellation comes.
LEMMA VendorJob ==
    ASSUME VendorInv, NEW c \in N!Candidates, job[c] = "running" \/ UNCHANGED job,
           NEW s \in {"succeeded", "failed"},
           job' = [job EXCEPT ![c] = s] \/ UNCHANGED job,
           UNCHANGED <<adapter, cand, phase, request, tries, wire, taken, report, verdict>>,
           answer' \in N!AnswerType,
           request = "submit" => answer' = answer,
           phase = "answered" => answer' # None,
           request = "query" /\ answer' \in {"succeeded", "failed"} => job'[cand] = answer'
    PROVE  VendorInv'
<1>1. N!TypeOK /\ cand \in N!Candidates
  BY DEF VendorInv, N!TypeOK
<1>2. N!TypeOK'
  BY <1>1 DEF N!TypeOK, N!JobStates
<1>3. "running" # None /\ s # None
  BY NothingReported DEF N!JobStates
<1>4. \A d \in N!Candidates :
        /\ job'[d] = None <=> job[d] = None
        /\ job[d] \in {"succeeded", "failed"} => job'[d] = job[d]
  BY <1>1, <1>3 DEF N!TypeOK
<1>5. OthersSound'
  BY <1>4 DEF VendorInv, OthersSound, Untouched, Jobless
<1>6. ReportSound(cand, report[cand])'
  BY <1>1, <1>4 DEF VendorInv, StandsAt, ReportSound, Jobless
<1>7. request = "submit" /\ phase \in {"waiting", "answered"} /\ answer # None
        => AnswerSound(cand, answer, job', wire)
  BY <1>1, <1>4 DEF VendorInv, StandsAt, AnswerSound
<1>8. StandsAt(cand)'
  BY <1>1, <1>4, <1>6, <1>7 DEF VendorInv, StandsAt, Untouched
<1>9. VerdictSound(cand)'
  BY <1>1, <1>4 DEF VendorInv, VerdictSound
<1>10. QED  BY <1>2, <1>5, <1>8, <1>9 DEF VendorInv

LEMMA VendorAnswered ==
    ASSUME VendorInv, N!VendorAnswers
    PROVE  VendorInv'
<1>1. /\ phase = "waiting" /\ request \in {"query", "cancel"} /\ cand \in N!Candidates
      /\ job \in [N!Candidates -> N!JobStates \cup {None}]
      /\ UNCHANGED <<adapter, cand, phase, request, tries, wire, taken, report, verdict>>
  BY DEF VendorInv, N!TypeOK, N!VendorAnswers
<1>2. CASE request = "query" /\ answer' = job[cand] /\ job' = job
  BY <1>1, <1>2, VendorJob DEF N!AnswerType
<1>3. CASE /\ request = "cancel" /\ answer' = "content"
           /\ job' = [job EXCEPT ![cand] = IF @ = "running" THEN "failed" ELSE @]
  <2>1. \/ job[cand] = "running" /\ job' = [job EXCEPT ![cand] = "failed"]
        \/ UNCHANGED job
    BY <1>1, <1>3
  <2>2. answer' \in N!AnswerType
    BY <1>3 DEF N!AnswerType, N!Answers, N!AnswersWithJob
  <2>3. QED  BY <1>1, <1>3, <2>1, <2>2, VendorJob
<1>4. CASE /\ answer' \in {"garbled", "huge", "refused", "badKey", "limited", "down", "redirect"}
           /\ job' = job
  <2>1. answer' \in N!AnswerType /\ answer' \notin {"succeeded", "failed"}
    BY <1>4 DEF N!AnswerType, N!Answers, N!AnswersWithoutJob
  <2>2. QED  BY <1>1, <1>4, <2>1, VendorJob
<1>5. QED  BY <1>2, <1>3, <1>4 DEF N!VendorAnswers

LEMMA VendorEnds ==
    ASSUME VendorInv, NEW c \in N!Candidates, NEW s \in {"succeeded", "failed"}, N!JobEnds(c, s)
    PROVE  VendorInv'
<1>1. /\ job[c] = "running" /\ job' = [job EXCEPT ![c] = s]
      /\ UNCHANGED <<adapter, cand, phase, request, tries, answer, wire, taken, report, verdict>>
  BY DEF N!JobEnds, N!http
<1>2. /\ answer \in N!AnswerType
      /\ phase = "answered" => answer # None
      /\ request = "query" /\ answer \in {"succeeded", "failed"} => job[cand] = answer
      /\ cand \in N!Candidates /\ job \in [N!Candidates -> N!JobStates \cup {None}]
  BY DEF VendorInv, N!TypeOK, StandsAt
<1>3. request = "query" /\ answer' \in {"succeeded", "failed"} => job'[cand] = answer'
  BY <1>1, <1>2
<1>4. QED  BY <1>1, <1>2, <1>3, VendorJob

LEMMA VendorAsks ==
    ASSUME VendorInv, \E r \in {"query", "cancel"} : N!Ask(r)
    PROVE  VendorInv'
<1>1. PICK r \in {"query", "cancel"} :
        /\ phase = "reported" /\ report[cand].outcome = "running" /\ report[cand] # None
        /\ request' = r /\ phase' = "waiting" /\ tries' = 1 /\ answer' = None
        /\ UNCHANGED <<adapter, cand, wire, taken, job, report, verdict>>
  BY DEF VendorInv, StandsAt, N!Ask, N!vendor
<1>2. N!TypeOK'
  BY <1>1, VendorLimits DEF VendorInv, N!TypeOK, N!AnswerType
<1>3. OthersSound'
  BY <1>1 DEF VendorInv, OthersSound, Untouched, Jobless
<1>4. StandsAt(cand)'
  BY <1>1, NothingReported DEF VendorInv, StandsAt, ReportSound, Jobless, N!JobStates
<1>5. VerdictSound(cand)'
  BY <1>1 DEF VendorInv, VerdictSound
<1>6. QED  BY <1>2, <1>3, <1>4, <1>5 DEF VendorInv

LEMMA VendorConcludes ==
    ASSUME VendorInv, N!ConcludeQuery \/ N!ConcludeCancel
    PROVE  VendorInv'
<1>1. /\ phase = "answered" /\ phase' = "reported" /\ request # "submit"
      /\ UNCHANGED <<adapter, cand, request, tries, answer, wire, taken, job, report>>
  BY DEF N!ConcludeQuery, N!ConcludeCancel, N!Settled, N!vendor
<1>2. /\ N!TypeOK /\ StandsAt(cand) /\ answer \in N!AnswerType
      /\ request = "query" /\ answer \in {"succeeded", "failed"} => job[cand] = answer
  BY DEF VendorInv, N!TypeOK, StandsAt
<1>3. OthersSound'
  BY <1>1 DEF VendorInv, OthersSound, Untouched, Jobless
<1>4. StandsAt(cand)'
  BY <1>1, <1>2 DEF StandsAt, ReportSound, Jobless
<1>5. CASE UNCHANGED verdict
  BY <1>1, <1>2, <1>3, <1>4, <1>5 DEF VendorInv, VerdictSound, N!TypeOK
<1>6. CASE request = "query" /\ \E v \in N!Verdicts(answer) : verdict' = [result |-> v, answer |-> answer]
  <2>1. PICK v \in N!Verdicts(answer) : verdict' = [result |-> v, answer |-> answer]
    BY <1>6
  <2>2. /\ v \in N!JobStates \cup {"error"}
        /\ v \in {"succeeded", "failed"} => v = answer \/ answer = "garbled"
    BY DEF N!Verdicts, N!JobStates
  <2>3. verdict' \in N!VerdictType /\ verdict'.result = v /\ verdict'.answer = answer
    BY <1>2, <2>1, <2>2 DEF N!VerdictType
  <2>4. N!TypeOK'
    BY <1>1, <1>2, <2>3 DEF N!TypeOK
  <2>5. VerdictSound(cand)'
    BY <1>1, <1>2, <1>6, <2>2, <2>3 DEF VerdictSound
  <2>6. QED  BY <1>3, <1>4, <2>4, <2>5 DEF VendorInv
<1>7. QED  BY <1>5, <1>6 DEF N!ConcludeQuery, N!ConcludeCancel

LEMMA VendorCorrect == Spec => []VendorInv
<1>1. Init => VendorInv
  BY VendorInit DEF Init
<1>2. VendorInv /\ [Next]_vars => VendorInv'
  <2> SUFFICES ASSUME VendorInv, [Next]_vars  PROVE VendorInv'
    OBVIOUS
  <2>1. CASE N!Next
    BY <2>1, VendorPrepares, VendorWaits, VendorReports, VendorConcludes, VendorFailsOver,
       VendorAnswered, VendorTaken, VendorEnds, VendorAsks DEF N!Next
  <2>2. CASE UNCHANGED vendorVars
    <3>1. N!TypeOK'
      BY <2>2 DEF vendorVars, VendorInv, N!TypeOK
    <3>2. StandsAt(cand)'
      BY <2>2 DEF vendorVars, VendorInv, StandsAt, ReportSound, Jobless, Untouched
    <3>3. QED
      BY <2>2, <3>1, <3>2 DEF vendorVars, VendorInv, OthersSound, VerdictSound, Jobless, Untouched
  <2>3. QED  BY <2>1, <2>2, OneMoves
<1>3. QED  BY <1>1, <1>2, PTL DEF Spec

\* However late a vendor takes a submission and whatever becomes of its answers, an
\* invocation leaves at most one job; an attempt reported as rejected has none and
\* gets none, and a job is reported finished only as it did, except where the answer
\* was no JSON or a streaming call got a 5xx: the adapters, httpJson and the loop of
\* InvokeService.invoke.
THEOREM VendorJobsReportedCorrect == Spec => []VendorJobsReported
<1>1. ASSUME VendorInv  PROVE N!OneJobPerInvocation
  <2> DEFINE Had == {c \in N!Candidates : job[c] # None}
  <2>1. Had \subseteq {cand}
    BY <1>1 DEF VendorInv, OthersSound, Untouched, Jobless, N!TypeOK, N!Candidates
  <2>2. IsFiniteSet({cand}) /\ Cardinality({cand}) = 1
    BY FS_Singleton
  <2>3. Cardinality(Had) <= 1
    BY <2>1, <2>2, FS_Subset
  <2>4. N!Cardinality(Had) = Cardinality(Had)
    BY DEF N!Cardinality, Cardinality
  <2>5. QED  BY <1>1, <2>3, <2>4 DEF N!OneJobPerInvocation, VendorInv, OthersSound
<1>2. ASSUME VendorInv  PROVE N!ReportsAreTrue
  <2>1. ASSUME NEW c \in N!Candidates, report[c] # None, report[c].outcome = "rejected"
        PROVE  \/ job[c] = None /\ c \notin wire
               \/ report[c].answer = "garbled"
               \/ adapter = "stream" /\ report[c].answer = "down"
    <3>1. c \in Nat /\ cand \in Nat
      BY <1>2 DEF VendorInv, N!TypeOK, N!Candidates
    <3>2. CASE c = cand
      BY <1>2, <2>1, <3>2 DEF VendorInv, StandsAt, ReportSound, Jobless
    <3>3. CASE c # cand
      BY <1>2, <2>1, <3>1, <3>3 DEF VendorInv, OthersSound, Untouched, Jobless
    <3>4. QED  BY <3>2, <3>3
  <2>2. QED  BY <1>2, <2>1 DEF N!ReportsAreTrue, VendorInv, VerdictSound
<1>3. VendorInv => VendorJobsReported
  BY <1>1, <1>2 DEF VendorJobsReported
<1>4. QED  BY <1>3, VendorCorrect, PTL

(***************************************************************************)
(* Session.                                                                *)
(***************************************************************************)
\* The row r of a session at the time n.
RowSound(r, n) == (r.status = "none" => r.exp = 0) /\ r.exp <= n + Ttl

\* The cache entry l of a session with the row r: it was read from the row, and
\* its TTL ends with the session or is the minimal one.
LiveSound(l, r, n) == l.exp <= r.exp /\ (l.until <= l.exp \/ l.until <= n + 1)

\* The tombstone b: only a revoked session has one, and it lasts as long as the
\* expiry the kick had read.
TombSound(b, r, n) ==
    b # S!NoEntry =>
        /\ r.status = "revoked"
        /\ (b.until > n /\ b.until >= b.exp) \/ b.exp <= n

\* What a request r has read of the rows ro by the step it is at.
RequestFits(r, ro, n) ==
    /\ r.at = "issue" => r.exp <= n + Ttl
    /\ r.at \in {"issue", "update"} => \A t \in r.seen : ro[t].status # "none"
    /\ r.at = "update" /\ r.op = "revoke" => r.token \in Tokens
    /\ r.at \in {"fill", "evict"} => \A t \in r.seen : ro[t].status = "revoked"
    /\ r.at = "kick" => r.token \in Tokens /\ ro[r.token].status = "revoked"
    /\ r.at \in {"fill", "cache", "recache"} => r.token \in Tokens /\ r.exp <= ro[r.token].exp
    /\ r.at \in {"find", "cache", "extend"} => r.token \in Tokens /\ ro[r.token].status # "none"

SessionInv ==
    /\ S!TypeOK
    /\ \A t \in Tokens :
         RowSound(row[t], now) /\ LiveSound(live[t], row[t], now) /\ TombSound(tomb[t], row[t], now)
    /\ \A p \in Requests : RequestFits(req[p], row, now)

\* Rows are created, revoked and extended, and never go back.
RowsGrow(ro, ro2) ==
    \A t \in Tokens :
        /\ ro2[t].exp >= ro[t].exp
        /\ ro[t].status # "none" => ro2[t].status # "none"
        /\ ro[t].status = "revoked" => ro2[t].status = "revoked"

LEMMA IdleTyped == S!Idle \in S!ReqType /\ S!Idle.at = "idle"
<1>1. 0 \in S!Times
  BY SessionLimits DEF S!Times
<1>2. S!NotDue \in [Tokens -> S!Times]
  BY <1>1 DEF S!NotDue
<1>3. QED  BY <1>1, <1>2 DEF S!Idle, S!ReqType, S!Steps

LEMMA IdleRequestFits ==
    ASSUME NEW ro, NEW n
    PROVE  RequestFits(S!Idle, ro, n)
BY IdleTyped DEF RequestFits

LEMMA SessionInit == S!Init => SessionInv
<1> SUFFICES ASSUME S!Init  PROVE SessionInv
  OBVIOUS
<1>1. 0 \in S!Times /\ S!NoEntry \in S!EntryType /\ S!NoEntry.exp = 0 /\ S!NoEntry.until = 0
  BY SessionLimits DEF S!Times, S!NoEntry, S!EntryType
<1>2. \A t \in Tokens : /\ row[t] \in S!RowType /\ row[t].status = "none" /\ row[t].exp = 0
                        /\ live[t] = S!NoEntry /\ tomb[t] = S!NoEntry
  BY <1>1 DEF S!Init, S!RowType
<1>3. S!TypeOK
  <2>1. row \in [Tokens -> S!RowType]
    BY <1>2 DEF S!Init
  <2>2. live \in [Tokens -> S!EntryType] /\ tomb \in [Tokens -> S!EntryType]
    BY <1>1 DEF S!Init
  <2>3. req \in [Requests -> S!ReqType] /\ now \in 0..MaxTime
    BY IdleTyped, SessionLimits DEF S!Init
  <2>4. QED  BY <2>1, <2>2, <2>3 DEF S!TypeOK
<1>4. now = 0 /\ \A p \in Requests : req[p] = S!Idle
  BY DEF S!Init
<1>5. \A p \in Requests : RequestFits(req[p], row, now)
  BY <1>4, IdleRequestFits
<1>6. \A t \in Tokens :
        RowSound(row[t], now) /\ LiveSound(live[t], row[t], now) /\ TombSound(tomb[t], row[t], now)
  BY <1>1, <1>2, <1>4, SessionLimits DEF RowSound, LiveSound, TombSound
<1>7. QED  BY <1>3, <1>5, <1>6 DEF SessionInv

LEMMA FitsGrow ==
    ASSUME SessionInv, NEW p \in Requests, NEW ro2, NEW n2 \in Nat, RowsGrow(row, ro2), now <= n2,
           ro2 \in [Tokens -> S!RowType]
    PROVE  RequestFits(req[p], ro2, n2)
<1> DEFINE r == req[p]
<1>1. /\ r \in S!ReqType /\ row \in [Tokens -> S!RowType] /\ now \in Nat /\ Ttl \in Nat
      /\ RequestFits(r, row, now)
  BY SessionLimits DEF SessionInv, S!TypeOK
<1>2. /\ r.exp \in Nat /\ r.seen \subseteq Tokens
      /\ \A t \in Tokens : row[t].exp \in Nat /\ ro2[t].exp \in Nat
  BY <1>1, SessionLimits DEF S!ReqType, S!RowType, S!Times
<1>3. r.at = "issue" => r.exp <= n2 + Ttl
  BY <1>1, <1>2 DEF RequestFits
<1>4. r.at \in {"fill", "cache", "recache"} => r.token \in Tokens /\ r.exp <= ro2[r.token].exp
  BY <1>1, <1>2 DEF RequestFits, RowsGrow
<1>5. QED  BY <1>1, <1>2, <1>3, <1>4 DEF RequestFits, RowsGrow

\* One request goes on to n.
LEMMA SessionContinue ==
    ASSUME SessionInv, NEW p \in Requests, NEW n, S!Continue(p, n), n \in S!ReqType,
           RequestFits(n, row', now'), RowsGrow(row, row'), now' = now,
           row' \in [Tokens -> S!RowType]
    PROVE  /\ req' \in [Requests -> S!ReqType]
           /\ \A q \in Requests : RequestFits(req'[q], row', now')
<1>1. req \in [Requests -> S!ReqType] /\ now \in Nat
  BY SessionLimits DEF SessionInv, S!TypeOK
<1>2. /\ req' \in [Requests -> S!ReqType] /\ req'[p] = n
      /\ \A q \in Requests \ {p} : req'[q] = req[q]
  BY <1>1 DEF S!Continue
<1>3. QED  BY <1>1, <1>2, FitsGrow

LEMMA RowsStay == ASSUME SessionInv, UNCHANGED row  PROVE RowsGrow(row, row') /\ row' \in [Tokens -> S!RowType]
<1>1. \A t \in Tokens : row[t].exp \in Nat
  BY SessionLimits DEF SessionInv, S!TypeOK, S!RowType, S!Times
<1>2. QED  BY <1>1 DEF RowsGrow, SessionInv, S!TypeOK

LEMMA LiveWritten ==
    ASSUME SessionInv, NEW t \in Tokens, NEW exp \in S!Times, exp <= row[t].exp, S!WriteLive(t, exp)
    PROVE  /\ live' \in [Tokens -> S!EntryType]
           /\ \A u \in Tokens : LiveSound(live'[u], row[u], now)
<1>1. /\ now \in 0..MaxTime /\ live \in [Tokens -> S!EntryType] /\ exp \in Nat
      /\ exp <= MaxTime + Ttl
  BY SessionLimits DEF SessionInv, S!TypeOK, S!Times
<1>2. S!Remaining(exp) \in Nat /\ now + S!Remaining(exp) = IF exp > now THEN exp ELSE now + 1
  BY <1>1 DEF S!Remaining, S!AtLeastOne
<1>3. S!LiveTtl(exp) \in Nat /\ S!LiveTtl(exp) <= S!Remaining(exp)
  BY <1>2, SessionLimits DEF S!LiveTtl
<1>4. /\ now + S!LiveTtl(exp) \in Nat
      /\ now + S!LiveTtl(exp) <= exp \/ now + S!LiveTtl(exp) <= now + 1
  BY <1>1, <1>2, <1>3
<1>5. now + S!LiveTtl(exp) \in S!Times
  BY <1>1, <1>4, SessionLimits DEF S!Times
<1>6. PICK e : e = [exp |-> exp, until |-> now + S!LiveTtl(exp)]
  OBVIOUS
<1>7. /\ e \in S!EntryType /\ LiveSound(e, row[t], now)
      /\ live' = [live EXCEPT ![t] = e]
  BY <1>4, <1>5, <1>6 DEF S!EntryType, LiveSound, S!WriteLive
<1>8. live'[t] = e /\ \A u \in Tokens \ {t} : live'[u] = live[u]
  BY <1>1, <1>7
<1>9. QED  BY <1>1, <1>7, <1>8 DEF SessionInv

LEMMA Kicked ==
    ASSUME SessionInv, NEW t \in Tokens, NEW exp \in S!Times, row[t].status = "revoked",
           S!Kick(t, exp)
    PROVE  /\ live' \in [Tokens -> S!EntryType] /\ tomb' \in [Tokens -> S!EntryType]
           /\ \A u \in Tokens : LiveSound(live'[u], row[u], now) /\ TombSound(tomb'[u], row[u], now)
<1>1. /\ now \in 0..MaxTime /\ live \in [Tokens -> S!EntryType] /\ tomb \in [Tokens -> S!EntryType]
      /\ exp \in Nat /\ exp <= MaxTime + Ttl /\ row[t].exp \in Nat
  BY SessionLimits DEF SessionInv, S!TypeOK, S!Times, S!RowType
<1>2. S!Remaining(exp) \in Nat /\ now + S!Remaining(exp) = IF exp > now THEN exp ELSE now + 1
  BY <1>1 DEF S!Remaining, S!AtLeastOne
<1>3. PICK e : e = [exp |-> exp, until |-> now + S!Remaining(exp)]
  OBVIOUS
<1>4. /\ e \in S!EntryType /\ TombSound(e, row[t], now)
      /\ tomb' = [tomb EXCEPT ![t] = e] /\ live' = [live EXCEPT ![t] = S!NoEntry]
  BY <1>1, <1>2, <1>3, SessionLimits DEF S!EntryType, S!Times, TombSound, S!Kick
<1>5. S!NoEntry \in S!EntryType /\ LiveSound(S!NoEntry, row[t], now)
  BY <1>1, SessionLimits DEF S!NoEntry, S!EntryType, S!Times, LiveSound
<1>6. /\ tomb'[t] = e /\ \A u \in Tokens \ {t} : tomb'[u] = tomb[u]
      /\ live'[t] = S!NoEntry /\ \A u \in Tokens \ {t} : live'[u] = live[u]
  BY <1>1, <1>4
<1>7. QED  BY <1>1, <1>4, <1>5, <1>6 DEF SessionInv

\* The rows, the cache and the tombstones stay; one request goes on.
LEMMA SessionReads ==
    ASSUME SessionInv, NEW p \in Requests, NEW n, S!Continue(p, n), n \in S!ReqType,
           RequestFits(n, row, now), UNCHANGED <<row, live, tomb, now>>
    PROVE  SessionInv'
<1>1. /\ req' \in [Requests -> S!ReqType]
      /\ \A q \in Requests : RequestFits(req'[q], row', now')
  BY RowsStay, SessionContinue
<1>2. QED  BY <1>1 DEF SessionInv, S!TypeOK

\* The request writes the cache and goes on.
LEMMA SessionCaches ==
    ASSUME SessionInv, NEW p \in Requests, NEW n, S!Continue(p, n), n \in S!ReqType,
           RequestFits(n, row, now), UNCHANGED <<row, tomb, now>>,
           NEW t \in Tokens, NEW exp \in S!Times, exp <= row[t].exp, S!WriteLive(t, exp)
    PROVE  SessionInv'
<1>1. /\ req' \in [Requests -> S!ReqType]
      /\ \A q \in Requests : RequestFits(req'[q], row', now')
  BY RowsStay, SessionContinue
<1>2. QED  BY <1>1, LiveWritten DEF SessionInv, S!TypeOK

\* The request kicks a revoked session and goes on.
LEMMA SessionKicks ==
    ASSUME SessionInv, NEW p \in Requests, NEW n, S!Continue(p, n), n \in S!ReqType,
           RequestFits(n, row, now), UNCHANGED <<row, now>>,
           NEW t \in Tokens, NEW exp \in S!Times, row[t].status = "revoked", S!Kick(t, exp)
    PROVE  SessionInv'
<1>1. /\ req' \in [Requests -> S!ReqType]
      /\ \A q \in Requests : RequestFits(req'[q], row', now')
  BY RowsStay, SessionContinue
<1>2. QED  BY <1>1, Kicked DEF SessionInv, S!TypeOK

\* The request writes rows, which only grow, and goes on.
LEMMA SessionWrites ==
    ASSUME SessionInv, NEW p \in Requests, NEW n, S!Continue(p, n), n \in S!ReqType,
           RequestFits(n, row', now), UNCHANGED <<live, tomb, now>>,
           RowsGrow(row, row'), row' \in [Tokens -> S!RowType],
           \A t \in Tokens : RowSound(row'[t], now)
    PROVE  SessionInv'
<1>1. /\ req' \in [Requests -> S!ReqType]
      /\ \A q \in Requests : RequestFits(req'[q], row', now')
  BY SessionContinue
<1>2. ASSUME NEW t \in Tokens
      PROVE  LiveSound(live'[t], row'[t], now') /\ TombSound(tomb'[t], row'[t], now')
  <2>1. live[t].exp \in Nat /\ row[t].exp \in Nat /\ row'[t].exp \in Nat
    BY SessionLimits DEF SessionInv, S!TypeOK, S!EntryType, S!RowType, S!Times
  <2>2. QED  BY <2>1 DEF SessionInv, LiveSound, TombSound, RowsGrow
<1>3. QED  BY <1>1, <1>2 DEF SessionInv, S!TypeOK

\* What the requests and the rows are, for the steps below.
LEMMA SessionTypes ==
    ASSUME SessionInv, NEW p \in Requests
    PROVE  /\ req[p] \in S!ReqType /\ RequestFits(req[p], row, now)
           /\ row \in [Tokens -> S!RowType] /\ now \in 0..MaxTime
           /\ now + Ttl \in S!Times /\ 0 \in S!Times
           /\ \A t \in Tokens : row[t].exp \in S!Times
           /\ S!Active \subseteq Tokens
           /\ \A T : S!Expiries(T) \in [Tokens -> S!Times]
<1>1. /\ row \in [Tokens -> S!RowType] /\ now \in 0..MaxTime /\ req[p] \in S!ReqType
      /\ RequestFits(req[p], row, now)
  BY DEF SessionInv, S!TypeOK
<1>2. now + Ttl \in S!Times /\ 0 \in S!Times
  BY <1>1, SessionLimits DEF S!Times
<1>3. \A t \in Tokens : row[t].exp \in S!Times
  BY <1>1 DEF S!RowType
<1>4. S!Active \subseteq Tokens
  BY DEF S!Active
<1>5. ASSUME NEW T  PROVE S!Expiries(T) \in [Tokens -> S!Times]
  BY <1>2, <1>3 DEF S!Expiries
<1>6. QED  BY <1>1, <1>2, <1>3, <1>4, <1>5

LEMMA SessionEnds ==
    ASSUME SessionInv, NEW p \in Requests, S!End(p), UNCHANGED <<row, live, tomb, now>>
    PROVE  SessionInv'
BY IdleTyped, IdleRequestFits, SessionReads DEF S!End

LEMMA SessionLooks ==
    ASSUME SessionInv, NEW p \in Requests,
           \/ \E d \in Devices \cup {None} : S!IssueRead(p, d)
           \/ \E t \in Tokens, op \in {"validate", "refresh"} : S!Judge(p, t, op)
           \/ S!Find(p)
           \/ \E t \in Tokens : S!FindToRevoke(p, t)
           \/ S!FindAll(p)
    PROVE  SessionInv'
<1>1. ASSUME NEW d \in Devices \cup {None}, S!IssueRead(p, d)  PROVE SessionInv'
  <2>1. PICK n : n = [S!Idle EXCEPT !.at = "issue", !.op = "issue", !.dev = d, !.seen = S!Active,
                        !.insert = d # None /\ ~S!KnownDevice(d), !.exp = now + Ttl]
    OBVIOUS
  <2>2. S!Continue(p, n) /\ UNCHANGED <<row, live, tomb, now>>
    BY <1>1, <2>1 DEF S!IssueRead
  <2>3. /\ n \in S!ReqType /\ n.at = "issue" /\ n.op = "issue" /\ n.seen = S!Active
        /\ n.exp = now + Ttl
    BY ZenonT(30), <2>1, IdleTyped, SessionTypes DEF S!ReqType, S!Steps
  <2>4. RequestFits(n, row, now)
    <3>1. \A t \in S!Active : row[t].status # "none"
      BY DEF S!Active
    <3>2. now + Ttl \in Nat
      BY SessionTypes, SessionLimits DEF S!Times
    <3>3. n.exp <= now + Ttl
      BY <2>3, <3>2
    <3>4. QED  BY <2>3, <3>1, <3>3 DEF RequestFits
  <2>5. QED  BY <2>2, <2>3, <2>4, SessionReads
<1>2. ASSUME NEW t \in Tokens, NEW op \in {"validate", "refresh"}, S!Judge(p, t, op)
      PROVE  SessionInv'
  <2>1. PICK n : \/ n = [S!Idle EXCEPT !.at = "extend", !.op = op, !.token = t] /\ S!Continue(p, n)
                 \/ n = [S!Idle EXCEPT !.at = "find", !.op = op, !.token = t] /\ S!Continue(p, n)
    BY <1>2 DEF S!Judge
  <2>2. n \in S!ReqType /\ n.at \in {"extend", "find"} /\ n.token = t
    BY <2>1, IdleTyped DEF S!ReqType, S!Steps
  <2>3. row[t].status # "none" /\ UNCHANGED <<row, live, tomb, now>>
    BY <1>2 DEF S!Judge
  <2>4. RequestFits(n, row, now)
    BY <2>2, <2>3 DEF RequestFits
  <2>5. QED  BY <2>1, <2>2, <2>3, <2>4, SessionReads
<1>3. ASSUME S!Find(p)  PROVE SessionInv'
  <2> DEFINE t == req[p].token
  <2>1. req[p].at = "find" /\ t \in Tokens /\ row[t].status # "none" /\ UNCHANGED <<row, live, tomb, now>>
    BY <1>3, SessionTypes DEF S!Find, S!At, RequestFits
  <2>2. CASE S!End(p)
    BY <2>1, <2>2, SessionEnds
  <2>3. CASE S!Continue(p, [req[p] EXCEPT !.at = "cache", !.exp = row[t].exp])
    <3>1. PICK n : n = [req[p] EXCEPT !.at = "cache", !.exp = row[t].exp]
      OBVIOUS
    <3>2. n \in S!ReqType /\ n.at = "cache" /\ n.exp = row[t].exp /\ n.token = t
      BY <2>1, <3>1, SessionTypes DEF S!ReqType, S!Steps
    <3>3. row[t].exp \in Nat
      BY <2>1, SessionTypes, SessionLimits DEF S!Times
    <3>4. RequestFits(n, row, now)
      BY <2>1, <3>2, <3>3 DEF RequestFits
    <3>5. QED  BY <2>1, <2>3, <3>1, <3>2, <3>4, SessionReads
  <2>4. QED  BY <1>3, <2>2, <2>3 DEF S!Find
<1>4. ASSUME NEW t \in Tokens, S!FindToRevoke(p, t)  PROVE SessionInv'
  <2>1. PICK n : n = [S!Idle EXCEPT !.at = "update", !.op = "revoke", !.token = t, !.exp = row[t].exp]
    OBVIOUS
  <2>2. S!Continue(p, n) /\ UNCHANGED <<row, live, tomb, now>>
    BY <1>4, <2>1 DEF S!FindToRevoke
  <2>3. n \in S!ReqType /\ n.at = "update" /\ n.seen = {} /\ n.token = t
    BY <2>1, IdleTyped, SessionTypes DEF S!ReqType, S!Steps, S!Idle
  <2>4. RequestFits(n, row, now)
    BY <2>3 DEF RequestFits
  <2>5. QED  BY <2>2, <2>3, <2>4, SessionReads
<1>5. ASSUME S!FindAll(p)  PROVE SessionInv'
  <2>1. PICK n : n = [S!Idle EXCEPT !.at = "update", !.op = "all", !.seen = S!Active,
                                    !.left = S!Expiries(S!Active)]
    OBVIOUS
  <2>2. S!Continue(p, n) /\ UNCHANGED <<row, live, tomb, now>>
    BY <1>5, <2>1 DEF S!FindAll
  <2>3. n \in S!ReqType /\ n.at = "update" /\ n.op = "all" /\ n.seen = S!Active
    BY <2>1, IdleTyped, SessionTypes DEF S!ReqType, S!Steps
  <2>4. RequestFits(n, row, now)
    BY <2>3 DEF RequestFits, S!Active
  <2>5. QED  BY <2>2, <2>3, <2>4, SessionReads
<1>6. QED  BY <1>1, <1>2, <1>3, <1>4, <1>5

\* Revoking sessions is a growth of the rows.
LEMMA RevokeGrows ==
    ASSUME SessionInv, NEW T, S!Revoke(T)
    PROVE  /\ RowsGrow(row, row') /\ row' \in [Tokens -> S!RowType]
           /\ \A t \in Tokens : /\ RowSound(row'[t], now)
                                /\ t \in T => row'[t].status = "revoked"
<1>1. row \in [Tokens -> S!RowType] /\ \A t \in Tokens : RowSound(row[t], now)
  BY DEF SessionInv, S!TypeOK
<1>2. ASSUME NEW t \in Tokens
      PROVE  /\ row'[t] \in S!RowType
             /\ row'[t].exp = row[t].exp
             /\ row'[t].status = IF t \in T THEN "revoked" ELSE row[t].status
  BY <1>1 DEF S!Revoke, S!RowType
<1>3. \A t \in Tokens : row[t].exp \in Nat
  BY <1>1, SessionLimits DEF S!RowType, S!Times
<1>4. row' \in [Tokens -> S!RowType]
  BY <1>2 DEF S!Revoke
<1>5. RowsGrow(row, row')
  BY <1>2, <1>3 DEF RowsGrow
<1>6. QED  BY <1>1, <1>2, <1>4, <1>5 DEF RowSound

LEMMA SessionRevokes ==
    ASSUME SessionInv, NEW p \in Requests, S!UpdateRevoked(p) \/ S!UpdateAll(p)
    PROVE  SessionInv'
<1>1. ASSUME S!UpdateRevoked(p)  PROVE SessionInv'
  <2>1. req[p].at = "update" /\ req[p].token \in Tokens
    BY <1>1, SessionTypes DEF S!UpdateRevoked, S!At, RequestFits
  <2>2. PICK n : n = [req[p] EXCEPT !.at = "kick"]
    OBVIOUS
  <2>3. S!Continue(p, n) /\ UNCHANGED <<live, tomb, now>> /\ S!Revoke({req[p].token})
    BY <1>1, <2>2 DEF S!UpdateRevoked
  <2>4. n \in S!ReqType /\ n.at = "kick" /\ n.token = req[p].token
    BY <2>2, SessionTypes DEF S!ReqType, S!Steps
  <2>5. /\ RowsGrow(row, row') /\ row' \in [Tokens -> S!RowType]
        /\ \A t \in Tokens : RowSound(row'[t], now)
        /\ row'[n.token].status = "revoked"
    BY <2>1, <2>3, <2>4, RevokeGrows
  <2>6. RequestFits(n, row', now)
    BY <2>1, <2>4, <2>5 DEF RequestFits
  <2>7. QED  BY <2>3, <2>4, <2>5, <2>6, SessionWrites
<1>2. ASSUME S!UpdateAll(p)  PROVE SessionInv'
  <2>1. /\ req[p].at = "update" /\ req[p].seen \subseteq Tokens
        /\ \A t \in req[p].seen : row[t].status # "none"
    BY <1>2, SessionTypes DEF S!UpdateAll, S!At, RequestFits, S!ReqType
  <2>2. PICK n : n = [req[p] EXCEPT !.at = "evict"]
    OBVIOUS
  <2>3. S!Continue(p, n) /\ UNCHANGED <<live, tomb, now>> /\ S!Revoke(S!Active)
    BY <1>2, <2>2 DEF S!UpdateAll
  <2>4. n \in S!ReqType /\ n.at = "evict" /\ n.seen = req[p].seen
    BY <2>2, SessionTypes DEF S!ReqType, S!Steps
  <2>5. /\ RowsGrow(row, row') /\ row' \in [Tokens -> S!RowType]
        /\ \A t \in Tokens : /\ RowSound(row'[t], now)
                             /\ t \in S!Active => row'[t].status = "revoked"
    BY <2>3, RevokeGrows
  <2>6. ASSUME NEW t \in req[p].seen  PROVE row'[t].status = "revoked"
    <3>1. t \in Tokens /\ row[t].status \in {"active", "revoked"}
      BY <2>1, SessionTypes DEF S!RowType
    <3>2. QED  BY <2>5, <3>1 DEF S!Active, RowsGrow
  <2>7. RequestFits(n, row', now)
    BY <2>4, <2>6 DEF RequestFits
  <2>8. QED  BY <2>3, <2>4, <2>5, <2>7, SessionWrites
<1>3. QED  BY <1>1, <1>2

LEMMA SessionCreates ==
    ASSUME SessionInv, NEW p \in Requests, NEW t \in Tokens, NEW victims, S!IssueCommit(p, t, victims)
    PROVE  SessionInv'
<1> DEFINE gone == {s \in req[p].seen : req[p].dev # None /\ row[s].dev = req[p].dev} \cup victims
<1>1. /\ req[p].at = "issue" /\ row[t].status = "none" /\ victims \subseteq req[p].seen
      /\ row' = [s \in Tokens |->
                   IF s = t THEN [status |-> "active", exp |-> req[p].exp, dev |-> req[p].dev]
                   ELSE IF s \in gone THEN [row[s] EXCEPT !.status = "revoked"] ELSE row[s]]
      /\ S!Continue(p, [req[p] EXCEPT !.at = "fill", !.token = t, !.seen = gone,
                                      !.left = S!Expiries(gone)])
      /\ UNCHANGED <<live, tomb, now>>
  BY DEF S!IssueCommit, S!At
<1>2. /\ req[p] \in S!ReqType /\ req[p].exp <= now + Ttl
      /\ row \in [Tokens -> S!RowType] /\ \A s \in Tokens : RowSound(row[s], now)
      /\ S!Expiries(gone) \in [Tokens -> S!Times]
      /\ now \in Nat /\ Ttl \in Nat
  BY <1>1, SessionTypes, SessionLimits DEF RequestFits, SessionInv
<1>3. req[p].exp \in S!Times /\ req[p].dev \in Devices \cup {None} /\ req[p].seen \subseteq Tokens
  BY <1>2 DEF S!ReqType
<1>4. gone \subseteq req[p].seen /\ gone \subseteq Tokens
  BY <1>1, <1>3
<1>5. \A s \in gone : row[s].status # "none"
  BY <1>1, <1>4, SessionTypes DEF RequestFits
<1> HIDE DEF gone
<1>6. \A s \in Tokens : row[s].exp \in Nat
  BY <1>2, SessionLimits DEF S!RowType, S!Times
<1>7. /\ row'[t].status = "active" /\ row'[t].exp = req[p].exp /\ row'[t] \in S!RowType
      /\ row[t].exp = 0
  BY <1>1, <1>2, <1>3 DEF S!RowType, RowSound
<1>8. ASSUME NEW s \in Tokens, s # t
      PROVE  /\ row'[s] \in S!RowType /\ row'[s].exp = row[s].exp
             /\ row'[s].status = IF s \in gone THEN "revoked" ELSE row[s].status
  BY <1>1, <1>2, <1>8 DEF S!RowType
<1>9. row' \in [Tokens -> S!RowType] /\ \A s \in Tokens : row'[s].exp \in Nat
  BY <1>1, <1>6, <1>7, <1>8, <1>3, SessionLimits DEF S!Times
<1>10. RowsGrow(row, row')
  BY <1>1, <1>6, <1>7, <1>8, <1>9 DEF RowsGrow
<1>11. \A s \in Tokens : RowSound(row'[s], now)
  BY <1>2, <1>7, <1>8 DEF RowSound
<1>12. PICK n : n = [req[p] EXCEPT !.at = "fill", !.token = t, !.seen = gone,
                                   !.left = S!Expiries(gone)]
  OBVIOUS
<1>13. /\ n \in S!ReqType /\ n.at = "fill" /\ n.token = t /\ n.seen = gone /\ n.exp = req[p].exp
  BY <1>2, <1>4, <1>12 DEF S!ReqType, S!Steps
<1>14. \A s \in gone : row'[s].status = "revoked"
  BY <1>1, <1>4, <1>5, <1>8
<1>15. RequestFits(n, row', now)
  BY <1>7, <1>9, <1>13, <1>14 DEF RequestFits
<1>16. QED  BY <1>1, <1>9, <1>10, <1>11, <1>12, <1>13, <1>15, SessionWrites

LEMMA SessionFills ==
    ASSUME SessionInv, NEW p \in Requests, S!IssueFill(p) \/ S!CacheRow(p) \/ S!Recache(p)
    PROVE  SessionInv'
<1> DEFINE t == req[p].token
<1>1. /\ req[p].at \in {"fill", "cache", "recache"} /\ S!WriteLive(t, req[p].exp)
      /\ UNCHANGED <<row, tomb, now>>
  BY DEF S!IssueFill, S!CacheRow, S!Recache, S!At
<1>2. /\ req[p] \in S!ReqType /\ t \in Tokens /\ req[p].exp \in S!Times
      /\ req[p].exp <= row[t].exp /\ RequestFits(req[p], row, now)
  BY <1>1, SessionTypes DEF RequestFits, S!ReqType
<1>3. CASE S!End(p)
  BY <1>1, <1>2, <1>3, IdleTyped, IdleRequestFits, SessionCaches DEF S!End
<1>4. CASE req[p].at = "fill" /\ S!Continue(p, [req[p] EXCEPT !.at = "evict"])
  <2>1. PICK n : n = [req[p] EXCEPT !.at = "evict"]
    OBVIOUS
  <2>2. n \in S!ReqType /\ n.at = "evict" /\ n.seen = req[p].seen
    BY <1>2, <2>1 DEF S!ReqType, S!Steps
  <2>3. RequestFits(n, row, now)
    BY <1>2, <1>4, <2>2 DEF RequestFits
  <2>4. QED  BY <1>1, <1>2, <1>4, <2>1, <2>2, <2>3, SessionCaches
<1>5. CASE req[p].at = "cache" /\ S!Continue(p, [req[p] EXCEPT !.at = "extend"])
  <2>1. PICK n : n = [req[p] EXCEPT !.at = "extend"]
    OBVIOUS
  <2>2. n \in S!ReqType /\ n.at = "extend" /\ n.token = t
    BY <1>2, <2>1 DEF S!ReqType, S!Steps
  <2>3. RequestFits(n, row, now)
    BY <1>2, <1>5, <2>2 DEF RequestFits
  <2>4. QED  BY <1>1, <1>2, <1>5, <2>1, <2>2, <2>3, SessionCaches
<1>6. QED  BY <1>3, <1>4, <1>5 DEF S!IssueFill, S!CacheRow, S!Recache, S!At

LEMMA SessionExtends ==
    ASSUME SessionInv, NEW p \in Requests, S!Extend(p)
    PROVE  SessionInv'
<1> DEFINE t == req[p].token
<1>1. /\ req[p].at = "extend" /\ row' = [row EXCEPT ![t].exp = now + Ttl]
      /\ S!Continue(p, [req[p] EXCEPT !.at = "recache", !.exp = now + Ttl])
      /\ UNCHANGED <<live, tomb, now>>
  BY DEF S!Extend, S!At
<1>2. /\ req[p] \in S!ReqType /\ t \in Tokens /\ row[t].status # "none"
      /\ row \in [Tokens -> S!RowType] /\ now + Ttl \in S!Times /\ now + Ttl \in Nat
      /\ \A s \in Tokens : row[s].exp \in Nat /\ RowSound(row[s], now)
  BY <1>1, SessionTypes, SessionLimits DEF RequestFits, S!Times, SessionInv
<1>3. /\ row'[t] \in S!RowType /\ row'[t].status = row[t].status /\ row'[t].exp = now + Ttl
      /\ \A s \in Tokens \ {t} : row'[s] = row[s]
      /\ row' \in [Tokens -> S!RowType]
  BY <1>1, <1>2 DEF S!RowType
<1>4. row[t].exp <= row'[t].exp /\ \A s \in Tokens : row'[s].exp \in Nat
  BY <1>2, <1>3 DEF RowSound
<1>5. RowsGrow(row, row')
  BY <1>2, <1>3, <1>4 DEF RowsGrow
<1>6. \A s \in Tokens : RowSound(row'[s], now)
  BY <1>2, <1>3 DEF RowSound
<1>7. PICK n : n = [req[p] EXCEPT !.at = "recache", !.exp = now + Ttl]
  OBVIOUS
<1>8. n \in S!ReqType /\ n.at = "recache" /\ n.token = t /\ n.exp = now + Ttl
  BY <1>2, <1>7 DEF S!ReqType, S!Steps
<1>9. RequestFits(n, row', now)
  BY <1>2, <1>3, <1>4, <1>8 DEF RequestFits
<1>10. QED  BY <1>1, <1>3, <1>5, <1>6, <1>7, <1>8, <1>9, SessionWrites

LEMMA SessionKicking ==
    ASSUME SessionInv, NEW p \in Requests,
           S!KickRevoked(p) \/ \E t \in Tokens : S!KickNext(p, t)
    PROVE  SessionInv'
<1>1. ASSUME S!KickRevoked(p)  PROVE SessionInv'
  <2>1. /\ req[p].at = "kick" /\ S!Kick(req[p].token, req[p].exp) /\ S!End(p)
        /\ UNCHANGED <<row, now>>
    BY <1>1 DEF S!KickRevoked, S!At
  <2>2. /\ req[p].token \in Tokens /\ row[req[p].token].status = "revoked"
        /\ req[p].exp \in S!Times
    BY <2>1, SessionTypes DEF RequestFits, S!ReqType
  <2>3. QED  BY <2>1, <2>2, IdleTyped, IdleRequestFits, SessionKicks DEF S!End
<1>2. ASSUME NEW t \in Tokens, S!KickNext(p, t)  PROVE SessionInv'
  <2>1. /\ req[p].at = "evict" /\ t \in req[p].seen /\ S!Kick(t, req[p].left[t])
        /\ UNCHANGED <<row, now>>
    BY <1>2 DEF S!KickNext, S!At
  <2>2. /\ req[p] \in S!ReqType /\ req[p].left[t] \in S!Times /\ row[t].status = "revoked"
        /\ \A s \in req[p].seen : row[s].status = "revoked"
    BY <2>1, SessionTypes DEF RequestFits, S!ReqType
  <2>3. CASE S!End(p)
    BY <2>1, <2>2, <2>3, IdleTyped, IdleRequestFits, SessionKicks DEF S!End
  <2>4. CASE S!Continue(p, [req[p] EXCEPT !.seen = @ \ {t}])
    <3>1. PICK n : n = [req[p] EXCEPT !.seen = @ \ {t}]
      OBVIOUS
    <3>2. n \in S!ReqType /\ n.at = "evict" /\ n.seen = req[p].seen \ {t}
      BY <2>1, <2>2, <3>1 DEF S!ReqType
    <3>3. RequestFits(n, row, now)
      BY <2>2, <3>2 DEF RequestFits
    <3>4. QED  BY <2>1, <2>2, <2>4, <3>1, <3>2, <3>3, SessionKicks
  <2>5. QED  BY <1>2, <2>3, <2>4 DEF S!KickNext
<1>3. QED  BY <1>1, <1>2

LEMMA SessionTicks == ASSUME SessionInv, S!Tick  PROVE SessionInv'
<1>1. /\ now \in 0..MaxTime /\ now < MaxTime /\ now' = now + 1 /\ now' \in Nat /\ now <= now'
      /\ row' = row /\ req' = req /\ Ttl \in Nat
  BY SessionLimits DEF SessionInv, S!TypeOK, S!Tick
<1>2. /\ row \in [Tokens -> S!RowType] /\ live \in [Tokens -> S!EntryType]
      /\ tomb \in [Tokens -> S!EntryType] /\ 0 \in S!Times
  BY SessionLimits DEF SessionInv, S!TypeOK, S!Times
<1>3. S!NoEntry \in S!EntryType /\ S!NoEntry.exp = 0 /\ S!NoEntry.until = 0
  BY <1>2 DEF S!NoEntry, S!EntryType
<1>4. ASSUME NEW t \in Tokens
      PROVE  /\ row'[t] = row[t] /\ RowSound(row'[t], now')
             /\ live'[t] \in S!EntryType /\ LiveSound(live'[t], row'[t], now')
             /\ tomb'[t] \in S!EntryType /\ TombSound(tomb'[t], row'[t], now')
  <2>1. /\ row[t].exp \in Nat /\ live[t].exp \in Nat /\ live[t].until \in Nat
        /\ tomb[t].exp \in Nat /\ tomb[t].until \in Nat
        /\ RowSound(row[t], now) /\ LiveSound(live[t], row[t], now) /\ TombSound(tomb[t], row[t], now)
    BY <1>2, SessionLimits DEF SessionInv, S!RowType, S!EntryType, S!Times
  <2>2. RowSound(row[t], now')
    BY <1>1, <2>1 DEF RowSound
  <2>3. live'[t] = IF live[t].until > now + 1 THEN live[t] ELSE S!NoEntry
    BY DEF S!Tick
  <2>4. live'[t] \in S!EntryType /\ LiveSound(live'[t], row[t], now')
    BY <1>1, <1>2, <1>3, <2>1, <2>3 DEF LiveSound
  <2>5. PICK b : b = [tomb[t] EXCEPT !.until = 0]
    OBVIOUS
  <2>6. /\ b \in S!EntryType /\ b.exp = tomb[t].exp /\ b.until = 0
        /\ tomb[t] = S!NoEntry => b = S!NoEntry
    BY <1>2, <2>5 DEF S!EntryType, S!NoEntry
  <2>7. tomb'[t] = IF tomb[t].until > now + 1 THEN tomb[t] ELSE b
    BY <2>5 DEF S!Tick
  <2>8. tomb'[t] \in S!EntryType /\ TombSound(tomb'[t], row[t], now')
    BY <1>1, <1>2, <2>1, <2>6, <2>7 DEF TombSound
  <2>9. QED  BY <1>1, <2>2, <2>4, <2>8
<1>5. live' \in [Tokens -> S!EntryType] /\ tomb' \in [Tokens -> S!EntryType]
  BY <1>4 DEF S!Tick
<1>6. \A p \in Requests : RequestFits(req'[p], row', now')
  <2>1. RowsGrow(row, row') /\ row' \in [Tokens -> S!RowType]
    BY <1>1, RowsStay
  <2>2. ASSUME NEW p \in Requests  PROVE RequestFits(req[p], row', now')
    BY <1>1, <2>1, FitsGrow
  <2>3. QED  BY <1>1, <2>2
<1>7. S!TypeOK'
  <2>1. now' \in 0..MaxTime
    BY <1>1, SessionLimits
  <2>2. QED  BY <1>1, <1>5, <2>1 DEF SessionInv, S!TypeOK
<1>8. QED  BY <1>4, <1>6, <1>7 DEF SessionInv

LEMMA SessionCorrect == Spec => []SessionInv
<1>1. Init => SessionInv
  BY SessionInit DEF Init
<1>2. SessionInv /\ [Next]_vars => SessionInv'
  <2> SUFFICES ASSUME SessionInv, [Next]_vars  PROVE SessionInv'
    OBVIOUS
  <2>1. CASE S!Next
    <3>1. ASSUME NEW p \in Requests, S!IssueFails(p) \/ S!Crash(p)  PROVE SessionInv'
      BY <3>1, SessionEnds DEF S!IssueFails, S!Crash
    <3>2. QED
      BY <2>1, <3>1, SessionLooks, SessionCreates, SessionFills, SessionKicking, SessionExtends,
         SessionRevokes, SessionTicks DEF S!Next
  <2>2. CASE UNCHANGED sessionVars
    BY <2>2 DEF sessionVars, SessionInv, S!TypeOK
  <2>3. QED  BY <2>1, <2>2, OneMoves
<1>3. QED  BY <1>1, <1>2, PTL DEF Spec

\* A session that was kicked is never accepted again, unless a racing refresh
\* prolonged it beyond what the kick had read, and an active unexpired session is
\* refused at most while a cache entry of the minimal TTL lasts, however requests,
\* crashes and the clock overlap: issue, validate, refresh and the revocations of
\* SessionService over PostgreSQL and Redis.
THEOREM SessionsJudgedCorrect == Spec => []SessionsJudged
<1>1. ASSUME SessionInv, NEW t \in Tokens
      PROVE  /\ /\ row[t].exp \in Nat /\ now \in Nat
                /\ live[t].exp \in Nat /\ live[t].until \in Nat
                /\ tomb[t].exp \in Nat /\ tomb[t].until \in Nat
             /\ LiveSound(live[t], row[t], now) /\ TombSound(tomb[t], row[t], now)
  BY <1>1, SessionLimits DEF SessionInv, S!TypeOK, S!RowType, S!EntryType, S!Times
<1>2. SessionInv => S!KickIsFinal
  <2> SUFFICES ASSUME SessionInv, NEW t \in Tokens, tomb[t] # S!NoEntry, tomb[t].exp >= row[t].exp,
                      S!Accepts(t)
               PROVE  FALSE
    BY DEF S!KickIsFinal
  <2>1. row[t].status = "revoked" /\ tomb[t].exp <= now
    BY <1>1 DEF TombSound, S!Accepts, S!Tombed
  <2>2. live[t].exp > now
    BY <2>1 DEF S!Accepts
  <2>3. QED  BY <1>1, <2>1, <2>2 DEF LiveSound
<1>3. SessionInv => S!ActiveLetIn
  <2> SUFFICES ASSUME SessionInv, NEW t \in Tokens, row[t].status = "active", row[t].exp > now,
                      ~S!Accepts(t)
               PROVE  live[t].until <= now + 1
    BY DEF S!ActiveLetIn, S!Active, S!Unexpired
  <2>1. tomb[t].until = 0
    BY <1>1 DEF TombSound, S!NoEntry
  <2>2. live[t].until > now /\ live[t].exp <= now
    BY <1>1, <2>1 DEF S!Accepts, S!Tombed, S!Cached, S!Unexpired
  <2>3. QED  BY <1>1, <2>2 DEF LiveSound
<1>4. SessionInv => SessionsJudged
  BY <1>2, <1>3 DEF SessionsJudged
<1>5. QED  BY <1>4, SessionCorrect, PTL

\* Every variable of the six components keeps its type.
THEOREM SecretsTyped == Spec => []TypeOK
<1>1. /\ SessionInv => S!TypeOK
      /\ VerifyInv => V!TypeOK
      /\ KeyringInv => K!TypeOK
      /\ StorageInv => O!TypeOK
      /\ PermissionInv => P!TypeOK
      /\ VendorInv => N!TypeOK
  BY DEF SessionInv, VerifyInv, KeyringInv, StorageInv, PermissionInv, VendorInv
<1>2. SessionInv /\ VerifyInv /\ KeyringInv /\ StorageInv /\ PermissionInv /\ VendorInv => TypeOK
  BY <1>1 DEF TypeOK
<1>3. QED
  BY <1>2, SessionCorrect, VerifyCorrect, KeyringCorrect, StorageCorrect, PermissionCorrect,
     VendorCorrect, PTL
============================================================================
