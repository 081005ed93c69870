--------------------------- MODULE MCPagesProofs ---------------------------
(***************************************************************************)
(* Proofs about the components that MCPages sets side by side, each from   *)
(* an inductive invariant of its own.                                      *)
(***************************************************************************)
EXTENDS MCPages, Subsequence, FiniteSetTheorems, SequenceTheorems, WellFoundedInduction, TLAPS

\* A step is a step of one component, and the others rest.
LEMMA OneMoves ==
    ASSUME [Next]_vars
    PROVE  /\ UNCHANGED scope
           /\ [C!Next]_credentialVars /\ [O!Next]_onboardingVars /\ [M!Next]_featureVars
           /\ [F!Next]_feedVars /\ [R!Next]_inputsVars /\ [P!Next]_paramsVars
BY DEF Next, vars

(***************************************************************************)
(* Credentials.                                                            *)
(***************************************************************************)

\* What is listed for a call, and what runs at the vendor, is a stored row on the
\* channel it was listed for; a row that was removed before the call stays removed.
OnChannel(j) == C!Stored(j.id) /\ row[j.id].channel = j.channel
CallHolds ==
    call # None =>
        /\ \A n \in DOMAIN call.list :
              OnChannel(call.list[n]) /\ call.list[n].id \notin call.removed
        /\ \A i \in call.removed : C!Stored(i) /\ row[i].archived
CredentialInv ==
    scope = "credentials" => C!TypeOK /\ CallHolds /\ \A j \in jobs : OnChannel(j)

LEMMA CredentialInit == Init => CredentialInv
<1> SUFFICES ASSUME Init, scope = "credentials"  PROVE CredentialInv
  BY DEF CredentialInv
<1>1. C!Init
  BY DEF Init
<1>2. C!TypeOK
  BY <1>1, CredentialLimits DEF C!Init, C!TypeOK
<1>3. QED  BY <1>1, <1>2 DEF C!Init, CallHolds, CredentialInv

\* The writes of the administrators and the verdicts keep a stored row stored, on its
\* channel, and an archived one archived.
RowKept(i) ==
    C!Stored(i) => /\ row'[i] # None /\ row'[i].channel = row[i].channel
                   /\ row[i].archived => row'[i].archived

LEMMA CallFields ==
    ASSUME NEW x \in C!Call
    PROVE  /\ x = [at |-> x.at, list |-> x.list, removed |-> x.removed]
           /\ x.at \in 0..Len(Route) /\ x.list \in Seq(C!Candidate) /\ x.removed \subseteq CredentialIds
           /\ \A n \in DOMAIN x.list : x.list[n].id \in CredentialIds
<1>1. /\ x = [at |-> x.at, list |-> x.list, removed |-> x.removed]
      /\ x.at \in 0..Len(Route) /\ x.list \in Seq(C!Candidate) /\ x.removed \subseteq CredentialIds
  BY DEF C!Call
<1>2. \A n \in DOMAIN x.list : x.list[n] \in C!Candidate
  BY <1>1
<1>3. QED  BY <1>1, <1>2 DEF C!Candidate

LEMMA RowsKept ==
    ASSUME CredentialInv, scope = "credentials", scope' = scope,
           row' \in [CredentialIds -> C!Row \cup {None}], edits' \in 0..MaxEdits,
           \A i \in CredentialIds : RowKept(i),
           UNCHANGED <<used, accepts, call, jobs>>,
           asked' # None => asked'.id \in CredentialIds /\ asked'.read \in C!Row
    PROVE  CredentialInv'
<1>1. C!TypeOK /\ CallHolds /\ \A j \in jobs : OnChannel(j)
  BY DEF CredentialInv
<1>2. C!TypeOK'
  BY <1>1 DEF C!TypeOK
<1>3. ASSUME NEW j, j.id \in CredentialIds, OnChannel(j)  PROVE OnChannel(j)'
  BY <1>3 DEF RowKept, OnChannel, C!Stored
<1>4. CallHolds'
  <2> SUFFICES ASSUME call # None
               PROVE  /\ \A n \in DOMAIN call.list :
                            OnChannel(call.list[n])' /\ call.list[n].id \notin call.removed
                      /\ \A i \in call.removed : C!Stored(i)' /\ row'[i].archived
    BY DEF CallHolds
  <2>1. call \in C!Call
    BY <1>1 DEF C!TypeOK
  <2>2. ASSUME NEW n \in DOMAIN call.list  PROVE call.list[n].id \in CredentialIds
    BY <2>1, CallFields
  <2>3. call.removed \subseteq CredentialIds
    BY <2>1, CallFields
  <2>4. \A n \in DOMAIN call.list : OnChannel(call.list[n])'
    BY <1>1, <1>3, <2>2 DEF CallHolds
  <2>5. \A i \in call.removed : C!Stored(i)' /\ row'[i].archived
    BY <1>1, <2>3 DEF CallHolds, RowKept, C!Stored
  <2>6. QED  BY <1>1, <2>4, <2>5 DEF CallHolds
<1>5. \A j \in jobs : OnChannel(j)'
  BY <1>1, <1>3 DEF C!TypeOK
<1>6. QED  BY <1>2, <1>4, <1>5 DEF CredentialInv

LEMMA CreateStep ==
    ASSUME CredentialInv, scope = "credentials", scope' = scope,
           NEW i \in CredentialIds, C!CreateCredential(i)
    PROVE  CredentialInv'
<1>1. row \in [CredentialIds -> C!Row \cup {None}] /\ row[i] = None
      /\ edits \in Nat /\ edits < MaxEdits /\ edits' = edits + 1
  BY CredentialLimits DEF CredentialInv, C!TypeOK, C!CreateCredential, C!Stored, C!Edited
<1>2. PICK r : row' = [row EXCEPT ![i] = r] /\ r \in C!Row
  <2>1. PICK c \in C!Range(Route), k \in Secrets \cup {Blank, Marker}, on_ \in BOOLEAN :
          /\ C!ContractHolds(c, k)
          /\ C!Wrote(i, [channel |-> c, key |-> k, cipher |-> edits', enabled |-> on_,
                         archived |-> FALSE, valid |-> TRUE, about |-> 0])
    BY DEF C!CreateCredential
  <2>2. k \in Secrets \cup {Marker}
    BY <2>1 DEF C!ContractHolds
  <2> DEFINE r == [channel |-> c, key |-> k, cipher |-> edits', enabled |-> on_,
                   archived |-> FALSE, valid |-> TRUE, about |-> 0]
  <2>3. edits' \in 1..MaxEdits /\ 0 \in 0..MaxEdits
    BY <1>1, CredentialLimits
  <2>4. r \in C!Row
    BY <2>1, <2>2, <2>3 DEF C!Row
  <2>5. row' = [row EXCEPT ![i] = r]
    BY <2>1 DEF C!Wrote
  <2>6. QED  BY <2>4, <2>5
<1>3. \A x \in CredentialIds : RowKept(x)
  BY <1>1, <1>2 DEF RowKept, C!Stored
<1>4. UNCHANGED <<used, accepts, asked, call, jobs>>
  BY DEF C!CreateCredential, C!Wrote
<1>5. QED
  BY <1>1, <1>2, <1>3, <1>4, RowsKept, CredentialLimits DEF CredentialInv, C!TypeOK

LEMMA ReplacedIsARow ==
    ASSUME NEW i \in CredentialIds, row[i] \in C!Row, edits \in Nat, edits < MaxEdits,
           edits' = edits + 1, NEW k, k # None => C!ContractHolds(row[i].channel, k)
    PROVE  LET s == C!Replaced(row[i], k) IN
           /\ s \in C!Row /\ s.channel = row[i].channel
           /\ s.archived = row[i].archived /\ s.about = row[i].about
<1>1. CASE k = None
  BY <1>1 DEF C!Replaced
<1>2. CASE k # None
  <2>1. k \in Secrets \cup {Marker}
    BY <1>2 DEF C!ContractHolds
  <2>2. edits' \in 1..MaxEdits
    BY CredentialLimits
  <2>3. QED  BY <1>2, <2>1, <2>2 DEF C!Replaced, C!Row
<1>3. QED  BY <1>1, <1>2

LEMMA UpdateStep ==
    ASSUME CredentialInv, scope = "credentials", scope' = scope,
           NEW i \in CredentialIds, C!UpdateCredential(i)
    PROVE  CredentialInv'
<1>1. row \in [CredentialIds -> C!Row \cup {None}] /\ row[i] \in C!Row
      /\ edits \in Nat /\ edits < MaxEdits /\ edits' = edits + 1
  BY CredentialLimits
  DEF CredentialInv, C!TypeOK, C!UpdateCredential, C!Live, C!Stored, C!Edited
<1>2. PICK k \in Secrets \cup {Blank, Marker, None}, on_ \in BOOLEAN \cup {None} :
        /\ k # None => C!ContractHolds(row[i].channel, k)
        /\ C!Wrote(i, [C!Replaced(row[i], k) EXCEPT !.enabled = IF on_ = None THEN @ ELSE on_])
  BY DEF C!UpdateCredential
<1> DEFINE s == C!Replaced(row[i], k)
           r == [s EXCEPT !.enabled = IF on_ = None THEN @ ELSE on_]
<1>3. s \in C!Row /\ s.channel = row[i].channel /\ s.archived = row[i].archived
  BY <1>1, <1>2, ReplacedIsARow
<1>4. r \in C!Row /\ r.channel = row[i].channel /\ r.archived = row[i].archived
  <2> HIDE DEF s
  <2>1. QED  BY <1>3 DEF C!Row
<1>5. row' = [row EXCEPT ![i] = r] /\ UNCHANGED <<used, accepts, asked, call, jobs>>
  BY <1>2 DEF C!Wrote
<1> HIDE DEF r
<1>6. \A x \in CredentialIds : RowKept(x)
  BY <1>1, <1>4, <1>5, CredentialLimits DEF RowKept, C!Stored
<1>7. QED
  BY <1>1, <1>4, <1>5, <1>6, RowsKept, CredentialLimits DEF CredentialInv, C!TypeOK

LEMMA RemoveStep ==
    ASSUME CredentialInv, scope = "credentials", scope' = scope,
           NEW i \in CredentialIds, C!RemoveCredential(i)
    PROVE  CredentialInv'
<1>1. row \in [CredentialIds -> C!Row \cup {None}] /\ row[i] \in C!Row
      /\ edits \in Nat /\ edits < MaxEdits /\ edits' = edits + 1
  BY CredentialLimits
  DEF CredentialInv, C!TypeOK, C!RemoveCredential, C!Live, C!Stored, C!Edited
<1>2. PICK r : /\ r \in C!Row /\ r.channel = row[i].channel /\ r.archived
               /\ row' = [row EXCEPT ![i] = r]
  <2> DEFINE r == [row[i] EXCEPT !.enabled = FALSE, !.archived = TRUE]
  <2>1. r \in C!Row /\ r.channel = row[i].channel /\ r.archived
    BY <1>1 DEF C!Row
  <2>2. row' = [row EXCEPT ![i] = r]
    BY DEF C!RemoveCredential, C!Archived, C!Wrote
  <2>3. QED  BY <2>1, <2>2
<1>3. \A x \in CredentialIds : RowKept(x)
  BY <1>1, <1>2, CredentialLimits DEF RowKept, C!Stored
<1>4. UNCHANGED <<used, accepts, asked, call, jobs>>
  BY DEF C!RemoveCredential, C!Archived, C!Wrote
<1>5. QED
  BY <1>1, <1>2, <1>3, <1>4, RowsKept, CredentialLimits DEF CredentialInv, C!TypeOK

LEMMA ValidateSteps ==
    ASSUME CredentialInv, scope = "credentials", scope' = scope,
           \/ \E i \in CredentialIds : C!Validate(i)
           \/ C!StoreVerdict
    PROVE  CredentialInv'
<1>1. /\ row \in [CredentialIds -> C!Row \cup {None}] /\ edits \in 0..MaxEdits
      /\ asked # None => asked.id \in CredentialIds /\ asked.read \in C!Row
  BY DEF CredentialInv, C!TypeOK
<1>2. ASSUME NEW i \in CredentialIds, C!Validate(i)  PROVE CredentialInv'
  <2>1. row[i] \in C!Row /\ asked' = [id |-> i, read |-> row[i]]
        /\ UNCHANGED <<row, used, edits, accepts, call, jobs>>
    BY <1>1, <1>2 DEF C!Validate, C!Live, C!Stored
  <2>2. \A x \in CredentialIds : RowKept(x)
    BY <2>1 DEF RowKept, C!Stored
  <2>3. QED  BY <1>1, <2>1, <2>2, RowsKept
<1>3. ASSUME C!StoreVerdict  PROVE CredentialInv'
  <2>1. PICK v \in C!Verdicts(asked.read) :
          row' = IF C!SameRead(asked.id, asked.read)
                 THEN [row EXCEPT ![asked.id].valid = v, ![asked.id].about = asked.read.cipher]
                 ELSE row
    BY <1>3 DEF C!StoreVerdict
  <2>2. v \in BOOLEAN
    BY DEF C!Verdicts
  <2>3. asked.id \in CredentialIds /\ asked.read \in C!Row /\ asked' = None
        /\ UNCHANGED <<used, edits, accepts, call, jobs>>
    BY <1>1, <1>3 DEF C!StoreVerdict
  <2>4. CASE C!SameRead(asked.id, asked.read)
    <3>1. row[asked.id] \in C!Row
      BY <1>1, <2>3, <2>4 DEF C!SameRead, C!Live, C!Stored
    <3>2. asked.read.cipher \in 0..MaxEdits
      BY <2>3, CredentialLimits DEF C!Row
    <3>3. row' = [row EXCEPT ![asked.id] =
                    [row[asked.id] EXCEPT !.valid = v, !.about = asked.read.cipher]]
      BY <1>1, <2>1, <2>3, <2>4, <3>1
    <3>4. [row[asked.id] EXCEPT !.valid = v, !.about = asked.read.cipher] \in C!Row
      BY <2>2, <3>1, <3>2 DEF C!Row
    <3>5. \A x \in CredentialIds : RowKept(x)
      BY <1>1, <2>3, <3>1, <3>3, <3>4, CredentialLimits DEF RowKept, C!Stored, C!Row
    <3>6. row' \in [CredentialIds -> C!Row \cup {None}]
      BY <1>1, <3>3, <3>4
    <3>7. QED  BY <1>1, <2>3, <3>5, <3>6, RowsKept
  <2>5. CASE ~C!SameRead(asked.id, asked.read)
    <3>1. row' = row
      BY <2>1, <2>5
    <3>2. \A x \in CredentialIds : RowKept(x)
      BY <3>1 DEF RowKept, C!Stored
    <3>3. QED  BY <1>1, <2>3, <3>1, <3>2, RowsKept
  <2>6. QED  BY <2>4, <2>5
<1>4. QED  BY <1>2, <1>3

\* A step of a call leaves the rows alone.
LEMMA CallsKept ==
    ASSUME CredentialInv, scope = "credentials", scope' = scope,
           UNCHANGED <<row, edits, asked>>, accepts' \subseteq accepts,
           used' \subseteq CredentialIds \X CredentialIds,
           call' # None =>
               /\ call' \in C!Call
               /\ \A n \in DOMAIN call'.list :
                     OnChannel(call'.list[n]) /\ call'.list[n].id \notin call'.removed
               /\ \A i \in call'.removed : C!Stored(i) /\ row[i].archived,
           \A j \in jobs' : /\ j.id \in CredentialIds /\ j.channel \in C!Range(Route)
                            /\ OnChannel(j)
    PROVE  CredentialInv'
<1>1. C!TypeOK'
  BY DEF CredentialInv, C!TypeOK
<1>2. ASSUME NEW j, OnChannel(j)  PROVE OnChannel(j)'
  BY <1>2 DEF OnChannel, C!Stored
<1>3. CallHolds'
  <2>1. \A i : C!Stored(i)' <=> C!Stored(i)
    BY DEF C!Stored
  <2>2. QED  BY <1>2, <2>1 DEF CallHolds
<1>4. \A j \in jobs' : OnChannel(j)'
  BY <1>2
<1>5. QED  BY <1>1, <1>3, <1>4 DEF CredentialInv

LEMMA InvokeStep ==
    ASSUME CredentialInv, scope = "credentials", scope' = scope, C!Invoke
    PROVE  CredentialInv'
<1> DEFINE gone == {i \in CredentialIds : C!Stored(i) /\ row[i].archived}
<1>1. call' = [at |-> 0, list |-> <<>>, removed |-> gone]
      /\ UNCHANGED <<row, used, edits, accepts, asked, jobs>>
  BY DEF C!Invoke
<1>2. <<>> \in Seq(C!Candidate) /\ DOMAIN <<>> = {} /\ 0 \in 0..Len(Route)
  BY CredentialLimits
<1>3. call' \in C!Call
  BY <1>1, <1>2 DEF C!Call
<1>4. \A n \in DOMAIN call'.list : FALSE
  BY <1>1, <1>2
<1>5. QED
  BY <1>1, <1>3, <1>4, CallsKept DEF CredentialInv, C!TypeOK

LEMMA ListStep ==
    ASSUME CredentialInv, scope = "credentials", scope' = scope, C!ListCandidates
    PROVE  CredentialInv'
<1> DEFINE c == Route[call.at + 1]
<1>1. /\ call \in C!Call /\ call.at < Len(Route) /\ Len(Route) \in Nat
      /\ row \in [CredentialIds -> C!Row \cup {None}]
      /\ UNCHANGED <<row, used, edits, accepts, asked, jobs>>
      /\ \A n \in DOMAIN call.list :
            OnChannel(call.list[n]) /\ call.list[n].id \notin call.removed
      /\ \A i \in call.removed : C!Stored(i) /\ row[i].archived
  <2>1. call # None /\ call.at < Len(Route)
    BY DEF C!ListCandidates
  <2>2. C!TypeOK /\ CallHolds
    BY DEF CredentialInv
  <2>3. call \in C!Call /\ row \in [CredentialIds -> C!Row \cup {None}]
    BY <2>1, <2>2 DEF C!TypeOK
  <2>4. UNCHANGED <<row, used, edits, accepts, asked, jobs>>
    BY DEF C!ListCandidates
  <2>5. Len(Route) \in Nat
    BY CredentialLimits
  <2>6. /\ \A n \in DOMAIN call.list :
              OnChannel(call.list[n]) /\ call.list[n].id \notin call.removed
        /\ \A i \in call.removed : C!Stored(i) /\ row[i].archived
    BY <2>1, <2>2 DEF CallHolds
  <2>7. QED  BY <2>1, <2>3, <2>4, <2>5, <2>6
<1>2. /\ call = [at |-> call.at, list |-> call.list, removed |-> call.removed]
      /\ call.at \in 0..Len(Route) /\ call.list \in Seq(C!Candidate)
      /\ call.removed \subseteq CredentialIds
  BY <1>1, CallFields
<1>3. c \in C!Range(Route)
  BY <1>1, <1>2, CredentialLimits DEF C!Range
<1>4. CASE call' = None
  BY <1>1, <1>4, CallsKept DEF CredentialInv, C!TypeOK
<1>5. ASSUME NEW s \in C!Ordered(C!Eligible(c)),
             call' = [call EXCEPT !.at = @ + 1,
                        !.list = @ \o [n \in DOMAIN s |->
                                          [id |-> s[n], key |-> row[s[n]].key, channel |-> c]]]
      PROVE  CredentialInv'
  <2> DEFINE more == [n \in DOMAIN s |-> [id |-> s[n], key |-> row[s[n]].key, channel |-> c]]
  <2>1. PICK k \in Nat : s \in [1..k -> C!Eligible(c)]
    <3>1. IsFiniteSet(C!Eligible(c))
      BY FS_Subset, CredentialLimits DEF C!Eligible
    <3>2. C!Cardinality(C!Eligible(c)) = Cardinality(C!Eligible(c))
      BY DEF C!Cardinality, Cardinality
    <3>3. C!Cardinality(C!Eligible(c)) \in Nat
      BY <3>1, <3>2, FS_CardinalityType
    <3>4. s \in [1..C!Cardinality(C!Eligible(c)) -> C!Eligible(c)]
      BY DEF C!Ordered, C!SetToSeqs
    <3>5. QED  BY <3>3, <3>4
  <2>2. ASSUME NEW i \in C!Eligible(c)
        PROVE  /\ i \in CredentialIds /\ row[i] \in C!Row /\ row[i].channel = c
               /\ C!Stored(i) /\ ~row[i].archived
    BY <1>1, <2>2 DEF C!Eligible, C!Live, C!Stored
  <2>3. ASSUME NEW n \in 1..k
        PROVE  /\ more[n] \in C!Candidate /\ OnChannel(more[n])
               /\ more[n].id \notin call.removed
    <3>1. s[n] \in C!Eligible(c) /\ more[n] = [id |-> s[n], key |-> row[s[n]].key, channel |-> c]
      BY <2>1
    <3>2. more[n] \in C!Candidate
      BY <1>3, <2>2, <3>1 DEF C!Candidate, C!Row
    <3>3. OnChannel(more[n])
      BY <2>2, <3>1 DEF OnChannel
    <3>4. more[n].id \notin call.removed
      <4>1. ~row[s[n]].archived /\ more[n].id = s[n]
        BY <2>2, <3>1
      <4>2. QED  BY <1>1, <4>1
    <3>5. QED  BY <3>2, <3>3, <3>4
  <2>4. DOMAIN more = 1..k /\ more \in Seq(C!Candidate) /\ Len(more) = k
    <3>1. more \in [1..k -> C!Candidate]
      BY <2>1, <2>3
    <3>2. QED  BY <3>1, IsASeq, LenProperties
  <2> DEFINE both == call.list \o more
  <2>5. /\ both \in Seq(C!Candidate) /\ Len(both) = Len(call.list) + k
        /\ \A n \in 1..Len(both) :
              both[n] = IF n <= Len(call.list) THEN call.list[n] ELSE more[n - Len(call.list)]
    <3> HIDE DEF more
    <3>1. QED  BY <1>2, <2>4, ConcatProperties
  <2>6. call' = [at |-> call.at + 1, list |-> both, removed |-> call.removed]
    BY <1>2, <1>5
  <2>7. \A n \in DOMAIN both : OnChannel(both[n]) /\ both[n].id \notin call.removed
    <3> HIDE DEF more, both
    <3>1. SUFFICES ASSUME NEW n \in 1..Len(both)
                   PROVE  OnChannel(both[n]) /\ both[n].id \notin call.removed
      BY <2>5
    <3>2. Len(call.list) \in Nat /\ DOMAIN call.list = 1..Len(call.list)
      BY <1>2
    <3>3. CASE n <= Len(call.list)
      <4>1. both[n] = call.list[n] /\ n \in DOMAIN call.list
        BY <2>5, <3>1, <3>2, <3>3
      <4>2. QED  BY <1>1, <4>1
    <3>4. CASE n > Len(call.list)
      <4>1. both[n] = more[n - Len(call.list)] /\ n - Len(call.list) \in 1..k
        BY <2>1, <2>5, <3>1, <3>2, <3>4
      <4>2. QED  BY <2>3, <4>1
    <3>5. QED  BY <3>2, <3>3, <3>4
  <2>8. call' \in C!Call
    <3> HIDE DEF both
    <3>1. call.at + 1 \in 0..Len(Route)
      BY <1>1, <1>2
    <3>2. QED  BY <1>2, <2>5, <2>6, <3>1 DEF C!Call
  <2>9. QED
    <3> HIDE DEF both
    <3>1. QED  BY <1>1, <2>6, <2>7, <2>8, CallsKept DEF CredentialInv, C!TypeOK
<1>6. QED
  BY <1>4, <1>5 DEF C!ListCandidates

LEMMA AnswerSteps ==
    ASSUME CredentialInv, scope = "credentials", scope' = scope,
           C!Accepted \/ C!FailOver \/ C!GiveUp
    PROVE  CredentialInv'
<1>1. /\ call \in C!Call /\ call # None
      /\ UNCHANGED <<row, edits, accepts, asked>>
  BY DEF CredentialInv, C!TypeOK, C!Accepted, C!FailOver, C!GiveUp, C!AllListed
<1>2. /\ call = [at |-> call.at, list |-> call.list, removed |-> call.removed]
      /\ call.at \in 0..Len(Route) /\ call.list \in Seq(C!Candidate)
      /\ call.removed \subseteq CredentialIds
  BY <1>1, CallFields
<1>3. /\ \A n \in DOMAIN call.list :
              OnChannel(call.list[n]) /\ call.list[n].id \notin call.removed
      /\ \A i \in call.removed : C!Stored(i) /\ row[i].archived
      /\ \A j \in jobs : /\ j.id \in CredentialIds /\ j.channel \in C!Range(Route)
                         /\ OnChannel(j)
      /\ used \subseteq CredentialIds \X CredentialIds
  BY <1>1 DEF CredentialInv, C!TypeOK, CallHolds
<1>4. ASSUME C!Accepted  PROVE CredentialInv'
  <2> DEFINE job == [id |-> C!Tried.id, channel |-> C!Tried.channel]
  <2>1. /\ call.list # <<>> /\ used' = C!MarkUsed(C!Tried.id)
        /\ jobs' = jobs \cup {job} /\ call' = None
    BY <1>4 DEF C!Accepted
  <2>2. C!Tried = call.list[1] /\ 1 \in DOMAIN call.list /\ C!Tried \in C!Candidate
    BY <1>2, <2>1 DEF C!Tried
  <2>3. job.id \in CredentialIds /\ job.channel \in C!Range(Route) /\ OnChannel(job)
    BY <1>3, <2>2 DEF OnChannel, C!Candidate
  <2>4. used' \subseteq CredentialIds \X CredentialIds
    BY <1>3, <2>1, <2>3 DEF C!MarkUsed
  <2>5. QED  BY <1>1, <1>3, <2>1, <2>3, <2>4, CallsKept
<1>5. ASSUME C!FailOver  PROVE CredentialInv'
  <2>1. /\ call.list # <<>> /\ call' = [call EXCEPT !.list = Tail(C!InLine)]
        /\ UNCHANGED <<used, jobs>>
    BY <1>5 DEF C!FailOver
  <2>2. /\ C!InLine \in Seq(C!Candidate) /\ Len(C!InLine) <= Len(call.list) /\ C!InLine # <<>>
        /\ \A n \in 1..Len(C!InLine) : C!InLine[n] = call.list[n]
    BY <1>2, <2>1, CredentialLimits DEF C!InLine
  <2>3. /\ Tail(C!InLine) \in Seq(C!Candidate)
        /\ \A n \in DOMAIN Tail(C!InLine) : n + 1 \in DOMAIN call.list
                                            /\ Tail(C!InLine)[n] = call.list[n + 1]
    <3> DEFINE l == C!InLine
    <3>1. /\ Tail(l) \in Seq(C!Candidate) /\ Len(Tail(l)) = Len(l) - 1
          /\ \A n \in 1..Len(Tail(l)) : Tail(l)[n] = l[n + 1]
      BY <2>2, HeadTailProperties
    <3>2. Len(l) \in Nat /\ Len(call.list) \in Nat /\ DOMAIN call.list = 1..Len(call.list)
          /\ DOMAIN Tail(l) = 1..Len(Tail(l)) /\ Len(l) <= Len(call.list)
      BY <1>2, <2>2, <3>1
    <3> HIDE DEF l
    <3>3. ASSUME NEW n \in DOMAIN Tail(l)
          PROVE  n + 1 \in DOMAIN call.list /\ n + 1 \in 1..Len(l) /\ Tail(l)[n] = l[n + 1]
      BY <3>1, <3>2
    <3>4. \A n \in 1..Len(l) : l[n] = call.list[n]
      BY <2>2 DEF l
    <3>5. QED  BY <3>1, <3>3, <3>4 DEF l
  <2>4. call' = [at |-> call.at, list |-> Tail(C!InLine), removed |-> call.removed]
    BY <1>2, <2>1
  <2>5. call' \in C!Call
    BY <1>2, <2>3, <2>4 DEF C!Call
  <2>6. \A n \in DOMAIN call'.list :
              OnChannel(call'.list[n]) /\ call'.list[n].id \notin call'.removed
    BY <1>3, <2>3, <2>4
  <2>7. QED  BY <1>1, <1>3, <2>1, <2>4, <2>5, <2>6, CallsKept
<1>6. ASSUME C!GiveUp  PROVE CredentialInv'
  BY <1>1, <1>3, <1>6, CallsKept DEF C!GiveUp
<1>7. QED  BY <1>4, <1>5, <1>6

LEMMA CredentialStep == CredentialInv /\ [Next]_vars => CredentialInv'
<1> SUFFICES ASSUME CredentialInv, [Next]_vars, scope = "credentials"  PROVE CredentialInv'
  BY OneMoves DEF CredentialInv
<1>1. scope' = scope
  BY OneMoves
<1>2. ASSUME C!VendorRevokes  PROVE CredentialInv'
  <2>1. UNCHANGED <<row, used, edits, asked, call, jobs>> /\ accepts' \subseteq accepts
    BY <1>2 DEF C!VendorRevokes
  <2>2. QED  BY <1>1, <2>1, CallsKept DEF CredentialInv, C!TypeOK, CallHolds
<1>3. CASE C!Next
  BY <1>1, <1>2, <1>3, CreateStep, UpdateStep, RemoveStep, ValidateSteps, InvokeStep, ListStep,
     AnswerSteps DEF C!Next
<1>4. CASE UNCHANGED credentialVars
  <2>1. UNCHANGED <<row, used, edits, accepts, asked, call, jobs>>
    BY <1>4 DEF credentialVars
  <2>2. QED  BY <1>1, <2>1, CallsKept DEF CredentialInv, C!TypeOK, CallHolds
<1>5. QED  BY <1>3, <1>4, OneMoves

LEMMA CredentialCorrect == Spec => []CredentialInv
BY CredentialInit, CredentialStep, PTL DEF Spec

\* A running job keeps its credential, on its channel, whatever the administrators
\* do, and a call never sends with a credential that was removed before it began:
\* selectHistorical, listCandidates and remove of the credential service.
THEOREM CredentialsServeCorrect == Spec => []CredentialsServe
<1>1. CredentialInv => CredentialsServe
  <2> SUFFICES ASSUME CredentialInv, scope = "credentials"  PROVE C!CredentialsServe
    BY DEF CredentialsServe
  <2>1. \A j \in jobs : j.id \in C!SelectHistorical(j)
    BY DEF CredentialInv, C!TypeOK, OnChannel, C!SelectHistorical
  <2>2. QED  BY <2>1 DEF CredentialInv, CallHolds, C!CredentialsServe
<1>2. QED  BY <1>1, CredentialCorrect, PTL

\* A verdict of a validation is about the payload it was asked for, and an archived
\* credential neither changes nor goes: the UPDATE of validate, update and remove.
THEOREM CredentialRowsCorrect == Spec => CredentialRowsKept
<1> DEFINE Kept ==
      \A i \in CredentialIds : C!Stored(i) =>
          /\ row'[i] # None
          /\ row[i].archived => row'[i] = row[i]
          /\ row'[i].cipher # row[i].cipher => row'[i].about = row[i].about
          /\ row'[i].about # row[i].about => row'[i].about = row'[i].cipher
<1>1. CredentialInv /\ [Next]_vars => Kept \/ row' = row
  <2> SUFFICES ASSUME CredentialInv, [Next]_vars, row' # row  PROVE Kept
    OBVIOUS
  <2>1. C!Next /\ scope = "credentials"
    BY DEF Next, vars, credentialVars
  <2>2. /\ row \in [CredentialIds -> C!Row \cup {None}]
        /\ asked # None => asked.id \in CredentialIds /\ asked.read \in C!Row
    BY <2>1 DEF CredentialInv, C!TypeOK
  <2>3. ASSUME NEW i \in CredentialIds, C!CreateCredential(i)  PROVE Kept
    <3>1. ~C!Stored(i) /\ \A x \in CredentialIds \ {i} : row'[x] = row[x]
      BY <2>2, <2>3 DEF C!CreateCredential, C!Wrote
    <3>2. QED  BY <3>1 DEF C!Stored
  <2>4. ASSUME NEW i \in CredentialIds, C!UpdateCredential(i)  PROVE Kept
    <3>1. PICK k \in Secrets \cup {Blank, Marker, None}, on_ \in BOOLEAN \cup {None} :
            /\ k # None => C!ContractHolds(row[i].channel, k)
            /\ C!Wrote(i, [C!Replaced(row[i], k) EXCEPT !.enabled = IF on_ = None THEN @ ELSE on_])
      BY <2>4 DEF C!UpdateCredential
    <3> DEFINE s == C!Replaced(row[i], k)
               r == [s EXCEPT !.enabled = IF on_ = None THEN @ ELSE on_]
    <3>2. row[i] \in C!Row /\ ~row[i].archived
      BY <2>2, <2>4 DEF C!UpdateCredential, C!Live, C!Stored
    <3>3. s \in C!Row /\ s.about = row[i].about
      <4>1. edits \in Nat /\ edits < MaxEdits /\ edits' = edits + 1
        BY <2>1, <2>4, CredentialLimits
        DEF CredentialInv, C!TypeOK, C!UpdateCredential, C!Edited
      <4>2. QED  BY <3>1, <3>2, <4>1, ReplacedIsARow
    <3>5. r.about = row[i].about /\ r # None
      <4> HIDE DEF s
      <4>1. r.about = row[i].about
        BY <3>3 DEF C!Row
      <4>2. r \in C!Row
        BY <3>3 DEF C!Row
      <4>3. QED  BY <4>1, <4>2, CredentialLimits
    <3>6. row'[i] = r /\ \A x \in CredentialIds \ {i} : row'[x] = row[x]
      BY <2>2, <3>1 DEF C!Wrote
    <3> HIDE DEF r
    <3>7. QED  BY <3>2, <3>5, <3>6 DEF C!Stored
  <2>5. ASSUME NEW i \in CredentialIds, C!RemoveCredential(i)  PROVE Kept
    <3>1. row[i] \in C!Row /\ ~row[i].archived
      BY <2>2, <2>5 DEF C!RemoveCredential, C!Live, C!Stored
    <3> DEFINE r == [row[i] EXCEPT !.enabled = FALSE, !.archived = TRUE]
    <3>2. r \in C!Row /\ r.cipher = row[i].cipher /\ r.about = row[i].about
      BY <3>1 DEF C!Row
    <3>3. row'[i] = r /\ \A x \in CredentialIds \ {i} : row'[x] = row[x]
      BY <2>2, <2>5 DEF C!RemoveCredential, C!Archived, C!Wrote
    <3> HIDE DEF r
    <3>4. QED  BY <3>1, <3>2, <3>3, CredentialLimits DEF C!Stored
  <2>6. ASSUME C!StoreVerdict  PROVE Kept
    <3>1. C!SameRead(asked.id, asked.read) /\ asked.id \in CredentialIds /\ asked.read \in C!Row
      BY <2>2, <2>6 DEF C!StoreVerdict
    <3>2. row[asked.id] \in C!Row /\ ~row[asked.id].archived
          /\ row[asked.id].cipher = asked.read.cipher
      BY <2>2, <3>1 DEF C!SameRead, C!Live, C!Stored
    <3>3. PICK v \in C!Verdicts(asked.read) :
            row' = [row EXCEPT ![asked.id].valid = v, ![asked.id].about = asked.read.cipher]
      BY <2>6, <3>1 DEF C!StoreVerdict
    <3> DEFINE r == [row[asked.id] EXCEPT !.valid = v, !.about = asked.read.cipher]
    <3>4. row'[asked.id] = r /\ \A x \in CredentialIds \ {asked.id} : row'[x] = row[x]
      BY <2>2, <3>1, <3>2, <3>3
    <3>5. r.cipher = row[asked.id].cipher /\ r.about = row[asked.id].cipher /\ r.archived = FALSE
          /\ r # None
      <4>1. r.cipher = row[asked.id].cipher /\ r.about = row[asked.id].cipher /\ r.archived = FALSE
        BY <3>2 DEF C!Row
      <4>2. v \in BOOLEAN /\ asked.read.cipher \in 0..MaxEdits
        <5>1. v \in BOOLEAN
          BY DEF C!Verdicts
        <5>2. asked.read.cipher \in 1..MaxEdits
          BY <3>1 DEF C!Row
        <5>3. QED  BY <5>1, <5>2, CredentialLimits
      <4>3. r \in C!Row
        BY <3>2, <4>2 DEF C!Row
      <4>4. QED  BY <4>1, <4>3, CredentialLimits
    <3> HIDE DEF r
    <3>6. QED  BY <3>2, <3>4, <3>5 DEF C!Stored
  <2>7. QED
    BY <2>1, <2>3, <2>4, <2>5, <2>6
    DEF C!Next, C!Validate, C!Invoke, C!ListCandidates, C!Accepted, C!FailOver, C!GiveUp,
        C!VendorRevokes
<1>2. CredentialInv /\ [Next]_vars => [Kept]_row
  BY <1>1
<1> HIDE DEF Kept
<1>3. Spec => [][Kept]_row
  BY <1>2, CredentialCorrect, PTL DEF Spec
<1>4. QED
  BY <1>3 DEF CredentialRowsKept, C!CredentialRowsKept, Kept


(***************************************************************************)
(* Onboarding.                                                             *)
(***************************************************************************)

\* A page that shows the list of its own channel holds only what the vendor has
\* there; the import asked with a stored credential, which the channel keeps.
WizardPage ==
    [channel : Ways, known : SUBSET Presets, list : O!List \cup {None}, picked : SUBSET O!Items,
     confirmed : BOOLEAN, astray : BOOLEAN, posted : O!Post \cup {None}]
ImportPage ==
    [open : BOOLEAN, channel : Ways \cup {None}, list : O!List \cup {None}, loading : BOOLEAN,
     picked : SUBSET Vendor, confirmed : BOOLEAN, astray : BOOLEAN, posted : O!Post \cup {None}]

WizardHolds ==
    wizard # None =>
        /\ wizard \in WizardPage
        /\ ~wizard.astray =>
              /\ \A v \in wizard.picked \cap Vendor : v \in Listed[wizard.channel]
              /\ wizard.list # None => DOMAIN wizard.list \subseteq Listed[wizard.channel]
        /\ wizard.posted # None /\ ~wizard.posted.astray =>
              \A v \in wizard.posted.picked \cap Vendor : v \in Listed[wizard.posted.channel]
ImportHolds ==
    /\ import \in ImportPage
    /\ import.open => import.channel \in Ways
    /\ ~import.astray =>
          /\ \A v \in import.picked :
                v \in Listed[import.channel] /\ O!HasKey(import.channel)
          /\ import.list # None =>
                \A v \in DOMAIN import.list :
                    v \in Listed[import.channel] /\ O!HasKey(import.channel)
    /\ import.posted # None =>
          /\ import.posted.picked \subseteq Vendor
          /\ ~import.posted.astray =>
                \A v \in import.posted.picked :
                    v \in Listed[import.posted.channel] /\ O!HasKey(import.posted.channel)
ListsHold ==
    \A x \in lists :
        /\ DOMAIN x.models \subseteq Listed[x.channel]
        /\ x.page # "wizard" => \A v \in DOMAIN x.models : O!HasKey(x.channel)
OnboardingInv ==
    scope = "onboarding" =>
        O!TypeOK /\ O!ModelsCanBeCalled /\ WizardHolds /\ ImportHolds /\ ListsHold

LEMMA NoList == O!Nothing \in O!List /\ DOMAIN O!Nothing = {}
<1>1. O!Nothing \in [{} -> BOOLEAN] /\ DOMAIN O!Nothing = {}
  BY DEF O!Nothing
<1>2. QED  BY <1>1 DEF O!List

\* What the vendor answers for a channel.
LEMMA ProbedAreListed ==
    ASSUME NEW c \in Ways, NEW models \in O!Probed(c)
    PROVE  models \in O!List /\ DOMAIN models \subseteq Listed[c]
<1>1. Listed[c] \subseteq Vendor
  BY ProviderLimits
<1>2. O!MarkImported(Listed[c]) \in [Listed[c] -> BOOLEAN]
  BY DEF O!MarkImported
<1>3. O!MarkImported(Listed[c]) \in O!List /\ DOMAIN O!MarkImported(Listed[c]) = Listed[c]
  BY <1>1, <1>2 DEF O!List
<1>4. models \in {O!MarkImported(Listed[c]), O!Nothing}
  BY DEF O!Probed
<1>5. QED  BY <1>3, <1>4, NoList

LEMMA OnboardingInit == Init => OnboardingInv
<1> SUFFICES ASSUME Init, scope = "onboarding"  PROVE OnboardingInv
  BY DEF OnboardingInv
<1>1. O!Init
  BY DEF Init
<1>2. import \in ImportPage
  BY <1>1 DEF O!Init, O!Closed, ImportPage
<1>3. O!TypeOK
  <2>1. bound \in [Vendor -> Ways \cup {None}] /\ keys \in [Ways -> 0..MaxSaves]
    BY <1>1, ProviderLimits DEF O!Init
  <2>2. import.picked = {} /\ import.posted = None
    BY <1>1 DEF O!Init, O!Closed
  <2>3. QED  BY <1>1, <2>1, <2>2 DEF O!Init, O!TypeOK
<1>4. ImportHolds
  BY <1>1, <1>2 DEF O!Init, O!Closed, ImportHolds
<1>5. WizardHolds /\ ListsHold /\ O!ModelsCanBeCalled
  BY <1>1 DEF O!Init, WizardHolds, ListsHold, O!ModelsCanBeCalled
<1>6. QED  BY <1>3, <1>4, <1>5 DEF OnboardingInv

\* A step of the pages leaves the models alone.
LEMMA PagesKept ==
    ASSUME OnboardingInv, scope = "onboarding", scope' = scope,
           UNCHANGED <<bound, on, enabled, keys, strayed>>, asking' \in BOOLEAN,
           wizard' = wizard \/ WizardHolds',
           import' = import \/ ImportHolds',
           \A x \in lists' \ lists :
               /\ x.channel \in Ways /\ x.models \in O!List
               /\ DOMAIN x.models \subseteq Listed[x.channel]
               /\ x.page # "wizard" => \A v \in DOMAIN x.models : O!HasKey(x.channel)
    PROVE  OnboardingInv'
<1>1. O!TypeOK /\ O!ModelsCanBeCalled /\ WizardHolds /\ ImportHolds /\ ListsHold
  BY DEF OnboardingInv
<1>2. \A c : O!HasKey(c)' <=> O!HasKey(c)
  BY DEF O!HasKey
<1>3. WizardHolds'
  BY <1>1 DEF WizardHolds
<1>4. ImportHolds'
  BY <1>1, <1>2 DEF ImportHolds
<1>5. ListsHold'
  BY <1>1, <1>2 DEF ListsHold
<1>6. O!ModelsCanBeCalled'
  BY <1>1, <1>2 DEF O!ModelsCanBeCalled
<1>7. /\ wizard' # None => wizard'.picked \subseteq O!Items /\ wizard'.posted \in O!Post \cup {None}
      /\ import'.picked \subseteq Vendor /\ import'.posted \in O!Post \cup {None}
  BY <1>3, <1>4 DEF WizardHolds, ImportHolds, WizardPage, ImportPage
<1>8. \A x \in lists' : x.channel \in Ways /\ x.models \in O!List
  BY <1>1 DEF O!TypeOK
<1>9. O!TypeOK'
  BY <1>1, <1>7, <1>8 DEF O!TypeOK
<1>10. QED  BY <1>3, <1>4, <1>5, <1>6, <1>9 DEF OnboardingInv


LEMMA OpenStep ==
    ASSUME OnboardingInv, scope = "onboarding", scope' = scope, O!OpenWizard
    PROVE  OnboardingInv'
<1>1. PICK c \in Ways :
        wizard' = [channel |-> c, known |-> on, list |-> None, picked |-> {},
                   confirmed |-> FALSE, astray |-> FALSE, posted |-> None]
  BY DEF O!OpenWizard
<1>2. on \subseteq Presets /\ asking \in BOOLEAN
  BY DEF OnboardingInv, O!TypeOK
<1>3. WizardHolds'
  <2>1. wizard' \in WizardPage
    BY <1>1, <1>2 DEF WizardPage
  <2>2. QED  BY <1>1, <2>1 DEF WizardHolds
<1>4. UNCHANGED <<asking, lists, bound, on, enabled, keys, import, strayed>>
  BY DEF O!OpenWizard, O!WizardOnly
<1>5. QED  BY <1>2, <1>3, <1>4, PagesKept

LEMMA WizardSteps ==
    ASSUME OnboardingInv, scope = "onboarding", scope' = scope, wizard # None,
           \/ O!CloseWizard
           \/ \E c \in Ways : O!ChooseChannel(c)
           \/ \E x \in O!Items : O!ToggleModel(x)
           \/ O!ConfirmVendorContract
           \/ O!Save
           \/ O!NotSaved
    PROVE  OnboardingInv'
<1>1. /\ on \subseteq Presets /\ asking \in BOOLEAN
      /\ UNCHANGED <<asking, lists, bound, on, enabled, keys, import, strayed>>
  BY DEF OnboardingInv, O!TypeOK, O!CloseWizard, O!ChooseChannel, O!ToggleModel,
         O!ConfirmVendorContract, O!Save, O!NotSaved, O!WizardOnly
<1>2. /\ wizard \in WizardPage
      /\ ~wizard.astray =>
            /\ \A v \in wizard.picked \cap Vendor : v \in Listed[wizard.channel]
            /\ wizard.list # None => DOMAIN wizard.list \subseteq Listed[wizard.channel]
      /\ wizard.posted # None /\ ~wizard.posted.astray =>
            \A v \in wizard.posted.picked \cap Vendor : v \in Listed[wizard.posted.channel]
  BY DEF OnboardingInv, WizardHolds
<1>3. ASSUME wizard' = None \/ WizardHolds'  PROVE OnboardingInv'
  BY <1>1, <1>3, PagesKept DEF WizardHolds
<1>4. ASSUME NEW c \in Ways, wizard' = O!Reset(c)  PROVE WizardHolds'
  <2>1. wizard' \in WizardPage
    BY <1>1, <1>2, <1>4 DEF O!Reset, WizardPage
  <2>2. QED  BY <1>2, <1>4, <2>1 DEF O!Reset, WizardHolds
<1>5. ASSUME NEW x \in O!Items, O!ToggleModel(x)  PROVE WizardHolds'
  <2>1. /\ wizard' = [wizard EXCEPT !.picked = O!Toggled(wizard.picked, x)]
        /\ x \in O!WizardItems
    BY <1>5 DEF O!ToggleModel
  <2>2. O!Toggled(wizard.picked, x) \subseteq wizard.picked \cup {x}
    BY DEF O!Toggled
  <2>3. x \in Vendor => wizard.list # None /\ x \in DOMAIN wizard.list
    BY <2>1, ProviderLimits DEF O!WizardItems
  <2> DEFINE new == O!Toggled(wizard.picked, x)
  <2> HIDE DEF new
  <2>4. new \subseteq O!Items
    BY <1>2, <1>5, <2>2 DEF new, WizardPage
  <2>5. wizard' \in WizardPage
    BY <1>2, <2>1, <2>4 DEF new, WizardPage
  <2>6. /\ wizard'.picked = new /\ wizard'.channel = wizard.channel /\ wizard'.list = wizard.list
        /\ wizard'.astray = wizard.astray /\ wizard'.posted = wizard.posted
    BY <1>2, <2>1 DEF new, WizardPage
  <2>7. ~wizard.astray => \A v \in new \cap Vendor : v \in Listed[wizard.channel]
    BY <1>2, <2>2, <2>3 DEF new
  <2>8. QED  BY <1>2, <2>5, <2>6, <2>7 DEF WizardHolds
<1>6. ASSUME O!ConfirmVendorContract  PROVE WizardHolds'
  <2> DEFINE new == IF wizard.confirmed THEN wizard.picked \cap Presets ELSE wizard.picked
  <2>1. wizard' = [wizard EXCEPT !.confirmed = ~wizard.confirmed, !.picked = new]
    BY <1>6 DEF O!ConfirmVendorContract
  <2>2. new \subseteq wizard.picked
    OBVIOUS
  <2> HIDE DEF new
  <2>3. wizard' \in WizardPage
    BY <1>2, <2>1, <2>2 DEF WizardPage
  <2>4. /\ wizard'.picked = new /\ wizard'.channel = wizard.channel /\ wizard'.list = wizard.list
        /\ wizard'.astray = wizard.astray /\ wizard'.posted = wizard.posted
    BY <1>2, <2>1 DEF WizardPage
  <2>5. QED  BY <1>2, <2>2, <2>3, <2>4 DEF WizardHolds
<1>7. ASSUME NEW p, p = None \/ p = [channel |-> wizard.channel, picked |-> wizard.picked,
                                     astray |-> wizard.astray],
             wizard' = [wizard EXCEPT !.posted = p]
      PROVE  WizardHolds'
  <2>1. p \in O!Post \cup {None}
    BY <1>2, <1>7 DEF O!Post, WizardPage
  <2>2. wizard' \in WizardPage
    BY <1>2, <1>7, <2>1 DEF WizardPage
  <2>3. /\ wizard'.picked = wizard.picked /\ wizard'.channel = wizard.channel
        /\ wizard'.list = wizard.list /\ wizard'.astray = wizard.astray /\ wizard'.posted = p
    BY <1>2, <1>7 DEF WizardPage
  <2>4. p # None /\ ~p.astray => \A v \in p.picked \cap Vendor : v \in Listed[p.channel]
    BY <1>2, <1>7
  <2>5. QED  BY <1>2, <2>2, <2>3, <2>4 DEF WizardHolds
<1>8. O!CloseWizard => wizard' = None
  BY DEF O!CloseWizard
<1>9. ASSUME O!Save \/ O!NotSaved  PROVE WizardHolds'
  BY <1>7, <1>9 DEF O!Save, O!NotSaved
<1>10. \A c \in Ways : O!ChooseChannel(c) => WizardHolds'
  BY <1>4 DEF O!ChooseChannel
<1>11. QED  BY <1>3, <1>5, <1>6, <1>8, <1>9, <1>10

LEMMA ProbeStep ==
    ASSUME OnboardingInv, scope = "onboarding", scope' = scope, O!Probe
    PROVE  OnboardingInv'
<1>1. wizard # None /\ wizard.channel \in Ways
  BY DEF O!Probe, OnboardingInv, WizardHolds, WizardPage
<1>2. PICK models \in O!Probed(wizard.channel) :
        lists' = lists \cup {[page |-> "wizard", channel |-> wizard.channel, models |-> models]}
  BY DEF O!Probe
<1>3. models \in O!List /\ DOMAIN models \subseteq Listed[wizard.channel]
  BY <1>1, <1>2, ProbedAreListed
<1>4. UNCHANGED <<wizard, bound, on, enabled, keys, import, strayed>> /\ asking' = TRUE
  BY DEF O!Probe, O!WizardOnly
<1>5. \A x \in lists' \ lists :
          x = [page |-> "wizard", channel |-> wizard.channel, models |-> models]
  BY <1>2
<1>6. \A x \in lists' \ lists :
        /\ x.channel \in Ways /\ x.models \in O!List
        /\ DOMAIN x.models \subseteq Listed[x.channel] /\ x.page = "wizard"
  BY <1>1, <1>3, <1>5
<1>7. QED  BY <1>4, <1>6, PagesKept


\* What a write adds has a channel to be called through, and a key stays.
LEMMA SavedStep ==
    ASSUME OnboardingInv, scope = "onboarding", scope' = scope, O!Saved
    PROVE  OnboardingInv'
<1> DEFINE c == wizard.posted.channel
           ids == wizard.posted.picked \cap Vendor
           ps == wizard.posted.picked \cap Presets
<1>1. O!TypeOK /\ O!ModelsCanBeCalled /\ WizardHolds /\ ImportHolds /\ ListsHold
  BY DEF OnboardingInv
<1>2. /\ wizard # None /\ wizard.posted # None
      /\ O!MayEnable(c, ps) /\ keys[c] < MaxSaves
      /\ enabled' = enabled \cup {c} /\ keys' = [keys EXCEPT ![c] = @ + 1]
      /\ bound' = [v \in Vendor |-> IF v \in ids /\ bound[v] = None THEN c ELSE bound[v]]
      /\ on' = on \cup ps
      /\ wizard' \in {None, [wizard EXCEPT !.posted = None]}
      /\ strayed' = strayed \cup O!NewlyStray(wizard.posted)
      /\ UNCHANGED <<asking, import, lists>>
  BY DEF O!Saved, O!AddCredentialWithModels, O!Import, O!PrepareChannel
<1>3. /\ wizard \in WizardPage /\ wizard.posted \in O!Post
      /\ ~wizard.posted.astray => \A v \in ids : v \in Listed[c]
  BY <1>1, <1>2 DEF WizardHolds, WizardPage
<1>4. c \in Ways /\ wizard.posted.picked \subseteq O!Items /\ wizard.posted.astray \in BOOLEAN
  BY <1>3 DEF O!Post
<1>5. /\ keys \in [Ways -> 0..MaxSaves] /\ enabled \subseteq Ways
      /\ bound \in [Vendor -> Ways \cup {None}] /\ on \subseteq Presets /\ strayed \subseteq Vendor
  BY <1>1 DEF O!TypeOK
<1>6. strayed' = strayed \cup (IF wizard.posted.astray THEN ids ELSE {})
  BY <1>2 DEF O!NewlyStray
<1> HIDE DEF c, ids, ps
<1>7. keys' \in [Ways -> 0..MaxSaves] /\ keys'[c] > 0
      /\ \A d \in Ways : keys[d] > 0 => keys'[d] > 0
  <2>1. keys[c] \in Nat /\ keys[c] + 1 \in 0..MaxSaves /\ keys[c] + 1 > 0
    BY <1>2, <1>4, <1>5, ProviderLimits
  <2>2. keys' \in [Ways -> 0..MaxSaves] /\ keys'[c] = keys[c] + 1
        /\ \A d \in Ways \ {c} : keys'[d] = keys[d]
    BY <1>2, <1>4, <1>5, <2>1
  <2>3. QED  BY <2>1, <2>2
<1>8. c \in enabled' /\ \A d \in Ways : O!HasKey(d) => O!HasKey(d)'
  BY <1>2, <1>7 DEF O!HasKey
<1>9. WizardHolds'
  <2> SUFFICES ASSUME wizard' = [wizard EXCEPT !.posted = None]  PROVE WizardHolds'
    BY <1>2 DEF WizardHolds
  <2>1. wizard' \in WizardPage
    BY <1>3 DEF WizardPage
  <2>2. QED  BY <1>1, <1>2, <1>3, <2>1 DEF WizardHolds, WizardPage
<1>10. ImportHolds'
  <2>1. import \in ImportPage
    BY <1>1 DEF ImportHolds
  <2>2. Listed \in [Ways -> SUBSET Vendor]
    BY ProviderLimits
  <2>3. \A d \in Ways \cup {None} : O!HasKey(d) => O!HasKey(d)'
    <3>1. \A d : O!HasKey(d) => d \in Ways
      BY <1>5 DEF O!HasKey
    <3>2. QED  BY <1>8, <3>1
  <2>4. import.posted # None => import.posted.channel \in Ways
    BY <2>1 DEF ImportPage, O!Post
  <2>5. import.channel \in Ways \cup {None}
    BY <2>1 DEF ImportPage
  <2>6. QED  BY <1>1, <1>2, <2>3, <2>4, <2>5 DEF ImportHolds
<1>11. ListsHold'
  BY <1>1, <1>2, <1>8 DEF ListsHold, O!TypeOK
<1>12. O!ModelsCanBeCalled'
  <2>1. ASSUME NEW v \in Vendor, bound'[v] # None, v \notin strayed'
        PROVE  v \in Listed[bound'[v]] /\ bound'[v] \in enabled' /\ keys'[bound'[v]] > 0
    <3>1. ASSUME v \in ids, bound[v] = None
          PROVE  v \in Listed[bound'[v]] /\ bound'[v] \in enabled' /\ keys'[bound'[v]] > 0
      <4>1. bound'[v] = c
        BY <1>2, <3>1
      <4>2. ~wizard.posted.astray
        BY <1>6, <2>1, <3>1
      <4>3. QED  BY <1>3, <1>7, <1>8, <3>1, <4>1, <4>2
    <3>2. ASSUME ~(v \in ids /\ bound[v] = None)
          PROVE  v \in Listed[bound'[v]] /\ bound'[v] \in enabled' /\ keys'[bound'[v]] > 0
      <4>1. bound'[v] = bound[v] /\ bound[v] \in Ways
        BY <1>2, <1>5, <2>1, <3>2
      <4>2. v \notin strayed
        BY <1>6, <2>1
      <4>3. v \in Listed[bound[v]] /\ bound[v] \in enabled /\ keys[bound[v]] > 0
        BY <1>1, <2>1, <4>1, <4>2 DEF O!ModelsCanBeCalled, O!HasKey
      <4>4. QED  BY <1>2, <1>7, <4>1, <4>3
    <3>3. QED  BY <3>1, <3>2
  <2>2. ASSUME NEW p \in on'  PROVE \E d \in Allowed[p] : O!HasKey(d)'
    <3>1. ASSUME p \in on  PROVE \E d \in Allowed[p] : O!HasKey(d)'
      <4>1. PICK d \in Allowed[p] : O!HasKey(d)
        BY <1>1, <3>1 DEF O!ModelsCanBeCalled
      <4>2. d \in Ways
        BY <1>5, <4>1 DEF O!HasKey
      <4>3. QED  BY <1>8, <4>1, <4>2
    <3>2. ASSUME p \in ps  PROVE \E d \in Allowed[p] : O!HasKey(d)'
      <4>1. c \in Allowed[p]
        BY <1>2, <3>2 DEF O!MayEnable
      <4>2. ASSUME NEW d, d = c  PROVE O!HasKey(d)'
        BY <1>7, <1>8, <4>2 DEF O!HasKey
      <4>3. QED  BY <4>1, <4>2
    <3>3. QED  BY <1>2, <2>2, <3>1, <3>2
  <2>3. QED  BY <2>1, <2>2 DEF O!ModelsCanBeCalled, O!HasKey
<1>13. O!TypeOK'
  <2>1. bound' \in [Vendor -> Ways \cup {None}]
    BY <1>2, <1>4, <1>5
  <2>2. /\ wizard' # None =>
              wizard'.picked \subseteq O!Items /\ wizard'.posted \in O!Post \cup {None}
    BY <1>9 DEF WizardHolds, WizardPage
  <2>3. enabled' \subseteq Ways /\ on' \subseteq Presets /\ strayed' \subseteq Vendor
    BY <1>2, <1>4, <1>5, <1>6 DEF ids, ps
  <2>4. /\ asking' \in BOOLEAN /\ import'.picked \subseteq Vendor
        /\ import'.posted \in O!Post \cup {None}
        /\ \A x \in lists' : x.channel \in Ways /\ x.models \in O!List
    BY <1>1, <1>2 DEF O!TypeOK
  <2>5. QED  BY <1>7, <2>1, <2>2, <2>3, <2>4 DEF O!TypeOK
<1>14. QED  BY <1>9, <1>10, <1>11, <1>12, <1>13 DEF OnboardingInv


LEMMA ImportSteps ==
    ASSUME OnboardingInv, scope = "onboarding", scope' = scope,
           \/ O!CloseImport
           \/ \E v \in Vendor : O!PickVendorModel(v)
           \/ O!ConfirmContract
           \/ O!DoImport
    PROVE  OnboardingInv'
<1>1. /\ asking \in BOOLEAN
      /\ UNCHANGED <<asking, lists, bound, on, enabled, keys, wizard, strayed>>
  BY DEF OnboardingInv, O!TypeOK, O!CloseImport, O!PickVendorModel, O!ConfirmContract, O!DoImport,
         O!ImportOnly
<1>2. import \in ImportPage /\ ImportHolds
  BY DEF OnboardingInv, ImportHolds
<1>3. \A c : O!HasKey(c)' <=> O!HasKey(c)
  BY <1>1 DEF O!HasKey
<1>4. ASSUME ImportHolds'  PROVE OnboardingInv'
  BY <1>1, <1>4, PagesKept
<1>5. ASSUME O!CloseImport  PROVE ImportHolds'
  <2>1. import' = [open |-> FALSE, channel |-> None, list |-> None, loading |-> FALSE,
                   picked |-> {}, confirmed |-> FALSE, astray |-> FALSE, posted |-> import.posted]
    BY <1>5 DEF O!CloseImport, O!Closed
  <2>2. import' \in ImportPage
    BY <1>2, <2>1 DEF ImportPage
  <2>3. QED  BY <1>2, <1>3, <2>1, <2>2 DEF ImportHolds
<1>6. ASSUME NEW v \in Vendor, O!PickVendorModel(v)  PROVE ImportHolds'
  <2> DEFINE new == O!Toggled(import.picked, v)
  <2>1. /\ import' = [import EXCEPT !.picked = new]
        /\ import.list # None /\ v \in DOMAIN import.list
    BY <1>6 DEF O!PickVendorModel, O!Pickable
  <2>2. new \subseteq import.picked \cup {v}
    BY DEF O!Toggled
  <2> HIDE DEF new
  <2>3. import' \in ImportPage
    BY <1>2, <2>1, <2>2 DEF ImportPage
  <2>4. /\ import'.picked = new /\ import'.channel = import.channel /\ import'.list = import.list
        /\ import'.astray = import.astray /\ import'.posted = import.posted
        /\ import'.open = import.open
    BY <1>2, <2>1 DEF ImportPage
  <2>5. ~import.astray => \A x \in new : x \in Listed[import.channel] /\ O!HasKey(import.channel)
    BY <1>2, <2>1, <2>2 DEF ImportHolds
  <2>6. \A c : c = import.channel => O!HasKey(c)' = O!HasKey(c)
    BY <1>1 DEF O!HasKey
  <2>7. QED  BY <1>2, <1>3, <2>3, <2>4, <2>5 DEF ImportHolds
<1>7. ASSUME O!ConfirmContract  PROVE ImportHolds'
  <2>1. import' = [import EXCEPT !.confirmed = ~import.confirmed]
    BY <1>7 DEF O!ConfirmContract
  <2>2. import' \in ImportPage
    BY <1>2, <2>1 DEF ImportPage
  <2>3. /\ import'.picked = import.picked /\ import'.channel = import.channel
        /\ import'.list = import.list /\ import'.astray = import.astray
        /\ import'.posted = import.posted /\ import'.open = import.open
    BY <1>2, <2>1 DEF ImportPage
  <2>4. QED  BY <1>2, <1>3, <2>2, <2>3 DEF ImportHolds
<1>8. ASSUME O!DoImport  PROVE ImportHolds'
  <2> DEFINE p == [channel |-> import.channel, picked |-> import.picked, astray |-> import.astray]
  <2>1. import' = [import EXCEPT !.posted = p] /\ import.open
    BY <1>8 DEF O!DoImport
  <2>2. p \in O!Post /\ p.picked \subseteq Vendor
    BY <1>2, <2>1 DEF ImportHolds, ImportPage, O!Post, O!Items
  <2>3. /\ p.channel = import.channel /\ p.picked = import.picked /\ p.astray = import.astray
    OBVIOUS
  <2> HIDE DEF p
  <2>4. import' \in ImportPage
    BY <1>2, <2>1, <2>2 DEF ImportPage
  <2>5. /\ import'.picked = import.picked /\ import'.channel = import.channel
        /\ import'.list = import.list /\ import'.astray = import.astray
        /\ import'.posted = p /\ import'.open = import.open
    BY <1>2, <2>1 DEF ImportPage
  <2>6. QED  BY <1>2, <1>3, <2>2, <2>3, <2>4, <2>5 DEF ImportHolds
<1>9. QED  BY <1>4, <1>5, <1>6, <1>7, <1>8

LEMMA LoadStep ==
    ASSUME OnboardingInv, scope = "onboarding", scope' = scope, NEW c \in Ways, O!LoadModels(c)
    PROVE  OnboardingInv'
<1>1. /\ asking \in BOOLEAN
      /\ UNCHANGED <<asking, bound, on, enabled, keys, wizard, strayed>>
  BY DEF OnboardingInv, O!TypeOK, O!LoadModels, O!ImportOnly
<1>2. PICK models \in O!VendorModels(c) :
        lists' = lists \cup {[page |-> "import", channel |-> c, models |-> models]}
  BY DEF O!LoadModels
<1>3. /\ models \in O!List /\ DOMAIN models \subseteq Listed[c]
      /\ \A v \in DOMAIN models : O!HasKey(c)
  <2>1. CASE O!HasKey(c)
    BY <1>2, <2>1, ProbedAreListed DEF O!VendorModels
  <2>2. CASE ~O!HasKey(c)
    BY <1>2, <2>2, NoList DEF O!VendorModels
  <2>3. QED  BY <2>1, <2>2
<1>4. \A x \in lists' \ lists : x = [page |-> "import", channel |-> c, models |-> models]
  BY <1>2
<1>5. \A x \in lists' \ lists :
        /\ x.channel \in Ways /\ x.models \in O!List
        /\ DOMAIN x.models \subseteq Listed[x.channel]
        /\ x.page # "wizard" => \A v \in DOMAIN x.models : O!HasKey(x.channel)
  BY <1>3, <1>4
<1>6. ImportHolds'
  <2>1. import \in ImportPage /\ ImportHolds
    BY DEF OnboardingInv, ImportHolds
  <2>2. import' = [open |-> TRUE, channel |-> c, list |-> None, loading |-> TRUE,
                   picked |-> {}, confirmed |-> FALSE, astray |-> FALSE, posted |-> import.posted]
    BY DEF O!LoadModels, O!Closed
  <2>3. import' \in ImportPage
    BY <2>1, <2>2 DEF ImportPage
  <2>4. \A d : O!HasKey(d)' <=> O!HasKey(d)
    BY <1>1 DEF O!HasKey
  <2>5. QED  BY <2>1, <2>2, <2>3, <2>4 DEF ImportHolds
<1>7. QED  BY <1>1, <1>5, <1>6, PagesKept

LEMMA ImportedStep ==
    ASSUME OnboardingInv, scope = "onboarding", scope' = scope, O!Imported
    PROVE  OnboardingInv'
<1> DEFINE c == import.posted.channel
           ids == import.posted.picked
<1>1. O!TypeOK /\ O!ModelsCanBeCalled /\ WizardHolds /\ ImportHolds /\ ListsHold
  BY DEF OnboardingInv
<1>2. /\ import.posted # None
      /\ \/ bound' = [v \in Vendor |-> IF v \in ids /\ bound[v] = None THEN c ELSE bound[v]]
         \/ bound' = bound
      /\ strayed' = strayed \cup O!NewlyStray(import.posted)
      /\ import' \in {O!Closed, [import EXCEPT !.posted = None]}
      /\ UNCHANGED <<lists, on, enabled, keys, wizard, asking>>
  BY DEF O!Imported, O!Import, O!ImportOnly
<1>3. /\ import \in ImportPage /\ import.posted \in O!Post /\ ids \subseteq Vendor
      /\ ~import.posted.astray => \A v \in ids : v \in Listed[c] /\ O!HasKey(c)
  BY <1>1, <1>2 DEF ImportHolds, ImportPage
<1>4. c \in Ways /\ import.posted.astray \in BOOLEAN
  BY <1>3 DEF O!Post
<1>5. /\ bound \in [Vendor -> Ways \cup {None}] /\ strayed \subseteq Vendor
  BY <1>1 DEF O!TypeOK
<1>6. strayed' = strayed \cup (IF import.posted.astray THEN ids ELSE {})
  BY <1>2, <1>3 DEF O!NewlyStray
<1>7. \A d : O!HasKey(d)' <=> O!HasKey(d)
  BY <1>2 DEF O!HasKey
<1>8. bound' \in [Vendor -> Ways \cup {None}]
  BY <1>2, <1>4, <1>5
<1>9. ImportHolds'
  <2>1. CASE import' = O!Closed
    <3>1. import' \in ImportPage
      BY <2>1 DEF O!Closed, ImportPage
    <3>2. QED  BY <2>1, <3>1 DEF O!Closed, ImportHolds
  <2>2. CASE import' = [import EXCEPT !.posted = None]
    <3>1. import' \in ImportPage
      BY <1>3, <2>2 DEF ImportPage
    <3>2. /\ import'.picked = import.picked /\ import'.channel = import.channel
          /\ import'.list = import.list /\ import'.astray = import.astray
          /\ import'.posted = None /\ import'.open = import.open
      BY <1>3, <2>2 DEF ImportPage
    <3>3. QED  BY <1>1, <1>7, <3>1, <3>2 DEF ImportHolds
  <2>3. QED  BY <1>2, <2>1, <2>2
<1>10. WizardHolds' /\ ListsHold'
  BY <1>1, <1>2, <1>7 DEF WizardHolds, ListsHold
<1> HIDE DEF c, ids
<1>11. O!ModelsCanBeCalled'
  <2>1. ASSUME NEW v \in Vendor, bound'[v] # None, v \notin strayed'
        PROVE  v \in Listed[bound'[v]] /\ bound'[v] \in enabled' /\ keys'[bound'[v]] > 0
    <3>1. ASSUME bound'[v] # bound[v]
          PROVE  v \in Listed[bound'[v]] /\ bound'[v] \in enabled' /\ keys'[bound'[v]] > 0
      <4>1. bound'[v] = c /\ v \in ids
        BY <1>2, <3>1
      <4>2. ~import.posted.astray
        BY <1>6, <2>1, <4>1
      <4>3. v \in Listed[c] /\ c \in enabled /\ keys[c] > 0
        BY <1>3, <4>1, <4>2 DEF O!HasKey
      <4>4. QED  BY <1>2, <4>1, <4>3
    <3>2. ASSUME bound'[v] = bound[v]
          PROVE  v \in Listed[bound'[v]] /\ bound'[v] \in enabled' /\ keys'[bound'[v]] > 0
      <4>1. v \notin strayed
        BY <1>6, <2>1
      <4>2. v \in Listed[bound[v]] /\ bound[v] \in enabled /\ keys[bound[v]] > 0
        BY <1>1, <2>1, <3>2, <4>1 DEF O!ModelsCanBeCalled, O!HasKey
      <4>3. QED  BY <1>2, <3>2, <4>2
    <3>3. QED  BY <3>1, <3>2
  <2>2. \A p \in on' : \E d \in Allowed[p] : O!HasKey(d)'
    BY <1>1, <1>2, <1>7 DEF O!ModelsCanBeCalled
  <2>3. QED  BY <2>1, <2>2 DEF O!ModelsCanBeCalled, O!HasKey
<1>12. O!TypeOK'
  <2>1. /\ import'.picked \subseteq Vendor /\ import'.posted \in O!Post \cup {None}
    BY <1>9 DEF ImportHolds, ImportPage
  <2>2. strayed' \subseteq Vendor
    BY <1>3, <1>5, <1>6
  <2>3. QED  BY <1>1, <1>2, <1>8, <2>1, <2>2 DEF O!TypeOK
<1>13. QED  BY <1>9, <1>10, <1>11, <1>12 DEF OnboardingInv

LEMMA ArriveStep ==
    ASSUME OnboardingInv, scope = "onboarding", scope' = scope, NEW x \in lists, O!ListArrives(x)
    PROVE  OnboardingInv'
<1>1. O!TypeOK /\ WizardHolds /\ ImportHolds /\ ListsHold
  BY DEF OnboardingInv
<1>2. /\ x.channel \in Ways /\ x.models \in O!List
      /\ DOMAIN x.models \subseteq Listed[x.channel]
      /\ x.page # "wizard" => \A v \in DOMAIN x.models : O!HasKey(x.channel)
  BY <1>1 DEF O!TypeOK, ListsHold
<1>3. UNCHANGED <<bound, on, enabled, keys, strayed>> /\ lists' \subseteq lists
      /\ asking \in BOOLEAN
  BY <1>1 DEF O!ListArrives, O!TypeOK
<1>4. CASE x.page = "wizard"
  <2>1. /\ asking' = FALSE /\ import' = import
        /\ wizard' = IF wizard = None THEN None
                     ELSE [wizard EXCEPT !.list = x.models,
                                         !.astray = @ \/ wizard.channel # x.channel]
    BY <1>4 DEF O!ListArrives
  <2>2. WizardHolds'
    <3> SUFFICES ASSUME wizard # None  PROVE WizardHolds'
      BY <2>1 DEF WizardHolds
    <3>1. wizard \in WizardPage
      BY <1>1 DEF WizardHolds
    <3> DEFINE stray == wizard.astray \/ wizard.channel # x.channel
    <3>2. wizard' = [wizard EXCEPT !.list = x.models, !.astray = stray]
      BY <2>1
    <3>3. stray \in BOOLEAN /\ (~stray => ~wizard.astray /\ wizard.channel = x.channel)
      BY <3>1 DEF WizardPage
    <3> HIDE DEF stray
    <3>4. wizard' \in WizardPage
      BY <1>2, <3>1, <3>2, <3>3 DEF WizardPage
    <3>5. /\ wizard'.picked = wizard.picked /\ wizard'.channel = wizard.channel
          /\ wizard'.list = x.models /\ wizard'.astray = stray /\ wizard'.posted = wizard.posted
      BY <3>1, <3>2 DEF WizardPage
    <3>6. QED  BY <1>1, <1>2, <3>3, <3>4, <3>5 DEF WizardHolds
  <2>3. QED  BY <1>3, <2>1, <2>2, PagesKept
<1>5. CASE x.page # "wizard"
  <2>1. /\ UNCHANGED <<wizard, asking>>
        /\ import' = IF ~import.open THEN import
                     ELSE [import EXCEPT !.list = x.models, !.loading = FALSE,
                                         !.astray = @ \/ import.channel # x.channel]
    BY <1>5 DEF O!ListArrives
  <2>2. import' = import \/ ImportHolds'
    <3> SUFFICES ASSUME import.open  PROVE ImportHolds'
      BY <2>1
    <3>1. import \in ImportPage
      BY <1>1 DEF ImportHolds
    <3> DEFINE stray == import.astray \/ import.channel # x.channel
    <3>2. import' = [import EXCEPT !.list = x.models, !.loading = FALSE, !.astray = stray]
      BY <2>1
    <3>3. stray \in BOOLEAN /\ (~stray => ~import.astray /\ import.channel = x.channel)
      BY <3>1 DEF ImportPage
    <3> HIDE DEF stray
    <3>4. import' \in ImportPage
      BY <1>2, <3>1, <3>2, <3>3 DEF ImportPage
    <3>5. /\ import'.picked = import.picked /\ import'.channel = import.channel
          /\ import'.list = x.models /\ import'.astray = stray /\ import'.posted = import.posted
          /\ import'.open = import.open
      BY <3>1, <3>2 DEF ImportPage
    <3>6. \A c : O!HasKey(c)' <=> O!HasKey(c)
      BY <1>3 DEF O!HasKey
    <3>7. QED  BY <1>1, <1>2, <1>5, <3>3, <3>4, <3>5, <3>6 DEF ImportHolds
  <2>3. QED  BY <1>3, <2>1, <2>2, PagesKept
<1>6. QED  BY <1>4, <1>5

LEMMA OnboardingStep == OnboardingInv /\ [Next]_vars => OnboardingInv'
<1> SUFFICES ASSUME OnboardingInv, [Next]_vars, scope = "onboarding"  PROVE OnboardingInv'
  BY OneMoves DEF OnboardingInv
<1>1. scope' = scope
  BY OneMoves
<1>2. CASE O!Next
  <2>1. /\ O!CloseWizard \/ O!ConfirmVendorContract \/ O!Save \/ O!NotSaved => wizard # None
        /\ \A c \in Ways : O!ChooseChannel(c) => wizard # None
        /\ \A x \in O!Items : O!ToggleModel(x) => wizard # None
    BY DEF O!CloseWizard, O!ConfirmVendorContract, O!Save, O!NotSaved, O!ChooseChannel,
           O!ToggleModel
  <2>2. QED
    BY <1>1, <1>2, <2>1, OpenStep, WizardSteps, ProbeStep, SavedStep, ImportSteps, LoadStep,
       ImportedStep, ArriveStep DEF O!Next
<1>3. CASE UNCHANGED onboardingVars
  <2>1. UNCHANGED <<bound, on, enabled, keys, wizard, asking, import, lists, strayed>>
    BY <1>3 DEF onboardingVars
  <2>2. asking \in BOOLEAN
    BY DEF OnboardingInv, O!TypeOK
  <2>3. QED  BY <1>1, <2>1, <2>2, PagesKept
<1>4. QED  BY <1>2, <1>3, OneMoves

LEMMA OnboardingCorrect == Spec => []OnboardingInv
BY OnboardingInit, OnboardingStep, PTL DEF Spec

(***************************************************************************)
(* GenerationFeed.                                                         *)
(***************************************************************************)

FeedScope == scope \in FeedScopes

\* A row of a Task that the page holds or that is on its way to it.
InHand(t, r) ==
    \/ feed[t] = r
    \/ listing \notin {None, <<>>} /\ listing[1][t] = r
    \/ round # None /\ round.got[t] = r
    \/ \E c \in Calls : calls[c] # None /\ calls[c].task = t /\ calls[c].reply = r

\* It was the row of the server once.
Behind(t, r) == r = rows[t] \/ r.at < rows[t].at \/ (r.at = rows[t].at /\ ~F!IsOver(r))

\* A reply is on its way that is later.
Coming(t, at) ==
    \E c \in Calls : /\ calls[c] # None /\ calls[c].task = t
                     /\ calls[c].reply \in F!Rows /\ calls[c].reply.at > at

\* A row that is over and yet behind is missed, or something later is known of.
Known(t, r) ==
    F!IsOver(r) /\ r # rows[t] =>
        t \in missed \/ Coming(t, r.at) \/ (feed[t] # None /\ feed[t].at > r.at)

RowsHold ==
    \A t \in Tasks, r \in F!Rows : InHand(t, r) => rows[t] # None /\ Behind(t, r) /\ Known(t, r)

RequestHolds(c) ==
    calls[c] # None =>
        /\ calls[c].conv = calls[c].from
        /\ calls[c].task # None => rows[calls[c].task] # None
        /\ calls[c].kind # "submit" => calls[c].task # None
        /\ calls[c].kind = "submit" /\ calls[c].reply \in F!Rows =>
              calls[c].task # None /\ sentFrom[calls[c].task] = calls[c].conv
TagsHold ==
    \A t \in Tasks :
        page.tags[t] # None => rows[t] # None /\ page.tags[t] = sentFrom[t]
Polled == F!Active(feed) = IF round = None THEN {} ELSE round.ids

FeedInv ==
    FeedScope =>
        /\ F!TypeOK /\ Home \in page.list
        /\ RowsHold /\ (\A c \in Calls : RequestHolds(c)) /\ TagsHold /\ Polled

LEMMA RowFields ==
    ASSUME NEW r \in F!Rows
    PROVE  /\ r = [status |-> r.status, at |-> r.at] /\ r.at \in 1..MaxAt /\ r.at \in Nat
           /\ r.status \in F!Over \cup {"active"} /\ r # F!Error /\ r # None
<1>1. r = [status |-> r.status, at |-> r.at] /\ r.at \in 1..MaxAt
      /\ r.status \in F!Over \cup {"active"}
  BY DEF F!Rows
<1>2. r.status # "error"
  BY <1>1 DEF F!Over
<1>3. r # F!Error
  BY <1>2 DEF F!Error
<1>4. QED  BY <1>1, <1>3, FeedLimits

LEMMA RequestFields ==
    ASSUME NEW q \in F!Requests
    PROVE  /\ q.kind \in {"submit", "retry", "cancel"} /\ q.task \in Tasks \cup {None}
           /\ q.conv \in F!Conversations /\ q.from \in F!Conversations
           /\ q.reply \in F!Rows \cup {None, F!Error} /\ q # None
           /\ q = [kind |-> q.kind, task |-> q.task, conv |-> q.conv, from |-> q.from,
                   reply |-> q.reply]
BY FeedLimits DEF F!Requests

\* merge takes no row back.
LEMMA MergeForward ==
    ASSUME NEW p \in F!Feeds, NEW f \in F!Feeds
    PROVE  /\ F!Merge(p, f) \in F!Feeds
           /\ \A t \in Tasks :
                 /\ F!Merge(p, f)[t] \in {p[t], f[t]}
                 /\ f[t] # None => F!Merge(p, f)[t] # None /\ F!Merge(p, f)[t].at >= f[t].at
                 /\ p[t] # None => F!Merge(p, f)[t] # None /\ F!Merge(p, f)[t].at >= p[t].at
<1> DEFINE m == F!Merge(p, f)
<1>1. \A t \in Tasks :
        m[t] = IF p[t] = None THEN f[t]
               ELSE IF f[t] = None \/ F!ShouldReplace(f[t], p[t]) THEN p[t] ELSE f[t]
  BY DEF F!Merge
<1>2. m \in F!Feeds
  BY <1>1 DEF F!Feeds, F!Merge
<1>3. \A t \in Tasks : (p[t] # None => p[t] \in F!Rows) /\ (f[t] # None => f[t] \in F!Rows)
  BY DEF F!Feeds
<1> HIDE DEF m
<1>4. ASSUME NEW t \in Tasks
      PROVE  /\ m[t] \in {p[t], f[t]}
             /\ f[t] # None => m[t] # None /\ m[t].at >= f[t].at
             /\ p[t] # None => m[t] # None /\ m[t].at >= p[t].at
  <2>1. CASE p[t] = None
    BY <1>1, <1>3, <2>1, RowFields
  <2>2. CASE p[t] # None /\ f[t] = None
    BY <1>1, <1>3, <2>2, RowFields
  <2>3. CASE p[t] # None /\ f[t] # None
    <3>1. p[t].at \in Nat /\ f[t].at \in Nat
      BY <1>3, <2>3, RowFields
    <3>2. F!ShouldReplace(f[t], p[t]) => p[t].at >= f[t].at
      BY <3>1 DEF F!ShouldReplace
    <3>3. ~F!ShouldReplace(f[t], p[t]) => f[t].at >= p[t].at
      BY <3>1 DEF F!ShouldReplace
    <3>4. QED  BY <1>1, <2>3, <3>1, <3>2, <3>3
  <2>4. QED  BY <2>1, <2>2, <2>3
<1>5. QED  BY <1>2, <1>4 DEF m

LEMMA FeedInit == Init => FeedInv
<1> SUFFICES ASSUME Init, FeedScope  PROVE FeedInv
  BY DEF FeedInv
<1>1. F!Init
  BY DEF Init
<1>2. F!NoRows \in F!Feeds /\ \A t \in Tasks : F!NoRows[t] = None
  BY DEF F!NoRows, F!Feeds
<1>3. F!TypeOK
  <2>1. page \in F!Pages /\ page.active \in page.list
    BY <1>1 DEF F!Init, F!Pages, F!Conversations
  <2>2. QED  BY <1>1, <1>2, <2>1 DEF F!Init, F!TypeOK
<1>4. \A t \in Tasks, r \in F!Rows : ~InHand(t, r)
  BY <1>1, <1>2, RowFields DEF F!Init, InHand
<1>5. Polled
  BY <1>1, <1>2 DEF F!Init, Polled, F!Active
<1>6. Home \in page.list /\ TagsHold /\ \A c \in Calls : RequestHolds(c)
  BY <1>1 DEF F!Init, TagsHold, RequestHolds
<1>7. QED  BY <1>3, <1>4, <1>5, <1>6 DEF FeedInv, RowsHold

\* Where the rows of the server stay, what the page knows of them stays, or is
\* missed, or is overtaken.
LEMMA RowsStay ==
    ASSUME RowsHold, UNCHANGED rows, F!TypeOK, F!TypeOK',
           \A t \in Tasks, r \in F!Rows : InHand(t, r)' => InHand(t, r) \/ r = rows[t],
           \A t \in Tasks : rows[t] = None => \A r \in F!Rows : ~InHand(t, r)',
           \A t \in Tasks : t \in missed => t \in missed' \/ feed'[t] = rows[t],
           \A t \in Tasks : \A at \in Nat :
               Coming(t, at) => \/ Coming(t, at)' \/ t \in missed' \/ feed'[t] = rows[t]
                                \/ (feed'[t] # None /\ feed'[t].at > at),
           \A t \in Tasks :
               feed[t] # None => \/ t \in missed' \/ feed'[t] = rows[t]
                                 \/ (feed'[t] # None /\ feed'[t].at >= feed[t].at)
    PROVE  RowsHold'
<1> SUFFICES ASSUME NEW t \in Tasks, NEW r \in F!Rows, InHand(t, r)'
             PROVE  rows'[t] # None /\ Behind(t, r)' /\ Known(t, r)'
  BY DEF RowsHold
<1>1. rows[t] # None /\ (r = rows[t] \/ (Behind(t, r) /\ Known(t, r)))
  BY DEF RowsHold
<1>2. /\ rows[t] \in F!Rows /\ r.at \in Nat /\ rows[t].at \in Nat
      /\ feed[t] # None => feed[t].at \in Nat
      /\ feed'[t] # None => feed'[t].at \in Nat
  <2>1. rows \in F!Feeds /\ feed \in F!Feeds /\ feed' \in F!Feeds
    BY DEF F!TypeOK
  <2>2. QED  BY <1>1, <2>1, RowFields DEF F!Feeds
<1>3. Behind(t, r)'
  BY <1>1 DEF Behind
<1>4. Known(t, r)'
  <2> SUFFICES ASSUME F!IsOver(r), r # rows[t]
               PROVE  t \in missed' \/ Coming(t, r.at)' \/ (feed'[t] # None /\ feed'[t].at > r.at)
    BY DEF Known
  <2>1. t \in missed \/ Coming(t, r.at) \/ (feed[t] # None /\ feed[t].at > r.at)
    BY <1>1 DEF Known
  <2>2. feed'[t] = rows[t] => feed'[t] # None /\ feed'[t].at > r.at
    BY <1>1, <1>2 DEF Behind
  <2>3. CASE t \in missed
    BY <2>2, <2>3
  <2>4. CASE Coming(t, r.at)
    BY <1>2, <2>2, <2>4
  <2>5. CASE feed[t] # None /\ feed[t].at > r.at
    BY <1>2, <2>2, <2>5
  <2>6. QED  BY <2>1, <2>3, <2>4, <2>5
<1>5. QED  BY <1>1, <1>3, <1>4


\* Asking for and answering a list or a poll brings the server's rows on their way.
LEMMA AskSteps ==
    ASSUME FeedInv, FeedScope, scope' = scope,
           \/ F!AnswerList \/ F!ListFails \/ F!Saved \/ F!Poll
           \/ \E t \in Tasks : F!AnswerPoll(t)
    PROVE  FeedInv'
<1>1. /\ F!TypeOK /\ Home \in page.list /\ RowsHold /\ TagsHold /\ Polled
      /\ \A c \in Calls : RequestHolds(c)
  BY DEF FeedInv
<1>2. UNCHANGED <<rows, born, feed, calls, page, sentFrom, missed>>
  BY DEF F!AnswerList, F!ListFails, F!Saved, F!Poll, F!AnswerPoll
<1>3. /\ rows \in F!Feeds
      /\ round # None => round \in F!Rounds /\ round.open \subseteq round.ids
  BY <1>1 DEF F!TypeOK
<1>4. ASSUME \/ UNCHANGED round
             \/ /\ round # None /\ round' \in F!Rounds /\ round'.open \subseteq round'.ids
                /\ round'.ids = round.ids
                /\ \A t \in Tasks : round'.got[t] \in {round.got[t], rows[t], None},
             \/ UNCHANGED listing
             \/ listing' \in {None, <<>>}
             \/ \E f \in F!Feeds : /\ listing' = <<f>>
                                   /\ \A t \in Tasks : f[t] \in {rows[t], None}
      PROVE  FeedInv'
  <2>1. round' # None => round' \in F!Rounds /\ round'.open \subseteq round'.ids
    BY <1>3, <1>4
  <2>2. listing' \notin {None, <<>>} => \E f \in F!Feeds : listing' = <<f>>
    BY <1>1, <1>4 DEF F!TypeOK
  <2>3. F!TypeOK'
    BY <1>1, <1>2, <2>1, <2>2 DEF F!TypeOK
  <2>4. \A t \in Tasks, at \in Nat : Coming(t, at)' <=> Coming(t, at)
    BY <1>2 DEF Coming
  <2>5. \A t \in Tasks, r \in F!Rows : InHand(t, r)' => InHand(t, r) \/ r = rows[t]
    <3> SUFFICES ASSUME NEW t \in Tasks, NEW r \in F!Rows, InHand(t, r)', r # rows[t]
                 PROVE  InHand(t, r)
      OBVIOUS
    <3>1. r # None
      BY RowFields
    <3>2. CASE listing' \notin {None, <<>>} /\ listing'[1][t] = r
      BY <1>4, <3>1, <3>2 DEF InHand
    <3>3. CASE round' # None /\ round'.got[t] = r
      BY <1>4, <3>1, <3>3 DEF InHand
    <3>4. QED  BY <1>2, <3>2, <3>3 DEF InHand
  <2>6. ASSUME NEW t \in Tasks, rows[t] = None, NEW r \in F!Rows  PROVE ~InHand(t, r)'
    BY <1>1, <2>5, <2>6, RowFields DEF RowsHold
  <2>7. \A t \in Tasks : feed[t] # None => feed[t].at >= feed[t].at
    BY <1>1, RowFields DEF F!TypeOK, F!Feeds
  <2>8. RowsHold'
    BY <1>1, <1>2, <2>3, <2>4, <2>5, <2>6, <2>7, RowsStay
  <2>9. TagsHold' /\ \A c \in Calls : RequestHolds(c)'
    BY <1>1, <1>2 DEF TagsHold, RequestHolds
  <2>10. Polled'
    <3>1. F!Active(feed)' = F!Active(feed)
      BY <1>2 DEF F!Active
    <3>2. (round' = None) <=> (round = None)
      BY <1>4, FeedLimits
    <3>3. round # None => round'.ids = round.ids
      BY <1>4
    <3>4. QED  BY <1>1, <3>1, <3>2, <3>3 DEF Polled
  <2>11. QED  BY <1>1, <1>2, <2>3, <2>8, <2>9, <2>10 DEF FeedInv, FeedScope
<1>5. CASE F!AnswerList
  <2> DEFINE f == [t \in Tasks |-> IF t \in F!Newest THEN rows[t] ELSE None]
  <2>1. listing' = <<f>> /\ UNCHANGED round
    BY <1>5 DEF F!AnswerList
  <2>2. f \in F!Feeds /\ \A t \in Tasks : f[t] \in {rows[t], None}
    BY <1>3 DEF F!Feeds
  <2>3. QED  BY <1>4, <2>1, <2>2
<1>6. CASE F!ListFails
  BY <1>4, <1>6 DEF F!ListFails
<1>7. CASE F!Saved
  BY <1>4, <1>7 DEF F!Saved
<1>8. CASE F!Poll
  <2>1. /\ round # None /\ UNCHANGED listing
        /\ round' = [round EXCEPT !.asked = TRUE, !.open = round.ids]
    BY <1>8 DEF F!Poll
  <2>2. /\ round' \in F!Rounds /\ round'.ids = round.ids /\ round'.open = round.ids
        /\ round'.got = round.got
    BY <1>3, <2>1 DEF F!Rounds
  <2>3. QED  BY <1>4, <2>1, <2>2
<1>9. ASSUME NEW t \in Tasks, F!AnswerPoll(t)  PROVE FeedInv'
  <2>1. PICK a \in {rows[t], None} :
          round' = [round EXCEPT !.got[t] = a, !.open = @ \ {t}]
    BY <1>9 DEF F!AnswerPoll
  <2>2. round # None /\ UNCHANGED listing
    BY <1>9 DEF F!AnswerPoll
  <2>3. /\ round \in F!Rounds /\ round.got \in F!Feeds
    BY <1>3, <2>2 DEF F!Rounds
  <2>4. a \in F!Rows \cup {None}
    BY <1>3 DEF F!Feeds
  <2> DEFINE g == [round.got EXCEPT ![t] = a]
  <2>5. g \in F!Feeds /\ \A x \in Tasks : g[x] \in {round.got[x], rows[x], None}
    BY <2>3, <2>4 DEF F!Feeds
  <2>6. round' = [round EXCEPT !.got = g, !.open = round.open \ {t}]
    BY <2>1, <2>3 DEF F!Rounds
  <2> HIDE DEF g
  <2>7. /\ round' \in F!Rounds /\ round'.ids = round.ids /\ round'.open = round.open \ {t}
        /\ round'.got = g
    BY <2>3, <2>5, <2>6 DEF F!Rounds
  <2>8. QED  BY <1>3, <1>4, <2>2, <2>5, <2>7
<1>10. QED  BY <1>5, <1>6, <1>7, <1>8, <1>9

\* A new round polls what the feed shows as not over.
LEMMA FreshRound ==
    ASSUME NEW ids \in SUBSET Tasks, NEW r, r = F!Fresh(ids)
    PROVE  /\ r = None <=> ids = {}
           /\ r # None => /\ r \in F!Rounds /\ r.ids = ids /\ r.open \subseteq r.ids
                          /\ \A t \in Tasks : r.got[t] = None
<1>1. CASE ids = {}
  BY <1>1 DEF F!Fresh
<1>2. CASE ids # {}
  <2>1. F!NoRows \in F!Feeds /\ \A t \in Tasks : F!NoRows[t] = None
    BY DEF F!NoRows, F!Feeds
  <2>2. r = [ids |-> ids, asked |-> FALSE, got |-> F!NoRows, open |-> {}]
    BY <1>2 DEF F!Fresh
  <2>3. r \in F!Rounds
    BY <1>2, <2>1, <2>2 DEF F!Rounds
  <2>4. r # None
    BY <2>3, FeedLimits
  <2>5. r.ids = ids /\ r.open = {} /\ r.got = F!NoRows
    BY <2>2
  <2>6. QED  BY <1>2, <2>1, <2>3, <2>4, <2>5
<1>3. QED  BY <1>1, <1>2

LEMMA ShownFeed ==
    ASSUME FeedInv, FeedScope, NEW f \in F!Feeds, feed' = f,
           round' = (IF F!Active(f) = F!Active(feed) THEN round ELSE F!Fresh(F!Active(f)))
              \/ round' = F!Fresh(F!Active(f))
    PROVE  /\ Polled' /\ (round' # None => round' \in F!Rounds /\ round'.open \subseteq round'.ids)
           /\ \A t \in Tasks, r \in F!Rows :
                 round' # None /\ round'.got[t] = r => round # None /\ round.got[t] = r
<1>1. F!Active(f) \subseteq Tasks /\ F!Active(feed)' = F!Active(f)
  BY DEF F!Active
<1>2. CASE round' = round /\ F!Active(f) = F!Active(feed)
  BY <1>1, <1>2 DEF FeedInv, Polled, F!TypeOK
<1>3. CASE round' = F!Fresh(F!Active(f))
  <2>1. /\ round' = None <=> F!Active(f) = {}
        /\ round' # None => /\ round' \in F!Rounds /\ round'.ids = F!Active(f)
                            /\ round'.open \subseteq round'.ids
                            /\ \A t \in Tasks : round'.got[t] = None
    BY <1>1, <1>3, FreshRound
  <2>2. Polled'
    BY <1>1, <2>1 DEF Polled
  <2>3. QED  BY <2>1, <2>2, RowFields
<1>4. QED  BY <1>2, <1>3


LEMMA ApplyListStep ==
    ASSUME FeedInv, FeedScope, scope' = scope, F!ApplyList
    PROVE  FeedInv'
<1>1. /\ F!TypeOK /\ Home \in page.list /\ RowsHold /\ TagsHold /\ Polled
      /\ \A c \in Calls : RequestHolds(c)
  BY DEF FeedInv
<1> DEFINE f == F!Reloaded(listing[1])
           late == {t \in Tasks : /\ feed[t] # None
                                  /\ feed'[t] = None \/ ~F!ShouldReplace(feed[t], feed'[t])}
<1>2. /\ listing \notin {None, <<>>} /\ listing' = None /\ feed' = f
      /\ round' = IF F!Active(f) = F!Active(feed) THEN round ELSE F!Fresh(F!Active(f))
      /\ UNCHANGED <<rows, born, calls, page, sentFrom>>
      /\ missed' = {t \in missed \cup late : feed'[t] = None \/ feed'[t] # rows'[t]}
  BY DEF F!ApplyList, F!ShowFeed, F!Misses
<1>3. /\ rows \in F!Feeds /\ feed \in F!Feeds /\ missed \subseteq Tasks
  BY <1>1 DEF F!TypeOK
<1>4. PICK g \in F!Feeds : listing = <<g>>
  BY <1>1, <1>2 DEF F!TypeOK
<1>5. f \in F!Feeds
      /\ \A t \in Tasks : f[t] = IF g[t] # None THEN g[t]
                                 ELSE IF t \in F!Active(feed) THEN feed[t] ELSE None
  BY <1>3, <1>4 DEF F!Reloaded, F!Feeds
<1> HIDE DEF f
<1>6. /\ Polled' /\ (round' # None => round' \in F!Rounds /\ round'.open \subseteq round'.ids)
      /\ \A t \in Tasks, r \in F!Rows :
            round' # None /\ round'.got[t] = r => round # None /\ round.got[t] = r
  BY <1>2, <1>5, ShownFeed
<1>7. F!TypeOK'
  BY <1>1, <1>2, <1>5, <1>6 DEF F!TypeOK
<1>8. \A t \in Tasks, r \in F!Rows : InHand(t, r)' => InHand(t, r)
  <2> SUFFICES ASSUME NEW t \in Tasks, NEW r \in F!Rows, InHand(t, r)'  PROVE InHand(t, r)
    OBVIOUS
  <2>1. r # None
    BY RowFields
  <2>2. feed'[t] = r => InHand(t, r)
    BY <1>2, <1>4, <1>5, <2>1 DEF InHand
  <2>3. QED  BY <1>2, <1>6, <2>2 DEF InHand
<1>9. ASSUME NEW t \in Tasks  PROVE feed'[t] # None => feed'[t].at \in Nat
  BY <1>2, <1>5, RowFields DEF F!Feeds
<1>10. ASSUME NEW t \in Tasks  PROVE t \in missed \cup late => t \in missed' \/ feed'[t] = rows[t]
  BY <1>2
<1>11. ASSUME NEW t \in Tasks, feed[t] # None
       PROVE  \/ t \in missed' \/ feed'[t] = rows[t]
              \/ (feed'[t] # None /\ feed'[t].at >= feed[t].at)
  <2>1. CASE t \in late
    BY <1>10, <2>1
  <2>2. CASE t \notin late
    <3>1. feed'[t] # None /\ F!ShouldReplace(feed[t], feed'[t])
      BY <1>11, <2>2
    <3>2. feed'[t].at \in Nat /\ feed[t].at \in Nat
      BY <1>3, <1>9, <1>11, <3>1, RowFields DEF F!Feeds
    <3>3. QED  BY <3>1, <3>2 DEF F!ShouldReplace
  <2>3. QED  BY <2>1, <2>2
<1>12. \A t \in Tasks, at \in Nat : Coming(t, at)' <=> Coming(t, at)
  BY <1>2 DEF Coming
<1>13. RowsHold'
  <2>1. \A t \in Tasks : rows[t] = None => \A r \in F!Rows : ~InHand(t, r)'
    BY <1>1, <1>8 DEF RowsHold
  <2> HIDE DEF late
  <2>2. QED  BY <1>1, <1>2, <1>7, <1>8, <1>10, <1>11, <1>12, <2>1, RowsStay
<1>14. TagsHold' /\ \A c \in Calls : RequestHolds(c)'
  BY <1>1, <1>2 DEF TagsHold, RequestHolds
<1>15. QED  BY <1>1, <1>2, <1>6, <1>7, <1>13, <1>14 DEF FeedInv, FeedScope

\* The answers of a round, or a reply, are merged into the feed; a new Task gets its tag.
LEMMA MergeStep ==
    ASSUME FeedInv, FeedScope, scope' = scope, NEW p \in F!Feeds, feed' = F!Merge(p, feed),
           round' = (IF F!Active(F!Merge(p, feed)) = F!Active(feed)
                     THEN round ELSE F!Fresh(F!Active(F!Merge(p, feed))))
              \/ round' = F!Fresh(F!Active(F!Merge(p, feed))),
           UNCHANGED <<rows, listing, sentFrom>>,
           \A t \in Tasks, r \in F!Rows : p[t] = r => InHand(t, r),
           calls' \in [Calls -> F!Requests \cup {None}],
           \A c \in Calls : calls'[c] \in {None, calls[c]},
           \A c \in Calls, t \in Tasks :
               /\ calls[c] # None /\ calls'[c] = None
               /\ calls[c].task = t /\ calls[c].reply \in F!Rows
               => p[t] = calls[c].reply,
           missed' = {t \in missed : feed'[t] = None \/ feed'[t] # rows'[t]},
           page' \in F!Pages, page'.active = page.active, page'.list = page.list, TagsHold'
    PROVE  FeedInv'
<1>1. /\ F!TypeOK /\ Home \in page.list /\ RowsHold /\ TagsHold /\ Polled
      /\ \A c \in Calls : RequestHolds(c)
  BY DEF FeedInv
<1>2. /\ rows \in F!Feeds /\ feed \in F!Feeds /\ missed \subseteq Tasks
      /\ calls \in [Calls -> F!Requests \cup {None}]
  BY <1>1 DEF F!TypeOK
<1> DEFINE m == F!Merge(p, feed)
<1>3. /\ m \in F!Feeds
      /\ \A t \in Tasks :
            /\ m[t] \in {p[t], feed[t]}
            /\ feed[t] # None => m[t] # None /\ m[t].at >= feed[t].at
            /\ p[t] # None => m[t] # None /\ m[t].at >= p[t].at
  BY <1>2, MergeForward
<1> HIDE DEF m
<1>4. feed' = m /\ (\/ round' = IF F!Active(m) = F!Active(feed) THEN round ELSE F!Fresh(F!Active(m))
                    \/ round' = F!Fresh(F!Active(m)))
  BY DEF m
<1>5. /\ Polled' /\ (round' # None => round' \in F!Rounds /\ round'.open \subseteq round'.ids)
      /\ \A t \in Tasks, r \in F!Rows :
            round' # None /\ round'.got[t] = r => round # None /\ round.got[t] = r
  BY <1>3, <1>4, ShownFeed
<1>6. F!TypeOK'
  BY <1>1, <1>3, <1>4, <1>5 DEF F!TypeOK
<1>7. \A t \in Tasks, r \in F!Rows : InHand(t, r)' => InHand(t, r)
  <2> SUFFICES ASSUME NEW t \in Tasks, NEW r \in F!Rows, InHand(t, r)'  PROVE InHand(t, r)
    OBVIOUS
  <2>1. feed'[t] = r => InHand(t, r)
    BY <1>3, <1>4 DEF InHand
  <2>2. ASSUME NEW c \in Calls, calls'[c] # None, calls'[c].task = t, calls'[c].reply = r
        PROVE  InHand(t, r)
    BY <2>2 DEF InHand
  <2>3. QED  BY <1>5, <2>1, <2>2 DEF InHand
<1>8. ASSUME NEW t \in Tasks  PROVE t \in missed => t \in missed' \/ feed'[t] = rows[t]
  OBVIOUS
<1>9. ASSUME NEW t \in Tasks, NEW at \in Nat, Coming(t, at)
      PROVE  Coming(t, at)' \/ (feed'[t] # None /\ feed'[t].at > at)
  <2>1. PICK c \in Calls : /\ calls[c] # None /\ calls[c].task = t
                           /\ calls[c].reply \in F!Rows /\ calls[c].reply.at > at
    BY <1>9 DEF Coming
  <2>2. CASE calls'[c] # None
    BY <2>1, <2>2 DEF Coming
  <2>3. CASE calls'[c] = None
    <3>1. p[t] = calls[c].reply
      BY <2>1, <2>3
    <3>2. m[t] # None /\ m[t].at >= p[t].at /\ p[t].at \in Nat /\ m[t] \in F!Rows \cup {None}
      BY <1>3, <2>1, <3>1, RowFields DEF F!Feeds
    <3>3. m[t].at \in Nat
      BY <3>2, RowFields
    <3>4. QED  BY <1>4, <2>1, <3>1, <3>2, <3>3
  <2>4. QED  BY <2>2, <2>3
<1>10. RowsHold'
  <2>1. \A t \in Tasks : rows[t] = None => \A r \in F!Rows : ~InHand(t, r)'
    BY <1>1, <1>7 DEF RowsHold
  <2>2. QED  BY <1>1, <1>3, <1>4, <1>6, <1>7, <1>8, <1>9, <2>1, RowsStay
<1>11. \A c \in Calls : RequestHolds(c)'
  <2> SUFFICES ASSUME NEW c \in Calls, calls'[c] # None  PROVE RequestHolds(c)'
    BY DEF RequestHolds
  <2>1. calls'[c] = calls[c] /\ RequestHolds(c)
    BY <1>1
  <2>2. QED  BY <2>1 DEF RequestHolds
<1>12. QED  BY <1>1, <1>5, <1>6, <1>10, <1>11 DEF FeedInv, FeedScope


LEMMA ApplyPollStep ==
    ASSUME FeedInv, FeedScope, scope' = scope, F!ApplyPoll
    PROVE  FeedInv'
<1>1. F!TypeOK /\ TagsHold
  BY DEF FeedInv
<1>2. /\ round # None /\ feed' = F!Merge(round.got, feed)
      /\ round' = F!Fresh(F!Active(feed'))
      /\ UNCHANGED <<rows, born, listing, calls, page, sentFrom>>
      /\ missed' = {t \in missed : feed'[t] = None \/ feed'[t] # rows'[t]}
  BY DEF F!ApplyPoll, F!Misses
<1>3. round.got \in F!Feeds /\ \A t \in Tasks, r \in F!Rows : round.got[t] = r => InHand(t, r)
  BY <1>1, <1>2 DEF F!TypeOK, F!Rounds, InHand
<1>4. round' = F!Fresh(F!Active(F!Merge(round.got, feed)))
  BY <1>2
<1>5. TagsHold'
  BY <1>1, <1>2 DEF TagsHold
<1>6. calls \in [Calls -> F!Requests \cup {None}] /\ page \in F!Pages
  BY <1>1 DEF F!TypeOK
<1>7. QED  BY <1>2, <1>3, <1>4, <1>5, <1>6, MergeStep

LEMMA ReplyStep ==
    ASSUME FeedInv, FeedScope, scope' = scope, NEW c \in Calls, F!Reply(c)
    PROVE  FeedInv'
<1> DEFINE q == calls[c]
           p == [F!NoRows EXCEPT ![q.task] = q.reply]
<1>1. F!TypeOK /\ TagsHold /\ RequestHolds(c)
  BY DEF FeedInv
<1>2. /\ rows \in F!Feeds /\ feed \in F!Feeds /\ page \in F!Pages /\ missed \subseteq Tasks
      /\ calls \in [Calls -> F!Requests \cup {None}]
  BY <1>1 DEF F!TypeOK
<1>3. /\ q # None /\ q.reply # None /\ calls' = [calls EXCEPT ![c] = None]
      /\ UNCHANGED <<rows, born, listing, sentFrom>>
      /\ missed' = {t \in missed : feed'[t] = None \/ feed'[t] # rows'[t]}
  BY DEF F!Reply, F!Misses
<1>4. q \in F!Requests
  BY <1>2, <1>3
<1>5. /\ q.kind \in {"submit", "retry", "cancel"} /\ q.task \in Tasks \cup {None}
      /\ q.conv \in F!Conversations /\ q.reply \in F!Rows \cup {None, F!Error}
  BY <1>4, RequestFields
<1>6. calls' \in [Calls -> F!Requests \cup {None}] /\ \A d \in Calls : calls'[d] \in {None, calls[d]}
      /\ \A e \in Calls : e # c => calls'[e] = calls[e]
  BY <1>2, <1>3
<1> HIDE DEF q, p
<1>7. CASE q.reply # F!Error
  <2>1. q.reply \in F!Rows
    BY <1>3, <1>5, <1>7
  <2>2. q.task \in Tasks /\ (q.kind = "submit" => sentFrom[q.task] = q.conv) /\ rows[q.task] # None
    BY <1>1, <1>3, <1>5, <2>1 DEF RequestHolds, q
  <2>3. /\ feed' = F!Merge(p, feed)
        /\ round' = IF F!Active(F!Merge(p, feed)) = F!Active(feed) THEN round
                    ELSE F!Fresh(F!Active(F!Merge(p, feed)))
        /\ page' = IF q.kind = "submit" THEN [page EXCEPT !.tags[q.task] = q.conv] ELSE page
    BY <1>7 DEF F!Reply, F!ShowFeed, F!Tagged, p, q
  <2>4. p \in F!Feeds /\ p[q.task] = q.reply /\ \A t \in Tasks \ {q.task} : p[t] = None
    BY <2>1, <2>2 DEF p, F!NoRows, F!Feeds
  <2>5. \A t \in Tasks, r \in F!Rows : p[t] = r => InHand(t, r)
    <3> SUFFICES ASSUME NEW t \in Tasks, NEW r \in F!Rows, p[t] = r  PROVE InHand(t, r)
      OBVIOUS
    <3>1. t = q.task /\ r = q.reply
      BY <2>4, RowFields
    <3>2. QED  BY <1>3, <3>1 DEF InHand, q
  <2>6. \A d \in Calls, t \in Tasks :
            /\ calls[d] # None /\ calls'[d] = None
            /\ calls[d].task = t /\ calls[d].reply \in F!Rows
            => p[t] = calls[d].reply
    BY <1>6, <2>4 DEF q
  <2>7. page' \in F!Pages /\ page'.active = page.active /\ page'.list = page.list
        /\ \A t \in Tasks : \/ page'.tags[t] = page.tags[t]
                            \/ t = q.task /\ q.kind = "submit" /\ page'.tags[t] = q.conv
    <3>1. CASE q.kind = "submit"
      <4> DEFINE g == [page.tags EXCEPT ![q.task] = q.conv]
      <4>1. page' = [page EXCEPT !.tags = g]
        BY <2>3, <3>1
      <4>2. /\ g \in [Tasks -> F!Conversations \cup {None}]
            /\ \A t \in Tasks : g[t] = page.tags[t] \/ (t = q.task /\ g[t] = q.conv)
        BY <1>2, <1>5, <2>2 DEF F!Pages
      <4> HIDE DEF g
      <4>3. page' \in F!Pages /\ page'.active = page.active /\ page'.list = page.list
            /\ page'.tags = g
        BY <1>2, <4>1, <4>2 DEF F!Pages
      <4>4. QED  BY <3>1, <4>2, <4>3
    <3>2. CASE q.kind # "submit"
      BY <1>2, <2>3, <3>2
    <3>3. QED  BY <3>1, <3>2
  <2>8. TagsHold'
    BY <1>1, <1>3, <2>2, <2>7 DEF TagsHold
  <2>9. QED  BY <1>3, <1>6, <2>3, <2>4, <2>5, <2>6, <2>7, <2>8, MergeStep
<1>8. CASE q.reply = F!Error
  <2> DEFINE n == F!NoRows
  <2>1. n \in F!Feeds /\ \A t \in Tasks : n[t] = None
    BY DEF F!NoRows, F!Feeds
  <2>2. UNCHANGED <<feed, round, page>>
    BY <1>8 DEF F!Reply, q
  <2>3. F!Merge(n, feed) = feed
    <3>1. F!Merge(n, feed) = [t \in Tasks |-> feed[t]]
      BY <2>1 DEF F!Merge
    <3>2. QED  BY <1>2, <3>1 DEF F!Feeds
  <2> HIDE DEF n
  <2>4. \A t \in Tasks, r \in F!Rows : n[t] = r => InHand(t, r)
    BY <2>1, RowFields
  <2>5. \A d \in Calls, t \in Tasks :
            /\ calls[d] # None /\ calls'[d] = None
            /\ calls[d].task = t /\ calls[d].reply \in F!Rows
            => n[t] = calls[d].reply
    BY <1>6, <1>8, RowFields DEF q
  <2>6. TagsHold'
    BY <1>1, <1>3, <2>2 DEF TagsHold
  <2>7. QED  BY <1>2, <1>3, <1>6, <2>1, <2>2, <2>3, <2>4, <2>5, <2>6, MergeStep
<1>9. QED  BY <1>7, <1>8

\* What a request that fails was to bring is missed.
LEMMA CallFailsStep ==
    ASSUME FeedInv, FeedScope, scope' = scope, NEW c \in Calls, F!CallFails(c)
    PROVE  FeedInv'
<1>1. /\ F!TypeOK /\ Home \in page.list /\ RowsHold /\ TagsHold /\ Polled
      /\ \A d \in Calls : RequestHolds(d)
  BY DEF FeedInv
<1>2. /\ feed \in F!Feeds /\ missed \subseteq Tasks
      /\ calls \in [Calls -> F!Requests \cup {None}]
  BY <1>1 DEF F!TypeOK
<1>3. /\ calls[c] # None /\ calls' = [calls EXCEPT ![c] = None]
      /\ UNCHANGED <<rows, born, feed, listing, round, page, sentFrom>>
      /\ missed' = {t \in missed \cup ({calls[c].task} \ {None}) : feed'[t] = None \/ feed'[t] # rows'[t]}
  BY DEF F!CallFails, F!Misses
<1>4. calls[c].task \in Tasks \cup {None}
  BY <1>2, <1>3, RequestFields
<1>5. /\ calls' \in [Calls -> F!Requests \cup {None}]
      /\ \A d \in Calls : d # c => calls'[d] = calls[d]
      /\ calls'[c] = None
  BY <1>2, <1>3
<1>6. F!TypeOK'
  <2>1. missed' \subseteq Tasks
    BY <1>2, <1>3, <1>4
  <2>2. QED  BY <1>1, <1>3, <1>5, <2>1 DEF F!TypeOK
<1>7. \A t \in Tasks, r \in F!Rows : InHand(t, r)' => InHand(t, r)
  BY <1>3, <1>5 DEF InHand
<1>8. ASSUME NEW t \in Tasks, NEW at \in Nat, Coming(t, at), ~Coming(t, at)'
      PROVE  t \in missed' \/ feed'[t] = rows[t]
  <2>1. calls[c].task = t
    BY <1>5, <1>8 DEF Coming
  <2>2. t # None
    BY FeedLimits
  <2>3. QED  BY <1>3, <2>1, <2>2
<1>9. \A t \in Tasks : feed[t] # None => feed[t].at >= feed[t].at
  BY <1>2, RowFields DEF F!Feeds
<1>10. RowsHold'
  <2>1. \A t \in Tasks : rows[t] = None => \A r \in F!Rows : ~InHand(t, r)'
    BY <1>1, <1>7 DEF RowsHold
  <2>2. \A t \in Tasks : t \in missed => t \in missed' \/ feed'[t] = rows[t]
    BY <1>3
  <2>3. QED  BY <1>1, <1>3, <1>6, <1>7, <1>8, <1>9, <2>1, <2>2, RowsStay
<1>11. TagsHold' /\ \A d \in Calls : RequestHolds(d)'
  BY <1>1, <1>3, <1>5 DEF TagsHold, RequestHolds
<1>12. Polled'
  BY <1>1, <1>3 DEF Polled, F!Active
<1>13. QED  BY <1>1, <1>3, <1>6, <1>10, <1>11, <1>12 DEF FeedInv, FeedScope

\* A new request has no answer yet.
LEMMA StartStep ==
    ASSUME FeedInv, FeedScope, scope' = scope, NEW c \in Calls,
           NEW kind \in {"submit", "retry", "cancel"}, NEW t \in Tasks \cup {None},
           F!Start(c, F!Call(kind, t, page.active)),
           t # None => rows[t] # None, kind # "submit" => t # None,
           UNCHANGED <<rows, born, feed, listing, round, page, sentFrom, missed>>
    PROVE  FeedInv'
<1>1. /\ F!TypeOK /\ Home \in page.list /\ RowsHold /\ TagsHold /\ Polled
      /\ \A d \in Calls : RequestHolds(d)
  BY DEF FeedInv
<1>2. /\ feed \in F!Feeds /\ missed \subseteq Tasks /\ page.active \in F!Conversations
      /\ calls \in [Calls -> F!Requests \cup {None}]
  BY <1>1 DEF F!TypeOK, F!Pages
<1> DEFINE q == [kind |-> kind, task |-> t, conv |-> page.active, from |-> page.active,
                 reply |-> None]
<1>3. calls[c] = None /\ calls' = [calls EXCEPT ![c] = q]
  BY DEF F!Start, F!Call
<1>4. q \in F!Requests /\ q.reply = None /\ q.task = t /\ q.kind = kind /\ q.conv = q.from
  BY <1>2 DEF F!Requests
<1> HIDE DEF q
<1>5. /\ calls' \in [Calls -> F!Requests \cup {None}]
      /\ calls'[c] = q
      /\ \A d \in Calls : d # c => calls'[d] = calls[d]
  BY <1>2, <1>3, <1>4
<1>6. F!TypeOK'
  BY <1>1, <1>5 DEF F!TypeOK
<1>7. \A x \in Tasks, r \in F!Rows : InHand(x, r)' => InHand(x, r)
  BY <1>4, <1>5, RowFields DEF InHand
<1>8. \A x \in Tasks, at \in Nat : Coming(x, at) => Coming(x, at)'
  BY <1>3, <1>5 DEF Coming
<1>9. \A x \in Tasks : feed[x] # None => feed[x].at >= feed[x].at
  BY <1>2, RowFields DEF F!Feeds
<1>10. RowsHold'
  <2>1. \A x \in Tasks : rows[x] = None => \A r \in F!Rows : ~InHand(x, r)'
    BY <1>1, <1>7 DEF RowsHold
  <2>2. QED  BY <1>1, <1>6, <1>7, <1>8, <1>9, <2>1, RowsStay
<1>11. ASSUME NEW d \in Calls  PROVE RequestHolds(d)'
  <2>1. CASE d = c
    BY <1>4, <1>5, <2>1, RowFields DEF RequestHolds
  <2>2. CASE d # c
    BY <1>1, <1>5, <2>2 DEF RequestHolds
  <2>3. QED  BY <2>1, <2>2
<1>12. TagsHold' /\ Polled'
  BY <1>1 DEF TagsHold, Polled, F!Active
<1>13. QED  BY <1>1, <1>6, <1>10, <1>11, <1>12 DEF FeedInv, FeedScope

LEMMA RequestSteps ==
    ASSUME FeedInv, FeedScope, scope' = scope,
           \/ \E c \in Calls : F!Submit(c)
           \/ \E c \in Calls, t \in Tasks, kind \in {"retry", "cancel"} : F!Press(c, kind, t)
    PROVE  FeedInv'
<1>1. ASSUME NEW c \in Calls, F!Submit(c)  PROVE FeedInv'
  <2>1. F!Start(c, F!Call("submit", None, page.active))
        /\ UNCHANGED <<rows, born, feed, listing, round, page, sentFrom, missed>>
    BY <1>1 DEF F!Submit
  <2>2. QED  BY <2>1, StartStep
<1>2. ASSUME NEW c \in Calls, NEW t \in Tasks, NEW kind \in {"retry", "cancel"}, F!Press(c, kind, t)
      PROVE  FeedInv'
  <2>1. /\ feed[t] # None /\ F!Start(c, F!Call(kind, t, page.active))
        /\ UNCHANGED <<rows, born, feed, listing, round, page, sentFrom, missed>>
    BY <1>2 DEF F!Press
  <2>2. feed[t] \in F!Rows
    BY <2>1 DEF FeedInv, F!TypeOK, F!Feeds
  <2>3. rows[t] # None
    BY <2>2 DEF FeedInv, RowsHold, InHand
  <2>4. t # None /\ kind # "submit"
    BY FeedLimits
  <2>5. QED  BY <2>1, <2>3, <2>4, StartStep
<1>3. QED  BY <1>1, <1>2


\* The page begins anew: nothing is known of any Task, and at most one request is sent.
LEMMA ResetSteps ==
    ASSUME FeedInv, FeedScope, scope' = scope,
           F!Reopen \/ \E v \in Created, c \in Calls : F!Handoff(v, c)
    PROVE  FeedInv'
<1>1. /\ F!TypeOK /\ Home \in page.list /\ TagsHold
  BY DEF FeedInv
<1>2. /\ feed' = F!NoRows /\ round' = None /\ listing' = <<>> /\ missed' = {}
      /\ UNCHANGED <<rows, born, sentFrom>>
  BY DEF F!Reopen, F!Handoff, F!Misses
<1>3. /\ page' \in F!Pages /\ page'.active \in page'.list /\ Home \in page'.list
      /\ page'.tags = page.tags
      /\ \A d \in Calls :
            \/ calls'[d] = None
            \/ \E v \in F!Conversations : calls'[d] = F!Call("submit", None, v)
      /\ DOMAIN calls' = Calls /\ calls' = [d \in Calls |-> calls'[d]]
  <2>1. page \in F!Pages /\ page.active \in page.list
    BY <1>1 DEF F!TypeOK
  <2>2. CASE F!Reopen
    BY <1>1, <2>1, <2>2 DEF F!Reopen
  <2>3. ASSUME NEW v \in Created, NEW c \in Calls, F!Handoff(v, c)
        PROVE  /\ page' \in F!Pages /\ page'.active \in page'.list /\ Home \in page'.list
               /\ page'.tags = page.tags
               /\ \A d \in Calls :
                     \/ calls'[d] = None
                     \/ \E w \in F!Conversations : calls'[d] = F!Call("submit", None, w)
               /\ DOMAIN calls' = Calls /\ calls' = [d \in Calls |-> calls'[d]]
    <3>1. v \in F!Conversations
      BY DEF F!Conversations
    <3>2. page' = [page EXCEPT !.list = page.list \cup {v}, !.active = v]
      BY <2>3 DEF F!Handoff
    <3>3. calls' = [d \in Calls |-> IF d = c THEN F!Call("submit", None, v) ELSE None]
      BY <2>3 DEF F!Handoff
    <3>4. /\ page' \in F!Pages /\ page'.active \in page'.list /\ Home \in page'.list
          /\ page'.tags = page.tags
      BY <1>1, <2>1, <3>1, <3>2 DEF F!Pages
    <3>5. QED  BY <3>1, <3>3, <3>4
  <2>4. QED  BY <2>2, <2>3
<1>4. ASSUME NEW d \in Calls, calls'[d] # None
      PROVE  /\ calls'[d] \in F!Requests /\ calls'[d].kind = "submit" /\ calls'[d].task = None
             /\ calls'[d].conv = calls'[d].from /\ calls'[d].reply = None
  BY <1>3, <1>4 DEF F!Call, F!Requests
<1>5. F!TypeOK'
  <2>1. F!NoRows \in F!Feeds
    BY DEF F!NoRows, F!Feeds
  <2>2. calls' \in [Calls -> F!Requests \cup {None}]
    BY <1>3, <1>4
  <2>3. QED  BY <1>1, <1>2, <1>3, <2>1, <2>2 DEF F!TypeOK
<1>6. RowsHold'
  <2>1. \A t \in Tasks, r \in F!Rows : ~InHand(t, r)'
    BY <1>2, <1>4, RowFields DEF InHand, F!NoRows
  <2>2. QED  BY <2>1 DEF RowsHold
<1>7. \A d \in Calls : RequestHolds(d)'
  BY <1>4, RowFields DEF RequestHolds
<1>8. TagsHold'
  BY <1>1, <1>2, <1>3 DEF TagsHold
<1>9. Polled'
  BY <1>2 DEF Polled, F!Active, F!NoRows
<1>10. QED  BY <1>3, <1>5, <1>6, <1>7, <1>8, <1>9 DEF FeedInv, FeedScope

LEMMA RouteSteps ==
    ASSUME FeedInv, FeedScope, scope' = scope,
           \/ \E v \in F!Conversations : F!Select(v)
           \/ \E v \in Created : F!NewConversation(v) \/ F!Remove(v)
    PROVE  FeedInv'
<1>1. /\ F!TypeOK /\ Home \in page.list /\ RowsHold /\ TagsHold /\ Polled
      /\ \A d \in Calls : RequestHolds(d)
  BY DEF FeedInv
<1>2. UNCHANGED <<rows, born, feed, listing, round, calls, sentFrom, missed>>
  BY DEF F!Select, F!NewConversation, F!Remove
<1>3. page \in F!Pages /\ page.active \in page.list /\ Home \in F!Conversations
  BY <1>1 DEF F!TypeOK, F!Conversations
<1>4. /\ page' \in F!Pages /\ page'.active \in page'.list /\ Home \in page'.list
      /\ page'.tags = page.tags
  <2>1. ASSUME NEW v \in F!Conversations, F!Select(v)
        PROVE  /\ page' \in F!Pages /\ page'.active \in page'.list /\ Home \in page'.list
               /\ page'.tags = page.tags
    BY <1>1, <1>3, <2>1 DEF F!Select, F!Pages
  <2>2. ASSUME NEW v \in Created, F!NewConversation(v)
        PROVE  /\ page' \in F!Pages /\ page'.active \in page'.list /\ Home \in page'.list
               /\ page'.tags = page.tags
    <3>1. page' = [page EXCEPT !.list = page.list \cup {v}, !.active = v] /\ v \in F!Conversations
      BY <2>2 DEF F!NewConversation, F!Conversations
    <3>2. QED  BY <1>1, <1>3, <3>1 DEF F!Pages
  <2>3. ASSUME NEW v \in Created, F!Remove(v)
        PROVE  /\ page' \in F!Pages /\ page'.active \in page'.list /\ Home \in page'.list
               /\ page'.tags = page.tags
    <3> DEFINE a == IF page.active = v THEN Home ELSE page.active
    <3>1. page' = [page EXCEPT !.list = page.list \ {v}, !.active = a] /\ v # Home
      BY <2>3 DEF F!Remove
    <3>2. a \in page.list \ {v} /\ a \in F!Conversations
      BY <1>1, <1>3, <3>1 DEF F!Pages
    <3> HIDE DEF a
    <3>3. QED  BY <1>1, <1>3, <3>1, <3>2 DEF F!Pages
  <2>4. QED  BY <2>1, <2>2, <2>3
<1>5. F!TypeOK'
  BY <1>1, <1>2, <1>4 DEF F!TypeOK
<1>6. /\ \A t \in Tasks, r \in F!Rows : InHand(t, r)' <=> InHand(t, r)
      /\ \A t \in Tasks, at \in Nat : Coming(t, at)' <=> Coming(t, at)
  BY <1>2 DEF InHand, Coming
<1>7. RowsHold'
  <2>1. \A t \in Tasks, r \in F!Rows : Behind(t, r) => Behind(t, r)'
    BY <1>2 DEF Behind
  <2>2. \A t \in Tasks, r \in F!Rows : Known(t, r) => Known(t, r)'
    BY <1>2, <1>6, RowFields DEF Known
  <2>3. QED  BY <1>1, <1>2, <1>6, <2>1, <2>2 DEF RowsHold
<1>8. TagsHold' /\ Polled' /\ \A d \in Calls : RequestHolds(d)'
  BY <1>1, <1>2, <1>4 DEF TagsHold, Polled, F!Active, RequestHolds
<1>9. QED  BY <1>1, <1>4, <1>5, <1>7, <1>8 DEF FeedInv, FeedScope

\* A row of the server moves on: its time does not go back, and what is over changes
\* only under a reply that is on its way.
LEMMA RowMoves ==
    ASSUME RowsHold, F!TypeOK, F!TypeOK', NEW t \in Tasks, NEW new \in F!Rows,
           rows' = [rows EXCEPT ![t] = new], UNCHANGED <<feed, missed>>,
           \A x \in Tasks, r \in F!Rows : InHand(x, r)' => InHand(x, r) \/ (x = t /\ r = new),
           \A x \in Tasks, at \in Nat : Coming(x, at) => Coming(x, at)',
           \/ rows[t] = None
           \/ rows[t] = new
           \/ rows[t] # None /\ ~F!IsOver(rows[t]) /\ rows[t].at <= new.at
           \/ /\ rows[t] # None /\ rows[t].at < new.at
              /\ \A at \in Nat : new.at > at => Coming(t, at)'
    PROVE  RowsHold'
<1> SUFFICES ASSUME NEW x \in Tasks, NEW r \in F!Rows, InHand(x, r)'
             PROVE  rows'[x] # None /\ Behind(x, r)' /\ Known(x, r)'
  BY DEF RowsHold
<1>1. rows \in F!Feeds /\ new # None /\ new.at \in Nat /\ r.at \in Nat /\ rows'[t] = new
      /\ \A y \in Tasks : y # t => rows'[y] = rows[y]
  BY RowFields DEF F!TypeOK, F!Feeds
<1>2. \A at \in Nat : Known(x, r) /\ rows'[x] = rows[x] /\ at = r.at => Known(x, r)'
  BY DEF Known
<1>3. CASE x = t /\ r = new
  BY <1>1, <1>3 DEF Behind, Known
<1>4. CASE InHand(x, r) /\ ~(x = t /\ r = new)
  <2>1. rows[x] # None /\ Behind(x, r) /\ Known(x, r)
    BY <1>4 DEF RowsHold
  <2>2. rows[x] \in F!Rows /\ rows[x].at \in Nat
    BY <1>1, <2>1, RowFields DEF F!Feeds
  <2>3. CASE x # t \/ rows[t] = new
    <3>1. rows'[x] = rows[x]
      BY <1>1, <2>3
    <3>2. QED  BY <1>1, <1>2, <2>1, <3>1 DEF Behind
  <2>4. CASE x = t /\ ~F!IsOver(rows[t]) /\ rows[t].at <= new.at
    <3>1. Behind(x, r)'
      BY <1>1, <2>1, <2>2, <2>4 DEF Behind
    <3>2. Known(x, r)'
      BY <1>1, <2>1, <2>4 DEF Known
    <3>3. QED  BY <1>1, <2>4, <3>1, <3>2
  <2>5. CASE x = t /\ rows[t].at < new.at /\ \A at \in Nat : new.at > at => Coming(t, at)'
    <3>1. r.at < new.at
      BY <1>1, <2>1, <2>2, <2>5 DEF Behind
    <3>2. Coming(t, r.at)'
      BY <1>1, <2>5, <3>1
    <3>3. QED  BY <1>1, <2>5, <3>1, <3>2 DEF Behind, Known
  <2>6. QED  BY <2>1, <2>3, <2>4, <2>5
<1>5. QED  BY <1>3, <1>4


LEMMA ServerStep ==
    ASSUME FeedInv, FeedScope, scope' = scope, NEW t \in Tasks, F!ServerMoves(t)
    PROVE  FeedInv'
<1>1. /\ F!TypeOK /\ Home \in page.list /\ RowsHold /\ TagsHold /\ Polled
      /\ \A d \in Calls : RequestHolds(d)
  BY DEF FeedInv
<1>2. /\ rows[t] # None /\ ~F!IsOver(rows[t])
      /\ UNCHANGED <<born, feed, listing, round, calls, page, sentFrom, missed>>
  BY DEF F!ServerMoves
<1>3. PICK s \in {"active", "succeeded", "failed"}, at \in {rows[t].at, rows[t].at + 1} :
        at <= MaxAt /\ rows' = [rows EXCEPT ![t] = [status |-> s, at |-> at]]
  BY DEF F!ServerMoves
<1>4. rows \in F!Feeds /\ rows[t] \in F!Rows /\ rows[t].at \in 1..MaxAt
  BY <1>1, <1>2, RowFields DEF F!TypeOK, F!Feeds
<1> DEFINE new == [status |-> s, at |-> at]
<1>5. new \in F!Rows /\ rows[t].at <= new.at
  BY <1>3, <1>4, FeedLimits DEF F!Rows, F!Over
<1>6. rows' = [rows EXCEPT ![t] = new]
  BY <1>3
<1> HIDE DEF new
<1>7. rows' \in F!Feeds /\ \A x \in Tasks : rows[x] # None => rows'[x] # None
  BY <1>4, <1>5, <1>6, RowFields DEF F!Feeds
<1>8. F!TypeOK'
  BY <1>1, <1>2, <1>7 DEF F!TypeOK
<1>9. /\ \A x \in Tasks, r \in F!Rows : InHand(x, r)' => InHand(x, r)
      /\ \A x \in Tasks, y \in Nat : Coming(x, y) => Coming(x, y)'
  BY <1>2 DEF InHand, Coming
<1>10. RowsHold'
  BY <1>1, <1>2, <1>5, <1>6, <1>8, <1>9, RowMoves
<1>11. TagsHold' /\ Polled'
  BY <1>1, <1>2, <1>7 DEF TagsHold, Polled, F!Active
<1>12. ASSUME NEW d \in Calls  PROVE RequestHolds(d)'
  <2> SUFFICES ASSUME calls[d] # None, calls[d].task # None  PROVE rows'[calls[d].task] # None
    BY <1>1, <1>2 DEF RequestHolds
  <2>1. calls[d].task \in Tasks
    BY <1>1, RequestFields DEF F!TypeOK
  <2>2. QED  BY <1>1, <1>7, <2>1 DEF RequestHolds
<1>13. QED  BY <1>1, <1>2, <1>8, <1>10, <1>11, <1>12 DEF FeedInv, FeedScope

\* A request is served: a Task is created, queued again or cancelled, and the reply
\* is its row.
LEMMA ServedStep ==
    ASSUME FeedInv, FeedScope, scope' = scope, NEW c \in Calls, calls[c] # None,
           calls[c].reply = None, NEW t \in Tasks, NEW new \in F!Rows, NEW q \in F!Requests,
           rows' = [rows EXCEPT ![t] = new], calls' = [calls EXCEPT ![c] = q],
           q.task = t, q.reply \in {new, F!Error}, q.kind = calls[c].kind, q.conv = calls[c].conv,
           q.from = calls[c].from,
           UNCHANGED <<feed, listing, round, page, missed>>,
           \/ /\ rows[t] = None
              /\ sentFrom' = [sentFrom EXCEPT ![t] = calls[c].from]
           \/ /\ rows[t] # None /\ UNCHANGED sentFrom /\ q.kind # "submit"
              /\ \/ rows[t] = new
                 \/ ~F!IsOver(rows[t]) /\ rows[t].at <= new.at
                 \/ rows[t].at < new.at /\ q.reply = new
    PROVE  FeedInv'
<1>1. /\ F!TypeOK /\ Home \in page.list /\ RowsHold /\ TagsHold /\ Polled
      /\ \A d \in Calls : RequestHolds(d)
  BY DEF FeedInv
<1>2. /\ rows \in F!Feeds /\ calls \in [Calls -> F!Requests \cup {None}]
      /\ sentFrom \in [Tasks -> F!Conversations \cup {None}] /\ page \in F!Pages
  BY <1>1 DEF F!TypeOK
<1>3. /\ calls'[c] = q /\ (\A d \in Calls : d # c => calls'[d] = calls[d])
      /\ calls' \in [Calls -> F!Requests \cup {None}] /\ q # None
  BY <1>2, RequestFields
<1>4. /\ rows' \in F!Feeds /\ rows'[t] # None
      /\ \A x \in Tasks : rows[x] # None => rows'[x] # None
  BY <1>2, RowFields DEF F!Feeds
<1>5. /\ sentFrom' \in [Tasks -> F!Conversations \cup {None}]
      /\ \A x \in Tasks : rows[x] # None => sentFrom'[x] = sentFrom[x]
      /\ rows[t] = None => sentFrom'[t] = q.conv
  <2>1. calls[c].from \in F!Conversations /\ calls[c].conv = calls[c].from
    BY <1>1, <1>2, RequestFields DEF RequestHolds
  <2>2. QED  BY <1>2, <2>1
<1>6. F!TypeOK'
  BY <1>1, <1>3, <1>4, <1>5 DEF F!TypeOK
<1>7. \A x \in Tasks, r \in F!Rows : InHand(x, r)' => InHand(x, r) \/ (x = t /\ r = new)
  <2> SUFFICES ASSUME NEW x \in Tasks, NEW r \in F!Rows, NEW d \in Calls,
                      calls'[d] # None, calls'[d].task = x, calls'[d].reply = r
               PROVE  InHand(x, r) \/ (x = t /\ r = new)
    BY DEF InHand
  <2>1. CASE d = c
    BY <1>3, <2>1, RowFields
  <2>2. CASE d # c
    BY <1>3, <2>2 DEF InHand
  <2>3. QED  BY <2>1, <2>2
<1>8. \A x \in Tasks, at \in Nat : Coming(x, at) => Coming(x, at)'
  <2> SUFFICES ASSUME NEW x \in Tasks, NEW at \in Nat, NEW d \in Calls,
                      calls[d] # None, calls[d].task = x, calls[d].reply \in F!Rows,
                      calls[d].reply.at > at
               PROVE  Coming(x, at)'
    BY DEF Coming
  <2>1. d # c
    BY RowFields
  <2>2. QED  BY <1>3, <2>1 DEF Coming
<1>9. q.reply = new => \A at \in Nat : new.at > at => Coming(t, at)'
  BY <1>3 DEF Coming
<1>10. RowsHold'
  BY <1>1, <1>6, <1>7, <1>8, <1>9, RowMoves
<1>11. TagsHold'
  BY <1>1, <1>4, <1>5 DEF TagsHold
<1>12. Polled'
  BY <1>1 DEF Polled, F!Active
<1>13. ASSUME NEW d \in Calls  PROVE RequestHolds(d)'
  <2>1. CASE d = c
    <3>1. calls[c].conv = calls[c].from
      BY <1>1 DEF RequestHolds
    <3>2. t # None
      BY FeedLimits
    <3>3. q.kind = "submit" => sentFrom'[t] = q.conv
      BY <1>5
    <3>4. QED  BY <1>3, <1>4, <2>1, <3>1, <3>2, <3>3 DEF RequestHolds
  <2>2. CASE d # c
    <3> SUFFICES ASSUME calls[d] # None  PROVE RequestHolds(d)'
      BY <1>3, <2>2 DEF RequestHolds
    <3>1. calls'[d] = calls[d] /\ calls[d].task \in Tasks \cup {None}
      BY <1>2, <1>3, <2>2, RequestFields
    <3>2. calls[d].task # None => /\ rows[calls[d].task] # None
                                  /\ rows'[calls[d].task] # None
                                  /\ sentFrom'[calls[d].task] = sentFrom[calls[d].task]
      BY <1>1, <1>4, <1>5, <3>1 DEF RequestHolds
    <3>3. QED  BY <1>1, <3>1, <3>2 DEF RequestHolds
  <2>3. QED  BY <2>1, <2>2
<1>14. QED  BY <1>1, <1>6, <1>10, <1>11, <1>12, <1>13 DEF FeedInv, FeedScope

LEMMA ServeStep ==
    ASSUME FeedInv, FeedScope, scope' = scope, NEW c \in Calls, F!Serve(c)
    PROVE  FeedInv'
<1>1. F!TypeOK /\ RequestHolds(c)
  BY DEF FeedInv
<1>2. /\ calls[c] # None /\ calls[c].reply = None
      /\ UNCHANGED <<feed, listing, round, page, missed>>
      /\ rows \in F!Feeds /\ calls \in [Calls -> F!Requests \cup {None}]
  BY <1>1 DEF F!Serve, F!TypeOK
<1> DEFINE p == calls[c]
<1>3. p \in F!Requests /\ p.kind \in {"submit", "retry", "cancel"} /\ p.task \in Tasks \cup {None}
  BY <1>2, RequestFields
<1>4. \/ p.kind = "submit" /\ F!Create(c)
      \/ p.kind = "retry" /\ F!Retry(c)
      \/ p.kind = "cancel" /\ F!Cancel(c)
  BY <1>3 DEF F!Serve
<1>6. CASE p.kind = "submit" /\ F!Create(c)
  <2> DEFINE new == [status |-> "active", at |-> 1]
  <2>1. PICK t \in Tasks :
          /\ rows[t] = None /\ rows' = [rows EXCEPT ![t] = new]
          /\ calls' = [calls EXCEPT ![c].task = t, ![c].reply = rows'[t]]
          /\ sentFrom' = [sentFrom EXCEPT ![t] = calls[c].from]
    BY <1>6 DEF F!Create
  <2>2. new \in F!Rows
    BY FeedLimits DEF F!Rows
  <2> HIDE DEF new
  <2>3. rows'[t] = new
    BY <1>2, <2>1 DEF F!Feeds
  <2> DEFINE q == [p EXCEPT !.task = t, !.reply = new]
  <2>4. calls' = [calls EXCEPT ![c] = q]
    BY <1>2, <1>3, <2>1, <2>3
  <2>5. q = [p EXCEPT !.task = t, !.reply = new]
    OBVIOUS
  <2> HIDE DEF q
  <2>7. /\ q \in F!Requests /\ q.task = t /\ q.reply = new /\ q.kind = p.kind
        /\ q.conv = p.conv /\ q.from = p.from
    <3> HIDE DEF p
    <3>1. QED  BY <1>3, <2>1, <2>2, <2>5 DEF F!Requests
  <2>8. /\ q.kind = calls[c].kind /\ q.conv = calls[c].conv /\ q.from = calls[c].from
        /\ q \in F!Requests /\ q.task = t /\ q.reply \in {new, F!Error}
    BY <2>7
  <2>9. \/ /\ rows[t] = None
           /\ sentFrom' = [sentFrom EXCEPT ![t] = calls[c].from]
        \/ /\ rows[t] # None /\ UNCHANGED sentFrom /\ q.kind # "submit"
           /\ \/ rows[t] = new
              \/ ~F!IsOver(rows[t]) /\ rows[t].at <= new.at
              \/ rows[t].at < new.at /\ q.reply = new
    BY <2>1
  <2>10. rows' = [rows EXCEPT ![t] = new]
    BY <2>1
  <2> HIDE DEF p
  <2>11. QED  BY <1>2, <2>2, <2>4, <2>8, <2>9, <2>10, ServedStep
<1>7. ASSUME p.kind # "submit"
      PROVE  /\ p.task \in Tasks /\ rows[p.task] \in F!Rows
             /\ rows[p.task] # None /\ rows[p.task].at \in 1..MaxAt
             /\ rows = [rows EXCEPT ![p.task] = rows[p.task]]
  <2>1. p.task \in Tasks /\ rows[p.task] # None
    BY <1>1, <1>2, <1>3, <1>7 DEF RequestHolds
  <2>2. rows[p.task] \in F!Rows /\ rows = [rows EXCEPT ![p.task] = rows[p.task]]
    BY <1>2, <2>1 DEF F!Feeds
  <2>3. QED  BY <2>1, <2>2, RowFields
<1>8. ASSUME p.kind # "submit", NEW new \in F!Rows, NEW r \in {new, F!Error},
             rows' = [rows EXCEPT ![p.task] = new], calls' = [calls EXCEPT ![c] = [p EXCEPT !.reply = r]],
             UNCHANGED sentFrom,
             \/ rows[p.task] = new
             \/ ~F!IsOver(rows[p.task]) /\ rows[p.task].at <= new.at
             \/ rows[p.task].at < new.at /\ r = new
      PROVE  FeedInv'
  <2> DEFINE q == [p EXCEPT !.reply = r]
  <2>1. p.task \in Tasks /\ rows[p.task] # None /\ q = [p EXCEPT !.task = p.task, !.reply = r]
    <3>1. p = [kind |-> p.kind, task |-> p.task, conv |-> p.conv, from |-> p.from,
               reply |-> p.reply]
      BY <1>3, RequestFields
    <3>2. [p EXCEPT !.task = p.task, !.reply = r] = [p EXCEPT !.reply = r]
      BY <3>1
    <3>3. QED  BY <1>7, <1>8, <3>2
  <2>2. calls' = [calls EXCEPT ![c] = q]
    BY <1>8
  <2> HIDE DEF q
  <2>3. /\ q \in F!Requests /\ q.task = p.task /\ q.reply = r /\ q.kind = p.kind
        /\ q.conv = p.conv /\ q.from = p.from
    <3> HIDE DEF p
    <3>1. r = new \/ r = F!Error
      BY <1>8
    <3>2. r \in F!Rows \cup {F!Error}
      BY <1>8, <3>1
    <3>3. QED  BY <1>3, <2>1, <3>2 DEF F!Requests
  <2>4. rows' = [rows EXCEPT ![p.task] = new] /\ UNCHANGED sentFrom /\ q.kind # "submit"
        /\ \/ rows[p.task] = new
           \/ ~F!IsOver(rows[p.task]) /\ rows[p.task].at <= new.at
           \/ rows[p.task].at < new.at /\ q.reply = new
    BY <1>8, <2>3
  <2>5. q.reply \in {new, F!Error}
    BY <1>8, <2>3
  <2>6. PICK t \in Tasks : t = p.task
    BY <2>1
  <2>7. /\ rows' = [rows EXCEPT ![t] = new] /\ rows[t] # None /\ q.task = t
        /\ \/ rows[t] = new
           \/ ~F!IsOver(rows[t]) /\ rows[t].at <= new.at
           \/ rows[t].at < new.at /\ q.reply = new
    BY <2>1, <2>3, <2>4, <2>6
  <2>8. UNCHANGED <<feed, listing, round, page, missed, sentFrom>>
    BY <1>2, <2>4
  <2>9. /\ new \in F!Rows /\ q \in F!Requests /\ q.kind = calls[c].kind
        /\ q.conv = calls[c].conv /\ q.from = calls[c].from /\ q.kind # "submit"
    BY <1>8, <2>3, <2>4
  <2>10. calls[c] # None /\ calls[c].reply = None
    BY <1>2
  <2> HIDE DEF p
  <2>11. QED  BY <2>2, <2>5, <2>6, <2>7, <2>8, <2>9, <2>10, ServedStep
<1>9. CASE p.kind = "retry" /\ F!Retry(c)
  <2>1. CASE rows[p.task].status \in {"failed", "cancelled"}
    <3>1. /\ UNCHANGED sentFrom /\ rows[p.task].at < MaxAt
          /\ rows' = [rows EXCEPT ![p.task] = [status |-> "active", at |-> rows[p.task].at + 1]]
          /\ calls' = [calls EXCEPT ![c].reply = rows'[p.task]]
      BY <1>9, <2>1 DEF F!Retry
    <3> DEFINE new == [status |-> "active", at |-> rows[p.task].at + 1]
    <3>2. new \in F!Rows /\ rows[p.task].at < new.at
      <4>1. /\ rows[p.task].at + 1 \in 1..MaxAt /\ rows[p.task].at < rows[p.task].at + 1
        <5>1. rows[p.task].at \in 1..MaxAt
          BY <1>7, <1>9
        <5>2. QED  BY <3>1, <5>1, FeedLimits
      <4>2. QED  BY <4>1 DEF F!Rows
    <3> HIDE DEF new
    <3>3. rows' = [rows EXCEPT ![p.task] = new] /\ rows'[p.task] = new
      BY <1>2, <1>7, <1>9, <3>1 DEF new, F!Feeds
    <3>4. calls' = [calls EXCEPT ![c] = [p EXCEPT !.reply = new]]
      BY <1>2, <3>1, <3>3
    <3>5. QED  BY <1>8, <1>9, <3>1, <3>2, <3>3, <3>4
  <2>2. CASE rows[p.task].status \notin {"failed", "cancelled"}
    <3>1. UNCHANGED <<rows, sentFrom>> /\ calls' = [calls EXCEPT ![c].reply = F!Error]
      BY <1>9, <2>2 DEF F!Retry
    <3>2. rows' = [rows EXCEPT ![p.task] = rows[p.task]] /\ rows[p.task] \in F!Rows
      BY <1>7, <1>9, <3>1
    <3>3. calls' = [calls EXCEPT ![c] = [p EXCEPT !.reply = F!Error]]
      BY <1>2, <3>1
    <3>4. QED  BY <1>8, <1>9, <3>1, <3>2, <3>3
  <2>3. QED  BY <2>1, <2>2
<1>10. CASE p.kind = "cancel" /\ F!Cancel(c)
  <2>1. UNCHANGED sentFrom /\ calls' = [calls EXCEPT ![c].reply = rows'[p.task]]
    BY <1>10 DEF F!Cancel
  <2>2. CASE F!IsOver(rows[p.task])
    <3>1. UNCHANGED rows
      BY <1>10, <2>2 DEF F!Cancel
    <3>2. rows' = [rows EXCEPT ![p.task] = rows[p.task]] /\ rows[p.task] \in F!Rows
      BY <1>7, <1>10, <3>1
    <3>3. calls' = [calls EXCEPT ![c] = [p EXCEPT !.reply = rows[p.task]]]
      BY <1>2, <2>1, <3>1
    <3>4. QED  BY <1>8, <1>10, <2>1, <3>2, <3>3
  <2>3. CASE ~F!IsOver(rows[p.task])
    <3>1. PICK at \in {rows[p.task].at, rows[p.task].at + 1} :
            at <= MaxAt /\ rows' = [rows EXCEPT ![p.task] = [status |-> "cancelled", at |-> at]]
      BY <1>10, <2>3 DEF F!Cancel
    <3> DEFINE new == [status |-> "cancelled", at |-> at]
    <3>2. new \in F!Rows /\ rows[p.task].at <= new.at
      <4>1. at \in 1..MaxAt /\ rows[p.task].at <= at
        <5>1. rows[p.task].at \in 1..MaxAt
          BY <1>7, <1>10
        <5>2. QED  BY <3>1, <5>1, FeedLimits
      <4>2. QED  BY <4>1 DEF F!Rows, F!Over
    <3> HIDE DEF new
    <3>3. rows' = [rows EXCEPT ![p.task] = new] /\ rows'[p.task] = new
      BY <1>2, <1>7, <1>10, <3>1 DEF new, F!Feeds
    <3>4. calls' = [calls EXCEPT ![c] = [p EXCEPT !.reply = new]]
      BY <1>2, <2>1, <3>3
    <3>5. QED  BY <1>8, <1>10, <2>1, <2>3, <3>2, <3>3, <3>4
  <2>4. QED  BY <2>2, <2>3
<1>11. QED  BY <1>4, <1>6, <1>9, <1>10

LEMMA FeedStep == FeedInv /\ [Next]_vars => FeedInv'
<1> SUFFICES ASSUME FeedInv, [Next]_vars, FeedScope  PROVE FeedInv'
  BY OneMoves DEF FeedInv, FeedScope
<1>1. scope' = scope
  BY OneMoves
<1>2. CASE F!Next
  BY <1>1, <1>2, AskSteps, ApplyListStep, ApplyPollStep, ReplyStep, CallFailsStep, RequestSteps,
     ResetSteps, RouteSteps, ServerStep, ServeStep DEF F!Next
<1>3. CASE UNCHANGED feedVars
  <2>1. UNCHANGED <<rows, born, feed, listing, round, calls, page, sentFrom, missed>>
    BY <1>3 DEF feedVars
  <2>2. F!TypeOK' = F!TypeOK /\ Polled' = Polled /\ TagsHold' = TagsHold
    BY <2>1 DEF F!TypeOK, Polled, F!Active, TagsHold
  <2>3. \A c \in Calls : RequestHolds(c)' = RequestHolds(c)
    BY <2>1 DEF RequestHolds
  <2>4. RowsHold' = RowsHold
    BY <2>1 DEF RowsHold, InHand, Behind, Known, Coming
  <2>5. QED  BY <1>1, <2>1, <2>2, <2>3, <2>4 DEF FeedInv, FeedScope
<1>4. QED  BY <1>2, <1>3, OneMoves

LEMMA FeedCorrect == Spec => []FeedInv
BY FeedInit, FeedStep, PTL DEF Spec

\* Rows of the feed that are behind are being polled, on their way or missed, and a
\* Task is shown in the conversation it was asked for in: merge, the poller and the
\* tags of the quick generation page.
THEOREM FeedAgreesCorrect == Spec => []FeedAgrees
<1>1. FeedInv => FeedAgrees
  <2> SUFFICES ASSUME FeedInv, FeedScope  PROVE F!FeedIsWatched /\ F!ShownWhereAsked
    BY DEF FeedAgrees, FeedScope
  <2>1. F!TypeOK /\ RowsHold /\ TagsHold /\ Polled
    BY DEF FeedInv
  <2>2. ASSUME NEW t \in Tasks, feed[t] # None, feed[t] # rows[t]
        PROVE  \/ t \in F!Active(feed)
               \/ \E c \in Calls : calls[c] # None /\ calls[c].task = t
               \/ t \in missed
    <3>1. feed[t] \in F!Rows
      BY <2>1, <2>2 DEF F!TypeOK, F!Feeds
    <3>2. Known(t, feed[t])
      BY <2>1, <3>1 DEF RowsHold, InHand
    <3>3. CASE F!IsOver(feed[t])
      <4>1. feed[t].at \in Nat
        BY <3>1, RowFields
      <4>2. t \in missed \/ Coming(t, feed[t].at)
        BY <2>2, <3>2, <3>3, <4>1 DEF Known
      <4>3. QED  BY <4>2 DEF Coming
    <3>4. CASE ~F!IsOver(feed[t])
      BY <2>2, <3>4 DEF F!Active
    <3>5. QED  BY <3>3, <3>4
  <2>3. F!FeedIsWatched
    BY <2>1, <2>2 DEF F!FeedIsWatched, Polled
  <2>4. F!ShownWhereAsked
    BY <2>1, FeedLimits DEF TagsHold, F!ShownWhereAsked, F!FilterTasks, F!Conversations
  <2>5. QED  BY <2>3, <2>4
<1>2. QED  BY <1>1, FeedCorrect, PTL

(***************************************************************************)
(* Lists and walks.                                                        *)
(***************************************************************************)

\* The least number of a set, and induction from it.
LEMMA LeastNumber ==
    ASSUME NEW T \in SUBSET Nat, T # {}
    PROVE  \E n \in T : \A m \in T : n <= m
<1>1. IsWellFoundedOn(OpToRel(<, Nat), Nat)
  BY NatLessThanWellFounded
<1>2. PICK n \in T : \A m \in T : <<m, n>> \notin OpToRel(<, Nat)
  BY <1>1, WFMin
<1>3. \A m \in T : ~(m < n)
  BY <1>2 DEF OpToRel
<1>4. QED  BY <1>3

LEMMA Upwards ==
    ASSUME NEW T \in SUBSET Nat, 0 \in T, \A n \in T : n + 1 \in T
    PROVE  T = Nat
<1> SUFFICES ASSUME T # Nat  PROVE FALSE
  OBVIOUS
<1>1. PICK n \in Nat \ T : \A m \in Nat \ T : n <= m
  BY LeastNumber
<1>2. n - 1 \in T
  BY <1>1
<1>3. QED  BY <1>1, <1>2

\* Induction up to a limit.
LEMMA UpTo ==
    ASSUME NEW m \in Nat, NEW T \in SUBSET (0..m), 0 \in T,
           \A n \in 1..m : n - 1 \in T => n \in T
    PROVE  T = 0..m
<1> DEFINE U == {n \in Nat : n > m \/ n \in T}
<1>1. 0 \in U /\ \A n \in U : n + 1 \in U
  <2>1. ASSUME NEW n \in U  PROVE n + 1 \in U
    <3>1. CASE n >= m
      BY <3>1
    <3>2. CASE n < m
      <4>1. n \in T /\ n + 1 \in 1..m /\ n + 1 - 1 = n
        BY <3>2
      <4>2. QED  BY <4>1
    <3>3. QED  BY <3>1, <3>2
  <2>2. QED  BY <2>1
<1>2. U = Nat
  <2>1. U \in SUBSET Nat
    OBVIOUS
  <2> HIDE DEF U
  <2>2. QED  BY <1>1, <2>1, Upwards
<1>3. ASSUME NEW n \in 0..m  PROVE n \in T
  <2>1. n \in U
    BY <1>2
  <2>2. QED  BY <2>1
<1>4. QED  BY <1>3

\* What Only does to a list, place by place, is a function of the place.
OnlyWalk(f, c, S) ==
    f = [n \in 0..Len(c) |-> IF n = 0 THEN <<>>
                             ELSE IF c[n] \in S THEN Append(f[n - 1], c[n]) ELSE f[n - 1]]
LEMMA OnlyWalks ==
    ASSUME NEW T, NEW c \in Seq(T), NEW S
    PROVE  \E f : OnlyWalk(f, c, S)
<1> DEFINE V == Seq(T)
           Step(n, s) == IF c[n] \in S THEN Append(s, c[n]) ELSE s
           Walk(f, k) == f[0] = <<>> /\ \A n \in 1..k : f[n] = Step(n, f[n - 1])
           B == {k \in 0..Len(c) : \E f \in [0..k -> V] : Walk(f, k)}
<1>1. Len(c) \in Nat /\ <<>> \in V
  OBVIOUS
<1>2. ASSUME NEW n \in 1..Len(c), NEW s \in V  PROVE Step(n, s) \in V
  OBVIOUS
<1> HIDE DEF V, Step
<1>3. 0 \in B
  <2> DEFINE f == [n \in 0..0 |-> <<>>]
  <2>1. f \in [0..0 -> V] /\ Walk(f, 0)
    BY <1>1
  <2> HIDE DEF Walk
  <2>2. \E h \in [0..0 -> V] : Walk(h, 0)
    BY <2>1
  <2>3. QED  BY <1>1, <2>2
<1>4. ASSUME NEW m \in 1..Len(c), m - 1 \in B  PROVE m \in B
  <2>1. PICK k \in Nat : k = m - 1 /\ m = k + 1
    BY <1>1
  <2>2. PICK f \in [0..k -> V] : Walk(f, k)
    BY <1>4, <2>1
  <2> DEFINE last == Step(m, f[k])
             g == [n \in 0..m |-> IF n = m THEN last ELSE f[n]]
  <2>3. last \in V
    BY <1>2, <2>1, <2>2
  <2>4. g \in [0..m -> V]
    BY <2>1, <2>2, <2>3
  <2>5. \A n \in 1..k : g[n] = f[n] /\ g[n - 1] = f[n - 1]
    BY <2>1
  <2>6. g[0] = <<>> /\ g[m - 1] = f[k] /\ g[m] = Step(m, g[m - 1])
    BY <2>1, <2>2
  <2>7. \A n \in 1..m : n \in 1..k \/ n = m
    BY <2>1
  <2> HIDE DEF g
  <2>8. \A n \in 1..k : g[n] = Step(n, g[n - 1])
    BY <2>2, <2>5
  <2>9. Walk(g, m)
    BY <2>6, <2>7, <2>8
  <2> HIDE DEF Walk
  <2>10. \E h \in [0..m -> V] : Walk(h, m)
    BY <2>4, <2>9
  <2>11. m \in 0..Len(c)
    BY <1>1
  <2>12. QED  BY <2>10, <2>11
<1>5. B \in SUBSET (0..Len(c))
  OBVIOUS
<1>6. B = 0..Len(c)
  <2> HIDE DEF B
  <2>1. QED  BY <1>1, <1>3, <1>4, <1>5, UpTo
<1>7. PICK f \in [0..Len(c) -> V] : Walk(f, Len(c))
  BY <1>1, <1>6
<1> DEFINE whole == [n \in 0..Len(c) |-> f[n]]
           walked == [n \in 0..Len(c) |-> IF n = 0 THEN <<>> ELSE Step(n, f[n - 1])]
<1>8. whole = walked
  <2>1. \A n \in 0..Len(c) : n = 0 \/ n \in 1..Len(c)
    BY <1>1
  <2>2. QED  BY <1>7, <2>1
<1>9. f = whole
  OBVIOUS
<1>10. f = walked
  <2> HIDE DEF whole, walked
  <2>1. QED  BY <1>8, <1>9
<1>11. QED  BY <1>10 DEF V, Step, OnlyWalk

\* Only: the elements of a list in a set, none of them twice if none of the list is.
LEMMA OnlyFacts ==
    ASSUME NEW T, NEW c \in Seq(T), NEW S
    PROVE  /\ Only(c, S) \in Seq(T)
           /\ \A n \in DOMAIN Only(c, S) : \E k \in DOMAIN c : c[k] = Only(c, S)[n] /\ c[k] \in S
           /\ \A k \in DOMAIN c : c[k] \in S => \E n \in DOMAIN Only(c, S) : Only(c, S)[n] = c[k]
           /\ (\A j, k \in DOMAIN c : c[j] = c[k] => j = k) =>
                 \A m, n \in DOMAIN Only(c, S) : Only(c, S)[m] = Only(c, S)[n] => m = n
           /\ Len(Only(c, S)) <= Len(c)
<1>1. DOMAIN c = 1..Len(c) /\ Len(c) \in Nat /\ \A k \in DOMAIN c : c[k] \in T
  OBVIOUS
<1> DEFINE m == Len(c)
           V == Seq(T)
<1>2. PICK u : OnlyWalk(u, c, S) /\ Only(c, S) = u[m]
  <2> DEFINE w == CHOOSE f : OnlyWalk(f, c, S)
  <2>1. OnlyWalk(w, c, S)
    BY OnlyWalks
  <2>2. Only(c, S) = w[m]
    BY DEF Only, OnlyWalk
  <2>3. QED  BY <2>1, <2>2
<1>3. \A n \in 0..m :
         u[n] = IF n = 0 THEN <<>> ELSE IF c[n] \in S THEN Append(u[n - 1], c[n]) ELSE u[n - 1]
  BY <1>2 DEF OnlyWalk
<1> DEFINE Kept(n) ==
      /\ u[n] \in V
      /\ \A i \in DOMAIN u[n] : \E k \in 1..n : c[k] = u[n][i] /\ c[k] \in S
      /\ \A k \in 1..n : c[k] \in S => \E i \in DOMAIN u[n] : u[n][i] = c[k]
      /\ (\A j, k \in DOMAIN c : c[j] = c[k] => j = k) =>
            \A i, j \in DOMAIN u[n] : u[n][i] = u[n][j] => i = j
      /\ Len(u[n]) <= n
    B == {n \in 0..m : Kept(n)}
<1>4. 0 \in B
  <2>1. PICK e \in V : e = u[0] /\ e = <<>>
    <3>1. u[0] = <<>> /\ <<>> \in Seq(T)
      BY <1>1, <1>3
    <3>2. QED  BY <3>1
  <2>2. DOMAIN e = {}
    <3>1. e \in Seq(T) /\ Len(e) = 0
      BY <2>1
    <3>2. QED  BY <3>1
  <2>3. 1..0 = {} /\ 0 \in 0..m
    BY <1>1
  <2>4. Kept(0)
    <3>1. Len(u[0]) <= 0
      BY <2>1
    <3>2. QED  BY <2>1, <2>2, <2>3, <3>1
  <2>5. QED  BY <2>3, <2>4
<1>5. ASSUME NEW n \in 1..m, n - 1 \in B  PROVE n \in B
  <2>1. n \in DOMAIN c /\ n \in Nat /\ n \in 0..m
    BY <1>1
  <2>2. PICK s \in V : s = u[n - 1]
    BY <1>5
  <2>3. /\ \A i \in DOMAIN s : \E k \in 1..(n - 1) : c[k] = s[i] /\ c[k] \in S
        /\ \A k \in 1..(n - 1) : c[k] \in S => \E i \in DOMAIN s : s[i] = c[k]
        /\ (\A j, k \in DOMAIN c : c[j] = c[k] => j = k) =>
            \A i, j \in DOMAIN s : s[i] = s[j] => i = j
        /\ Len(s) <= n - 1 /\ Len(s) \in Nat
    <3>1. Len(s) \in Nat
      OBVIOUS
    <3>2. QED  BY <1>5, <2>2, <3>1
  <2>4. u[n] = IF c[n] \in S THEN Append(s, c[n]) ELSE s
    BY <1>3, <2>1, <2>2
  <2>5. CASE c[n] \notin S
    <3>1. u[n] = s
      BY <2>4, <2>5
    <3>2. \A k \in 1..n : c[k] \in S => k \in 1..(n - 1)
      BY <2>1, <2>5
    <3>3. \A k \in 1..(n - 1) : k \in 1..n
      BY <2>1
    <3>4. Len(u[n]) <= n
      BY <2>1, <2>3, <3>1
    <3>5. QED  BY <2>1, <2>3, <3>1, <3>2, <3>3, <3>4
  <2>6. CASE c[n] \in S
    <3>1. PICK t \in V : t = Append(s, c[n])
      <4>1. c[n] \in T /\ s \in Seq(T)
        BY <1>1, <2>1
      <4>2. Append(s, c[n]) \in Seq(T)
        BY <4>1, AppendProperties
      <4>3. QED  BY <4>2
    <3>2. /\ DOMAIN t = 1..(Len(s) + 1) /\ DOMAIN s = 1..Len(s) /\ Len(s) \in Nat
          /\ t[Len(s) + 1] = c[n] /\ \A i \in DOMAIN s : t[i] = s[i]
      <4>1. PICK x \in T : x = c[n]
        BY <1>1, <2>1
      <4>2. t = Append(s, x) /\ s \in Seq(T)
        BY <3>1, <4>1
      <4>3. QED  BY <4>1, <4>2, AppendProperties
    <3>3. u[n] = t
      BY <2>4, <2>6, <3>1
    <3>4. \A i \in DOMAIN t : i \in DOMAIN s \/ i = Len(s) + 1
      BY <3>2
    <3>5. \A i \in DOMAIN t : \E k \in 1..n : c[k] = t[i] /\ c[k] \in S
      <4>1. ASSUME NEW i \in DOMAIN s  PROVE \E k \in 1..n : c[k] = t[i] /\ c[k] \in S
        <5>1. PICK k \in 1..(n - 1) : c[k] = s[i] /\ c[k] \in S
          BY <2>3
        <5>2. k \in 1..n
          BY <2>1
        <5>3. QED  BY <3>2, <5>1, <5>2
      <4>2. n \in 1..n
        BY <2>1
      <4>3. QED  BY <2>6, <3>2, <3>4, <4>1, <4>2
    <3>6. \A k \in 1..n : c[k] \in S => \E i \in DOMAIN t : t[i] = c[k]
      <4>1. ASSUME NEW k \in 1..(n - 1), c[k] \in S  PROVE \E i \in DOMAIN t : t[i] = c[k]
        <5>1. PICK i \in DOMAIN s : s[i] = c[k]
          BY <2>3, <4>1
        <5>2. i \in DOMAIN t
          BY <3>2
        <5>3. QED  BY <3>2, <5>1, <5>2
      <4>2. Len(s) + 1 \in DOMAIN t
        BY <3>2
      <4>3. \A k \in 1..n : k \in 1..(n - 1) \/ k = n
        BY <2>1
      <4>4. QED  BY <3>2, <4>1, <4>2, <4>3
    <3>7. ASSUME \A j, k \in DOMAIN c : c[j] = c[k] => j = k,
                 NEW i \in DOMAIN t, NEW j \in DOMAIN t, t[i] = t[j]
          PROVE  i = j
      <4>1. ASSUME NEW x \in DOMAIN s  PROVE t[x] # c[n]
        <5>1. PICK k \in 1..(n - 1) : c[k] = s[x]
          BY <2>3
        <5>2. k \in DOMAIN c /\ k # n
          BY <1>1, <2>1
        <5>3. QED  BY <2>1, <3>2, <3>7, <5>1, <5>2
      <4>2. QED  BY <2>3, <3>2, <3>4, <3>7, <4>1
    <3>8. Len(u[n]) <= n
      <4>1. Len(t) = Len(s) + 1
        BY <3>1, <2>2, AppendProperties, <1>1, <2>1
      <4>2. QED  BY <2>1, <2>3, <3>3, <4>1
    <3>9. QED  BY <2>1, <3>3, <3>5, <3>6, <3>7, <3>8
  <2>7. QED  BY <2>5, <2>6
<1>6. B = 0..m
  <2> HIDE DEF Kept
  <2>1. QED  BY <1>1, <1>4, <1>5, UpTo
<1>7. Kept(m)
  <2> HIDE DEF B, Kept
  <2>1. m \in B
    BY <1>1, <1>6
  <2>2. QED  BY <2>1 DEF B
<1>8. QED  BY <1>1, <1>2, <1>7

(***************************************************************************)
(* FeatureModels.                                                          *)
(***************************************************************************)
Binding == [model : Bound, priority : 0..(M!Cardinality(Bound) - 1), by : Admins \cup {None}]
Shown == [enabled : BOOLEAN, chain : M!Chains]
Save ==
    [at : {"idle", "begun", "found", "stored", "deleting", "deleted", "looked", "inserted",
           "done", "failed"},
     chain : M!Chains, enabled : BOOLEAN, found : {None} \cup BOOLEAN \cup Shown,
     seen : SUBSET Binding, gone : SUBSET Binding, known : SUBSET Bound, new : SUBSET Binding]

Over(t) == t.at \in {"idle", "done", "failed"}
Two == \E p, q \in Admins : begun \subseteq {p, q}
Places(c) == {[model |-> c[n], priority |-> n - 1] : n \in DOMAIN c}
Placed(b) == [model |-> b.model, priority |-> b.priority]

\* What a save knows of the bindings: the rows it deleted are there still, those it
\* inserted clash with none; and as long as no save put its rows beside those of
\* another, it saw and deleted all of the chain or nothing.
SaveHolds(a, t) ==
    /\ t \in Save
    /\ t.at # "idle" => a \in begun
    /\ t.at # "deleting" => t.seen = {}
    /\ t.at \notin {"deleted", "looked", "inserted"} => t.gone = {}
    /\ t.at \notin {"looked", "inserted"} => t.known = {}
    /\ t.new = IF t.at = "inserted" THEN {b \in M!Rows(t.chain, a) : b.model \notin t.known} ELSE {}
    /\ t.known \subseteq M!Range(t.chain)
    /\ ~Over(t) /\ t.at # "begun" /\ t.found # None => config # None
    /\ t.at = "done" => t.found \in Shown
    /\ t.gone \subseteq bindings
    /\ \A x \in t.new, y \in bindings \ t.gone : ~M!Clash(x, y)
    /\ \A b \in bindings : b.by = None =>
          /\ t.at = "deleting" => b \in t.seen
          /\ t.at \in {"deleted", "looked", "inserted"} => b \in t.gone
    /\ \A b \in t.seen : b.by # None => b.by \in begun /\ Over(tx[b.by])
    /\ joined /\ Two => Over(t)
    /\ ~joined =>
          /\ t.seen \cap bindings \in {{}, bindings}
          /\ t.gone \in {{}, bindings}
          /\ t.gone # {} => t.known = {}
          /\ t.new # {} /\ t.known = {} => t.gone = bindings
          /\ Two /\ t.known # {} => \A b \in bindings :
                /\ b.model \in t.known <=> b.model \in M!Range(t.chain)
                /\ b.model \in t.known => Placed(b) \in Places(t.chain)
    /\ ~joined /\ Two => \A m \in t.known : \E b \in bindings : b.model = m

Apart(t, u) ==
    /\ t.gone \cap u.gone = {}
    /\ \A x \in t.new, y \in u.new : ~M!Clash(x, y)

\* The stored bindings are of saves that have ended; and they are the chain of one
\* of them, as long as no save put its rows beside those of another, or two of two.
BindingsHold ==
    /\ bindings \subseteq Binding
    /\ \A x, y \in bindings : M!Clash(x, y) => x = y
    /\ \A b \in bindings : b.by # None => b.by \in begun /\ Over(tx[b.by])
    /\ ~joined => \E c \in saved, o \in Admins \cup {None} : bindings = M!Rows(c, o)
    /\ joined /\ Two =>
          /\ \E a, o \in begun : a # o
          /\ \E c \in saved : {Placed(b) : b \in bindings} = Places(c)

PageHolds ==
    /\ feature \in [known : Shown \cup {None}, editing : Shown \cup {None}, saving : BOOLEAN]
    /\ config \in BOOLEAN \cup {None}
    /\ begun \subseteq Admins /\ saved \subseteq M!Chains /\ joined \in BOOLEAN

FeatureInv ==
    scope \in FeatureScopes =>
        /\ PageHolds /\ BindingsHold
        /\ tx \in [Admins -> Save]
        /\ \A a \in Admins : SaveHolds(a, tx[a])
        /\ \A a, b \in Admins : a # b => Apart(tx[a], tx[b])

-----------------------------------------------------------------------------
LEMMA CardinalityOf == ASSUME NEW S  PROVE M!Cardinality(S) = Cardinality(S)
BY DEF M!Cardinality, Cardinality

\* The chains are the lists of models without a repetition.
LEMMA ChainFacts ==
    ASSUME NEW c \in M!Chains
    PROVE  /\ c \in Seq(Bound) /\ DOMAIN c = 1..Len(c) /\ Len(c) \in Nat
           /\ Len(c) <= M!Cardinality(Bound)
           /\ \A m, n \in DOMAIN c : c[m] = c[n] => m = n
<1>1. M!Cardinality(Bound) \in Nat
  BY FS_CardinalityType, FeatureLimits, CardinalityOf
<1>2. PICK n \in 0..M!Cardinality(Bound) : c \in [1..n -> Bound]
  BY DEF M!Chains, M!Lists
<1>3. n \in Nat
  BY <1>1
<1>4. c \in Seq(Bound) /\ Len(c) = n
  BY <1>2, <1>3, SeqDef
<1>5. \A k, l \in DOMAIN c : c[k] = c[l] => k = l
  BY DEF M!Chains, M!IsInjective
<1>6. QED  BY <1>1, <1>2, <1>3, <1>4, <1>5

LEMMA ListIsChain ==
    ASSUME NEW c \in Seq(Bound), \A m, n \in DOMAIN c : c[m] = c[n] => m = n
    PROVE  c \in M!Chains
<1>1. DOMAIN c = 1..Len(c) /\ Len(c) \in Nat /\ c \in [1..Len(c) -> Bound]
  OBVIOUS
<1>2. c \in Injection(1..Len(c), Bound)
  BY <1>1 DEF Injection, IsInjective
<1>3. Cardinality(1..Len(c)) <= Cardinality(Bound)
  BY <1>2, FS_Injection, FeatureLimits
<1>4. Cardinality(1..Len(c)) = Len(c)
  <2>1. Cardinality(1..Len(c)) = IF 1 > Len(c) THEN 0 ELSE Len(c) - 1 + 1
    BY <1>1, FS_Interval
  <2>2. QED  BY <1>1, <2>1
<1>5. M!Cardinality(Bound) \in Nat
  BY FS_CardinalityType, FeatureLimits, CardinalityOf
<1>6. Len(c) \in 0..M!Cardinality(Bound)
  BY <1>1, <1>3, <1>4, <1>5, CardinalityOf
<1>7. c \in M!Lists
  BY <1>1, <1>6 DEF M!Lists
<1>8. QED  BY <1>7 DEF M!Chains, M!IsInjective

\* The rows of a save are its chain.
LEMMA RowsFacts ==
    ASSUME NEW c \in M!Chains, NEW o \in Admins \cup {None}
    PROVE  /\ M!Rows(c, o) \subseteq Binding
           /\ \A b \in M!Rows(c, o) :
                 /\ b.priority + 1 \in DOMAIN c /\ b.model = c[b.priority + 1] /\ b.by = o
                 /\ b.model \in M!Range(c)
           /\ \A n \in DOMAIN c : \E b \in M!Rows(c, o) : b.priority = n - 1 /\ b.model = c[n]
           /\ \A x, y \in M!Rows(c, o) : M!Clash(x, y) => x = y
           /\ {Placed(b) : b \in M!Rows(c, o)} = Places(c)
           /\ M!Rows(c, o) = {} <=> c = <<>>
<1>1. /\ DOMAIN c = 1..Len(c) /\ Len(c) \in Nat /\ Len(c) <= M!Cardinality(Bound)
      /\ c \in Seq(Bound) /\ \A m, n \in DOMAIN c : c[m] = c[n] => m = n
  BY ChainFacts
<1>2. M!Cardinality(Bound) \in Nat
  BY FS_CardinalityType, FeatureLimits, CardinalityOf
<1>3. \A n \in DOMAIN c : n - 1 \in 0..(M!Cardinality(Bound) - 1) /\ c[n] \in Bound /\ n - 1 + 1 = n
  BY <1>1, <1>2
<1>4. M!Rows(c, o) = {[model |-> c[n], priority |-> n - 1, by |-> o] : n \in DOMAIN c}
  BY DEF M!Rows
<1>5. M!Rows(c, o) \subseteq Binding
  BY <1>3, <1>4 DEF Binding
<1>6. ASSUME NEW b \in M!Rows(c, o)
      PROVE  /\ b.priority + 1 \in DOMAIN c /\ b.model = c[b.priority + 1] /\ b.by = o
             /\ b.model \in M!Range(c)
  <2>1. PICK n \in DOMAIN c : b = [model |-> c[n], priority |-> n - 1, by |-> o]
    BY <1>4
  <2>2. b.priority = n - 1 /\ b.model = c[n] /\ b.by = o /\ n - 1 + 1 = n
    BY <1>3, <2>1
  <2>3. QED  BY <2>1, <2>2 DEF M!Range
<1>7. ASSUME NEW n \in DOMAIN c
      PROVE  \E b \in M!Rows(c, o) : b.priority = n - 1 /\ b.model = c[n]
  <2>1. [model |-> c[n], priority |-> n - 1, by |-> o] \in M!Rows(c, o)
    BY <1>4
  <2>2. QED  BY <2>1
<1>8. ASSUME NEW x \in M!Rows(c, o), NEW y \in M!Rows(c, o), M!Clash(x, y)
      PROVE  x = y
  <2>1. PICK n \in DOMAIN c : x = [model |-> c[n], priority |-> n - 1, by |-> o]
    BY <1>4
  <2>2. PICK m \in DOMAIN c : y = [model |-> c[m], priority |-> m - 1, by |-> o]
    BY <1>4
  <2>3. c[n] = c[m] \/ n - 1 = m - 1
    BY <1>8, <2>1, <2>2 DEF M!Clash
  <2>4. n = m
    BY <1>1, <1>3, <2>3
  <2>5. QED  BY <2>1, <2>2, <2>4
<1>9. {Placed(b) : b \in M!Rows(c, o)} = Places(c)
  <2>1. ASSUME NEW b \in M!Rows(c, o)  PROVE Placed(b) \in Places(c)
    <3>1. PICK n \in DOMAIN c : b = [model |-> c[n], priority |-> n - 1, by |-> o]
      BY <1>4
    <3>2. QED  BY <3>1 DEF Placed, Places
  <2>2. ASSUME NEW n \in DOMAIN c
        PROVE  \E b \in M!Rows(c, o) : Placed(b) = [model |-> c[n], priority |-> n - 1]
    BY <1>7 DEF Placed
  <2>3. QED  BY <2>1, <2>2 DEF Places
<1>10. M!Rows(c, o) = {} <=> c = <<>>
  <2>1. DOMAIN c = {} <=> c = <<>>
    BY <1>1
  <2>2. QED  BY <1>4, <2>1
<1>11. QED  BY <1>5, <1>6, <1>7, <1>8, <1>9, <1>10

\* A chain that is not empty has a row of the first priority.
LEMMA FirstRow ==
    ASSUME NEW c \in M!Chains, NEW o \in Admins \cup {None}, c # <<>>
    PROVE  \E x \in M!Rows(c, o) : x.priority = 0
<1>1. 1 \in DOMAIN c
  BY ChainFacts
<1>2. \E x \in M!Rows(c, o) : x.priority = 1 - 1 /\ x.model = c[1]
  BY <1>1, RowsFacts
<1>3. 1 - 1 = 0
  OBVIOUS
<1>4. QED  BY <1>2, <1>3

\* The rows in the order of their priorities: one for each place.
Rank(S, b) == Cardinality(M!Below(S, b))

LEMMA RankFacts ==
    ASSUME NEW S \in SUBSET Binding, \A x, y \in S : M!Clash(x, y) => x = y
    PROVE  /\ IsFiniteSet(S) /\ Cardinality(S) \in Nat
           /\ \A b \in S : IsFiniteSet(M!Below(S, b)) /\ Rank(S, b) \in 0..(Cardinality(S) - 1)
           /\ \A x, y \in S : Rank(S, x) = Rank(S, y) => x = y
           /\ \A n \in 1..Cardinality(S) : \E b \in S : Rank(S, b) = n - 1
<1>1. M!Cardinality(Bound) \in Nat
  BY FS_CardinalityType, FeatureLimits, CardinalityOf
<1>2. \A b \in S : b.priority \in 0..(M!Cardinality(Bound) - 1) /\ b.priority \in Nat
  BY <1>1 DEF Binding
<1>3. \A x, y \in S : x.priority = y.priority => x = y
  BY DEF M!Clash
<1>4. IsFiniteSet(S)
  <2> DEFINE f == [b \in S |-> b.priority]
  <2>1. f \in Injection(S, 0..(M!Cardinality(Bound) - 1))
    BY <1>2, <1>3 DEF Injection, IsInjective
  <2>2. IsFiniteSet(0..(M!Cardinality(Bound) - 1))
    BY <1>1, FS_Interval
  <2>3. QED  BY <2>1, <2>2, FS_Injection
<1>5. Cardinality(S) \in Nat
  BY <1>4, FS_CardinalityType
<1>6. ASSUME NEW b \in S
      PROVE  IsFiniteSet(M!Below(S, b)) /\ Rank(S, b) \in Nat /\ Rank(S, b) <= Cardinality(S) - 1
  <2>1. M!Below(S, b) \in SUBSET (S \ {b})
    BY <1>2 DEF M!Below
  <2>2. IsFiniteSet(S \ {b}) /\ Cardinality(S \ {b}) = Cardinality(S) - 1
    BY <1>4, FS_RemoveElement
  <2>3. IsFiniteSet(M!Below(S, b)) /\ Cardinality(M!Below(S, b)) <= Cardinality(S \ {b})
    BY <2>1, <2>2, FS_Subset
  <2>4. QED  BY <2>2, <2>3, FS_CardinalityType DEF Rank
<1>7. ASSUME NEW x \in S, NEW y \in S, x.priority < y.priority
      PROVE  Rank(S, x) < Rank(S, y)
  <2>1. x \notin M!Below(S, x) /\ M!Below(S, x) \cup {x} \in SUBSET M!Below(S, y)
    BY <1>2, <1>7 DEF M!Below
  <2>2. /\ IsFiniteSet(M!Below(S, x) \cup {x})
        /\ Cardinality(M!Below(S, x) \cup {x}) = Cardinality(M!Below(S, x)) + 1
    BY <1>6, <2>1, FS_AddElement
  <2>3. Cardinality(M!Below(S, x) \cup {x}) <= Cardinality(M!Below(S, y))
    BY <1>6, <2>1, FS_Subset
  <2>4. QED  BY <1>6, <2>2, <2>3 DEF Rank
<1>8. ASSUME NEW x \in S, NEW y \in S, Rank(S, x) = Rank(S, y)  PROVE x = y
  <2>1. ~(x.priority < y.priority) /\ ~(y.priority < x.priority)
    BY <1>6, <1>7, <1>8
  <2>2. QED  BY <1>2, <1>3, <2>1
<1>9. \A b \in S : Rank(S, b) \in 0..(Cardinality(S) - 1)
  BY <1>5, <1>6
<1>10. ASSUME NEW n \in 1..Cardinality(S)  PROVE \E b \in S : Rank(S, b) = n - 1
  <2> DEFINE T == 0..(Cardinality(S) - 1)
             f == [b \in S |-> Rank(S, b)]
  <2>1. f \in Injection(S, T)
    BY <1>8, <1>9 DEF Injection, IsInjective
  <2>2. IsFiniteSet(T) /\ Cardinality(T) = Cardinality(S)
    <3>1. PICK k \in Nat : k = Cardinality(S) - 1 /\ Cardinality(S) = k + 1
      BY <1>5
    <3>2. 0 \in Int /\ k \in Int
      BY <3>1
    <3>3. IsFiniteSet(0..k) /\ Cardinality(0..k) = IF 0 > k THEN 0 ELSE k - 0 + 1
      BY <3>2, FS_Interval, Zenon
    <3>4. ~(0 > k) /\ k - 0 + 1 = k + 1
      BY <3>1
    <3>5. QED  BY <3>1, <3>3, <3>4
  <2>3. f \in Surjection(S, T)
    <3> HIDE DEF f, T
    <3>1. QED  BY <2>1, <2>2, FS_Injection
  <2>4. n - 1 \in T
    BY <1>5
  <2>5. QED  BY <2>3, <2>4 DEF Surjection
<1>11. QED  BY <1>4, <1>5, <1>6, <1>8, <1>9, <1>10

LEMMA InOrderAt ==
    ASSUME NEW S \in SUBSET Binding, \A x, y \in S : M!Clash(x, y) => x = y
    PROVE  /\ DOMAIN M!InOrder(S) = 1..Cardinality(S)
           /\ \A b \in S : /\ Rank(S, b) + 1 \in 1..Cardinality(S)
                           /\ M!InOrder(S)[Rank(S, b) + 1] = b.model
           /\ \A n \in 1..Cardinality(S) : \E b \in S :
                 Rank(S, b) = n - 1 /\ M!InOrder(S)[n] = b.model
<1>1. /\ IsFiniteSet(S) /\ Cardinality(S) \in Nat
      /\ \A b \in S : Rank(S, b) \in 0..(Cardinality(S) - 1)
      /\ \A x, y \in S : Rank(S, x) = Rank(S, y) => x = y
      /\ \A n \in 1..Cardinality(S) : \E b \in S : Rank(S, b) = n - 1
  BY RankFacts
<1>2. M!InOrder(S) = [n \in 1..Cardinality(S) |->
                        (CHOOSE b \in S : M!Cardinality(M!Below(S, b)) = n - 1).model]
  BY CardinalityOf DEF M!InOrder
<1>3. ASSUME NEW n \in 1..Cardinality(S), NEW b \in S, Rank(S, b) = n - 1
      PROVE  M!InOrder(S)[n] = b.model
  <2> DEFINE c == CHOOSE x \in S : M!Cardinality(M!Below(S, x)) = n - 1
  <2>1. c \in S /\ Rank(S, c) = n - 1
    <3>1. M!Cardinality(M!Below(S, b)) = n - 1
      BY <1>3, CardinalityOf DEF Rank
    <3>2. c \in S /\ M!Cardinality(M!Below(S, c)) = n - 1
      BY <3>1
    <3>3. QED  BY <3>2, CardinalityOf DEF Rank
  <2>2. c = b
    BY <1>1, <1>3, <2>1
  <2>3. QED  BY <1>2, <2>2
<1>4. ASSUME NEW b \in S
      PROVE  Rank(S, b) + 1 \in 1..Cardinality(S) /\ M!InOrder(S)[Rank(S, b) + 1] = b.model
  <2>1. PICK k \in 0..(Cardinality(S) - 1) : k = Rank(S, b)
    BY <1>1
  <2>2. PICK n \in 1..Cardinality(S) : n = k + 1 /\ k = n - 1
    BY <1>1, <2>1
  <2>3. Rank(S, b) = n - 1
    BY <2>1, <2>2
  <2>4. M!InOrder(S)[n] = b.model
    BY <1>3, <2>2, <2>3
  <2>5. n = Rank(S, b) + 1
    BY <2>1, <2>2
  <2>6. QED  BY <2>2, <2>4, <2>5
<1>5. \A n \in 1..Cardinality(S) : \E b \in S :
         Rank(S, b) = n - 1 /\ M!InOrder(S)[n] = b.model
  BY <1>1, <1>3
<1>6. QED  BY <1>2, <1>4, <1>5

LEMMA InOrderIsChain ==
    ASSUME NEW S \in SUBSET Binding, \A x, y \in S : M!Clash(x, y) => x = y
    PROVE  M!InOrder(S) \in M!Chains
<1>1. Cardinality(S) \in Nat
  BY RankFacts
<1> DEFINE c == M!InOrder(S)
<1>2. DOMAIN c = 1..Cardinality(S)
  BY InOrderAt
<1>3. ASSUME NEW n \in DOMAIN c  PROVE \E b \in S : Rank(S, b) = n - 1 /\ c[n] = b.model
  BY <1>2, InOrderAt
<1>4. c = [n \in 1..Cardinality(S) |-> c[n]]
  BY CardinalityOf DEF M!InOrder
<1> HIDE DEF c
<1>5. \A n \in DOMAIN c : c[n] \in Bound
  BY <1>3 DEF Binding
<1>6. c \in Seq(Bound)
  BY <1>1, <1>2, <1>4, <1>5, SeqDef
<1>7. ASSUME NEW m \in DOMAIN c, NEW n \in DOMAIN c, c[m] = c[n]  PROVE m = n
  <2>1. PICK x \in S : Rank(S, x) = m - 1 /\ c[m] = x.model
    BY <1>3
  <2>2. PICK y \in S : Rank(S, y) = n - 1 /\ c[n] = y.model
    BY <1>3
  <2>3. x = y
    BY <1>7, <2>1, <2>2 DEF M!Clash
  <2>4. QED  BY <1>1, <1>2, <2>1, <2>2, <2>3
<1>8. c \in M!Chains
  BY <1>6, <1>7, ListIsChain
<1>9. QED  BY <1>8 DEF c

\* Rows that are those of a chain, whichever saves stored them, are in its order.
LEMMA InOrderOf ==
    ASSUME NEW S \in SUBSET Binding, \A x, y \in S : M!Clash(x, y) => x = y,
           NEW c \in M!Chains, {Placed(b) : b \in S} = Places(c)
    PROVE  /\ Cardinality(S) = Len(c) /\ M!InOrder(S) = c
           /\ \A b \in S : b.priority + 1 \in DOMAIN c /\ b.model = c[b.priority + 1]
           /\ \A n \in DOMAIN c : \E b \in S : b.priority = n - 1 /\ b.model = c[n]
<1>1. /\ DOMAIN c = 1..Len(c) /\ Len(c) \in Nat /\ c \in Seq(Bound)
  BY ChainFacts
<1>2. ASSUME NEW n \in DOMAIN c  PROVE \E b \in S : b.priority = n - 1 /\ b.model = c[n]
  <2>1. [model |-> c[n], priority |-> n - 1] \in {Placed(b) : b \in S}
    BY DEF Places
  <2>2. PICK b \in S : [model |-> c[n], priority |-> n - 1] = Placed(b)
    BY <2>1
  <2>3. [model |-> c[n], priority |-> n - 1].priority = Placed(b).priority
        /\ [model |-> c[n], priority |-> n - 1].model = Placed(b).model
    BY <2>2
  <2>4. QED  BY <2>3 DEF Placed
<1>3. ASSUME NEW b \in S  PROVE b.priority + 1 \in DOMAIN c /\ b.model = c[b.priority + 1]
  <2>1. Placed(b) \in Places(c)
    OBVIOUS
  <2>2. PICK n \in DOMAIN c : Placed(b) = [model |-> c[n], priority |-> n - 1]
    BY <2>1 DEF Places
  <2>3. Placed(b).priority = n - 1 /\ Placed(b).model = c[n]
    BY <2>2
  <2>4. b.priority = n - 1 /\ b.model = c[n]
    BY <2>3 DEF Placed
  <2>5. QED  BY <1>1, <2>4
<1>4. \A x, y \in S : x.priority = y.priority => x = y
  BY DEF M!Clash
<1> DEFINE f == [n \in DOMAIN c |-> CHOOSE b \in S : b.priority = n - 1]
<1>5. \A n \in DOMAIN c : f[n] \in S /\ f[n].priority = n - 1
  BY <1>2
<1>6. \A b \in S : b.priority \in Int /\ b = f[b.priority + 1]
  <2> SUFFICES ASSUME NEW b \in S  PROVE b.priority \in Int /\ b = f[b.priority + 1]
    OBVIOUS
  <2>1. b.priority \in Int
    BY FS_CardinalityType, FeatureLimits, CardinalityOf DEF Binding
  <2>2. f[b.priority + 1] \in S /\ f[b.priority + 1].priority = b.priority
    BY <1>3, <1>5, <2>1
  <2>3. QED  BY <1>4, <2>1, <2>2
<1> HIDE DEF f
<1>7. DOMAIN f = DOMAIN c
  BY DEF f
\* The first n rows: one for each place.
<1>8. ASSUME NEW n \in 0..Len(c), NEW T, T = {b \in S : b.priority < n}
      PROVE  IsFiniteSet(T) /\ Cardinality(T) = n
  <2> DEFINE g == [k \in 1..n |-> f[k]]
  <2>1. \A k \in 1..n : k \in DOMAIN c /\ g[k] = f[k]
    BY <1>1
  <2>2. \A k \in 1..n : g[k] \in T
    BY <1>5, <1>8, <2>1
  <2>3. \A b \in T : \E k \in 1..n : g[k] = b
    <3> SUFFICES ASSUME NEW b \in T  PROVE \E k \in 1..n : g[k] = b
      OBVIOUS
    <3>1. b \in S /\ b.priority < n
      BY <1>8
    <3>2. b.priority + 1 \in 1..n /\ b = f[b.priority + 1]
      BY <1>1, <1>3, <1>6, <3>1
    <3>3. QED  BY <3>2
  <2>4. \A k, l \in 1..n : g[k] = g[l] => k = l
    <3> SUFFICES ASSUME NEW k \in 1..n, NEW l \in 1..n, g[k] = g[l]  PROVE k = l
      OBVIOUS
    <3>1. k - 1 = l - 1
      BY <1>5, <2>1
    <3>2. QED  BY <3>1
  <2>5. g \in Injection(1..n, T) /\ g \in Surjection(1..n, T)
    <3>1. g \in [1..n -> T]
      BY <2>2
    <3> HIDE DEF g
    <3>2. DOMAIN g = 1..n
      BY <3>1
    <3>3. QED  BY <2>3, <2>4, <3>1, <3>2 DEF Injection, IsInjective, Surjection
  <2> HIDE DEF g
  <2>6. IsFiniteSet(1..n) /\ Cardinality(1..n) = n
    <3>1. IsFiniteSet(1..n) /\ Cardinality(1..n) = IF 1 > n THEN 0 ELSE n - 1 + 1
      BY FS_Interval
    <3>2. QED  BY <3>1
  <2>7. QED  BY <2>5, <2>6, FS_Surjection
<1>9. Cardinality(S) = Len(c)
  <2>1. S = {b \in S : b.priority < Len(c)}
    BY <1>1, <1>3, <1>6
  <2>2. QED  BY <1>1, <1>8, <2>1
<1>10. ASSUME NEW n \in DOMAIN c  PROVE M!InOrder(S)[n] = c[n]
  <2>1. PICK b \in S : b.priority = n - 1 /\ b.model = c[n]
    BY <1>2
  <2>2. Rank(S, b) = n - 1
    <3>1. M!Below(S, b) = {x \in S : x.priority < n - 1}
      BY <2>1 DEF M!Below
    <3>2. n - 1 \in 0..Len(c)
      BY <1>1
    <3>3. QED  BY <1>8, <3>1, <3>2 DEF Rank
  <2>3. M!InOrder(S)[Rank(S, b) + 1] = b.model
    BY InOrderAt
  <2>4. Rank(S, b) + 1 = n
    BY <1>1, <2>2
  <2>5. QED  BY <2>1, <2>3, <2>4
<1>11. M!InOrder(S) = c
  <2>1. M!InOrder(S) \in Seq(Bound) /\ DOMAIN M!InOrder(S) = 1..Len(M!InOrder(S))
        /\ Len(M!InOrder(S)) \in Nat
    BY InOrderIsChain, ChainFacts
  <2>2. DOMAIN M!InOrder(S) = 1..Len(c)
    BY <1>9, InOrderAt
  <2>3. Len(M!InOrder(S)) = Len(c)
    <3>1. PICK k \in Nat : k = Len(M!InOrder(S))
      BY <2>1
    <3>2. PICK l \in Nat : l = Len(c)
      BY <1>1
    <3>3. 1..k = 1..l
      BY <2>1, <2>2, <3>1, <3>2
    <3>4. k \in 1..k \/ k = 0
      OBVIOUS
    <3>5. l \in 1..l \/ l = 0
      OBVIOUS
    <3>6. k = l
      BY <3>3, <3>4, <3>5
    <3>7. QED  BY <3>1, <3>2, <3>6
  <2>4. \A i \in 1..Len(M!InOrder(S)) : M!InOrder(S)[i] = c[i]
    BY <1>1, <1>10, <2>3
  <2> DEFINE s == M!InOrder(S)
  <2> HIDE DEF s
  <2>5. s \in Seq(Bound) /\ Len(s) = Len(c) /\ \A i \in 1..Len(s) : s[i] = c[i]
    BY <2>1, <2>3, <2>4 DEF s
  <2>6. s = c
    BY <1>1, <2>5, SeqEqual
  <2>7. QED  BY <2>6 DEF s
<1>12. QED  BY <1>2, <1>3, <1>9, <1>11

LEMMA LeastPlace ==
    ASSUME NEW T \in SUBSET Nat, T # {}
    PROVE  M!Least(T) \in T /\ \A m \in T : M!Least(T) <= m
<1> DEFINE l == CHOOSE k \in T : \A m \in T : k <= m
<1>1. l \in T /\ \A m \in T : l <= m
  BY LeastNumber, Zenon
<1>2. M!Least(T) = l
  BY DEF M!Least
<1>3. QED  BY <1>1, <1>2

LEMMA ChainServes ==
    ASSUME BindingsHold, PageHolds, ~joined \/ Two
    PROVE  M!ChainIsOfOneSave
<1>1. PICK c \in saved : {Placed(b) : b \in bindings} = Places(c)
  <2>1. CASE ~joined
    <3>1. PICK c \in saved, o \in Admins \cup {None} : bindings = M!Rows(c, o)
      BY <2>1 DEF BindingsHold
    <3>2. QED  BY <3>1, RowsFacts DEF PageHolds
  <2>2. CASE joined
    BY <2>2 DEF BindingsHold
  <2>3. QED  BY <2>1, <2>2
<1>2. c \in M!Chains
  BY DEF PageHolds
<1>3. bindings \in SUBSET Binding /\ \A x, y \in bindings : M!Clash(x, y) => x = y
  BY DEF BindingsHold
<1>4. /\ M!Cardinality(bindings) = Len(c) /\ M!InOrder(bindings) = c
      /\ \A b \in bindings : b.priority + 1 \in DOMAIN c /\ b.model = c[b.priority + 1]
      /\ \A n \in DOMAIN c : \E b \in bindings : b.priority = n - 1 /\ b.model = c[n]
  BY <1>1, <1>2, <1>3, InOrderOf, CardinalityOf
<1>5. DOMAIN c = 1..Len(c) /\ Len(c) \in Nat
  BY <1>2, ChainFacts
<1>6. \A b \in bindings : b.priority \in Nat
  BY <1>3, FS_CardinalityType, FeatureLimits, CardinalityOf DEF Binding
<1>7. {b.priority : b \in bindings} = {n - 1 : n \in 1..M!Cardinality(bindings)}
  <2>1. \A b \in bindings : \E n \in 1..Len(c) : b.priority = n - 1
    BY <1>4, <1>5, <1>6
  <2>2. \A n \in 1..Len(c) : \E b \in bindings : n - 1 = b.priority
    BY <1>4, <1>5
  <2>3. QED  BY <1>4, <2>1, <2>2
<1>8. ASSUME config = TRUE, NEW S \in SUBSET Bound
      PROVE  \E b \in bindings \cup {None} :
                /\ IF b = None THEN M!ResolveModelSelection(S) = None
                   ELSE M!ResolveModelSelection(S) = b.model
                /\ b = None => \A x \in bindings : x.model \notin S
                /\ b # None => b.model \in S /\ \A x \in bindings : x.model \in S => b.priority <= x.priority
  <2> DEFINE places == {n \in DOMAIN c : c[n] \in S}
  <2>1. M!ResolveModelSelection(S) = M!Selected(c, places)
    BY <1>4, <1>8 DEF M!ResolveModelSelection, M!Callable
  <2>2. CASE places = {}
    <3>1. M!ResolveModelSelection(S) = None
      BY <2>1, <2>2 DEF M!Selected
    <3>2. \A x \in bindings : x.model \notin S
      BY <1>4, <2>2
    <3>3. QED  BY <3>1, <3>2
  <2>3. CASE places # {}
    <3>1. places \in SUBSET Nat
      BY <1>5
    <3>2. M!Least(places) \in places /\ \A m \in places : M!Least(places) <= m
      <4> HIDE DEF places
      <4>1. QED  BY <2>3, <3>1, LeastPlace
    <3>3. PICK n \in places : n = M!Least(places) /\ \A m \in places : n <= m
      BY <3>2
    <3>4. PICK b \in bindings : b.priority = n - 1 /\ b.model = c[n]
      BY <1>4, <3>3
    <3>5. M!ResolveModelSelection(S) = b.model /\ b.model \in S
      BY <2>1, <2>3, <3>3, <3>4 DEF M!Selected
    <3>6. b # None
      <4>1. b \in Binding
        BY <1>3
      <4>2. 0..(M!Cardinality(Bound) - 1) \subseteq Nat
        BY FS_CardinalityType, FeatureLimits, CardinalityOf
      <4>3. QED  BY <4>1, <4>2, FeatureLimits DEF Binding
    <3>7. ASSUME NEW x \in bindings, x.model \in S  PROVE b.priority <= x.priority
      <4>1. x.priority + 1 \in places
        BY <1>4, <3>7
      <4>2. n <= x.priority + 1
        BY <3>3, <4>1
      <4>3. QED  BY <1>5, <1>6, <3>3, <3>4, <4>2
    <3>8. QED  BY <3>5, <3>6, <3>7
  <2>4. QED  BY <2>2, <2>3
<1>9. QED  BY <1>1, <1>4, <1>7, <1>8 DEF M!ChainIsOfOneSave

FeaturePage == [known : Shown \cup {None}, editing : Shown \cup {None}, saving : BOOLEAN]

\* A save that sees, deletes and inserts nothing.
LEMMA QuietHolds ==
    ASSUME NEW a, NEW t \in Save, t.at \in {"idle", "begun", "found", "stored", "done", "failed"},
           t.seen = {}, t.gone = {}, t.known = {}, t.new = {},
           t.at # "idle" => a \in begun,
           ~Over(t) /\ t.at # "begun" /\ t.found # None => config # None,
           t.at = "done" => t.found \in Shown,
           joined /\ Two => Over(t)
    PROVE  SaveHolds(a, t)
BY DEF SaveHolds

LEMMA EmptyChain == <<>> \in M!Chains
<1>1. <<>> \in Seq(Bound) /\ \A m, n \in DOMAIN <<>> : <<>>[m] = <<>>[n] => m = n
  OBVIOUS
<1>2. QED  BY <1>1, ListIsChain

LEMMA IdleIsSave == M!Idle \in Save /\ M!Failed \in Save
BY EmptyChain DEF M!Idle, M!Failed, Save

LEMMA ApartBothWays ==
    ASSUME NEW t, NEW u, Apart(t, u)
    PROVE  Apart(u, t)
<1>1. \A x \in t.new, y \in u.new : M!Clash(y, x) => M!Clash(x, y)
  BY DEF M!Clash
<1>2. QED  BY <1>1 DEF Apart

\* One save moves on, and what is stored stays.
LEMMA StageKept ==
    ASSUME FeatureInv, scope \in FeatureScopes, scope' = scope,
           NEW a \in Admins, NEW t, tx' = [tx EXCEPT ![a] = t],
           UNCHANGED <<config, bindings, saved, joined>>,
           begun \subseteq begun', begun' \subseteq begun \cup {a},
           feature' \in FeaturePage,
           Over(t) \/ ~Over(tx[a]) \/ a \notin begun,
           SaveHolds(a, t)',
           \A b \in Admins \ {a} : Apart(t, tx[b])
    PROVE  FeatureInv'
<1>1. /\ PageHolds /\ BindingsHold /\ tx \in [Admins -> Save]
      /\ \A b \in Admins : SaveHolds(b, tx[b])
      /\ \A b, c \in Admins : b # c => Apart(tx[b], tx[c])
  BY DEF FeatureInv
<1>2. t \in Save
  BY DEF SaveHolds
<1>3. tx' \in [Admins -> Save] /\ tx'[a] = t /\ \A b \in Admins \ {a} : tx'[b] = tx[b]
  BY <1>1, <1>2
<1>4. PageHolds'
  BY <1>1 DEF PageHolds, FeaturePage
<1>5. Two' => Two
  BY DEF Two
<1>6. ASSUME NEW b \in Admins, b \in begun, Over(tx[b])  PROVE b \in begun' /\ Over(tx'[b])
  BY <1>3, <1>6
<1>7. BindingsHold'
  <2>1. /\ bindings \subseteq Binding
        /\ \A x, y \in bindings : M!Clash(x, y) => x = y
        /\ \A b \in bindings : b.by # None => b.by \in begun /\ Over(tx[b.by])
        /\ ~joined => \E c \in saved, o \in Admins \cup {None} : bindings = M!Rows(c, o)
        /\ joined /\ Two =>
              /\ \E p, q \in begun : p # q
              /\ \E c \in saved : {Placed(b) : b \in bindings} = Places(c)
    BY <1>1 DEF BindingsHold
  <2>2. \A b \in bindings : b.by # None => b.by \in begun' /\ Over(tx'[b.by])
    <3> SUFFICES ASSUME NEW b \in bindings, b.by # None  PROVE b.by \in begun' /\ Over(tx'[b.by])
      OBVIOUS
    <3>1. b.by \in Admins
      BY <2>1 DEF Binding
    <3>2. QED  BY <1>6, <2>1, <3>1
  <2>3. /\ bindings' \subseteq Binding
        /\ \A x, y \in bindings' : M!Clash(x, y) => x = y
        /\ \A b \in bindings' : b.by # None => b.by \in begun' /\ Over(tx'[b.by])
    BY <2>1, <2>2
  <2>4. /\ ~joined' => \E c \in saved', o \in Admins \cup {None} : bindings' = M!Rows(c, o)
        /\ joined' /\ Two' =>
              /\ \E p, q \in begun' : p # q
              /\ \E c \in saved' : {Placed(b) : b \in bindings'} = Places(c)
    BY <1>5, <2>1
  <2>5. QED  BY <2>3, <2>4 DEF BindingsHold
<1>8. ASSUME NEW b \in Admins, b # a  PROVE SaveHolds(b, tx[b])'
  <2>1. PICK u : u = tx[b]
    OBVIOUS
  <2>2. SaveHolds(b, u) /\ u \in Save
    BY <1>1, <2>1
  <2>3. \A x \in u.seen : x.by # None => x.by \in begun' /\ Over(tx'[x.by])
    <3> SUFFICES ASSUME NEW x \in u.seen, x.by # None  PROVE x.by \in begun' /\ Over(tx'[x.by])
      OBVIOUS
    <3>1. x.by \in begun /\ Over(tx[x.by])
      BY <2>2 DEF SaveHolds
    <3>2. x.by \in Admins
      BY <1>1, <3>1 DEF PageHolds
    <3>3. QED  BY <1>6, <3>1, <3>2
  <2>4. tx'[b] = u
    BY <1>3, <1>8, <2>1
  <2>5. SaveHolds(b, u)'
    BY <1>5, <2>2, <2>3 DEF SaveHolds
  <2>6. QED  BY <2>4, <2>5
<1>9. SaveHolds(a, tx[a])'
  <2>1. tx'[a] = t
    BY <1>3
  <2>2. QED  BY <2>1
<1>10. ASSUME NEW b \in Admins, NEW c \in Admins, b # c  PROVE Apart(tx'[b], tx'[c])
  <2>1. CASE b = a
    BY <1>3, <1>10, <2>1
  <2>2. CASE c = a
    BY <1>3, <1>10, <2>2, ApartBothWays
  <2>3. CASE b # a /\ c # a
    BY <1>1, <1>3, <1>10, <2>3
  <2>4. QED  BY <2>1, <2>2, <2>3
<1>11. \A b \in Admins : SaveHolds(b, tx[b])'
  BY <1>8, <1>9
<1>12. (\A b \in Admins : SaveHolds(b, tx[b]))'
  BY <1>11
<1>13. (\A b, c \in Admins : b # c => Apart(tx[b], tx[c]))'
  BY <1>10
<1>14. QED  BY <1>3, <1>4, <1>7, <1>12, <1>13 DEF FeatureInv

LEMMA FeatureInit == Init => FeatureInv
<1> SUFFICES ASSUME Init, scope \in FeatureScopes  PROVE FeatureInv
  BY DEF FeatureInv
<1>1. M!Init
  BY DEF Init
<1>2. PICK c \in M!Chains :
         /\ bindings = M!Rows(c, None) /\ saved = {c}
         /\ config \in {TRUE} \cup IF c = <<>> THEN {None} ELSE {}
  BY <1>1 DEF M!Init
<1>3. tx = [a \in Admins |-> M!Idle] /\ feature = M!NoPage /\ begun = {} /\ joined = FALSE
  BY <1>1 DEF M!Init
<1>4. PageHolds
  <2>1. feature \in [known : Shown \cup {None}, editing : Shown \cup {None}, saving : BOOLEAN]
    BY <1>3 DEF M!NoPage
  <2>2. config \in BOOLEAN \cup {None}
    BY <1>2
  <2>3. QED  BY <1>2, <1>3, <2>1, <2>2 DEF PageHolds
<1>5. BindingsHold
  <2>1. /\ bindings \subseteq Binding /\ \A x, y \in bindings : M!Clash(x, y) => x = y
        /\ \A b \in bindings : b.by = None
    BY <1>2, RowsFacts
  <2>2. \E d \in saved, o \in Admins \cup {None} : bindings = M!Rows(d, o)
    BY <1>2
  <2>3. QED  BY <1>3, <2>1, <2>2 DEF BindingsHold
<1>6. tx \in [Admins -> Save]
  BY <1>3, IdleIsSave
<1>7. ASSUME NEW a \in Admins  PROVE SaveHolds(a, tx[a])
  <2>1. PICK t \in Save : t = M!Idle
    BY IdleIsSave
  <2>2. /\ t.at = "idle" /\ t.seen = {} /\ t.gone = {} /\ t.known = {} /\ t.new = {} /\ Over(t)
    BY <2>1 DEF M!Idle, Over
  <2>3. SaveHolds(a, t)
    BY <2>2, QuietHolds
  <2>4. QED  BY <1>3, <2>1, <2>3
<1>8. \A a, b \in Admins : a # b => Apart(tx[a], tx[b])
  BY <1>3 DEF Apart, M!Idle
<1>9. QED  BY <1>4, <1>5, <1>6, <1>7, <1>8 DEF FeatureInv

LEMMA QuietStep ==
    ASSUME FeatureInv, scope \in FeatureScopes, scope' = scope,
           NEW a \in Admins, NEW t \in Save, tx' = [tx EXCEPT ![a] = t],
           UNCHANGED <<config, bindings, saved, joined>>,
           begun \subseteq begun', begun' \subseteq begun \cup {a},
           feature' \in FeaturePage,
           t.at \in {"idle", "begun", "found", "stored", "done", "failed"},
           t.seen = {}, t.gone = {}, t.known = {}, t.new = {},
           t.at # "idle" => a \in begun',
           ~Over(t) /\ t.at # "begun" /\ t.found # None => config # None,
           t.at = "done" => t.found \in Shown,
           joined /\ Two' => Over(t),
           Over(t) \/ ~Over(tx[a]) \/ a \notin begun
    PROVE  FeatureInv'
<1>1. SaveHolds(a, t)'
  BY DEF SaveHolds
<1>2. \A b \in Admins \ {a} : Apart(t, tx[b])
  BY DEF Apart
<1>3. QED  BY <1>1, <1>2, StageKept

\* What holds of a save that is under way.
LEMMA UnderWay ==
    ASSUME FeatureInv, scope \in FeatureScopes, NEW a \in Admins, ~Over(tx[a])
    PROVE  /\ SaveHolds(a, tx[a]) /\ tx[a] \in Save /\ a \in begun /\ ~(joined /\ Two)
           /\ PageHolds /\ BindingsHold /\ feature \in FeaturePage
<1>1. SaveHolds(a, tx[a]) /\ PageHolds /\ BindingsHold
  BY DEF FeatureInv
<1>2. tx[a] \in Save /\ a \in begun /\ ~(joined /\ Two)
  BY <1>1 DEF SaveHolds, Over
<1>3. feature \in FeaturePage
  BY <1>1 DEF PageHolds, FeaturePage
<1>4. QED  BY <1>1, <1>2, <1>3

LEMMA FailStep ==
    ASSUME FeatureInv, scope \in FeatureScopes, scope' = scope,
           NEW a \in Admins, ~Over(tx[a]), tx' = [tx EXCEPT ![a] = M!Failed],
           UNCHANGED <<config, bindings, saved, joined, feature, begun>>
    PROVE  FeatureInv'
<1>1. tx[a] \in Save /\ a \in begun /\ feature \in FeaturePage
  BY UnderWay
<1>2. PICK t \in Save : t = M!Failed
  BY IdleIsSave
<1>3. /\ t.at = "failed" /\ t.seen = {} /\ t.gone = {} /\ t.known = {} /\ t.new = {} /\ Over(t)
  BY <1>2 DEF M!Failed, M!Idle, Over
<1>4. QED  BY <1>1, <1>2, <1>3, QuietStep

LEMMA FindStep ==
    ASSUME FeatureInv, scope \in FeatureScopes, scope' = scope,
           NEW a \in Admins, M!FindConfig(a) \/ M!SaveConfig(a)
    PROVE  FeatureInv'
<1>1. tx[a].at \in {"begun", "found"} /\ ~Over(tx[a])
  BY DEF M!FindConfig, M!SaveConfig, Over
<1>2. /\ SaveHolds(a, tx[a]) /\ tx[a] \in Save /\ a \in begun /\ ~(joined /\ Two)
      /\ PageHolds /\ BindingsHold /\ feature \in FeaturePage
  BY <1>1, UnderWay
<1>3. UNCHANGED <<config, bindings, saved, joined, feature, begun>>
  BY DEF M!FindConfig, M!SaveConfig, M!Stage
<1>4. Two' => Two
  BY <1>3 DEF Two
<1>5. tx[a].seen = {} /\ tx[a].gone = {} /\ tx[a].known = {} /\ tx[a].new = {}
  BY <1>1, <1>2 DEF SaveHolds
<1>6. CASE M!FindConfig(a)
  <2>1. PICK t : t = [tx[a] EXCEPT !.at = "found", !.found = config]
    OBVIOUS
  <2>2. t \in Save /\ t.at = "found" /\ t.found = config
    BY <1>2, <2>1 DEF Save, PageHolds
  <2>3. t.seen = {} /\ t.gone = {} /\ t.known = {} /\ t.new = {}
    BY <1>2, <1>5, <2>1 DEF Save
  <2>4. tx' = [tx EXCEPT ![a] = t]
    BY <1>6, <2>1 DEF M!FindConfig, M!Stage
  <2>5. QED  BY <1>1, <1>2, <1>3, <1>4, <2>2, <2>3, <2>4, QuietStep DEF Over
<1>7. CASE M!SaveConfig(a)
  <2>1. CASE tx[a].found = None /\ config # None
    <3>1. tx' = [tx EXCEPT ![a] = M!Failed]
      BY <1>7, <2>1 DEF M!SaveConfig, M!Stage
    <3>2. QED  BY <1>1, <1>3, <3>1, FailStep
  <2>2. CASE ~(tx[a].found = None /\ config # None)
    <3>1. PICK t : t = [tx[a] EXCEPT !.at = "stored"]
      OBVIOUS
    <3>2. t \in Save /\ t.at = "stored" /\ t.found = tx[a].found
      BY <1>2, <3>1 DEF Save
    <3>3. t.seen = {} /\ t.gone = {} /\ t.known = {} /\ t.new = {}
      BY <1>2, <1>5, <3>1 DEF Save
    <3>4. tx' = [tx EXCEPT ![a] = t]
      BY <1>7, <2>2, <3>1 DEF M!SaveConfig, M!Stage
    <3>5. t.found # None => config # None
      BY <1>1, <1>2, <1>7, <3>2 DEF SaveHolds, M!SaveConfig
    <3>6. QED  BY <1>1, <1>2, <1>3, <1>4, <3>2, <3>3, <3>4, <3>5, QuietStep DEF Over
  <2>3. QED  BY <2>1, <2>2
<1>8. QED  BY <1>6, <1>7

LEMMA BeginDeleteStep ==
    ASSUME FeatureInv, scope \in FeatureScopes, scope' = scope,
           NEW a \in Admins, M!BeginDelete(a)
    PROVE  FeatureInv'
<1>1. tx[a].at = "stored" /\ ~Over(tx[a])
  BY DEF M!BeginDelete, Over
<1>2. /\ SaveHolds(a, tx[a]) /\ tx[a] \in Save /\ a \in begun /\ ~(joined /\ Two)
      /\ PageHolds /\ BindingsHold /\ feature \in FeaturePage
  BY <1>1, UnderWay
<1>3. UNCHANGED <<config, bindings, saved, joined, feature, begun>>
  BY DEF M!BeginDelete, M!Stage
<1>4. Two' => Two
  BY <1>3 DEF Two
<1>5. PICK t : t = [tx[a] EXCEPT !.at = "deleting", !.seen = bindings]
  OBVIOUS
<1>6. /\ t \in Save /\ t.at = "deleting" /\ t.seen = bindings
      /\ t.found = tx[a].found /\ t.gone = {} /\ t.known = {} /\ t.new = {} /\ ~Over(t)
  BY <1>1, <1>2, <1>5 DEF Save, SaveHolds, BindingsHold, Over
<1>7. tx' = [tx EXCEPT ![a] = t]
  BY <1>5 DEF M!BeginDelete, M!Stage
<1>8. \A b \in Admins \ {a} : Apart(t, tx[b])
  BY <1>6 DEF Apart
<1>9. \A x \in t.seen : x.by # None => x.by \in begun' /\ Over(tx'[x.by])
  <2> SUFFICES ASSUME NEW x \in bindings, x.by # None  PROVE x.by \in begun' /\ Over(tx'[x.by])
    BY <1>6
  <2>1. x.by \in begun /\ Over(tx[x.by]) /\ x.by \in Admins
    BY <1>2 DEF BindingsHold, PageHolds
  <2>2. x.by # a
    BY <1>1, <2>1
  <2>3. tx'[x.by] = tx[x.by]
    BY <1>7, <2>1, <2>2 DEF FeatureInv
  <2>4. QED  BY <1>3, <2>1, <2>3
<1>10. t.found # None => config # None
  BY <1>1, <1>2, <1>6 DEF SaveHolds
<1>11. SaveHolds(a, t)'
  BY <1>2, <1>3, <1>4, <1>6, <1>9, <1>10 DEF SaveHolds
<1>12. QED  BY <1>1, <1>2, <1>3, <1>7, <1>8, <1>11, StageKept

\* The rows that were seen and are there still are locked by the save.
LEMMA EndDeleteStep ==
    ASSUME FeatureInv, scope \in FeatureScopes, scope' = scope,
           NEW a \in Admins, M!EndDelete(a)
    PROVE  FeatureInv'
<1>1. tx[a].at = "deleting" /\ ~Over(tx[a])
  BY DEF M!EndDelete, Over
<1>2. /\ SaveHolds(a, tx[a]) /\ tx[a] \in Save /\ a \in begun /\ ~(joined /\ Two)
      /\ PageHolds /\ BindingsHold /\ feature \in FeaturePage
  BY <1>1, UnderWay
<1>3. UNCHANGED <<config, bindings, saved, joined, feature, begun>>
  BY DEF M!EndDelete, M!Stage
<1>4. Two' => Two
  BY <1>3 DEF Two
<1>5. PICK t : t = [tx[a] EXCEPT !.at = "deleted", !.gone = tx[a].seen \cap bindings, !.seen = {}]
  OBVIOUS
<1>6. /\ t \in Save /\ t.at = "deleted" /\ t.seen = {} /\ t.gone = tx[a].seen \cap bindings
      /\ t.found = tx[a].found /\ t.known = {} /\ t.new = {} /\ ~Over(t)
  BY <1>1, <1>2, <1>5 DEF Save, SaveHolds, BindingsHold, Over
<1>7. tx' = [tx EXCEPT ![a] = t]
  BY <1>5 DEF M!EndDelete, M!Stage
<1>8. \A b \in Admins \ {a} : Apart(t, tx[b])
  BY <1>6 DEF Apart, M!EndDelete, M!Others
<1>9. t.found # None => config # None
  BY <1>1, <1>2, <1>6 DEF SaveHolds
<1>10. /\ \A b \in bindings : b.by = None => b \in t.gone
       /\ ~joined => t.gone \in {{}, bindings}
  BY <1>1, <1>2, <1>6 DEF SaveHolds
<1>11. SaveHolds(a, t)'
  BY <1>2, <1>3, <1>4, <1>6, <1>9, <1>10 DEF SaveHolds
<1>12. QED  BY <1>1, <1>2, <1>3, <1>7, <1>8, <1>11, StageKept

\* The rows that are found are left alone: as long as none is beside those of
\* another save, there are none unless the save deleted nothing.
LEMMA LookUpStep ==
    ASSUME FeatureInv, scope \in FeatureScopes, scope' = scope,
           NEW a \in Admins, M!LookUp(a)
    PROVE  FeatureInv'
<1>1. tx[a].at = "deleted" /\ ~Over(tx[a])
  BY DEF M!LookUp, Over
<1>2. /\ SaveHolds(a, tx[a]) /\ tx[a] \in Save /\ a \in begun /\ ~(joined /\ Two)
      /\ PageHolds /\ BindingsHold /\ feature \in FeaturePage
  BY <1>1, UnderWay
<1>3. UNCHANGED <<config, bindings, saved, joined, feature, begun>>
  BY DEF M!LookUp, M!Stage
<1>4. Two' => Two
  BY <1>3 DEF Two
<1> DEFINE there == {b \in bindings \ tx[a].gone : b.model \in M!Range(tx[a].chain)}
           fits == \A b \in there : b.priority < Len(tx[a].chain)
                                    /\ tx[a].chain[b.priority + 1] = b.model
<1>5. CASE ~fits
  <2>1. tx' = [tx EXCEPT ![a] = M!Failed]
    BY <1>5 DEF M!LookUp, M!Stage
  <2>2. QED  BY <1>1, <1>3, <2>1, FailStep
<1>6. CASE fits
  <2>1. PICK t : t = [tx[a] EXCEPT !.at = "looked", !.known = {b.model : b \in there}]
    OBVIOUS
  <2>2. {b.model : b \in there} \subseteq Bound
    BY <1>2 DEF BindingsHold, Binding
  <2>3. /\ t \in Save /\ t.at = "looked" /\ t.known = {b.model : b \in there}
        /\ t.found = tx[a].found /\ t.chain = tx[a].chain /\ t.gone = tx[a].gone
        /\ t.seen = {} /\ t.new = {} /\ ~Over(t)
    BY <1>1, <1>2, <2>1, <2>2 DEF Save, SaveHolds, Over
  <2>4. tx' = [tx EXCEPT ![a] = t]
    BY <1>6, <2>1 DEF M!LookUp, M!Stage
  <2>5. \A b \in Admins \ {a} : Apart(t, tx[b])
    BY <2>3 DEF Apart, FeatureInv
  <2>6. t.found # None => config # None
    BY <1>1, <1>2, <2>3 DEF SaveHolds
  <2>7. t.known \subseteq M!Range(t.chain)
    BY <2>3
  <2>8. ~joined => t.gone \in {{}, bindings} /\ (t.gone # {} => t.known = {})
    BY <1>2, <2>3 DEF SaveHolds
  <2>9. \A m \in t.known : \E b \in bindings : b.model = m
    BY <2>3
  <2>10. ASSUME ~joined, t.known # {}, NEW b \in bindings
         PROVE  /\ b.model \in t.known <=> b.model \in M!Range(t.chain)
                /\ b.model \in t.known => Placed(b) \in Places(t.chain)
    <3>1. b.model \in M!Range(t.chain) => b \in there
      BY <2>3, <2>8, <2>10
    <3>2. b.model \in t.known <=> b.model \in M!Range(t.chain)
      BY <2>3, <2>7, <3>1
    <3>3. ASSUME b \in there  PROVE Placed(b) \in Places(t.chain)
      <4>1. PICK n : n = b.priority + 1
        OBVIOUS
      <4>2. b.priority < Len(t.chain) /\ t.chain[n] = b.model
        BY <1>6, <2>3, <3>3, <4>1
      <4>3. b.priority \in Nat
        BY <1>2, FS_CardinalityType, FeatureLimits, CardinalityOf DEF BindingsHold, Binding
      <4>4. t.chain \in M!Chains
        BY <2>3 DEF Save
      <4>5. DOMAIN t.chain = 1..Len(t.chain) /\ Len(t.chain) \in Nat
        BY <4>4, ChainFacts
      <4>6. n \in DOMAIN t.chain /\ n - 1 = b.priority
        BY <4>1, <4>2, <4>3, <4>5
      <4>7. Placed(b) = [model |-> t.chain[n], priority |-> n - 1]
        BY <4>2, <4>6 DEF Placed
      <4>8. QED  BY <4>6, <4>7 DEF Places
    <3>4. QED  BY <3>1, <3>2, <3>3
  <2>11. \A b \in bindings : b.by = None => b \in t.gone
    BY <1>1, <1>2, <2>3 DEF SaveHolds
  <2>12. t.gone \subseteq bindings
    BY <1>2, <2>3 DEF SaveHolds
  <2>13. SaveHolds(a, t)'
    <3> HIDE DEF there, fits
    <3>1. QED  BY <1>2, <1>3, <1>4, <2>3, <2>6, <2>7, <2>8, <2>9, <2>10, <2>11, <2>12 DEF SaveHolds
  <2>14. QED  BY <1>1, <1>2, <1>3, <2>4, <2>5, <2>13, StageKept
<1>7. QED  BY <1>5, <1>6

\* What is inserted clashes with nothing that stays, so it is inserted beside no
\* other row unless some were left alone.
LEMMA InsertStep ==
    ASSUME FeatureInv, scope \in FeatureScopes, scope' = scope,
           NEW a \in Admins, M!InsertBindings(a)
    PROVE  FeatureInv'
<1>1. tx[a].at = "looked" /\ ~Over(tx[a])
  BY DEF M!InsertBindings, Over
<1>2. /\ SaveHolds(a, tx[a]) /\ tx[a] \in Save /\ a \in begun /\ ~(joined /\ Two)
      /\ PageHolds /\ BindingsHold /\ feature \in FeaturePage
  BY <1>1, UnderWay
<1>3. UNCHANGED <<config, bindings, saved, joined, feature, begun>>
  BY DEF M!InsertBindings, M!Stage
<1>4. Two' => Two
  BY <1>3 DEF Two
<1> DEFINE new == {b \in M!Rows(tx[a].chain, a) : b.model \notin tx[a].known}
<1>5. tx[a].chain \in M!Chains
  BY <1>2 DEF Save
<1>6. CASE M!Clashes(new, bindings \ tx[a].gone)
  <2>1. tx' = [tx EXCEPT ![a] = M!Failed]
    BY <1>6 DEF M!InsertBindings, M!Stage
  <2>2. QED  BY <1>1, <1>3, <2>1, FailStep
<1>7. CASE ~M!Clashes(new, bindings \ tx[a].gone)
  <2>1. PICK t : t = [tx[a] EXCEPT !.at = "inserted", !.new = new]
    OBVIOUS
  <2>2. new \subseteq Binding
    BY <1>5, RowsFacts
  <2>3. /\ t \in Save /\ t.at = "inserted" /\ t.new = new
        /\ t.found = tx[a].found /\ t.chain = tx[a].chain /\ t.gone = tx[a].gone
        /\ t.known = tx[a].known /\ t.seen = {} /\ ~Over(t)
    <3> HIDE DEF new
    <3>1. QED  BY <1>1, <1>2, <2>1, <2>2 DEF Save, SaveHolds, Over
  <2>4. tx' = [tx EXCEPT ![a] = t]
    BY <1>7, <2>1 DEF M!InsertBindings, M!Stage
  <2>5. t.new = {b \in M!Rows(t.chain, a) : b.model \notin t.known}
    BY <2>3
  <2>6. ASSUME NEW b \in Admins \ {a}  PROVE Apart(t, tx[b])
    <3>1. ~M!Clashes(new, tx[b].new)
      BY DEF M!InsertBindings, M!Others
    <3>2. t.gone \cap tx[b].gone = {}
      BY <2>3 DEF FeatureInv, Apart
    <3>3. QED  BY <2>3, <3>1, <3>2 DEF Apart, M!Clashes
  <2>7. \A x \in t.new, y \in bindings \ t.gone : ~M!Clash(x, y)
    BY <1>7, <2>3 DEF M!Clashes
  <2>8. ASSUME ~joined, t.new # {}, t.known = {}  PROVE t.gone = bindings
    <3> SUFFICES ASSUME t.gone = {}, bindings # {}  PROVE FALSE
      BY <1>2, <2>3, <2>8 DEF SaveHolds
    <3>1. PICK c \in saved, o \in Admins \cup {None} : bindings = M!Rows(c, o)
      BY <1>2, <2>8 DEF BindingsHold
    <3>2. c \in M!Chains /\ c # <<>> /\ t.chain \in M!Chains /\ t.chain # <<>>
      BY <1>2, <1>5, <2>3, <2>5, <2>8, <3>1, RowsFacts DEF PageHolds
    <3>3. a \in Admins \cup {None}
      OBVIOUS
    <3>4. PICK y \in bindings : y.priority = 0
      BY <3>1, <3>2, FirstRow
    <3>5. PICK x \in M!Rows(t.chain, a) : x.priority = 0
      BY <3>2, <3>3, FirstRow
    <3>6. x \in t.new
      BY <2>5, <2>8
    <3>7. M!Clash(x, y)
      BY <3>4, <3>5 DEF M!Clash
    <3>8. QED  BY <2>7, <3>6, <3>7
  <2>9. t.found # None => config # None
    BY <1>1, <1>2, <2>3 DEF SaveHolds
  <2>10. /\ t.known \subseteq M!Range(t.chain) /\ t.gone \subseteq bindings
         /\ \A b \in bindings : b.by = None => b \in t.gone
         /\ ~joined =>
              /\ t.gone \in {{}, bindings}
              /\ t.gone # {} => t.known = {}
              /\ Two /\ t.known # {} => \A b \in bindings :
                    /\ b.model \in t.known <=> b.model \in M!Range(t.chain)
                    /\ b.model \in t.known => Placed(b) \in Places(t.chain)
         /\ ~joined /\ Two => \A m \in t.known : \E b \in bindings : b.model = m
    BY <1>1, <1>2, <2>3 DEF SaveHolds
  <2>11. SaveHolds(a, t)'
    <3> HIDE DEF new
    <3>1. QED  BY <1>2, <1>3, <1>4, <2>3, <2>5, <2>7, <2>8, <2>9, <2>10 DEF SaveHolds
  <2>12. QED  BY <1>1, <1>2, <1>3, <2>4, <2>6, <2>11, StageKept
<1>8. QED  BY <1>6, <1>7

LEMMA OnlyTwo ==
    ASSUME Two, NEW x \in begun, NEW y \in begun, NEW z \in begun, x # y, x # z, y # z
    PROVE  FALSE
BY DEF Two

\* A row that a save left alone is of another save, which has ended.
LEMMA KnownOfAnother ==
    ASSUME FeatureInv, scope \in FeatureScopes, NEW a \in Admins, ~joined, Two, tx[a].known # {}
    PROVE  /\ tx[a].gone = {} /\ a \in begun
           /\ \E o \in begun : o # a /\ Over(tx[o])
<1>1. SaveHolds(a, tx[a]) /\ BindingsHold
  BY DEF FeatureInv
<1>2. tx[a].at \in {"looked", "inserted"} /\ a \in begun /\ ~Over(tx[a])
  BY <1>1 DEF SaveHolds, Over
<1>3. tx[a].gone = {}
  BY <1>1 DEF SaveHolds
<1>4. PICK b \in bindings : b.model \in tx[a].known
  BY <1>1 DEF SaveHolds
<1>5. b.by # None
  BY <1>1, <1>2, <1>3, <1>4 DEF SaveHolds
<1>6. b.by \in begun /\ Over(tx[b.by])
  BY <1>1, <1>4, <1>5 DEF BindingsHold
<1>7. QED  BY <1>2, <1>3, <1>6

\* Without rows put beside those of another save, the chain stays, is removed, or
\* is the new one.
LEMMA CommitCases ==
    ASSUME FeatureInv, scope \in FeatureScopes, NEW a \in Admins, M!Commit(a), ~joined'
    PROVE  /\ ~joined
           /\ \/ bindings' = bindings
              \/ bindings' = {} /\ tx[a].gone = bindings /\ tx[a].chain = <<>>
              \/ /\ bindings' = tx[a].new /\ tx[a].gone = bindings /\ tx[a].chain # <<>>
                 /\ tx[a].new = M!Rows(tx[a].chain, a)
<1>1. tx[a].at = "inserted" /\ ~Over(tx[a])
  BY DEF M!Commit, Over
<1>2. SaveHolds(a, tx[a]) /\ tx[a] \in Save
  BY <1>1, UnderWay
<1>3. /\ bindings' = (bindings \ tx[a].gone) \cup tx[a].new
      /\ ~joined /\ (tx[a].known = {} \/ tx[a].new = {})
  BY DEF M!Commit, FeatureInv, PageHolds
<1>4. tx[a].new = {b \in M!Rows(tx[a].chain, a) : b.model \notin tx[a].known}
  BY <1>1, <1>2 DEF SaveHolds
<1>5. /\ tx[a].gone \in {{}, bindings} /\ (tx[a].gone # {} => tx[a].known = {})
      /\ (tx[a].new # {} /\ tx[a].known = {} => tx[a].gone = bindings)
  BY <1>2, <1>3 DEF SaveHolds
<1>6. tx[a].chain \in M!Chains
  BY <1>2 DEF Save
<1>7. CASE tx[a].new = {} /\ tx[a].gone = {}
  BY <1>3, <1>7
<1>8. CASE tx[a].new = {} /\ tx[a].gone # {}
  <2>1. M!Rows(tx[a].chain, a) = {}
    BY <1>4, <1>5, <1>8
  <2>2. tx[a].chain = <<>>
    BY <1>6, <2>1, RowsFacts
  <2>3. QED  BY <1>3, <1>5, <1>8, <2>2
<1>9. CASE tx[a].new # {}
  <2>1. tx[a].known = {} /\ tx[a].gone = bindings
    BY <1>3, <1>5, <1>9
  <2>2. tx[a].new = M!Rows(tx[a].chain, a)
    BY <1>4, <2>1
  <2>3. tx[a].chain # <<>>
    BY <1>6, <1>9, <2>2, RowsFacts
  <2>4. QED  BY <1>3, <2>1, <2>2, <2>3
<1>10. QED  BY <1>7, <1>8, <1>9

\* Two saves may put the rows of one beside those of the other: the chain of the
\* later one, which had looked for each of its models.
LEMMA CommitBeside ==
    ASSUME FeatureInv, scope \in FeatureScopes, NEW a \in Admins, M!Commit(a), joined', Two
    PROVE  /\ ~joined /\ tx[a].known # {}
           /\ {Placed(b) : b \in bindings'} = Places(tx[a].chain)
<1>1. tx[a].at = "inserted" /\ ~Over(tx[a])
  BY DEF M!Commit, Over
<1>2. SaveHolds(a, tx[a]) /\ tx[a] \in Save /\ ~(joined /\ Two) /\ BindingsHold /\ PageHolds
  BY <1>1, UnderWay
<1>3. /\ bindings' = (bindings \ tx[a].gone) \cup tx[a].new
      /\ ~joined /\ tx[a].known # {} /\ tx[a].new # {}
  BY <1>2 DEF M!Commit
<1>4. tx[a].gone = {} /\ bindings' = bindings \cup tx[a].new
  BY <1>3, KnownOfAnother
<1> DEFINE c == tx[a].chain
<1>5. /\ tx[a].new = {b \in M!Rows(c, a) : b.model \notin tx[a].known}
      /\ \A x \in tx[a].new, y \in bindings : ~M!Clash(x, y)
      /\ \A b \in bindings : b.model \in tx[a].known <=> b.model \in M!Range(c)
      /\ \A b \in bindings : b.model \in tx[a].known => Placed(b) \in Places(c)
      /\ \A m \in tx[a].known : \E b \in bindings : b.model = m
  BY <1>1, <1>2, <1>3, <1>4 DEF SaveHolds
<1>6. c \in M!Chains
  BY <1>2 DEF Save
<1> HIDE DEF c
<1>7. /\ DOMAIN c = 1..Len(c) /\ Len(c) \in Nat
      /\ \A m, n \in DOMAIN c : c[m] = c[n] => m = n
  BY <1>6, ChainFacts
<1>8. \A b \in bindings : b.priority \in Nat
  BY <1>2, FS_CardinalityType, FeatureLimits, CardinalityOf DEF BindingsHold, Binding
\* The row of a model that was left alone is at its place.
<1>9. ASSUME NEW n \in DOMAIN c, c[n] \in tx[a].known
      PROVE  \E b \in bindings : b.model = c[n] /\ b.priority = n - 1
  <2>1. PICK b \in bindings : b.model = c[n]
    BY <1>5, <1>9
  <2>2. Placed(b) \in Places(c)
    BY <1>5, <1>9, <2>1
  <2>3. PICK m \in DOMAIN c : Placed(b) = [model |-> c[m], priority |-> m - 1]
    BY <2>2 DEF Places
  <2>4. Placed(b).model = c[m] /\ Placed(b).priority = m - 1
    BY <2>3
  <2>5. b.model = c[m] /\ b.priority = m - 1
    BY <2>4 DEF Placed
  <2>6. m = n
    BY <1>7, <2>1, <2>5
  <2>7. QED  BY <2>1, <2>5, <2>6
\* A model that was not, is new.
<1>10. ASSUME NEW n \in DOMAIN c, c[n] \notin tx[a].known
       PROVE  \E b \in tx[a].new : b.model = c[n] /\ b.priority = n - 1
  <2>1. PICK b \in M!Rows(c, a) : b.priority = n - 1 /\ b.model = c[n]
    BY <1>6, RowsFacts
  <2>2. QED  BY <1>5, <1>10, <2>1
<1>11. ASSUME NEW b \in bindings, b.model \notin tx[a].known  PROVE FALSE
  <2>1. PICK n : n = b.priority + 1
    OBVIOUS
  <2>2. n \in Nat \ {0} /\ n - 1 = b.priority
    BY <1>8, <2>1
  <2>3. CASE n \in DOMAIN c
    <3>1. CASE c[n] \in tx[a].known
      <4>1. PICK y \in bindings : y.model = c[n] /\ y.priority = n - 1
        BY <1>9, <2>3, <3>1
      <4>2. y = b
        BY <1>2, <2>2, <4>1 DEF BindingsHold, M!Clash
      <4>3. QED  BY <1>11, <3>1, <4>1, <4>2
    <3>2. CASE c[n] \notin tx[a].known
      <4>1. PICK x \in tx[a].new : x.priority = n - 1
        BY <1>10, <2>3, <3>2
      <4>2. M!Clash(x, b)
        BY <2>2, <4>1 DEF M!Clash
      <4>3. QED  BY <1>5, <4>2
    <3>3. QED  BY <3>1, <3>2
  <2>4. CASE n \notin DOMAIN c
    <3>1. PICK x \in tx[a].new : TRUE
      BY <1>3
    <3>2. x \in M!Rows(c, a)
      BY <1>5
    <3>3. x.priority + 1 \in DOMAIN c
      BY <1>6, <3>2, RowsFacts
    <3>4. PICK d \in saved, o \in Admins \cup {None} : bindings = M!Rows(d, o)
      BY <1>2, <1>3 DEF BindingsHold
    <3>5. d \in M!Chains
      BY <1>2 DEF PageHolds
    <3>6. n \in DOMAIN d
      BY <2>1, <3>4, <3>5, RowsFacts
    <3>7. DOMAIN d = 1..Len(d) /\ Len(d) \in Nat
      BY <3>5, ChainFacts
    <3>8. PICK k \in DOMAIN c : k = x.priority + 1
      BY <3>3
    <3>9. k \in DOMAIN d
      BY <1>7, <2>2, <2>4, <3>6, <3>7
    <3>10. PICK y \in bindings : y.priority = k - 1
      BY <3>4, <3>5, <3>9, RowsFacts
    <3>11. x.priority \in Nat
      <4>1. x \in Binding
        BY <1>6, <3>2, RowsFacts
      <4>2. QED  BY <4>1, FS_CardinalityType, FeatureLimits, CardinalityOf DEF Binding
    <3>12. M!Clash(x, y)
      BY <3>8, <3>10, <3>11 DEF M!Clash
    <3>13. QED  BY <1>5, <3>12
  <2>5. QED  BY <2>3, <2>4
<1>12. \A b \in bindings' : Placed(b) \in Places(c)
  <2>1. \A b \in bindings : Placed(b) \in Places(c)
    BY <1>5, <1>11
  <2>2. \A b \in tx[a].new : Placed(b) \in Places(c)
    <3>1. \A b \in M!Rows(c, a) : Placed(b) \in Places(c)
      BY <1>6, RowsFacts
    <3>2. QED  BY <1>5, <3>1
  <2>3. QED  BY <1>4, <2>1, <2>2
<1>13. \A n \in DOMAIN c : \E b \in bindings' : Placed(b) = [model |-> c[n], priority |-> n - 1]
  <2> SUFFICES ASSUME NEW n \in DOMAIN c
               PROVE  \E b \in bindings' : Placed(b) = [model |-> c[n], priority |-> n - 1]
    OBVIOUS
  <2>1. \E b \in bindings' : b.model = c[n] /\ b.priority = n - 1
    BY <1>4, <1>9, <1>10
  <2>2. QED  BY <2>1 DEF Placed
<1>14. {Placed(b) : b \in bindings'} = Places(c)
  BY <1>12, <1>13 DEF Places
<1>15. QED  BY <1>3, <1>14 DEF c

\* A save that ends leaves the others what they know of the bindings.
LEMMA CommitOthers ==
    ASSUME FeatureInv, scope \in FeatureScopes, NEW a \in Admins, M!Commit(a),
           tx' \in [Admins -> Save], Over(tx'[a]), \A b \in Admins \ {a} : tx'[b] = tx[b],
           config' # None,
           NEW b \in Admins, b # a
    PROVE  SaveHolds(b, tx[b])'
<1>1. tx[a].at = "inserted" /\ ~Over(tx[a])
  BY DEF M!Commit, Over
<1>2. /\ SaveHolds(a, tx[a]) /\ tx[a] \in Save /\ a \in begun /\ ~(joined /\ Two)
      /\ BindingsHold /\ PageHolds
  BY <1>1, UnderWay
<1>3. /\ bindings' = (bindings \ tx[a].gone) \cup tx[a].new /\ begun' = begun
      /\ tx[a].new \subseteq M!Rows(tx[a].chain, a) /\ tx[a].chain \in M!Chains
  <2>1. bindings' = (bindings \ tx[a].gone) \cup tx[a].new /\ begun' = begun
    BY DEF M!Commit, M!Stage
  <2>2. tx[a].chain \in M!Chains
    BY <1>2 DEF Save
  <2>3. tx[a].new \subseteq M!Rows(tx[a].chain, a)
    BY <1>1, <1>2 DEF SaveHolds
  <2>4. QED  BY <2>1, <2>2, <2>3
<1>4. \A x \in tx[a].new : x.by = a
  BY <1>3, RowsFacts
<1>5. PICK u \in Save : u = tx[b]
  BY <1>2 DEF FeatureInv
<1>6. SaveHolds(b, u)
  BY <1>5 DEF FeatureInv
<1>7. Apart(tx[a], u) /\ Apart(u, tx[a])
  BY <1>5, ApartBothWays DEF FeatureInv
<1>8. a # None
  BY FeatureLimits
<1>9. u.gone \subseteq bindings'
  BY <1>3, <1>6, <1>7 DEF SaveHolds, Apart
<1>10. \A x \in u.new, y \in bindings' \ u.gone : ~M!Clash(x, y)
  BY <1>3, <1>6, <1>7 DEF SaveHolds, Apart
<1>11. \A x \in bindings' : x.by = None => x \in bindings
  BY <1>3, <1>4, <1>8
<1>12. \A x \in bindings' : x.by = None =>
          /\ u.at = "deleting" => x \in u.seen
          /\ u.at \in {"deleted", "looked", "inserted"} => x \in u.gone
  BY <1>6, <1>11 DEF SaveHolds
<1>13. \A x \in u.seen : x.by # None => x.by \in begun /\ x.by # a /\ x.by \in Admins /\ Over(tx[x.by])
  BY <1>1, <1>2, <1>6 DEF SaveHolds, PageHolds
<1>14. \A x \in u.seen : x.by # None => x.by \in begun' /\ Over(tx'[x.by])
  BY <1>3, <1>13
<1>15. Two' => Two
  BY <1>3 DEF Two
<1>16. joined' /\ Two' => Over(u)
  <2> SUFFICES ASSUME joined', Two, ~Over(u)  PROVE FALSE
    BY <1>15
  <2>1. ~joined /\ tx[a].known # {}
    BY CommitBeside
  <2>2. PICK o \in begun : o # a /\ Over(tx[o])
    BY <2>1, KnownOfAnother
  <2>3. b \in begun
    BY <1>6 DEF SaveHolds, Over
  <2>4. b # o
    BY <1>5, <2>2
  <2>5. QED  BY <1>2, <2>2, <2>3, <2>4, OnlyTwo
<1>17. ~joined' /\ Two' => u.known = {}
  <2> SUFFICES ASSUME ~joined', Two, u.known # {}  PROVE FALSE
    BY <1>15
  <2>1. ~joined
    BY CommitCases
  <2>2. b \in begun /\ \E o \in begun : o # b /\ Over(tx[o])
    BY <1>5, <2>1, KnownOfAnother
  <2>3. PICK o \in begun : o # b /\ Over(tx[o])
    BY <2>2
  <2>4. o # a
    BY <1>1, <2>3
  <2>5. QED  BY <1>2, <2>2, <2>3, <2>4, OnlyTwo
<1>18. ASSUME ~joined'
       PROVE  /\ u.seen \cap bindings' \in {{}, bindings'}
              /\ u.gone \in {{}, bindings'}
              /\ u.gone # {} => u.known = {}
              /\ u.new # {} /\ u.known = {} => u.gone = bindings'
  <2>1. /\ ~joined
        /\ \/ bindings' = bindings
           \/ bindings' = {} /\ tx[a].gone = bindings /\ tx[a].chain = <<>>
           \/ /\ bindings' = tx[a].new /\ tx[a].gone = bindings /\ tx[a].chain # <<>>
              /\ tx[a].new = M!Rows(tx[a].chain, a)
    BY <1>18, CommitCases
  <2>2. /\ u.seen \cap bindings \in {{}, bindings}
        /\ u.gone \in {{}, bindings} /\ u.gone \subseteq bindings
        /\ u.gone # {} => u.known = {}
        /\ u.new # {} /\ u.known = {} => u.gone = bindings
    BY <1>6, <2>1 DEF SaveHolds
  <2>3. u.gone \cap tx[a].gone = {}
    BY <1>7 DEF Apart
  <2>4. CASE bindings' = bindings
    BY <2>2, <2>4
  <2>5. CASE bindings' = {} /\ tx[a].gone = bindings
    BY <1>9, <2>2, <2>3, <2>5
  <2>6. CASE /\ bindings' = tx[a].new /\ tx[a].gone = bindings /\ tx[a].chain # <<>>
             /\ tx[a].new = M!Rows(tx[a].chain, a)
    <3>1. u.gone = {}
      BY <2>2, <2>3, <2>6
    <3>2. u.seen \cap bindings' = {}
      BY <1>4, <1>8, <1>13, <2>6
    <3>3. ~(u.new # {} /\ u.known = {})
      <4> SUFFICES ASSUME u.new # {}, u.known = {}  PROVE FALSE
        OBVIOUS
      <4>1. u.at = "inserted" /\ u.new = M!Rows(u.chain, b) /\ u.chain \in M!Chains
        BY <1>6 DEF SaveHolds, Save
      <4>2. u.chain # <<>>
        BY <4>1, RowsFacts
      <4>3. a \in Admins \cup {None} /\ b \in Admins \cup {None}
        OBVIOUS
      <4>4. PICK x \in u.new : x.priority = 0
        BY <4>1, <4>2, <4>3, FirstRow
      <4>5. PICK y \in tx[a].new : y.priority = 0
        BY <1>3, <2>6, <4>3, FirstRow
      <4>6. M!Clash(x, y)
        BY <4>4, <4>5 DEF M!Clash
      <4>7. QED  BY <1>7, <4>6 DEF Apart
    <3>4. QED  BY <3>1, <3>2, <3>3
  <2>7. QED  BY <2>1, <2>4, <2>5, <2>6
<1>19. SaveHolds(b, u)'
  BY <1>3, <1>6, <1>9, <1>10, <1>12, <1>14, <1>16, <1>17, <1>18, <1>15 DEF SaveHolds
<1>20. QED
  <2>1. tx'[b] = u
    BY <1>5
  <2>2. QED  BY <1>19, <2>1

LEMMA CommitStep ==
    ASSUME FeatureInv, scope \in FeatureScopes, scope' = scope,
           NEW a \in Admins, M!Commit(a)
    PROVE  FeatureInv'
<1>1. tx[a].at = "inserted" /\ ~Over(tx[a])
  BY DEF M!Commit, Over
<1>2. /\ SaveHolds(a, tx[a]) /\ tx[a] \in Save /\ a \in begun /\ ~(joined /\ Two)
      /\ BindingsHold /\ PageHolds /\ feature \in FeaturePage
  BY <1>1, UnderWay
<1>3. /\ bindings' = (bindings \ tx[a].gone) \cup tx[a].new /\ UNCHANGED <<feature, begun>>
      /\ saved' = saved \cup {tx[a].chain}
      /\ joined' = (joined \/ (tx[a].known # {} /\ tx[a].new # {}))
  BY DEF M!Commit, M!Stage
<1>4. /\ tx[a].new \subseteq M!Rows(tx[a].chain, a) /\ tx[a].chain \in M!Chains
      /\ \A x \in tx[a].new, y \in bindings \ tx[a].gone : ~M!Clash(x, y)
  BY <1>1, <1>2 DEF SaveHolds, Save
<1>5. config' \in BOOLEAN
  <2>1. CASE M!Locks(a)
    BY <1>2, <2>1 DEF M!Commit, Save
  <2>2. CASE ~M!Locks(a)
    <3>1. tx[a].found \in BOOLEAN
      BY <1>2, <2>2 DEF M!Locks, Save
    <3>2. config # None
      BY <1>1, <1>2, <3>1, FeatureLimits DEF SaveHolds
    <3>3. QED  BY <1>2, <2>2, <3>2 DEF M!Commit, PageHolds
  <2>3. QED  BY <2>1, <2>2
<1>6. /\ bindings' \subseteq Binding
      /\ \A x, y \in bindings' : M!Clash(x, y) => x = y
  <2>1. /\ tx[a].new \subseteq Binding /\ \A x, y \in tx[a].new : M!Clash(x, y) => x = y
    BY <1>4, RowsFacts
  <2>2. bindings \subseteq Binding /\ \A x, y \in bindings : M!Clash(x, y) => x = y
    BY <1>2 DEF BindingsHold
  <2>3. \A x \in tx[a].new, y \in bindings \ tx[a].gone : ~M!Clash(x, y) /\ ~M!Clash(y, x)
    BY <1>4 DEF M!Clash
  <2>4. QED  BY <1>3, <2>1, <2>2, <2>3
<1>7. M!InOrder(bindings') \in M!Chains
  <2>1. PICK S \in SUBSET Binding : S = bindings'
    BY <1>6
  <2>2. \A x, y \in S : M!Clash(x, y) => x = y
    BY <1>6, <2>1
  <2>3. M!InOrder(S) \in M!Chains
    BY <2>2, InOrderIsChain
  <2>4. QED  BY <2>1, <2>3
<1>8. PICK t : t = [M!Idle EXCEPT !.at = "done",
                       !.found = [enabled |-> config', chain |-> M!InOrder(bindings')]]
  OBVIOUS
<1>9. tx' = [tx EXCEPT ![a] = t]
  BY <1>8 DEF M!Commit, M!Stage
<1>10. /\ t \in Save /\ t.at = "done" /\ t.found \in Shown /\ Over(t)
       /\ t.seen = {} /\ t.gone = {} /\ t.known = {} /\ t.new = {}
  <2>1. [enabled |-> config', chain |-> M!InOrder(bindings')] \in Shown
    BY <1>5, <1>7 DEF Shown
  <2>2. M!Idle \in Save
    BY IdleIsSave
  <2>3. t \in Save /\ t.at = "done" /\ t.found \in Shown
    BY <1>8, <2>1, <2>2 DEF Save
  <2>4. t.seen = {} /\ t.gone = {} /\ t.known = {} /\ t.new = {}
    BY <1>8 DEF M!Idle
  <2>5. QED  BY <2>3, <2>4 DEF Over
<1>11. tx' \in [Admins -> Save] /\ tx'[a] = t /\ \A b \in Admins \ {a} : tx'[b] = tx[b]
  BY <1>9, <1>10 DEF FeatureInv
<1>12. PageHolds'
  <2>1. saved' \subseteq M!Chains /\ joined' \in BOOLEAN /\ begun' \subseteq Admins
    BY <1>2, <1>3, <1>4 DEF PageHolds
  <2>2. feature' \in [known : Shown \cup {None}, editing : Shown \cup {None}, saving : BOOLEAN]
    BY <1>2, <1>3 DEF PageHolds
  <2>3. QED  BY <1>5, <2>1, <2>2 DEF PageHolds
<1>13. Two' => Two
  BY <1>3 DEF Two
<1>14. BindingsHold'
  <2>1. ASSUME NEW x \in bindings', x.by # None  PROVE x.by \in begun' /\ Over(tx'[x.by])
    <3>1. CASE x \in bindings
      <4>1. x.by \in begun /\ Over(tx[x.by]) /\ x.by \in Admins
        BY <1>2, <2>1, <3>1 DEF BindingsHold, PageHolds
      <4>2. x.by # a
        BY <1>1, <4>1
      <4>3. QED  BY <1>3, <1>11, <4>1, <4>2
    <3>2. CASE x \in tx[a].new
      <4>1. x.by = a
        BY <1>4, <3>2, RowsFacts
      <4>2. QED  BY <1>2, <1>3, <1>10, <1>11, <4>1
    <3>3. QED  BY <1>3, <3>1, <3>2
  <2>2. ASSUME ~joined'  PROVE \E c \in saved', o \in Admins \cup {None} : bindings' = M!Rows(c, o)
    <3>1. /\ ~joined
          /\ \/ bindings' = bindings
             \/ bindings' = {} /\ tx[a].gone = bindings /\ tx[a].chain = <<>>
             \/ /\ bindings' = tx[a].new /\ tx[a].gone = bindings /\ tx[a].chain # <<>>
                /\ tx[a].new = M!Rows(tx[a].chain, a)
      BY <2>2, CommitCases
    <3>2. CASE bindings' = bindings
      BY <1>2, <1>3, <3>1, <3>2 DEF BindingsHold
    <3>3. CASE bindings' = {} /\ tx[a].chain = <<>>
      <4>1. bindings' = M!Rows(tx[a].chain, a)
        BY <1>4, <3>3, RowsFacts
      <4>2. QED  BY <1>3, <4>1
    <3>4. CASE bindings' = tx[a].new /\ tx[a].new = M!Rows(tx[a].chain, a)
      BY <1>3, <3>4
    <3>5. QED  BY <3>1, <3>2, <3>3, <3>4
  <2>3. ASSUME joined', Two'
        PROVE  /\ \E p, q \in begun' : p # q
               /\ \E c \in saved' : {Placed(x) : x \in bindings'} = Places(c)
    <3>1. /\ ~joined /\ tx[a].known # {} /\ Two
          /\ {Placed(x) : x \in bindings'} = Places(tx[a].chain)
      BY <1>13, <2>3, CommitBeside
    <3>2. \E o \in begun : o # a
      BY <3>1, KnownOfAnother
    <3>3. QED  BY <1>2, <1>3, <3>1, <3>2
  <2>4. /\ \A x \in bindings' : x.by # None => x.by \in begun' /\ Over(tx'[x.by])
        /\ ~joined' => \E c \in saved', o \in Admins \cup {None} : bindings' = M!Rows(c, o)
        /\ joined' /\ Two' =>
              /\ \E p, q \in begun' : p # q
              /\ \E c \in saved' : {Placed(x) : x \in bindings'} = Places(c)
    BY <2>1, <2>2, <2>3
  <2>5. QED  BY <1>6, <2>4 DEF BindingsHold
<1>15. ASSUME NEW b \in Admins  PROVE SaveHolds(b, tx[b])'
  <2>1. CASE b = a
    <3>1. SaveHolds(a, t)'
      BY <1>2, <1>3, <1>10 DEF SaveHolds
    <3>2. QED  BY <1>11, <2>1, <3>1
  <2>2. CASE b # a
    BY <1>5, <1>10, <1>11, <2>2, FeatureLimits, CommitOthers
  <2>3. QED  BY <2>1, <2>2
<1>16. ASSUME NEW b \in Admins, NEW d \in Admins, b # d  PROVE Apart(tx'[b], tx'[d])
  <2>1. CASE b = a \/ d = a
    <3>1. \A u : Apart(t, u) /\ Apart(u, t)
      BY <1>10 DEF Apart
    <3>2. QED  BY <1>11, <2>1, <3>1
  <2>2. CASE b # a /\ d # a
    BY <1>11, <1>16, <2>2 DEF FeatureInv
  <2>3. QED  BY <2>1, <2>2
<1>17. (\A b \in Admins : SaveHolds(b, tx[b]))'
  BY <1>15
<1>18. (\A b, d \in Admins : b # d => Apart(tx[b], tx[d]))'
  BY <1>16
<1>19. QED  BY <1>11, <1>12, <1>14, <1>17, <1>18 DEF FeatureInv

LEMMA DeleteFeatureStep ==
    ASSUME FeatureInv, scope \in FeatureScopes, scope' = scope, M!DeleteFeature
    PROVE  FeatureInv'
<1>1. PageHolds /\ BindingsHold /\ tx \in [Admins -> Save]
  BY DEF FeatureInv
<1>2. /\ config' = None /\ bindings' = {} /\ saved' = saved \cup {<<>>}
      /\ UNCHANGED <<feature, begun, joined>>
  BY DEF M!DeleteFeature
<1>3. Two' => Two
  BY <1>2 DEF Two
<1>4. ASSUME NEW a \in Admins
      PROVE  /\ tx'[a] \in Save /\ SaveHolds(a, tx[a])'
             /\ tx'[a].gone = {} /\ tx'[a].new = {} /\ (Over(tx[a]) => Over(tx'[a]))
  <2>1. PICK u \in Save : u = tx[a]
    BY <1>1
  <2>2. SaveHolds(a, u)
    BY <2>1 DEF FeatureInv
  <2>3. u.new = {} /\ u.gone = {} /\ ~M!Holds(a)
    BY <2>1 DEF M!DeleteFeature
  <2> DEFINE fails == u.at \notin {"idle", "done", "failed", "begun"} /\ u.found # None
  <2>4. tx'[a] = IF fails THEN M!Failed ELSE u
    BY <2>1 DEF M!DeleteFeature
  <2>5. CASE fails
    <3>1. PICK t \in Save : t = M!Failed
      BY IdleIsSave
    <3>2. /\ t.at = "failed" /\ t.seen = {} /\ t.gone = {} /\ t.known = {} /\ t.new = {} /\ Over(t)
      BY <3>1 DEF M!Failed, M!Idle, Over
    <3>3. a \in begun
      BY <2>2, <2>5 DEF SaveHolds
    <3>4. SaveHolds(a, t)'
      BY <1>2, <3>2, <3>3 DEF SaveHolds
    <3>5. tx'[a] = t
      BY <2>4, <2>5, <3>1
    <3>6. QED  BY <3>2, <3>4, <3>5
  <2>6. CASE ~fails
    <3>1. u.at \in {"idle", "begun", "found", "done", "failed"}
      <4> SUFFICES ASSUME u.at \notin {"idle", "begun", "found", "done", "failed"}  PROVE FALSE
        OBVIOUS
      <4>1. u.found = None
        BY <2>6
      <4>2. u.enabled # None
        BY FeatureLimits DEF Save
      <4>3. M!Locks(a)
        BY <2>1, <4>1, <4>2 DEF M!Locks
      <4>4. u.at # "deleting" => u.at \in {"stored", "deleted", "looked", "inserted"}
        BY DEF Save
      <4>5. M!Holds(a)
        BY <2>1, <4>3, <4>4 DEF M!Holds
      <4>6. QED  BY <2>3, <4>5
    <3>2. u.seen = {} /\ u.known = {}
      BY <2>2, <3>1 DEF SaveHolds
    <3>3. /\ u.at # "idle" => a \in begun
          /\ u.at = "done" => u.found \in Shown
          /\ joined /\ Two => Over(u)
      BY <2>2 DEF SaveHolds
    <3>4. ~(~Over(u) /\ u.at # "begun" /\ u.found # None)
      BY <2>6 DEF Over
    <3>5. SaveHolds(a, u)'
      BY <1>2, <1>3, <2>3, <3>1, <3>2, <3>3, <3>4 DEF SaveHolds
    <3>6. tx'[a] = u
      BY <2>4, <2>6
    <3>7. QED  BY <2>1, <2>3, <3>5, <3>6
  <2>7. QED  BY <2>5, <2>6
<1>5. tx' \in [Admins -> Save]
  <2>1. tx' = [a \in Admins |-> tx'[a]]
    BY DEF M!DeleteFeature
  <2>2. QED  BY <1>4, <2>1
<1>6. PageHolds'
  BY <1>1, <1>2, EmptyChain DEF PageHolds
<1>7. BindingsHold'
  <2>1. M!Rows(<<>>, None) = {} /\ Places(<<>>) = {}
    BY DEF M!Rows, Places
  <2>2. joined /\ Two => \E p, q \in begun : p # q
    BY <1>1 DEF BindingsHold
  <2>3. QED  BY <1>2, <1>3, <2>1, <2>2 DEF BindingsHold
<1>8. (\A a \in Admins : SaveHolds(a, tx[a]))'
  BY <1>4
<1>9. (\A a, b \in Admins : a # b => Apart(tx[a], tx[b]))'
  BY <1>4 DEF Apart
<1>10. QED  BY <1>5, <1>6, <1>7, <1>8, <1>9 DEF FeatureInv

LEMMA BeginStep ==
    ASSUME FeatureInv, scope \in FeatureScopes, scope' = scope,
           NEW a \in Admins, M!MayBegin(a),
           NEW f, f.enabled \in BOOLEAN, M!MaySave(f) => f.chain \in M!Chains, M!Begin(a, f),
           UNCHANGED <<config, bindings, saved, joined>>, feature' \in FeaturePage
    PROVE  FeatureInv'
<1>1. tx[a].at = "idle" /\ a \notin begun /\ begun' = begun \cup {a} /\ Over(tx[a])
  BY DEF M!MayBegin, Over
<1>2. PICK t \in Save :
         /\ tx' = [tx EXCEPT ![a] = t] /\ t.at \in {"begun", "failed"}
         /\ t.seen = {} /\ t.gone = {} /\ t.known = {} /\ t.new = {}
  <2>1. CASE M!MaySave(f)
    <3>1. PICK t : t = [M!Idle EXCEPT !.at = "begun", !.chain = f.chain, !.enabled = f.enabled]
      OBVIOUS
    <3>2. t \in Save /\ t.at = "begun"
      BY <2>1, <3>1, IdleIsSave DEF Save
    <3>3. t.seen = {} /\ t.gone = {} /\ t.known = {} /\ t.new = {}
      BY <3>1 DEF M!Idle
    <3>4. tx' = [tx EXCEPT ![a] = t]
      BY <2>1, <3>1 DEF M!Begin
    <3>5. QED  BY <3>2, <3>3, <3>4
  <2>2. CASE ~M!MaySave(f)
    <3>1. M!Failed \in Save
      BY IdleIsSave
    <3>2. tx' = [tx EXCEPT ![a] = M!Failed]
      BY <2>2 DEF M!Begin
    <3>3. /\ M!Failed.at = "failed" /\ M!Failed.seen = {} /\ M!Failed.gone = {}
          /\ M!Failed.known = {} /\ M!Failed.new = {}
      BY DEF M!Failed, M!Idle
    <3>4. QED  BY <3>1, <3>2, <3>3
  <2>3. QED  BY <2>1, <2>2
<1>3. joined /\ Two' => Over(t)
  <2> SUFFICES ASSUME joined, Two'  PROVE FALSE
    OBVIOUS
  <2>1. PICK p \in Admins, q \in Admins : begun' \subseteq {p, q}
    BY DEF Two
  <2>2. Two
    BY <1>1, <2>1 DEF Two
  <2>3. PICK x \in begun, y \in begun : x # y
    BY <2>2 DEF FeatureInv, BindingsHold
  <2>4. QED  BY <1>1, <2>1, <2>3
<1>4. t.at # "done" /\ (t.at = "begun" \/ Over(t)) /\ t.at # "idle"
  BY <1>2 DEF Over
<1>5. QED  BY <1>1, <1>2, <1>3, <1>4, QuietStep

\* A step of the page alone.
LEMMA PageStep ==
    ASSUME FeatureInv, scope \in FeatureScopes, scope' = scope,
           UNCHANGED <<config, bindings, tx, begun, saved, joined>>, feature' \in FeaturePage
    PROVE  FeatureInv'
<1>1. PICK t : t = tx[Editor]
  OBVIOUS
<1>2. Editor \in Admins /\ tx \in [Admins -> Save] /\ SaveHolds(Editor, t)
  BY <1>1, FeatureLimits DEF FeatureInv
<1>3. tx' = [tx EXCEPT ![Editor] = t]
  BY <1>1, <1>2
<1>4. Two' = Two
  BY DEF Two
<1>5. SaveHolds(Editor, t)'
  BY <1>2, <1>4 DEF SaveHolds
<1>6. \A b \in Admins \ {Editor} : Apart(t, tx[b])
  BY <1>1, <1>2 DEF FeatureInv
<1>7. Over(t) \/ ~Over(tx[Editor])
  BY <1>1
<1>8. QED  BY <1>2, <1>3, <1>5, <1>6, <1>7, StageKept

LEMMA SaveSteps ==
    ASSUME FeatureInv, scope \in FeatureScopes, scope' = scope,
           M!SaveEdit \/ (\E a \in M!Others(Editor) : M!Put(a)) \/ (\E a \in Admins : M!Answered(a))
    PROVE  FeatureInv'
<1>1. feature \in FeaturePage /\ Editor \in Admins
  BY FeatureLimits DEF FeatureInv, PageHolds, FeaturePage
<1>2. CASE M!SaveEdit
  <2>1. PICK f \in Shown : f = feature.editing
    BY <1>1, <1>2 DEF M!SaveEdit, FeaturePage
  <2>2. /\ M!MayBegin(Editor) /\ M!Begin(Editor, f)
        /\ UNCHANGED <<config, bindings, saved, joined>>
        /\ feature' = [feature EXCEPT !.saving = TRUE]
    BY <1>2, <2>1 DEF M!SaveEdit
  <2>3. feature' \in FeaturePage
    BY <1>1, <2>2 DEF FeaturePage
  <2>4. f.enabled \in BOOLEAN /\ (M!MaySave(f) => f.chain \in M!Chains)
    BY DEF Shown
  <2>5. M!MayBegin(Editor) /\ M!Begin(Editor, f) /\ UNCHANGED <<config, bindings, saved, joined>>
    BY <2>2
  <2>6. QED  BY <1>1, <2>3, <2>4, <2>5, BeginStep
<1>3. CASE \E a \in M!Others(Editor) : M!Put(a)
  <2>1. PICK a \in Admins : M!Put(a)
    BY <1>3 DEF M!Others
  <2>2. PICK f \in M!Forms : M!Begin(a, f)
    BY <2>1 DEF M!Put
  <2>3. M!MayBegin(a) /\ UNCHANGED <<config, bindings, saved, joined, feature>>
    BY <2>1 DEF M!Put
  <2>4. f.enabled \in BOOLEAN /\ (M!MaySave(f) => f.chain \in M!Chains)
    BY DEF M!Forms, M!MaySave, M!Chains
  <2>5. QED  BY <1>1, <2>2, <2>3, <2>4, BeginStep
<1>4. CASE \E a \in Admins : M!Answered(a)
  <2>1. PICK a \in Admins : M!Answered(a)
    BY <1>4
  <2>2. /\ tx[a].at \in {"done", "failed"} /\ tx' = [tx EXCEPT ![a] = M!Idle]
        /\ UNCHANGED <<config, bindings, begun, saved, joined>>
        /\ feature' \in IF a # Editor THEN {feature}
                        ELSE {[feature EXCEPT !.saving = FALSE]}
                             \cup IF tx[a].at = "failed" THEN {}
                                  ELSE {[known |-> tx[a].found, editing |-> None, saving |-> FALSE]}
    BY <2>1 DEF M!Answered
  <2>3. PICK found : found = tx[a].found
    OBVIOUS
  <2>4. feature' \in FeaturePage
    <3>1. tx[a].at = "done" => found \in Shown
      BY <2>3 DEF FeatureInv, SaveHolds
    <3>2. [feature EXCEPT !.saving = FALSE] \in FeaturePage
      BY <1>1 DEF FeaturePage
    <3>3. CASE a # Editor
      BY <1>1, <2>2, <3>3
    <3>4. CASE a = Editor /\ tx[a].at = "failed"
      BY <2>2, <3>2, <3>4
    <3>5. CASE a = Editor /\ tx[a].at # "failed"
      <4>1. found \in Shown
        BY <2>2, <3>1, <3>5
      <4>2. [known |-> found, editing |-> None, saving |-> FALSE] \in FeaturePage
        BY <4>1 DEF FeaturePage
      <4>3. feature' \in {[feature EXCEPT !.saving = FALSE],
                        [known |-> found, editing |-> None, saving |-> FALSE]}
        BY <2>2, <2>3, <3>5
      <4>4. QED  BY <3>2, <4>2, <4>3
    <3>6. QED  BY <3>3, <3>4, <3>5
  <2>5. PICK t \in Save : t = M!Idle
    BY IdleIsSave
  <2>6. /\ t.at = "idle" /\ t.seen = {} /\ t.gone = {} /\ t.known = {} /\ t.new = {} /\ Over(t)
    BY <2>5 DEF M!Idle, Over
  <2>7. tx' = [tx EXCEPT ![a] = t] /\ UNCHANGED <<config, bindings, begun, saved, joined>>
    BY <2>2, <2>5
  <2>8. QED  BY <2>4, <2>6, <2>7, QuietStep
<1>5. QED  BY <1>2, <1>3, <1>4

\* The page shows a chain, and what its drawer makes of one is a chain.
LEMMA ToggledIsChain ==
    ASSUME NEW c \in M!Chains, NEW m \in Bound
    PROVE  M!ToggleResourceUid(c, m) \in M!Chains
<1>1. c \in Seq(Bound) /\ DOMAIN c = 1..Len(c) /\ \A j, k \in DOMAIN c : c[j] = c[k] => j = k
  BY ChainFacts
<1>2. CASE m \in M!Range(c)
  <2> DEFINE rest == {x \in M!Range(c) : x # m}
             s == Only(c, rest)
  <2>1. s \in Seq(Bound) /\ \A j, k \in DOMAIN s : s[j] = s[k] => j = k
    <3> HIDE DEF rest
    <3>1. QED  BY <1>1, OnlyFacts
  <2>2. M!ToggleResourceUid(c, m) = s
    BY <1>2 DEF M!ToggleResourceUid, M!Select, M!Only, Only
  <2> HIDE DEF s
  <2>3. QED  BY <2>1, <2>2, ListIsChain
<1>3. CASE m \notin M!Range(c)
  <2>1. PICK s \in Seq(Bound) : s = Append(c, m)
    BY <1>1, AppendProperties
  <2>2. /\ DOMAIN s = 1..(Len(c) + 1) /\ Len(c) \in Nat
        /\ s[Len(c) + 1] = m /\ \A k \in DOMAIN c : s[k] = c[k]
    BY <1>1, <2>1, AppendProperties
  <2>3. \A k \in DOMAIN c : c[k] # m
    BY <1>3 DEF M!Range
  <2>4. \A k \in DOMAIN s : k \in DOMAIN c \/ k = Len(c) + 1
    BY <1>1, <2>2
  <2>5. \A j, k \in DOMAIN s : s[j] = s[k] => j = k
    BY <1>1, <2>2, <2>3, <2>4
  <2>6. s \in M!Chains
    BY <2>5, ListIsChain
  <2>7. QED  BY <1>3, <2>1, <2>6 DEF M!ToggleResourceUid
<1>4. QED  BY <1>2, <1>3

LEMMA MovedIsChain ==
    ASSUME NEW c \in M!Chains, NEW n \in 1..(Len(c) - 1)
    PROVE  M!MoveResourceUid(c, n) \in M!Chains
<1>1. /\ c \in Seq(Bound) /\ DOMAIN c = 1..Len(c) /\ Len(c) \in Nat
      /\ \A j, k \in DOMAIN c : c[j] = c[k] => j = k
  BY ChainFacts
<1>2. n \in DOMAIN c /\ n + 1 \in DOMAIN c /\ n # n + 1
  BY <1>1
<1> DEFINE s == M!MoveResourceUid(c, n)
<1>3. /\ s \in Seq(Bound) /\ DOMAIN s = DOMAIN c /\ s[n] = c[n + 1] /\ s[n + 1] = c[n]
      /\ \A k \in DOMAIN c : k # n /\ k # n + 1 => s[k] = c[k]
  BY <1>1, <1>2 DEF M!MoveResourceUid
<1> HIDE DEF s
<1>4. \A j, k \in DOMAIN s : s[j] = s[k] => j = k
  BY <1>1, <1>2, <1>3
<1>5. s \in M!Chains
  BY <1>3, <1>4, ListIsChain
<1>6. QED  BY <1>5 DEF s

LEMMA EditedIsShown ==
    ASSUME NEW f \in Shown, NEW g \in M!Edits(f)
    PROVE  g \in Shown
<1>1. PICK c \in M!Chains : c = f.chain
  BY DEF Shown
<1>2. ASSUME NEW d \in M!Chains  PROVE [f EXCEPT !.chain = d] \in Shown
  BY DEF Shown
<1>3. CASE g = [f EXCEPT !.enabled = ~f.enabled]
  BY <1>3 DEF Shown
<1>4. ASSUME NEW m \in M!Range(c) \cup Suitable, g = [f EXCEPT !.chain = M!ToggleResourceUid(c, m)]
      PROVE  g \in Shown
  <2>1. m \in Bound
    <3>1. c \in Seq(Bound)
      BY ChainFacts
    <3>2. QED  BY <3>1, FeatureLimits DEF M!Range
  <2>2. M!ToggleResourceUid(c, m) \in M!Chains
    BY <2>1, ToggledIsChain
  <2>3. QED  BY <1>2, <1>4, <2>2
<1>5. ASSUME NEW n \in 1..(Len(c) - 1), g = [f EXCEPT !.chain = M!MoveResourceUid(c, n)]
      PROVE  g \in Shown
  <2>1. M!MoveResourceUid(c, n) \in M!Chains
    BY MovedIsChain
  <2>2. QED  BY <1>2, <1>5, <2>1
<1>6. QED  BY <1>1, <1>3, <1>4, <1>5 DEF M!Edits

LEMMA PageSteps ==
    ASSUME FeatureInv, scope \in FeatureScopes, scope' = scope,
           M!Load \/ M!OpenEdit \/ M!CloseDrawer \/ M!Edit
    PROVE  FeatureInv'
<1>1. feature \in FeaturePage /\ PageHolds /\ BindingsHold
  BY DEF FeatureInv, PageHolds, FeaturePage
<1>2. UNCHANGED <<config, bindings, tx, begun, saved, joined>>
  BY DEF M!Load, M!OpenEdit, M!CloseDrawer, M!Edit, M!Show
<1>3. CASE M!Load
  <2>1. config # None => [enabled |-> config, chain |-> M!InOrder(bindings)] \in Shown
    BY <1>1, InOrderIsChain DEF PageHolds, BindingsHold, Shown
  <2>2. M!Stored \in Shown
    BY <1>3, <2>1 DEF M!Load, M!Stored
  <2>3. feature' = [feature EXCEPT !.known = M!Stored]
    BY <1>3 DEF M!Load, M!Show
  <2>4. feature' \in FeaturePage
    BY <1>1, <2>2, <2>3 DEF FeaturePage
  <2>5. QED  BY <1>2, <2>4, PageStep
<1>4. CASE M!OpenEdit
  <2>1. feature' \in FeaturePage
    BY <1>1, <1>4 DEF M!OpenEdit, M!Show, FeaturePage
  <2>2. QED  BY <1>2, <2>1, PageStep
<1>5. CASE M!CloseDrawer
  <2>1. feature' \in FeaturePage
    BY <1>1, <1>5 DEF M!CloseDrawer, M!Show, FeaturePage
  <2>2. QED  BY <1>2, <2>1, PageStep
<1>6. CASE M!Edit
  <2>1. PICK f \in Shown : f = feature.editing
    BY <1>1, <1>6 DEF M!Edit, FeaturePage
  <2>2. PICK g \in M!Edits(f) : feature' = [feature EXCEPT !.editing = g]
    BY <1>6, <2>1 DEF M!Edit, M!Show
  <2>3. g \in Shown
    BY EditedIsShown
  <2>4. feature' \in FeaturePage
    BY <1>1, <2>2, <2>3 DEF FeaturePage
  <2>5. QED  BY <1>2, <2>4, PageStep
<1>7. QED  BY <1>3, <1>4, <1>5, <1>6

LEMMA FeatureStep == FeatureInv /\ [Next]_vars => FeatureInv'
<1> SUFFICES ASSUME FeatureInv, [Next]_vars, scope \in FeatureScopes  PROVE FeatureInv'
  BY OneMoves DEF FeatureInv
<1>1. scope' = scope
  BY OneMoves
<1>2. CASE UNCHANGED featureVars
  <2>1. UNCHANGED <<config, bindings, tx, begun, saved, joined>> /\ feature' = feature
    BY <1>2 DEF featureVars
  <2>2. feature \in FeaturePage
    BY DEF FeatureInv, PageHolds, FeaturePage
  <2>3. feature' \in FeaturePage
    BY <2>1, <2>2
  <2>4. QED  BY <1>1, <2>1, <2>3, PageStep
<1>3. CASE M!Next
  <2>1. ASSUME NEW a \in Admins,
               M!FindConfig(a) \/ M!SaveConfig(a) \/ M!BeginDelete(a) \/ M!EndDelete(a)
               \/ M!LookUp(a) \/ M!InsertBindings(a) \/ M!Commit(a)
        PROVE  FeatureInv'
    BY <1>1, <2>1, FindStep, BeginDeleteStep, EndDeleteStep, LookUpStep, InsertStep, CommitStep
  <2>2. CASE M!SaveEdit \/ (\E a \in M!Others(Editor) : M!Put(a)) \/ (\E a \in Admins : M!Answered(a))
    BY <1>1, <2>2, SaveSteps
  <2>3. CASE M!Load \/ M!OpenEdit \/ M!CloseDrawer \/ M!Edit
    BY <1>1, <2>3, PageSteps
  <2>4. CASE M!DeleteFeature
    BY <1>1, <2>4, DeleteFeatureStep
  <2>5. QED  BY <1>3, <2>1, <2>2, <2>3, <2>4 DEF M!Next
<1>4. QED  BY <1>2, <1>3, OneMoves

LEMMA FeatureCorrect == Spec => []FeatureInv
BY FeatureInit, FeatureStep, PTL DEF Spec

\* The types of FeatureModels.
LEMMA FeatureTypes == FeatureInv /\ scope \in FeatureScopes => M!TypeOK
BY DEF FeatureInv, PageHolds, BindingsHold, FeaturePage, Binding, Save, M!TypeOK

\* A model that comes into use has a channel to be called through, whatever pages
\* were open and however they overlapped (enableModels, saveCatalog and the checks
\* of the import page); and the chain of a feature is the chain of one save, for
\* every number of models, of saves and of priorities, as long as two saves overlap
\* or none put its rows beside another's (FeatureConfigService.upsert and
\* resolveModelSelection).
THEOREM ModelsServeCorrect == Spec => []ModelsServe
<1>1. FeatureInv /\ scope \in FeatureScopes => M!ChainIsOfOneSave
  <2> SUFFICES ASSUME FeatureInv, scope \in FeatureScopes, ~joined \/ Two
               PROVE  M!ChainIsOfOneSave
    BY DEF M!ChainIsOfOneSave, Two
  <2>1. BindingsHold /\ PageHolds
    BY DEF FeatureInv
  <2>2. QED  BY <2>1, ChainServes
<1>2. OnboardingInv /\ FeatureInv => ModelsServe
  BY <1>1 DEF OnboardingInv, ModelsServe
<1>3. QED  BY <1>2, OnboardingCorrect, FeatureCorrect, PTL
============================================================================
