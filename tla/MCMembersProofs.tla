-------------------------- MODULE MCMembersProofs --------------------------
(***************************************************************************)
(* Proofs about the two components that MCMembers sets side by side, each  *)
(* from an inductive invariant of its own.                                 *)
(***************************************************************************)
EXTENDS MCMembers, FiniteSetTheorems, TLAPS

\* A step is a step of one component, and the other rests.
LEMMA OneMoves ==
    ASSUME [Next]_vars
    PROVE  UNCHANGED scope /\ [I!Next]_identityVars /\ [A!Next]_adminVars
BY DEF Next, vars

(***************************************************************************)
(* Identity.                                                               *)
(***************************************************************************)
\* What a request has read by the statement it is at: an account that gives
\* methods away kept one, and two accounts that are merged are two.
RequestSound(r) ==
    /\ r.at \in {"insert", "create"} => r.id \in Identities
    /\ r.at \in {"insert", "delete", "steal", "merge", "keep"} => r.by \in Users
    /\ r.at = "delete" => r.from = r.by /\ r.id \in r.seen /\ r.seen \ {r.id} # {}
    /\ r.at = "steal" => r.from # r.by /\ r.moved \subseteq r.seen /\ r.seen \ r.moved # {}
    /\ r.at \in {"steal", "merge", "keep"} => r.from \in Users /\ r.from # r.by

IdentityInv == I!TypeOK /\ \A x \in Requests : RequestSound(req[x])

LEMMA SomeMethod ==
    ASSUME NEW S \in SUBSET Identities, I!LoginMethodCount(S) >= 1
    PROVE  S # {}
<1> SUFFICES ASSUME S = {}  PROVE FALSE
  OBVIOUS
<1>1. {Group[i] : i \in S} = {}
  OBVIOUS
<1>2. I!Cardinality({}) = Cardinality({})
  BY DEF I!Cardinality, Cardinality
<1>3. QED  BY <1>1, <1>2, FS_EmptySet DEF I!LoginMethodCount

LEMMA IdleRequest == I!Idle \in I!ReqType /\ RequestSound(I!Idle) /\ I!Idle.at = "idle"
BY DEF I!Idle, I!ReqType, RequestSound

LEMMA IdentityInit == Init => IdentityInv
<1> SUFFICES ASSUME Init  PROVE IdentityInv
  OBVIOUS
<1>1. I!NewAccount \in I!AccountType /\ I!NoAccount \in I!AccountType
  BY DEF I!NewAccount, I!NoAccount, I!AccountType
<1>2. CASE I!Init
  BY <1>1, <1>2, IdleRequest DEF I!Init, I!TypeOK, IdentityInv
<1>3. CASE IdentityRests
  BY <1>1, <1>3, IdleRequest DEF IdentityRests, I!TypeOK, IdentityInv
<1>4. QED  BY <1>2, <1>3 DEF Init

\* A request goes to r.
LEMMA RequestGoes ==
    ASSUME IdentityInv, NEW x \in Requests, NEW r \in I!ReqType, RequestSound(r), I!Continue(x, r),
           holder' \in [Identities -> Users \cup {None}], account' \in [Users -> I!AccountType]
    PROVE  IdentityInv'
<1>1. req' \in [Requests -> I!ReqType] /\ req' = [req EXCEPT ![x] = r]
  BY DEF I!Continue, IdentityInv, I!TypeOK
<1>2. \A y \in Requests : RequestSound(req'[y])
  BY <1>1 DEF IdentityInv, I!TypeOK
<1>3. QED  BY <1>1, <1>2 DEF IdentityInv, I!TypeOK

\* The checks, which read and decide.
LEMMA RequestChecks ==
    ASSUME IdentityInv, NEW x \in Requests,
           \/ \E u \in Users, i \in Identities :
                 \/ I!BindFind(x, u, i) \/ I!UnbindFind(x, u, i)
                 \/ I!ForceBindCheck(x, u, i) \/ I!FullMergeCheck(x, u, i)
           \/ \E i, k \in Identities : I!SilentMergeCheck(x, i, k)
           \/ I!SilentMergeOther(x)
           \/ \E i \in Identities : I!LoginFind(x, i)
    PROVE  IdentityInv' /\ UNCHANGED <<holder, account>>
<1>1. /\ holder \in [Identities -> Users \cup {None}] /\ account \in [Users -> I!AccountType]
      /\ req \in [Requests -> I!ReqType] /\ RequestSound(req[x])
  BY DEF IdentityInv, I!TypeOK
<1>2. ASSUME NEW r \in I!ReqType, RequestSound(r), I!Continue(x, r), UNCHANGED <<holder, account>>
      PROVE  IdentityInv' /\ UNCHANGED <<holder, account>>
  BY <1>1, <1>2, RequestGoes
<1>3. ASSUME NEW u \in Users, NEW i \in Identities, I!BindFind(x, u, i)
      PROVE  IdentityInv' /\ UNCHANGED <<holder, account>>
  <2>1. PICK r : r = [I!Idle EXCEPT !.at = "insert", !.by = u, !.id = i]
    OBVIOUS
  <2>2. r \in I!ReqType /\ RequestSound(r) /\ I!Continue(x, r)
    BY <1>3, <2>1 DEF I!BindFind, I!Idle, I!ReqType, RequestSound
  <2>3. QED  BY <1>2, <1>3, <2>2 DEF I!BindFind
<1>4. ASSUME NEW u \in Users, NEW i \in Identities, I!UnbindFind(x, u, i)
      PROVE  IdentityInv' /\ UNCHANGED <<holder, account>>
  <2>1. PICK r : r = [I!Idle EXCEPT !.at = "delete", !.by = u, !.from = u, !.id = i,
                                    !.seen = I!Held(u), !.moved = {i}]
    OBVIOUS
  <2>2. /\ r.at = "delete" /\ r.by = u /\ r.from = u /\ r.id = i /\ r.seen = I!Held(u)
        /\ r \in I!ReqType /\ I!Continue(x, r)
    BY <1>4, <2>1 DEF I!UnbindFind, I!Idle, I!ReqType, I!Held
  <2>3. i \in I!Held(u) /\ I!Held(u) \ {i} # {}
    BY <1>4, SomeMethod DEF I!UnbindFind, I!Held
  <2>4. RequestSound(r)
    BY <2>2, <2>3 DEF RequestSound
  <2>5. QED  BY <1>2, <1>4, <2>2, <2>4 DEF I!UnbindFind
<1>5. ASSUME NEW u \in Users, NEW i \in Identities, I!ForceBindCheck(x, u, i)
      PROVE  IdentityInv' /\ UNCHANGED <<holder, account>>
  <2> DEFINE S == I!Held(holder[i])
             T == I!MovedWith(i, S)
  <2>1. holder[i] \in Users /\ holder[i] # u
    BY <1>1, <1>5 DEF I!ForceBindCheck
  <2>2. i \in S /\ S \in SUBSET Identities
    BY DEF I!Held
  <2>3. T \subseteq S
    BY <2>2 DEF I!MovedWith
  <2>4. S \ T # {}
    BY <1>5, <2>2, SomeMethod DEF I!ForceBindCheck, I!KeepsLogin
  <2>5. I!Continue(x, [I!Idle EXCEPT !.at = "steal", !.by = u, !.from = holder[i], !.id = i,
                                     !.seen = S, !.moved = T])
    BY <1>5 DEF I!ForceBindCheck
  <2> HIDE DEF S, T
  <2>6. PICK r : r = [I!Idle EXCEPT !.at = "steal", !.by = u, !.from = holder[i], !.id = i,
                                    !.seen = S, !.moved = T]
    OBVIOUS
  <2>7. /\ r.at = "steal" /\ r.by = u /\ r.from = holder[i] /\ r.seen = S /\ r.moved = T
        /\ r \in I!ReqType /\ I!Continue(x, r)
    BY <2>1, <2>2, <2>3, <2>5, <2>6 DEF I!Idle, I!ReqType
  <2>8. RequestSound(r)
    BY <2>1, <2>3, <2>4, <2>7 DEF RequestSound
  <2>9. QED  BY <1>2, <1>5, <2>7, <2>8 DEF I!ForceBindCheck
<1>6. ASSUME NEW u \in Users, NEW i \in Identities, I!FullMergeCheck(x, u, i)
      PROVE  IdentityInv' /\ UNCHANGED <<holder, account>>
  <2>1. holder[i] \in Users /\ holder[i] # u
    BY <1>1, <1>6 DEF I!FullMergeCheck
  <2>2. PICK r : r = [I!Idle EXCEPT !.at = "merge", !.by = u, !.from = holder[i]]
    OBVIOUS
  <2>3. r \in I!ReqType /\ RequestSound(r) /\ I!Continue(x, r)
    BY <1>6, <2>1, <2>2 DEF I!FullMergeCheck, I!Idle, I!ReqType, RequestSound
  <2>4. QED  BY <1>2, <1>6, <2>3 DEF I!FullMergeCheck
<1>7. ASSUME NEW i \in Identities, NEW k \in Identities, I!SilentMergeCheck(x, i, k)
      PROVE  IdentityInv' /\ UNCHANGED <<holder, account>>
  <2>1. holder[i] \in Users /\ holder[k] \in Users /\ holder[i] # holder[k]
    BY <1>1, <1>7 DEF I!SilentMergeCheck
  <2>2. PICK r : r = IF account[holder[i]].content
                     THEN [I!Idle EXCEPT !.at = "keep", !.by = holder[i], !.from = holder[k]]
                     ELSE [I!Idle EXCEPT !.at = "merge", !.by = holder[k], !.from = holder[i]]
    OBVIOUS
  <2>3. r \in I!ReqType /\ RequestSound(r)
    BY <2>1, <2>2 DEF I!Idle, I!ReqType, RequestSound
  <2>4. I!Continue(x, r)
    BY <1>7, <2>2 DEF I!SilentMergeCheck
  <2>5. QED  BY <1>2, <1>7, <2>3, <2>4 DEF I!SilentMergeCheck
<1>8. CASE I!SilentMergeOther(x)
  <2>1. CASE I!End(x)
    BY <1>2, <1>8, <2>1, IdleRequest DEF I!SilentMergeOther, I!End
  <2>2. CASE I!Continue(x, [req[x] EXCEPT !.at = "merge"])
    <3>1. PICK r : r = [req[x] EXCEPT !.at = "merge"]
      OBVIOUS
    <3>2. req[x] \in I!ReqType /\ req[x].at = "keep"
      BY <1>1, <1>8 DEF I!SilentMergeOther, I!At
    <3>3. r \in I!ReqType /\ RequestSound(r)
      BY <1>1, <3>1, <3>2 DEF I!ReqType, RequestSound
    <3>4. QED  BY <1>2, <1>8, <2>2, <3>1, <3>3 DEF I!SilentMergeOther
  <2>3. QED  BY <1>8, <2>1, <2>2 DEF I!SilentMergeOther
<1>9. ASSUME NEW i \in Identities, I!LoginFind(x, i)
      PROVE  IdentityInv' /\ UNCHANGED <<holder, account>>
  <2>1. PICK u \in Users \cup {None} : I!Continue(x, [I!Idle EXCEPT !.at = "create", !.by = u, !.id = i])
    BY <1>9 DEF I!LoginFind
  <2>2. PICK r : r = [I!Idle EXCEPT !.at = "create", !.by = u, !.id = i]
    OBVIOUS
  <2>3. r \in I!ReqType /\ RequestSound(r) /\ I!Continue(x, r)
    BY <2>1, <2>2 DEF I!Idle, I!ReqType, RequestSound
  <2>4. QED  BY <1>2, <1>9, <2>3 DEF I!LoginFind
<1>10. QED  BY <1>3, <1>4, <1>5, <1>6, <1>7, <1>8, <1>9

\* The statements that write.
IdentityWrite(x) ==
    \/ I!BindInsert(x) \/ I!UnbindDelete(x) \/ I!ForceBind(x) \/ I!DoMerge(x) \/ I!LoginCreate(x)

LEMMA IdentityWrites ==
    ASSUME IdentityInv, NEW x \in Requests, IdentityWrite(x)
    PROVE  IdentityInv' /\ req'[x] = I!Idle
<1> DEFINE r == req[x]
<1>1. /\ holder \in [Identities -> Users \cup {None}] /\ account \in [Users -> I!AccountType]
      /\ req \in [Requests -> I!ReqType] /\ r \in I!ReqType /\ RequestSound(r)
  BY DEF IdentityInv, I!TypeOK
<1>2. I!Continue(x, I!Idle)
  BY DEF IdentityWrite, I!BindInsert, I!UnbindDelete, I!ForceBind, I!DoMerge, I!LoginCreate, I!End
<1>3. holder' \in [Identities -> Users \cup {None}] /\ account' \in [Users -> I!AccountType]
  <2>1. CASE I!BindInsert(x)
    BY <1>1, <2>1 DEF I!BindInsert, I!At, RequestSound
  <2>2. CASE I!UnbindDelete(x)
    BY <1>1, <2>2 DEF I!UnbindDelete
  <2>3. CASE I!ForceBind(x)
    BY <1>1, <2>3 DEF I!ForceBind, I!At, RequestSound
  <2>4. CASE I!DoMerge(x)
    <3>1. r.by \in Users /\ r.from \in Users
      BY <1>1, <2>4 DEF I!DoMerge, I!At, RequestSound
    <3>2. holder' \in [Identities -> Users \cup {None}]
      BY <1>1, <2>4, <3>1 DEF I!DoMerge, I!MovedIdentities
    <3>3. PICK n : n = [account[r.from] EXCEPT !.status = "merged", !.into = r.by]
      OBVIOUS
    <3>4. n \in I!AccountType
      BY <1>1, <3>1, <3>3 DEF I!AccountType
    <3>5. account' = [account EXCEPT ![r.from] = n]
      BY <1>1, <2>4, <3>1, <3>3 DEF I!DoMerge, I!AccountType
    <3>6. QED  BY <1>1, <3>2, <3>4, <3>5
  <2>5. CASE I!LoginCreate(x)
    <3>1. r.id \in Identities /\ r.by \in Users \cup {None}
      BY <1>1, <2>5 DEF I!LoginCreate, I!At, RequestSound, I!ReqType
    <3>2. I!NewAccount \in I!AccountType
      BY DEF I!NewAccount, I!AccountType
    <3>3. QED  BY <1>1, <2>5, <3>1, <3>2 DEF I!LoginCreate
  <2>6. QED  BY <2>1, <2>2, <2>3, <2>4, <2>5 DEF IdentityWrite
<1>4. IdentityInv'
  BY <1>2, <1>3, IdleRequest, RequestGoes
<1>5. QED  BY <1>1, <1>2, <1>4 DEF I!Continue

LEMMA ContentCreated ==
    ASSUME IdentityInv, NEW u \in Users, I!CreateContent(u)
    PROVE  IdentityInv'
<1>1. account \in [Users -> I!AccountType]
  BY DEF IdentityInv, I!TypeOK
<1>2. PICK n : n = [account[u] EXCEPT !.content = TRUE]
  OBVIOUS
<1>3. n \in I!AccountType /\ account' = [account EXCEPT ![u] = n]
  BY <1>1, <1>2 DEF I!CreateContent, I!AccountType
<1>4. QED  BY <1>1, <1>3 DEF IdentityInv, I!TypeOK, I!CreateContent

LEMMA IdentityStep ==
    ASSUME IdentityInv, [Next]_vars
    PROVE  IdentityInv'
<1>1. CASE UNCHANGED identityVars
  BY <1>1 DEF IdentityInv, I!TypeOK, identityVars
<1>2. CASE \E x \in Requests : IdentityWrite(x)
  BY <1>2, IdentityWrites
<1>3. CASE \E u \in Users : I!CreateContent(u)
  BY <1>3, ContentCreated
<1>4. CASE I!Next /\ ~(\E x \in Requests : IdentityWrite(x)) /\ ~(\E u \in Users : I!CreateContent(u))
  BY <1>4, RequestChecks DEF I!Next, IdentityWrite
<1>5. QED  BY <1>1, <1>2, <1>3, <1>4, OneMoves

\* What a request does has the types of the tables, and a request that takes
\* methods from an account has read that the account keeps one.
THEOREM IdentityCorrect == Spec => []IdentityInv
<1>1. IdentityInv /\ [Next]_vars => IdentityInv'
  BY IdentityStep
<1>2. QED  BY IdentityInit, <1>1, PTL DEF Spec

\* Reachable of given tables.
HeldIn(h, u) == {i \in Identities : h[i] = u}
ActiveIn(ac) == {u \in Users : ac[u].status = "active"}
StrandedIn(ac, u) ==
    \E S \in SUBSET (Users \ ActiveIn(ac)) :
        u \in S /\ \A v \in S : ac[v].status = "merged" => ac[v].into \in S
Fine(h, ac, u) ==
    /\ ac[u].status = "active" => HeldIn(h, u) # {}
    /\ ac[u].status = "merged" =>
        ~StrandedIn(ac, u) /\ HeldIn(h, u) = {} /\ ~ac[u].content

LEMMA FineIsReachable ==
    ASSUME NEW u \in Users
    PROVE  /\ I!Reachable(u) <=> Fine(holder, account, u)
           /\ I!Reachable(u)' <=> Fine(holder', account', u)
<1>1. I!Reachable(u) <=> Fine(holder, account, u)
  BY DEF I!Reachable, I!Held, I!Stranded, I!Active, Fine, HeldIn, StrandedIn, ActiveIn
<1>2. I!Reachable(u)' <=> Fine(holder', account', u)
  BY DEF I!Reachable, I!Held, I!Stranded, I!Active, Fine, HeldIn, StrandedIn, ActiveIn
<1>3. QED  BY <1>1, <1>2

\* When no account changes, it is enough that the active ones keep a method and
\* the others get none.
LEMMA MethodsMove ==
    ASSUME \A u \in Users : Fine(holder, account, u), account' = account,
           \A u \in ActiveIn(account) : HeldIn(holder', u) # {},
           \A u \in Users \ ActiveIn(account) : HeldIn(holder', u) \subseteq HeldIn(holder, u)
    PROVE  \A u \in Users : Fine(holder', account', u)
<1> SUFFICES ASSUME NEW u \in Users  PROVE Fine(holder', account', u)
  OBVIOUS
<1>1. CASE u \in ActiveIn(account)
  BY <1>1 DEF Fine, ActiveIn
<1>2. CASE u \notin ActiveIn(account)
  <2>1. HeldIn(holder', u) \subseteq HeldIn(holder, u)
    BY <1>2
  <2>2. Fine(holder, account, u)
    OBVIOUS
  <2> HIDE DEF HeldIn, StrandedIn
  <2>3. QED  BY <1>2, <2>1, <2>2 DEF Fine, ActiveIn
<1>3. QED  BY <1>1, <1>2

\* The writes of a request that was not overtaken.
LEMMA TimelyMethods ==
    ASSUME IdentityInv, NEW x \in Requests, ~I!Overtaken(x),
           \A u \in Users : Fine(holder, account, u),
           I!BindInsert(x) \/ I!UnbindDelete(x) \/ I!ForceBind(x)
    PROVE  \A u \in Users : Fine(holder', account', u)
<1> DEFINE r == req[x]
<1>1. /\ holder \in [Identities -> Users \cup {None}]
      /\ r \in I!ReqType /\ RequestSound(r)
  BY DEF IdentityInv, I!TypeOK
<1>2. \A u \in ActiveIn(account) : u \in Users /\ HeldIn(holder, u) # {}
  BY DEF Fine, ActiveIn
<1>3. I!Active = ActiveIn(account) /\ \A u : I!Held(u) = HeldIn(holder, u)
  BY DEF I!Active, ActiveIn, I!Held, HeldIn
<1>4. CASE I!BindInsert(x)
  <2>1. r.by \in ActiveIn(account) /\ r.id \in Identities
    BY <1>1, <1>3, <1>4, NoneIsNoUser DEF I!BindInsert, I!At, I!Overtaken, RequestSound
  <2>2. holder' = [holder EXCEPT ![r.id] = IF @ = None THEN r.by ELSE @]
    BY <1>4 DEF I!BindInsert
  <2>3. ASSUME NEW u \in Users
        PROVE  /\ HeldIn(holder, u) \subseteq HeldIn(holder', u)
               /\ u # r.by => HeldIn(holder', u) \subseteq HeldIn(holder, u)
    BY <1>1, <2>1, <2>2, NoneIsNoUser DEF HeldIn
  <2>4. account' = account
    BY <1>4 DEF I!BindInsert
  <2>5. \A u \in ActiveIn(account) : HeldIn(holder', u) # {}
    BY <1>2, <2>3
  <2>6. \A u \in Users \ ActiveIn(account) : HeldIn(holder', u) \subseteq HeldIn(holder, u)
    BY <2>1, <2>3
  <2>7. QED  BY <2>4, <2>5, <2>6, MethodsMove
<1>5. CASE I!UnbindDelete(x)
  <2>1. HeldIn(holder, r.from) = r.seen /\ r.id \in r.seen /\ r.seen \ {r.id} # {} /\ r.from \in Users
    BY <1>1, <1>3, <1>5 DEF I!UnbindDelete, I!At, I!Overtaken, RequestSound
  <2>2. holder' = [holder EXCEPT ![r.id] = None] /\ account' = account
    BY <1>5 DEF I!UnbindDelete
  <2>3. r.id \in Identities /\ holder[r.id] = r.from
    BY <2>1 DEF HeldIn
  <2>4. ASSUME NEW u \in Users
        PROVE  HeldIn(holder', u) = HeldIn(holder, u) \ {r.id}
    BY <1>1, <2>2, <2>3, NoneIsNoUser DEF HeldIn
  <2>5. ASSUME NEW u \in ActiveIn(account)  PROVE HeldIn(holder', u) # {}
    <3>1. CASE u = r.from
      BY <1>2, <2>1, <2>4, <3>1
    <3>2. CASE u # r.from
      <4>1. r.id \notin HeldIn(holder, u)
        BY <2>3, <3>2 DEF HeldIn
      <4>2. QED  BY <1>2, <2>4, <4>1
    <3>3. QED  BY <3>1, <3>2
  <2>6. \A u \in Users \ ActiveIn(account) : HeldIn(holder', u) \subseteq HeldIn(holder, u)
    BY <2>4
  <2>7. QED  BY <2>2, <2>5, <2>6, MethodsMove
<1>6. CASE I!ForceBind(x)
  <2>1. /\ HeldIn(holder, r.from) = r.seen /\ r.from \in Users /\ r.from # r.by
        /\ r.moved \subseteq r.seen /\ r.seen \ r.moved # {}
    BY <1>1, <1>3, <1>6 DEF I!ForceBind, I!At, I!Overtaken, RequestSound
  <2>2. r.by \in ActiveIn(account)
    BY <1>1, <1>3, <1>6 DEF I!ForceBind, I!At, I!Overtaken, RequestSound
  <2>3. /\ holder' = [i \in Identities |->
                        IF i \in r.moved /\ holder[i] # None THEN r.by ELSE holder[i]]
        /\ account' = account
    BY <1>6 DEF I!ForceBind
  <2>4. \A i \in r.moved : holder[i] = r.from
    BY <2>1 DEF HeldIn
  <2>5. ASSUME NEW u \in Users, u # r.from  PROVE HeldIn(holder, u) \subseteq HeldIn(holder', u)
    BY <2>3, <2>4, <2>5 DEF HeldIn
  <2>6. r.seen \ r.moved \subseteq HeldIn(holder', r.from)
    BY <2>1, <2>3 DEF HeldIn
  <2>7. ASSUME NEW u \in Users, u # r.by  PROVE HeldIn(holder', u) \subseteq HeldIn(holder, u)
    BY <2>3, <2>7 DEF HeldIn
  <2>8. ASSUME NEW u \in ActiveIn(account)  PROVE HeldIn(holder', u) # {}
    BY <1>2, <2>1, <2>5, <2>6
  <2>9. \A u \in Users \ ActiveIn(account) : HeldIn(holder', u) \subseteq HeldIn(holder, u)
    BY <2>2, <2>7
  <2>10. QED  BY <2>3, <2>8, <2>9, MethodsMove
<1>7. QED  BY <1>4, <1>5, <1>6

\* An absorbed account leads on to its absorber, which is active.
LEMMA TimelyMerge ==
    ASSUME IdentityInv, NEW x \in Requests, ~I!Overtaken(x),
           \A u \in Users : Fine(holder, account, u), I!DoMerge(x)
    PROVE  \A u \in Users : Fine(holder', account', u)
<1> DEFINE by == req[x].by
           from == req[x].from
<1>1. /\ holder \in [Identities -> Users \cup {None}] /\ account \in [Users -> I!AccountType]
      /\ by \in Users /\ from \in Users /\ by # from
  BY DEF IdentityInv, I!TypeOK, RequestSound, I!DoMerge, I!At
<1>2. by \in ActiveIn(account) /\ from \in ActiveIn(account) /\ ~account[from].content
  BY DEF I!DoMerge, I!At, I!Overtaken, I!Active, ActiveIn
<1>3. PICK n : n = [account[from] EXCEPT !.status = "merged", !.into = by]
  OBVIOUS
<1>4. n.status = "merged" /\ n.into = by /\ n.content = account[from].content
  BY <1>1, <1>3 DEF I!AccountType
<1>5. account' = [account EXCEPT ![from] = n]
  BY <1>1, <1>3 DEF I!DoMerge, I!AccountType
<1>6. holder' = [i \in Identities |-> IF holder[i] = from THEN by ELSE holder[i]]
  BY DEF I!DoMerge, I!MovedIdentities
<1>7. /\ account'[from] = n
      /\ \A u \in Users : u # from => account'[u] = account[u]
  BY <1>1, <1>5
<1>8. ActiveIn(account') = ActiveIn(account) \ {from}
  BY <1>4, <1>7 DEF ActiveIn
<1>9. HeldIn(holder', from) = {}
  BY <1>1, <1>6 DEF HeldIn
<1>10. ASSUME NEW u \in Users, u # from  PROVE HeldIn(holder, u) \subseteq HeldIn(holder', u)
  BY <1>6, <1>10 DEF HeldIn
<1>11. ASSUME NEW u \in Users, u # by  PROVE HeldIn(holder', u) \subseteq HeldIn(holder, u)
  BY <1>6, <1>11 DEF HeldIn
<1>12. ASSUME NEW u \in Users, StrandedIn(account', u)
       PROVE  StrandedIn(account, u) /\ u # from
  <2>1. PICK S \in SUBSET (Users \ ActiveIn(account')) :
            u \in S /\ \A v \in S : account'[v].status = "merged" => account'[v].into \in S
    BY <1>12 DEF StrandedIn
  <2>2. by \notin S
    BY <1>1, <1>2, <1>8, <2>1
  <2>3. from \notin S
    BY <1>4, <1>7, <2>1, <2>2
  <2>4. S \in SUBSET (Users \ ActiveIn(account))
    BY <1>8, <2>1, <2>3
  <2>5. \A v \in S : account'[v] = account[v]
    BY <1>7, <2>3, <2>4
  <2>6. QED  BY <2>1, <2>3, <2>4, <2>5 DEF StrandedIn
<1>13. ASSUME NEW u \in Users  PROVE Fine(holder', account', u)
  <2>1. CASE u = from
    BY <1>2, <1>4, <1>7, <1>9, <1>12, <2>1 DEF Fine
  <2>2. CASE u # from
    <3>1. account'[u] = account[u] /\ Fine(holder, account, u)
      BY <1>7, <2>2
    <3>2. account[u].status = "active" => HeldIn(holder', u) # {}
      BY <1>10, <2>2, <3>1 DEF Fine
    <3>3. account[u].status = "merged" => u # by
      BY <1>2 DEF ActiveIn
    <3>4. account[u].status = "merged" => HeldIn(holder', u) = {}
      BY <1>11, <3>1, <3>3 DEF Fine
    <3>5. account[u].status = "merged" => ~StrandedIn(account', u)
      BY <1>12, <3>1 DEF Fine
    <3>6. account[u].status = "merged" => ~account[u].content
      BY <3>1 DEF Fine
    <3>7. QED  BY <3>1, <3>2, <3>4, <3>5, <3>6 DEF Fine
  <2>3. QED  BY <2>1, <2>2
<1>14. QED  BY <1>13

\* A login gives the identity to an active account, or to a new one.
LEMMA TimelyLogin ==
    ASSUME IdentityInv, NEW x \in Requests, ~I!Overtaken(x),
           \A u \in Users : Fine(holder, account, u), I!LoginCreate(x)
    PROVE  \A u \in Users : Fine(holder', account', u)
<1> DEFINE r == req[x]
<1>1. /\ holder \in [Identities -> Users \cup {None}] /\ account \in [Users -> I!AccountType]
      /\ r.id \in Identities /\ r.at = "create"
  BY DEF IdentityInv, I!TypeOK, RequestSound, I!LoginCreate, I!At
<1>2. r.by = None \/ r.by \in ActiveIn(account)
  BY <1>1 DEF I!Overtaken, I!Active, ActiveIn
<1>3. \A u \in ActiveIn(account) : u \in Users /\ HeldIn(holder, u) # {}
  BY DEF Fine, ActiveIn
<1>4. CASE UNCHANGED <<holder, account>>
  BY <1>4
<1>5. ASSUME holder[r.id] = None, NEW u \in Users, holder' = [holder EXCEPT ![r.id] = u],
             NEW v \in Users
      PROVE  /\ HeldIn(holder, v) \subseteq HeldIn(holder', v)
             /\ v # u => HeldIn(holder', v) \subseteq HeldIn(holder, v)
             /\ r.id \in HeldIn(holder', u)
  BY <1>1, <1>5, NoneIsNoUser DEF HeldIn
<1>6. CASE holder[r.id] = None /\ r.by # None
  <2>1. /\ holder' = [holder EXCEPT ![r.id] = r.by] /\ account' = account
        /\ r.by \in ActiveIn(account) /\ r.by \in Users
    BY <1>2, <1>6 DEF I!LoginCreate, ActiveIn
  <2>2. \A v \in ActiveIn(account) : HeldIn(holder', v) # {}
    BY <1>3, <1>5, <1>6, <2>1
  <2>3. \A v \in Users \ ActiveIn(account) : HeldIn(holder', v) \subseteq HeldIn(holder, v)
    BY <1>5, <1>6, <2>1
  <2>4. QED  BY <2>1, <2>2, <2>3, MethodsMove
<1>7. CASE holder[r.id] = None /\ r.by = None
  <2>1. PICK u \in Users : /\ account[u].status = "none"
                           /\ account' = [account EXCEPT ![u] = I!NewAccount]
                           /\ holder' = [holder EXCEPT ![r.id] = u]
    BY <1>7 DEF I!LoginCreate
  <2>2. account'[u].status = "active" /\ \A v \in Users : v # u => account'[v] = account[v]
    BY <1>1, <2>1 DEF I!NewAccount
  <2>3. ActiveIn(account') = ActiveIn(account) \cup {u}
    BY <2>2 DEF ActiveIn
  <2>4. ASSUME NEW v \in Users, StrandedIn(account', v)  PROVE StrandedIn(account, v)
    <3>1. PICK S \in SUBSET (Users \ ActiveIn(account')) :
              v \in S /\ \A w \in S : account'[w].status = "merged" => account'[w].into \in S
      BY <2>4 DEF StrandedIn
    <3>2. S \in SUBSET (Users \ ActiveIn(account)) /\ u \notin S
      BY <2>3, <3>1
    <3>3. \A w \in S : account'[w] = account[w]
      BY <2>2, <3>2
    <3>4. QED  BY <3>1, <3>2, <3>3 DEF StrandedIn
  <2>5. ASSUME NEW v \in Users  PROVE Fine(holder', account', v)
    <3>1. CASE v = u
      BY <1>5, <1>7, <2>1, <2>2, <3>1 DEF Fine
    <3>2. CASE v # u
      <4>1. account'[v] = account[v] /\ Fine(holder, account, v)
        BY <2>2, <3>2
      <4>2. HeldIn(holder', v) = HeldIn(holder, v)
        BY <1>5, <1>7, <2>1, <3>2
      <4>3. StrandedIn(account', v) => StrandedIn(account, v)
        BY <2>4
      <4>4. QED  BY <4>1, <4>2, <4>3 DEF Fine
    <3>3. QED  BY <3>1, <3>2
  <2>6. QED  BY <2>5
<1>8. QED  BY <1>4, <1>6, <1>7 DEF I!LoginCreate

LEMMA ContentKeepsReach ==
    ASSUME IdentityInv, NEW u \in Users, I!CreateContent(u),
           \A v \in Users : Fine(holder, account, v)
    PROVE  \A v \in Users : Fine(holder', account', v)
<1>1. account \in [Users -> I!AccountType] /\ account[u].status = "active" /\ holder' = holder
  BY DEF IdentityInv, I!TypeOK, I!CreateContent, I!Active
<1>2. PICK n : n = [account[u] EXCEPT !.content = TRUE]
  OBVIOUS
<1>3. n.status = "active" /\ account' = [account EXCEPT ![u] = n]
  BY <1>1, <1>2 DEF I!CreateContent, I!AccountType
<1>4. account'[u].status = "active" /\ \A v \in Users : v # u => account'[v] = account[v]
  BY <1>1, <1>3
<1>5. ActiveIn(account') = ActiveIn(account) /\ u \in ActiveIn(account)
  BY <1>1, <1>4 DEF ActiveIn
<1>6. ASSUME NEW v \in Users, StrandedIn(account', v)  PROVE StrandedIn(account, v)
  <2>1. PICK S \in SUBSET (Users \ ActiveIn(account')) :
            v \in S /\ \A w \in S : account'[w].status = "merged" => account'[w].into \in S
    BY <1>6 DEF StrandedIn
  <2>2. \A w \in S : account'[w] = account[w]
    BY <1>4, <1>5, <2>1
  <2>3. QED  BY <1>5, <2>1, <2>2 DEF StrandedIn
<1>7. ASSUME NEW v \in Users  PROVE Fine(holder', account', v)
  <2>1. Fine(holder, account, v)
    OBVIOUS
  <2>2. CASE v = u
    BY <1>1, <1>4, <2>1, <2>2 DEF Fine
  <2>3. CASE v # u
    BY <1>1, <1>4, <1>6, <2>1, <2>3 DEF Fine
  <2>4. QED  BY <2>2, <2>3
<1>8. QED  BY <1>7

LEMMA LostStep ==
    ASSUME IdentityInv, [Next]_vars, \A u \in Users : I!Reachable(u)
    PROVE  \/ \A u \in Users : I!Reachable(u)'
           \/ \E x \in Requests : I!Overtaken(x) /\ req'[x] = I!Idle
<1> SUFFICES ASSUME ~(\E x \in Requests : I!Overtaken(x) /\ req'[x] = I!Idle)
             PROVE  \A u \in Users : Fine(holder', account', u)
  BY FineIsReachable
<1>1. \A u \in Users : Fine(holder, account, u)
  BY FineIsReachable
<1>2. ASSUME UNCHANGED <<holder, account>>  PROVE \A u \in Users : Fine(holder', account', u)
  BY <1>1, <1>2
<1>3. ASSUME NEW x \in Requests, IdentityWrite(x)
      PROVE  \A u \in Users : Fine(holder', account', u)
  <2>1. ~I!Overtaken(x)
    BY <1>3, IdentityWrites
  <2>2. QED  BY <1>1, <1>3, <2>1, TimelyMethods, TimelyMerge, TimelyLogin DEF IdentityWrite
<1>4. CASE UNCHANGED identityVars
  BY <1>2, <1>4 DEF identityVars
<1>5. CASE \E u \in Users : I!CreateContent(u)
  BY <1>1, <1>5, ContentKeepsReach
<1>6. CASE I!Next /\ ~(\E x \in Requests : IdentityWrite(x)) /\ ~(\E u \in Users : I!CreateContent(u))
  BY <1>2, <1>6, RequestChecks DEF I!Next, IdentityWrite
<1>7. QED  BY <1>3, <1>4, <1>5, <1>6, OneMoves

\* Nobody loses an account: a step after which an account cannot be reached any
\* more is the write of a request overtaken between its check and its write.
THEOREM LostOnlyCorrect == Spec => LostOnlyWhenOvertaken
<1>1. ASSUME IdentityInv, [Next]_vars
      PROVE  (\A u \in Users : I!Reachable(u)) /\ ~(\A u \in Users : I!Reachable(u)')
             => \E p \in Requests : I!Overtaken(p) /\ req'[p] = I!Idle
  <2> SUFFICES ASSUME \A u \in Users : I!Reachable(u)
               PROVE  \/ \A u \in Users : I!Reachable(u)'
                      \/ \E p \in Requests : I!Overtaken(p) /\ req'[p] = I!Idle
    OBVIOUS
  <2>1. QED  BY <1>1, LostStep
<1>2. QED  BY IdentityCorrect, <1>1, PTL DEF Spec, LostOnlyWhenOvertaken, I!LostOnlyWhenOvertaken

(***************************************************************************)
(* InstanceAdmin.                                                          *)
(***************************************************************************)
\* What a change of a role has locked and counted: the other super admins it has
\* counted are locked, hence still super admins; and it takes the role from its
\* target, when it found it there, only having counted another.
TxSound(r, supers) ==
    /\ r.others \subseteq r.locked /\ r.others \subseteq supers
    /\ r.user \notin r.others /\ r.user \notin r.todo
    /\ r.at # "idle" => r.user \in Users
    /\ r.at = "own" => ~r.was_super /\ r.others = {}
    /\ r.at = "write" /\ r.was_super /\ r.role # "super" => r.others # {}

\* Once the setup is done there is an active owner, and no instance serves other
\* routes before.
SetupSound ==
    /\ \A i \in Instances : initialized[i] = "yes" => setup = "done"
    /\ setup = "done" => \E u \in owner : u \in A!Active

TxsSound == \A p \in Requests : TxSound(tx[p], A!Supers)
AdminInv == A!TypeOK /\ SetupSound /\ TxsSound

LEMMA SoleOwner == ASSUME NEW u \in Users  PROVE {u} \in {S \in SUBSET Users : A!Cardinality(S) <= 1}
<1>1. A!Cardinality({u}) = Cardinality({u})
  BY DEF A!Cardinality, Cardinality
<1>2. QED  BY <1>1, FS_Singleton

LEMMA IdleTx == A!Idle \in A!TxType /\ A!Idle.at = "idle" /\ \A S : TxSound(A!Idle, S)
<1>1. A!Idle \in A!TxType
  BY RowLimit DEF A!Idle, A!TxType, A!Roles
<1>2. A!Idle.at = "idle" /\ \A S : TxSound(A!Idle, S)
  BY DEF A!Idle, TxSound
<1>3. QED  BY <1>1, <1>2

LEMMA AdminInit == Init => AdminInv
<1> SUFFICES ASSUME Init  PROVE AdminInv
  OBVIOUS
<1>1. A!Init
  BY DEF Init, AdminRests
<1>2. owner \in {S \in SUBSET Users : A!Cardinality(S) <= 1}
  BY <1>1 DEF A!Init, A!Active
<1>3. binding \in [Users -> A!BindingType]
  BY <1>1, RowLimit DEF A!Init, A!BindingType
<1>4. \A p \in Requests : tx[p] = A!Idle
  BY <1>1 DEF A!Init
<1>5. A!TypeOK
  BY <1>1, <1>2, <1>3, IdleTx DEF A!Init, A!TypeOK
<1>6. QED  BY <1>1, <1>4, <1>5, IdleTx DEF AdminInv, A!Init, SetupSound, TxsSound

\* The setup, the start and stop of an instance, and the accounts it creates.
SetupMoves ==
    \/ \E i \in Instances :
        \/ A!EnsureState(i) \/ A!AssertPending(i) \/ A!Admit(i) \/ A!Stop(i)
        \/ \E u \in Users : A!Complete(i, u) \/ A!Register(i, u)
    \/ \E u \in Users : A!Recover(u)

LEMMA NewRowTyped ==
    ASSUME A!TypeOK, NEW u \in Users, NEW r \in A!Roles, A!MayInsert(u)
    PROVE  A!NewRow(u, r) \in A!BindingType /\ A!NewRow(u, r).role = r
<1>1. binding[u].row \in 0..MaxRows /\ binding[u].row < MaxRows
  BY DEF A!TypeOK, A!BindingType, A!MayInsert
<1>2. binding[u].row + 1 \in 0..MaxRows
  BY <1>1, RowLimit
<1>3. QED  BY <1>2 DEF A!NewRow, A!BindingType

LEMMA SetupKeeps ==
    ASSUME AdminInv, SetupMoves
    PROVE  AdminInv' /\ tx' = tx /\ A!Supers \subseteq A!Supers'
<1>1. /\ status \in [Users -> {"none", "active", "merged"}]
      /\ binding \in [Users -> A!BindingType]
      /\ owner \in {S \in SUBSET Users : A!Cardinality(S) <= 1}
      /\ setup \in {"absent", "pending", "done"}
      /\ initialized \in [Instances -> {"down", "no", "yes"}]
      /\ asked \in [Instances -> BOOLEAN] /\ tx \in [Requests -> A!TxType]
  BY DEF AdminInv, A!TypeOK
<1>2. A!FlagFor(FALSE) = "yes" /\ A!FlagFor(TRUE) = "no"
  BY DEF A!FlagFor
<1>3. tx' = tx
  BY DEF SetupMoves, A!EnsureState, A!AssertPending, A!Admit, A!Stop, A!Complete, A!Register, A!Recover
<1>4. ASSUME NEW i \in Instances, A!EnsureState(i)
      PROVE  A!TypeOK' /\ SetupSound' /\ A!Supers \subseteq A!Supers'
  <2>1. UNCHANGED <<status, binding, asked, tx>>
    BY <1>4 DEF A!EnsureState
  <2>2. A!Active' = A!Active /\ A!Supers' = A!Supers
    BY <2>1 DEF A!Active, A!Supers
  <2>3. /\ owner' \in {S \in SUBSET Users : A!Cardinality(S) <= 1}
        /\ setup' \in {"absent", "pending", "done"}
        /\ initialized' \in [Instances -> {"down", "no", "yes"}]
        /\ SetupSound'
    <3>1. CASE setup = "done" /\ UNCHANGED <<owner, setup>>
               /\ initialized' = [initialized EXCEPT ![i] = A!FlagFor(FALSE)]
      BY <1>1, <1>2, <2>2, <3>1 DEF AdminInv, SetupSound
    <3>2. CASE /\ setup # "done"
               /\ \E u \in IF owner \cap A!Active # {} THEN owner \cap A!Active ELSE A!Supers :
                     owner \subseteq {u} /\ owner' = {u}
               /\ setup' = "done" /\ initialized' = [initialized EXCEPT ![i] = A!FlagFor(FALSE)]
      <4>1. PICK u \in A!Active : owner' = {u}
        BY <3>2 DEF A!Supers
      <4>2. u \in Users
        BY <4>1 DEF A!Active
      <4>3. owner' \in {S \in SUBSET Users : A!Cardinality(S) <= 1}
        BY <4>1, <4>2, SoleOwner
      <4>4. SetupSound'
        BY <2>2, <3>2, <4>1 DEF SetupSound
      <4>5. QED  BY <1>1, <1>2, <3>2, <4>3, <4>4
    <3>3. CASE /\ setup # "done" /\ setup' = "pending" /\ UNCHANGED owner
               /\ initialized' = [initialized EXCEPT ![i] = A!FlagFor(TRUE)]
      BY <1>1, <1>2, <3>3 DEF AdminInv, SetupSound
    <3>4. QED  BY <1>4, <3>1, <3>2, <3>3 DEF A!EnsureState
  <2>4. QED  BY <1>1, <2>1, <2>2, <2>3 DEF A!TypeOK
<1>5. ASSUME NEW i \in Instances, A!AssertPending(i) \/ A!Admit(i) \/ A!Stop(i)
      PROVE  A!TypeOK' /\ SetupSound' /\ A!Supers \subseteq A!Supers'
  <2>1. UNCHANGED <<status, binding, owner, setup, tx>>
    BY <1>5 DEF A!AssertPending, A!Admit, A!Stop
  <2>2. A!Active' = A!Active /\ A!Supers' = A!Supers
    BY <2>1 DEF A!Active, A!Supers
  <2>3. initialized' \in [Instances -> {"down", "no", "yes"}] /\ asked' \in [Instances -> BOOLEAN]
    BY <1>1, <1>5 DEF A!AssertPending, A!Admit, A!Stop
  <2>4. \A k \in Instances : initialized'[k] = "yes" => setup = "done"
    BY <1>1, <1>5 DEF A!AssertPending, A!Admit, A!Stop, AdminInv, SetupSound
  <2>5. QED  BY <1>1, <2>1, <2>2, <2>3, <2>4 DEF A!TypeOK, AdminInv, SetupSound
<1>6. ASSUME NEW i \in Instances, NEW u \in Users, A!Complete(i, u)
      PROVE  A!TypeOK' /\ SetupSound' /\ A!Supers \subseteq A!Supers'
  <2>1. asked' \in [Instances -> BOOLEAN]
    BY <1>1, <1>6 DEF A!Complete
  <2>2. CASE setup # "pending"
    <3>1. UNCHANGED <<status, binding, owner, setup, initialized, tx>>
      BY <1>6, <2>2 DEF A!Complete
    <3>2. A!Active' = A!Active /\ A!Supers' = A!Supers
      BY <3>1 DEF A!Active, A!Supers
    <3>3. QED  BY <1>1, <2>1, <3>1, <3>2 DEF A!TypeOK, AdminInv, SetupSound
  <2>3. CASE setup = "pending"
    <3>1. /\ status[u] = "none" /\ A!MayInsert(u)
          /\ status' = [status EXCEPT ![u] = "active"]
          /\ binding' = [binding EXCEPT ![u] = A!NewRow(u, "super")]
          /\ owner' = {u} /\ setup' = "done"
          /\ initialized' = [initialized EXCEPT ![i] = "yes"] /\ tx' = tx
      BY <1>6, <2>3 DEF A!Complete
    <3>2. A!NewRow(u, "super") \in A!BindingType
      BY <3>1, NewRowTyped DEF AdminInv, A!Roles
    <3>3. A!TypeOK'
      BY <1>1, <2>1, <3>1, <3>2, SoleOwner DEF A!TypeOK
    <3>4. u \in A!Active' /\ SetupSound'
      BY <1>1, <3>1 DEF A!Active, SetupSound
    <3>5. \A v \in A!Supers : v # u /\ status'[v] = status[v] /\ binding'[v] = binding[v]
      BY <1>1, <3>1 DEF A!Active, A!Supers
    <3>6. A!Supers \subseteq A!Supers'
      BY <3>5 DEF A!Active, A!Supers
    <3>7. QED  BY <3>3, <3>4, <3>6
  <2>4. QED  BY <2>2, <2>3
<1>7. ASSUME NEW i \in Instances, NEW u \in Users, A!Register(i, u)
      PROVE  A!TypeOK' /\ SetupSound' /\ A!Supers \subseteq A!Supers'
  <2>1. /\ status' = [status EXCEPT ![u] = "active"]
        /\ UNCHANGED <<binding, owner, setup, initialized, asked, tx>>
    BY <1>7 DEF A!Register
  <2>2. A!Active \subseteq A!Active'
    BY <1>1, <2>1 DEF A!Active
  <2>3. A!Supers \subseteq A!Supers'
    BY <2>1, <2>2 DEF A!Supers
  <2>4. QED  BY <1>1, <2>1, <2>2, <2>3 DEF A!TypeOK, AdminInv, SetupSound
<1>8. ASSUME NEW u \in Users, A!Recover(u)
      PROVE  A!TypeOK' /\ SetupSound' /\ A!Supers \subseteq A!Supers'
  <2>1. /\ u \in A!Active /\ owner' = {u} /\ setup' = "done"
        /\ UNCHANGED <<status, binding, initialized, asked, tx>>
    BY <1>8 DEF A!Recover
  <2>2. A!Active' = A!Active /\ A!Supers' = A!Supers
    BY <2>1 DEF A!Active, A!Supers
  <2>3. SetupSound'
    BY <2>1, <2>2 DEF SetupSound
  <2>4. QED  BY <1>1, <2>1, <2>2, <2>3, SoleOwner DEF A!TypeOK
<1>9. A!TypeOK' /\ SetupSound' /\ A!Supers \subseteq A!Supers'
  BY <1>4, <1>5, <1>6, <1>7, <1>8 DEF SetupMoves
<1>10. TxsSound'
  <2> SUFFICES ASSUME NEW p \in Requests  PROVE TxSound(tx'[p], A!Supers')
    BY DEF TxsSound
  <2>1. TxSound(tx[p], A!Supers)
    BY DEF AdminInv, TxsSound
  <2>2. QED  BY <1>3, <1>9, <2>1 DEF TxSound
<1>11. QED  BY <1>3, <1>9, <1>10 DEF AdminInv

\* The statements of a role change that only read and lock.
LockMoves(p) ==
    \/ \E u \in Users, r \in A!Roles : A!BeginRole(p, u, r)
    \/ A!LockOwn(p) \/ A!LockSuperRole(p) \/ A!CountOthers(p) \/ A!DeadlockDetected(p)
    \/ \E v \in Users : A!LockOther(p, v)

\* The tables as they are, and a transaction that goes to n.
LEMMA TxGoes ==
    ASSUME AdminInv, NEW p \in Requests, NEW n \in A!TxType, TxSound(n, A!Supers),
           A!Continue(p, n), UNCHANGED <<binding, A!Quiet>>
    PROVE  AdminInv' /\ A!Supers' = A!Supers
<1>1. UNCHANGED <<status, binding, owner, setup, initialized, asked>>
  BY DEF A!Quiet
<1>2. A!Active' = A!Active /\ A!Supers' = A!Supers
  BY <1>1 DEF A!Active, A!Supers
<1>3. tx' = [tx EXCEPT ![p] = n] /\ tx \in [Requests -> A!TxType]
  BY DEF A!Continue, AdminInv, A!TypeOK
<1>4. A!TypeOK' /\ SetupSound'
  BY <1>1, <1>2, <1>3 DEF AdminInv, A!TypeOK, SetupSound
<1>5. \A q \in Requests : TxSound(tx'[q], A!Supers')
  BY <1>2, <1>3 DEF AdminInv, TxsSound
<1>6. QED  BY <1>2, <1>4, <1>5 DEF AdminInv, TxsSound

LEMMA LocksKeep ==
    ASSUME AdminInv, NEW p \in Requests, LockMoves(p)
    PROVE  AdminInv' /\ A!Supers' = A!Supers
<1> DEFINE r == tx[p]
<1>1. r \in A!TxType /\ TxSound(r, A!Supers) /\ A!Supers \subseteq Users
  BY DEF AdminInv, A!TypeOK, TxsSound, A!Supers, A!Active
<1>2. \A u \in Users : binding[u].row \in 0..MaxRows
  BY DEF AdminInv, A!TypeOK, A!BindingType
<1>3. ASSUME NEW u \in Users, NEW role \in A!Roles, A!BeginRole(p, u, role)
      PROVE  AdminInv' /\ A!Supers' = A!Supers
  <2>1. PICK n : n = [A!Idle EXCEPT !.at = IF binding[u].role = "super" THEN "own" ELSE "write",
                                    !.user = u, !.role = role, !.row = binding[u].row]
    OBVIOUS
  <2>2. n \in A!TxType
    BY <1>2, <2>1 DEF A!Idle, A!TxType
  <2>3. TxSound(n, A!Supers)
    BY <2>1 DEF A!Idle, TxSound
  <2>4. QED  BY <1>3, <2>1, <2>2, <2>3, TxGoes DEF A!BeginRole
<1>4. CASE A!LockOwn(p)
  <2>1. r.at = "own" /\ r.user \in Users
    BY <1>1, <1>4 DEF A!LockOwn, A!At, TxSound
  <2>2. ASSUME A!Continue(p, [r EXCEPT !.at = "write"])
        PROVE  AdminInv' /\ A!Supers' = A!Supers
    <3>1. PICK n : n = [r EXCEPT !.at = "write"]
      OBVIOUS
    <3>2. n \in A!TxType /\ TxSound(n, A!Supers)
      BY <1>1, <2>1, <3>1 DEF A!TxType, TxSound
    <3>3. QED  BY <1>4, <2>2, <3>1, <3>2, TxGoes DEF A!LockOwn
  <2>3. ASSUME A!Continue(p, [r EXCEPT !.at = "role", !.was_super = TRUE, !.locked = {r.user}]),
               binding[r.user].role = "super", r.user \in Users
        PROVE  AdminInv' /\ A!Supers' = A!Supers
    <3>1. PICK n : n = [r EXCEPT !.at = "role", !.was_super = TRUE, !.locked = {r.user}]
      OBVIOUS
    <3>2. n \in A!TxType /\ TxSound(n, A!Supers)
      BY <1>1, <2>1, <2>3, <3>1 DEF A!TxType, TxSound
    <3>3. QED  BY <1>4, <2>3, <3>1, <3>2, TxGoes DEF A!LockOwn
  <2>4. CASE binding[r.user].role = "super" /\ binding[r.user].row = r.row
    BY <1>4, <2>1, <2>3, <2>4 DEF A!LockOwn
  <2>5. CASE ~(binding[r.user].role = "super" /\ binding[r.user].row = r.row)
    BY <1>4, <2>2, <2>5 DEF A!LockOwn
  <2>6. QED  BY <2>4, <2>5
<1>5. CASE A!LockSuperRole(p)
  <2>1. PICK n : n = [r EXCEPT !.locked = @ \cup {SuperRole},
                               !.at = IF A!Demotes(r) THEN "others" ELSE "write",
                               !.todo = IF A!Demotes(r) THEN A!Supers \ {r.user} ELSE {}]
    OBVIOUS
  <2>2. n \in A!TxType
    BY <1>1, <2>1 DEF A!TxType
  <2>3. TxSound(n, A!Supers)
    BY <1>1, <1>5, <2>1 DEF A!TxType, TxSound, A!Demotes, A!LockSuperRole, A!At
  <2>4. A!Continue(p, n) /\ UNCHANGED <<binding, A!Quiet>>
    BY <1>5, <2>1 DEF A!LockSuperRole
  <2>5. QED  BY <2>2, <2>3, <2>4, TxGoes
<1>6. CASE A!CountOthers(p)
  <2>1. CASE r.others = {}
    BY <1>6, <2>1, IdleTx, TxGoes DEF A!CountOthers, A!End
  <2>2. CASE r.others # {}
    <3>1. PICK n : n = [r EXCEPT !.at = "write"]
      OBVIOUS
    <3>2. n \in A!TxType /\ TxSound(n, A!Supers)
      BY <1>1, <1>6, <2>2, <3>1 DEF A!TxType, TxSound, A!CountOthers, A!At
    <3>3. QED  BY <1>6, <2>2, <3>1, <3>2, TxGoes DEF A!CountOthers
  <2>3. QED  BY <2>1, <2>2
<1>7. CASE A!DeadlockDetected(p)
  BY <1>7, IdleTx, TxGoes DEF A!DeadlockDetected, A!End
<1>8. ASSUME NEW v \in Users, A!LockOther(p, v)
      PROVE  AdminInv' /\ A!Supers' = A!Supers
  <2>1. PICK n : n = [r EXCEPT !.todo = @ \ {v},
                               !.locked = IF v \in A!Supers THEN @ \cup {v} ELSE @,
                               !.others = IF v \in A!Supers THEN @ \cup {v} ELSE @]
    OBVIOUS
  <2>2. r.at = "others" /\ v \in r.todo /\ A!Continue(p, n) /\ UNCHANGED <<binding, A!Quiet>>
    BY <1>8, <2>1 DEF A!LockOther, A!At
  <2>3. n \in A!TxType
    BY <1>1, <2>1 DEF A!TxType
  <2>4. TxSound(n, A!Supers)
    BY <1>1, <2>1, <2>2 DEF A!TxType, TxSound
  <2>5. QED  BY <2>2, <2>3, <2>4, TxGoes
<1>9. QED  BY <1>3, <1>4, <1>5, <1>6, <1>7, <1>8 DEF LockMoves

\* The rows another transaction has locked are not written, and a super admin it
\* has counted is left.
LEMMA RoleWritten ==
    ASSUME AdminInv, NEW p \in Requests, A!WriteRole(p)
    PROVE  /\ AdminInv' /\ tx'[p] = A!Idle
           /\ A!Supers # {} /\ ~A!Replaced(p) => A!Supers' # {}
<1> DEFINE r == tx[p]
           u == r.user
<1>1. /\ tx \in [Requests -> A!TxType] /\ binding \in [Users -> A!BindingType]
      /\ r \in A!TxType /\ TxSound(r, A!Supers) /\ r.at = "write" /\ r.role \in A!Roles
  BY DEF AdminInv, A!TypeOK, TxsSound, A!TxType, A!WriteRole, A!At
<1>2. /\ binding' = [binding EXCEPT ![u] = A!NewRow(u, r.role)]
      /\ tx' = [tx EXCEPT ![p] = A!Idle]
      /\ UNCHANGED <<status, owner, setup, initialized, asked>>
      /\ A!MayInsert(u) /\ ~A!LockedByOther(p, u)
  BY DEF A!WriteRole, A!End, A!Continue, A!Quiet
<1>3. u \in Users => A!NewRow(u, r.role) \in A!BindingType /\ A!NewRow(u, r.role).role = r.role
  BY <1>1, <1>2, NewRowTyped DEF AdminInv
<1>4. binding' \in [Users -> A!BindingType]
  BY <1>1, <1>2, <1>3
<1>5. A!Active' = A!Active
  BY <1>2 DEF A!Active
<1>6. \A v \in Users : v # u => binding'[v] = binding[v]
  BY <1>1, <1>2
<1>7. \A v \in Users : v # u => (v \in A!Supers <=> v \in A!Supers')
  BY <1>5, <1>6 DEF A!Supers, A!Active
<1>8. A!Supers \subseteq Users
  BY DEF A!Supers, A!Active
<1>9. ASSUME NEW q \in Requests  PROVE TxSound(tx'[q], A!Supers')
  <2>1. CASE q = p
    BY <1>1, <1>2, <2>1, IdleTx
  <2>2. CASE q # p
    <3>1. tx'[q] = tx[q] /\ TxSound(tx[q], A!Supers)
      BY <1>1, <1>2, <2>2 DEF AdminInv, TxsSound
    <3>2. u \notin tx[q].locked
      BY <1>2, <2>2 DEF A!LockedByOther
    <3>3. tx[q].others \subseteq A!Supers'
      BY <1>7, <1>8, <3>1, <3>2 DEF TxSound
    <3>4. QED  BY <3>1, <3>3 DEF TxSound
  <2>3. QED  BY <2>1, <2>2
<1>10. A!TypeOK' /\ SetupSound'
  BY <1>1, <1>2, <1>4, <1>5, IdleTx DEF AdminInv, A!TypeOK, SetupSound
<1>11. AdminInv' /\ tx'[p] = A!Idle
  BY <1>1, <1>2, <1>9, <1>10 DEF AdminInv, TxsSound
<1>12. ASSUME A!Supers # {}, ~A!Replaced(p)  PROVE A!Supers' # {}
  <2>1. PICK v : v \in A!Supers
    BY <1>12
  <2>2. CASE v # u
    BY <1>7, <1>8, <2>1, <2>2
  <2>3. CASE v = u
    <3>1. u \in Users /\ u \in A!Active /\ binding[u].role = "super"
      BY <2>1, <2>3 DEF A!Supers, A!Active
    <3>2. CASE r.role = "super"
      <4>1. binding'[u].role = "super"
        BY <1>1, <1>2, <1>3, <3>1, <3>2
      <4>2. QED  BY <1>5, <3>1, <4>1 DEF A!Supers
    <3>3. CASE r.role # "super"
      <4>1. r.was_super
        BY <1>1, <1>12, <3>1 DEF A!Replaced, A!At
      <4>2. PICK k : k \in r.others
        BY <1>1, <3>3, <4>1 DEF TxSound
      <4>3. k \in A!Supers /\ k # u
        BY <1>1, <4>2 DEF TxSound
      <4>4. QED  BY <1>7, <1>8, <4>3
    <3>4. QED  BY <3>2, <3>3
  <2>4. QED  BY <2>2, <2>3
<1>13. QED  BY <1>11, <1>12

\* A merge writes no row that a transaction has locked, and hands the ownership on.
LEMMA MergeKeeps ==
    ASSUME AdminInv, NEW x \in Users, NEW y \in Users, A!Merge(x, y)
    PROVE  AdminInv'
<1>1. /\ status \in [Users -> {"none", "active", "merged"}]
      /\ binding \in [Users -> A!BindingType]
      /\ owner \in {S \in SUBSET Users : A!Cardinality(S) <= 1}
      /\ tx \in [Requests -> A!TxType]
  BY DEF AdminInv, A!TypeOK
<1>2. /\ x \in A!Active /\ y \in A!Active /\ x # y
      /\ \A p \in Requests : y \notin tx[p].locked
      /\ A!MayInsert(x) /\ A!MayInsert(y)
      /\ binding' = [binding EXCEPT ![x] = A!HandedBinding(x, y), ![y] = A!NewRow(y, "none")]
      /\ owner' = A!HandedOwner(x, y)
      /\ status' = [status EXCEPT ![y] = "merged"]
      /\ UNCHANGED <<setup, initialized, asked, tx>>
  BY DEF A!Merge
<1>3. /\ A!NewRow(y, "none") \in A!BindingType
      /\ binding[y].role \in A!Roles
      /\ A!NewRow(x, binding[y].role) \in A!BindingType
  <2>1. "none" \in A!Roles /\ binding[y].role \in A!Roles
    BY <1>1 DEF A!Roles, A!BindingType
  <2>2. QED  BY <1>2, <2>1, NewRowTyped DEF AdminInv
<1>4. /\ A!HandedBinding(x, y) \in A!BindingType
      /\ binding[x].role = "super" => A!HandedBinding(x, y) = binding[x]
  BY <1>1, <1>3 DEF A!HandedBinding
<1>5. /\ binding' \in [Users -> A!BindingType]
      /\ binding'[x] = A!HandedBinding(x, y)
      /\ \A v \in Users : v \notin {x, y} => binding'[v] = binding[v]
  BY <1>1, <1>2, <1>3, <1>4
<1>6. /\ status' \in [Users -> {"none", "active", "merged"}]
      /\ A!Active' = A!Active \ {y}
  BY <1>1, <1>2 DEF A!Active
<1>7. owner' \in {S \in SUBSET Users : A!Cardinality(S) <= 1}
  BY <1>1, <1>2, SoleOwner DEF A!HandedOwner
<1>8. \A v \in A!Supers : v # y => v \in A!Supers'
  <2> SUFFICES ASSUME NEW v \in A!Supers, v # y  PROVE v \in A!Supers'
    OBVIOUS
  <2>1. v \in A!Active' /\ binding[v].role = "super" /\ v \in Users
    BY <1>6 DEF A!Supers, A!Active
  <2>2. binding'[v] = binding[v]
    BY <1>4, <1>5, <2>1
  <2>3. QED  BY <2>1, <2>2 DEF A!Supers
<1>9. SetupSound'
  <2>1. ASSUME setup = "done"  PROVE \E u \in owner' : u \in A!Active'
    <3>1. CASE y \in owner
      BY <1>2, <1>6, <3>1 DEF A!HandedOwner
    <3>2. CASE y \notin owner
      BY <1>2, <1>6, <2>1, <3>2 DEF A!HandedOwner, AdminInv, SetupSound
    <3>3. QED  BY <3>1, <3>2
  <2>2. QED  BY <1>2, <2>1 DEF AdminInv, SetupSound
<1>10. TxsSound'
  <2> SUFFICES ASSUME NEW p \in Requests  PROVE TxSound(tx'[p], A!Supers')
    BY DEF TxsSound
  <2>1. TxSound(tx[p], A!Supers) /\ y \notin tx[p].locked /\ tx'[p] = tx[p]
    BY <1>2 DEF AdminInv, TxsSound
  <2>2. QED  BY <1>8, <2>1 DEF TxSound
<1>11. A!TypeOK'
  BY <1>1, <1>2, <1>5, <1>6, <1>7 DEF AdminInv, A!TypeOK
<1>12. QED  BY <1>9, <1>10, <1>11 DEF AdminInv

LEMMA AdminSteps ==
    \/ ~A!Next \/ SetupMoves \/ \E p \in Requests : LockMoves(p) \/ A!WriteRole(p)
    \/ \E x, y \in Users : A!Merge(x, y)
BY DEF A!Next, SetupMoves, LockMoves

LEMMA AdminStep ==
    ASSUME AdminInv, [Next]_vars
    PROVE  AdminInv'
<1>1. CASE UNCHANGED adminVars
  <2>1. A!Active' = A!Active /\ A!Supers' = A!Supers
    BY <1>1 DEF adminVars, A!Active, A!Supers
  <2>2. QED  BY <1>1, <2>1 DEF AdminInv, A!TypeOK, SetupSound, TxsSound, adminVars
<1>2. CASE A!Next
  BY <1>2, AdminSteps, SetupKeeps, LocksKeep, RoleWritten, MergeKeeps
<1>3. QED  BY <1>1, <1>2, OneMoves

THEOREM AdminCorrect == Spec => []AdminInv
<1>1. AdminInv /\ [Next]_vars => AdminInv'
  BY AdminStep
<1>2. QED  BY AdminInit, <1>1, PTL DEF Spec

\* Through races of two setups, adoption, recovery, stops and merges, an instance
\* serves routes other than the setup only when an active owner exists.
THEOREM GateOpensCorrect == Spec => []GateOpensWithOwner
<1>1. AdminInv => GateOpensWithOwner
  BY DEF AdminInv, SetupSound, GateOpensWithOwner, A!GateOpensWithOwner
<1>2. QED  BY AdminCorrect, <1>1, PTL

\* Concurrent role changes leave a super admin, except a demotion whose target
\* was granted the role while it waited: setSystemRole.
THEOREM SuperAdminCorrect == Spec => SuperAdminKept
<1>1. ASSUME AdminInv, [Next]_vars
      PROVE  A!Supers # {} /\ status' = status /\ ~(\E p \in Requests : A!Replaced(p) /\ tx'[p] = A!Idle)
             => A!Supers' # {}
  <2> SUFFICES ASSUME A!Supers # {}, status' = status,
                      ~(\E p \in Requests : A!Replaced(p) /\ tx'[p] = A!Idle)
               PROVE  A!Supers' # {}
    OBVIOUS
  <2>1. CASE UNCHANGED adminVars
    BY <2>1 DEF adminVars, A!Supers, A!Active
  <2>2. CASE SetupMoves
    BY <1>1, <2>2, SetupKeeps
  <2>3. ASSUME NEW p \in Requests, LockMoves(p)  PROVE A!Supers' # {}
    BY <1>1, <2>3, LocksKeep
  <2>4. ASSUME NEW p \in Requests, A!WriteRole(p)  PROVE A!Supers' # {}
    BY <1>1, <2>4, RoleWritten
  <2>5. ASSUME NEW x \in Users, NEW y \in Users, A!Merge(x, y)  PROVE FALSE
    <3>1. status[y] = "active" /\ status' = [status EXCEPT ![y] = "merged"]
      BY <2>5 DEF A!Merge, A!Active
    <3>2. status \in [Users -> {"none", "active", "merged"}]
      BY <1>1 DEF AdminInv, A!TypeOK
    <3>3. QED  BY <3>1, <3>2
  <2>6. QED  BY <1>1, <2>1, <2>2, <2>3, <2>4, <2>5, OneMoves, AdminSteps
<1>2. QED  BY AdminCorrect, <1>1, PTL DEF Spec, SuperAdminKept, A!SuperAdminKept

\* The variables of both components have their types.
THEOREM MembersTyped == Spec => []TypeOK
<1>1. IdentityInv /\ AdminInv => TypeOK
  BY DEF IdentityInv, AdminInv, TypeOK
<1>2. QED  BY IdentityCorrect, AdminCorrect, <1>1, PTL
============================================================================
