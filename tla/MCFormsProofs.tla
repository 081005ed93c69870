---------------------------- MODULE MCFormsProofs ----------------------------
(***************************************************************************)
(* The parameters and the references of a generation, from the forms of    *)
(* the web client to the check of the server, and the types of all of      *)
(* MCPages, proved for every instance: any contracts of the shape that     *)
(* the catalog takes, any numbers of fields, slots, references, entries    *)
(* and revisions.  The engine folds a list of actions over the states of   *)
(* the fields, and the server a list of references over the slots; both    *)
(* are recursive functions, and what they come to is proved by induction   *)
(* on how far the list was read (Walks, LastDecides, TotalIs, Stays).      *)
(***************************************************************************)
EXTENDS MCPagesProofs

(***************************************************************************)
(* Walks along a list, and the last step of a kind.                        *)
(***************************************************************************)

LEMMA ElementsTyped ==
    ASSUME NEW S, NEW s \in Seq(S)
    PROVE  Len(s) \in Nat /\ DOMAIN s = 1..Len(s) /\ \A n \in 1..Len(s) : s[n] \in S
OBVIOUS

\* m steps from v within V: what step n does to s is G[n][s].
WalkOn(V, v, G, m) == v \in V /\ m \in Nat /\ G \in [1..m -> [V -> V]]
IsWalk(f, v, G, m) == f[0] = v /\ \A n \in 1..m : f[n] = G[n][f[n - 1]]

LEMMA Walks ==
    ASSUME NEW V, NEW v, NEW G, NEW m, WalkOn(V, v, G, m)
    PROVE  \E f \in [0..m -> V] : IsWalk(f, v, G, m)
<1>1. v \in V /\ m \in Nat /\ \A n \in 1..m, s \in V : G[n][s] \in V
  BY DEF WalkOn
<1> DEFINE B == {k \in 0..m : \E f \in [0..k -> V] : IsWalk(f, v, G, k)}
<1>3. 0 \in B
  <2> DEFINE f == [n \in 0..0 |-> v]
  <2>1. f \in [0..0 -> V] /\ IsWalk(f, v, G, 0)
    BY <1>1 DEF IsWalk
  <2> HIDE DEF f
  <2>2. \E h \in [0..0 -> V] : IsWalk(h, v, G, 0)
    BY <2>1
  <2>3. QED  BY <1>1, <2>2
<1>4. ASSUME NEW l \in 1..m, l - 1 \in B  PROVE l \in B
  <2>1. PICK k \in Nat : k = l - 1 /\ l = k + 1
    BY <1>1
  <2>2. PICK f \in [0..k -> V] : IsWalk(f, v, G, k)
    BY <1>4, <2>1
  <2> DEFINE last == G[l][f[k]]
             g == [n \in 0..l |-> IF n = l THEN last ELSE f[n]]
  <2>3. last \in V
    BY <1>1, <2>1, <2>2
  <2>4. g \in [0..l -> V]
    BY <2>1, <2>2, <2>3
  <2>5. \A n \in 1..k : g[n] = f[n] /\ g[n - 1] = f[n - 1]
    BY <2>1
  <2>6. g[0] = v /\ g[l - 1] = f[k] /\ g[l] = G[l][g[l - 1]]
    <3>1. 0 \in 0..l /\ 0 # l /\ l \in 0..l /\ l - 1 \in 0..l /\ l - 1 # l /\ l - 1 = k
      BY <2>1
    <3>2. g[0] = f[0] /\ g[l - 1] = f[k] /\ g[l] = last
      BY <3>1
    <3>3. f[0] = v
      BY <2>2 DEF IsWalk
    <3>4. last = G[l][g[l - 1]]
      BY <3>2
    <3> HIDE DEF g, last
    <3>5. QED  BY <3>2, <3>3, <3>4
  <2>7. \A n \in 1..l : n \in 1..k \/ n = l
    BY <2>1
  <2> HIDE DEF g
  <2>8. \A n \in 1..k : g[n] = G[n][g[n - 1]]
    BY <2>2, <2>5 DEF IsWalk
  <2>9. IsWalk(g, v, G, l)
    BY <2>6, <2>7, <2>8 DEF IsWalk
  <2>10. \E h \in [0..l -> V] : IsWalk(h, v, G, l)
    BY <2>4, <2>9
  <2>11. l \in 0..m
    BY <1>1
  <2>12. QED  BY <2>10, <2>11
<1>5. B \in SUBSET (0..m)
  OBVIOUS
<1>6. B = 0..m
  <2> HIDE DEF B
  <2>1. QED  BY <1>1, <1>3, <1>4, <1>5, UpTo
<1>7. m \in B
  BY <1>1, <1>6
<1>8. QED  BY <1>7

\* The greatest of the numbers up to a limit.
LEMMA Greatest ==
    ASSUME NEW m \in Nat, NEW T \in SUBSET (0..m), T # {}
    PROVE  \E n \in T : \A l \in T : l <= n
<1> DEFINE U == {m - l : l \in T}
<1>1. U \in SUBSET Nat /\ U # {}
  <2>1. \A l \in T : m - l \in Nat
    OBVIOUS
  <2>2. PICK l \in T : TRUE
    OBVIOUS
  <2>3. m - l \in U
    OBVIOUS
  <2>4. QED  BY <2>1, <2>3
<1>2. PICK k \in U : \A l \in U : k <= l
  <2> HIDE DEF U
  <2>1. QED  BY <1>1, LeastNumber
<1>3. PICK n \in T : k = m - n
  OBVIOUS
<1>4. ASSUME NEW l \in T  PROVE l <= n
  <2>1. m - l \in U
    OBVIOUS
  <2>2. k <= m - l
    BY <1>2, <2>1
  <2>3. QED  BY <1>3, <2>2
<1>5. QED  BY <1>4

LEMMA MaxFacts ==
    ASSUME NEW m \in Nat, NEW T \in SUBSET (0..m), T # {}
    PROVE  P!Max(T) \in T /\ \A l \in T : l <= P!Max(T)
<1>1. \E n \in T : \A l \in T : n >= l
  <2>1. PICK n \in T : \A l \in T : l <= n
    BY Greatest
  <2>2. QED  BY <2>1
<1>2. QED  BY <1>1 DEF P!Max

\* Where only the steps in T change w, the last of them decides what it ends as.
Settles(w, h, T, m) == \A n \in 1..m : IF n \in T THEN w[n] = h[n] ELSE w[n] = w[n - 1]

LEMMA LastDecides ==
    ASSUME NEW m \in Nat, NEW w, NEW h, NEW T \in SUBSET (1..m), Settles(w, h, T, m)
    PROVE  (T = {} => w[m] = w[0]) /\ (T # {} => P!Max(T) \in T /\ w[m] = h[P!Max(T)])
<1> DEFINE l == IF T = {} THEN 0 ELSE P!Max(T)
           B == {n \in 0..m : n >= l => w[n] = w[l]}
<1>1. l \in 0..m /\ (T # {} => l \in T) /\ \A n \in T : n <= l
  <2>1. CASE T = {}
    BY <2>1
  <2>2. CASE T # {}
    <3>1. T \in SUBSET (0..m)
      OBVIOUS
    <3>2. P!Max(T) \in T /\ \A n \in T : n <= P!Max(T)
      BY <2>2, <3>1, MaxFacts
    <3>3. l = P!Max(T)
      BY <2>2
    <3> HIDE DEF l
    <3>4. QED  BY <2>2, <3>1, <3>2, <3>3
  <2>3. QED  BY <2>1, <2>2
<1> HIDE DEF l
<1>2. 0 \in B
  BY <1>1
<1>3. ASSUME NEW n \in 1..m, n - 1 \in B  PROVE n \in B
  <2>1. CASE n <= l
    BY <1>1, <2>1
  <2>2. CASE n > l
    <3>1. n \notin T /\ n - 1 >= l
      BY <1>1, <2>2
    <3>2. w[n] = w[n - 1] /\ w[n - 1] = w[l]
      BY <1>3, <3>1 DEF Settles
    <3>3. QED  BY <3>2
  <2>3. QED  BY <1>1, <2>1, <2>2
<1>4. B = 0..m
  <2>1. B \in SUBSET (0..m)
    OBVIOUS
  <2> HIDE DEF B
  <2>2. QED  BY <1>2, <1>3, <2>1, UpTo
<1>5. m \in B
  BY <1>4
<1>6. w[m] = w[l]
  BY <1>1, <1>5
<1>7. T # {} => w[l] = h[l]
  BY <1>1 DEF Settles
<1>8. QED  BY <1>1, <1>6, <1>7 DEF l

(***************************************************************************)
(* Parameters: the engine.                                                 *)
(***************************************************************************)

FlattenWalk(f, seqs) == f = [i \in 1..Len(seqs) |-> IF i = 1 THEN seqs[i] ELSE f[i - 1] \o seqs[i]]

\* The lists of a list, one after the other.
LEMMA FlattenFacts ==
    ASSUME NEW S, NEW seqs \in Seq(Seq(S)), seqs # <<>>
    PROVE  \E w \in [1..Len(seqs) -> Seq(S)] :
              /\ w[1] = seqs[1] /\ \A n \in 2..Len(seqs) : w[n] = w[n - 1] \o seqs[n]
              /\ P!FlattenSeq(seqs) = w[Len(seqs)]
<1> DEFINE l == Len(seqs)
           V == Seq(S)
<1>1. l \in Nat /\ DOMAIN seqs = 1..l /\ \A n \in 1..l : seqs[n] \in V
  OBVIOUS
<1>2. l # 0
  OBVIOUS
<1>3. PICK m \in Nat : l = m + 1
  <2>1. l - 1 \in Nat /\ l = (l - 1) + 1
    BY <1>1, <1>2
  <2> HIDE DEF l
  <2>2. QED  BY <2>1
<1> DEFINE G == [n \in 1..m |-> [s \in V |-> s \o seqs[n + 1]]]
<1>4. seqs[1] \in V
  BY <1>1, <1>3
<1>5. ASSUME NEW n \in 1..m, NEW s \in V  PROVE s \o seqs[n + 1] \in V
  <2>1. n + 1 \in 1..l
    BY <1>3
  <2>2. PICK t \in V : t = seqs[n + 1]
    BY <1>1, <2>1
  <2>3. s \o t \in V
    OBVIOUS
  <2>4. QED  BY <2>2, <2>3
<1>6. WalkOn(V, seqs[1], G, m)
  BY <1>3, <1>4, <1>5 DEF WalkOn
<1>7. PICK h \in [0..m -> V] : IsWalk(h, seqs[1], G, m)
  <2> HIDE DEF G, V
  <2>1. QED  BY <1>6, Walks
<1>8. h[0] = seqs[1] /\ \A n \in 1..m : h[n] = h[n - 1] \o seqs[n + 1]
  <2>1. \A n \in 1..m : h[n - 1] \in V
    BY <1>3
  <2>2. QED  BY <1>7, <2>1 DEF IsWalk
<1> DEFINE f == [i \in 1..l |-> h[i - 1]]
           g == [i \in 1..l |-> IF i = 1 THEN seqs[i] ELSE f[i - 1] \o seqs[i]]
<1>9. f = g
  <2>1. ASSUME NEW i \in 1..l, i # 1  PROVE h[i - 1] = f[i - 1] \o seqs[i]
    <3>1. PICK n \in 1..m : i = n + 1
      <4>1. i - 1 \in 1..m /\ i = (i - 1) + 1
        BY <1>1, <1>3, <2>1
      <4>2. QED  BY <4>1
    <3>2. n \in 1..l /\ f[n] = h[n - 1] /\ i - 1 = n
      BY <1>3, <3>1
    <3>3. QED  BY <1>8, <3>1, <3>2
  <2>2. \A i \in 1..l : f[i] = IF i = 1 THEN seqs[i] ELSE f[i - 1] \o seqs[i]
    <3>1. 1 \in 1..l /\ f[1] = h[0]
      BY <1>3
    <3>2. \A i \in 1..l : f[i] = h[i - 1]
      OBVIOUS
    <3> HIDE DEF f
    <3>3. QED  BY <1>8, <2>1, <3>1, <3>2
  <2>3. \A i \in 1..l : f[i] = g[i]
    <3>1. \A i \in 1..l : g[i] = IF i = 1 THEN seqs[i] ELSE f[i - 1] \o seqs[i]
      OBVIOUS
    <3> HIDE DEF f, g
    <3>2. QED  BY <2>2, <3>1
  <2>4. f = [i \in 1..l |-> f[i]] /\ g = [i \in 1..l |-> g[i]]
    OBVIOUS
  <2> HIDE DEF f, g
  <2>5. QED  BY <2>3, <2>4
<1>10. \E x : FlattenWalk(x, seqs)
  <2> HIDE DEF f
  <2>1. FlattenWalk(f, seqs)
    BY <1>9 DEF FlattenWalk
  <2>2. QED  BY <2>1
<1> DEFINE w == CHOOSE x : FlattenWalk(x, seqs)
<1>11. FlattenWalk(w, seqs) /\ P!FlattenSeq(seqs) = w[l]
  <2>1. FlattenWalk(w, seqs)
    BY <1>10
  <2>2. P!FlattenSeq(seqs) = w[l]
    BY <1>2 DEF P!FlattenSeq, FlattenWalk
  <2>3. QED  BY <2>1, <2>2
<1> HIDE DEF w
<1>12. \A i \in 1..l : w[i] = IF i = 1 THEN seqs[i] ELSE w[i - 1] \o seqs[i]
  BY <1>11 DEF FlattenWalk
<1> DEFINE B == {n \in 0..m : w[n + 1] \in V}
<1>13. 0 \in B
  <2>1. 0 + 1 = 1 /\ 1 \in 1..l /\ 0 \in 0..m
    BY <1>3
  <2>2. QED  BY <1>4, <1>12, <2>1
<1>14. ASSUME NEW n \in 1..m, n - 1 \in B  PROVE n \in B
  <2>1. n + 1 \in 1..l /\ n + 1 # 1 /\ (n + 1) - 1 = n /\ (n - 1) + 1 = n /\ n \in 0..m
    BY <1>3
  <2>2. w[n] \in V
    BY <1>14, <2>1
  <2>3. w[n + 1] = w[n] \o seqs[n + 1]
    BY <1>12, <2>1
  <2>4. w[n] \o seqs[n + 1] \in V
    BY <1>5, <2>2
  <2>5. QED  BY <2>1, <2>3, <2>4
<1>15. B = 0..m
  <2>1. B \in SUBSET (0..m)
    OBVIOUS
  <2> HIDE DEF B
  <2>2. QED  BY <1>3, <1>13, <1>14, <2>1, UpTo
<1>16. w \in [1..l -> V]
  <2>1. \A n \in 1..l : n - 1 \in 0..m /\ (n - 1) + 1 = n
    BY <1>3
  <2>2. 0..m = B
    BY <1>15
  <2>3. \A n \in 1..l : w[n] \in V
    BY <2>1, <2>2
  <2>4. w = [n \in 1..l |-> w[n]]
    BY <1>11 DEF FlattenWalk
  <2>5. QED  BY <2>3, <2>4
<1>17. w[1] = seqs[1] /\ \A n \in 2..l : w[n] = w[n - 1] \o seqs[n]
  <2>1. 1 \in 1..l /\ \A n \in 2..l : n \in 1..l /\ n # 1
    BY <1>3
  <2>2. QED  BY <1>12, <2>1
<1>18. QED  BY <1>11, <1>16, <1>17

LEMMA FlattenTyped ==
    ASSUME NEW S, NEW seqs \in Seq(Seq(S))
    PROVE  P!FlattenSeq(seqs) \in Seq(S)
<1>1. Len(seqs) \in Nat
  OBVIOUS
<1>2. CASE seqs = <<>>
  <2>1. P!FlattenSeq(seqs) = seqs
    BY <1>2 DEF P!FlattenSeq
  <2>2. <<>> \in Seq(S)
    OBVIOUS
  <2>3. QED  BY <1>2, <2>1, <2>2
<1>3. CASE seqs # <<>>
  <2>1. Len(seqs) \in 1..Len(seqs)
    BY <1>1, <1>3
  <2>2. PICK w \in [1..Len(seqs) -> Seq(S)] : P!FlattenSeq(seqs) = w[Len(seqs)]
    BY <1>3, FlattenFacts
  <2>3. QED  BY <2>1, <2>2
<1>4. QED  BY <1>2, <1>3

\* The actions that apply are actions of the contract.
LEMMA ApplyingTyped ==
    ASSUME NEW c, P!IsContract(c), NEW values
    PROVE  P!Applying(c.constraints, values) \in Seq(P!Actions)
<1> DEFINE A == P!Actions
           seqs == [i \in DOMAIN c.constraints |->
                      IF P!EvaluateCondition(c.constraints[i].when, values) THEN c.constraints[i].do ELSE <<>>]
<1>1. c.constraints \in Seq([when : Conditions, do : Seq(A)])
  BY DEF P!IsContract
<1> HIDE DEF A
<1>2. PICK m \in Nat : m = Len(c.constraints) /\ DOMAIN c.constraints = 1..m
  BY <1>1
<1>3. ASSUME NEW i \in 1..m  PROVE seqs[i] \in Seq(A)
  <2>1. c.constraints[i] \in [when : Conditions, do : Seq(A)]
    <3> DEFINE K == [when : Conditions, do : Seq(A)]
    <3>1. PICK k \in Seq(K) : k = c.constraints
      BY <1>1
    <3> HIDE DEF K
    <3>2. k[i] \in K
      BY <1>2, <3>1
    <3>3. QED  BY <3>1, <3>2 DEF K
  <2>2. c.constraints[i].do \in Seq(A) /\ <<>> \in Seq(A)
    BY <2>1
  <2>3. QED  BY <1>2, <2>2
<1>4. seqs \in [1..m -> Seq(A)]
  <2>1. seqs = [i \in 1..m |-> seqs[i]]
    BY <1>2
  <2> HIDE DEF seqs
  <2>2. QED  BY <1>3, <2>1
<1>5. seqs \in Seq(Seq(A))
  <2> HIDE DEF seqs
  <2>1. QED  BY <1>4
<1>6. P!FlattenSeq(seqs) \in Seq(A)
  <2> HIDE DEF seqs
  <2>1. QED  BY <1>5, FlattenTyped
<1>7. QED  BY <1>6 DEF P!Applying, A

\* The states of the fields of a schema.
FieldState ==
    [visible : BOOLEAN, disabled : BOOLEAN, required : BOOLEAN,
     options : P!Optional(Seq(P!Values)), min : P!Optional(Int), max : P!Optional(Int)]
FieldStates(schema) == [DOMAIN schema.props -> FieldState]

LEMMA SchemaFacts ==
    ASSUME NEW schema, P!IsSchema(schema)
    PROVE  /\ DOMAIN schema.props \in SUBSET Fields
           /\ schema.props \in [DOMAIN schema.props -> P!Definitions]
           /\ schema.defaults \in [Fields -> P!Optional(P!Values)]
BY DEF P!IsSchema

LEMMA InitTyped ==
    ASSUME NEW schema, P!IsSchema(schema)
    PROVE  /\ P!InitFieldStates(schema) \in FieldStates(schema)
           /\ \A f \in DOMAIN schema.props :
                 LET state == P!InitFieldStates(schema)[f]
                     def == schema.props[f]
                 IN /\ state.visible <=> ~def.hidden
                    /\ ~state.disabled
                    /\ state.required <=> f \in schema.required
                    /\ def.type \in {"enum", "multi_enum"} => state.options = def.options
                    /\ def.type \in P!Numeric => state.min = def.min
<1> DEFINE D == DOMAIN schema.props
           Of(f) == LET def == schema.props[f]
                        ranged == def.type \in P!Numeric
                    IN [visible  |-> ~def.hidden,
                        disabled |-> FALSE,
                        required |-> f \in schema.required,
                        options  |-> IF def.type \in {"enum", "multi_enum"} THEN def.options ELSE None,
                        min      |-> IF ranged THEN def.min ELSE None,
                        max      |-> IF ranged THEN def.max ELSE None]
<1>1. P!InitFieldStates(schema) = [f \in D |-> Of(f)]
  BY DEF P!InitFieldStates
<1>2. ASSUME NEW f \in D
      PROVE  /\ Of(f) \in FieldState
             /\ Of(f).visible <=> ~schema.props[f].hidden
             /\ ~Of(f).disabled
             /\ Of(f).required <=> f \in schema.required
             /\ schema.props[f].type \in {"enum", "multi_enum"} => Of(f).options = schema.props[f].options
             /\ schema.props[f].type \in P!Numeric => Of(f).min = schema.props[f].min
  <2>1. PICK d \in P!Definitions : d = schema.props[f]
    BY SchemaFacts
  <2>2. /\ d.options \in P!Optional(Seq(P!Values))
        /\ d.min \in P!Optional(Int) /\ d.max \in P!Optional(Int) /\ d.hidden \in BOOLEAN
    BY DEF P!Definitions
  <2>3. None \in P!Optional(Seq(P!Values)) /\ None \in P!Optional(Int)
    BY DEF P!Optional
  <2>4. Of(f) \in FieldState
    BY <2>1, <2>2, <2>3 DEF FieldState
  <2>5. QED  BY <2>1, <2>4
<1>3. P!InitFieldStates(schema) \in FieldStates(schema)
  <2> HIDE DEF Of
  <2>1. QED  BY <1>1, <1>2 DEF FieldStates
<1>4. \A f \in D : P!InitFieldStates(schema)[f] = Of(f)
  <2> HIDE DEF Of
  <2>1. QED  BY <1>1
<1> HIDE DEF Of
<1>5. QED  BY <1>2, <1>3, <1>4

\* What an action does to its target, and that it leaves the others alone.
LEMMA ActionFacts ==
    ASSUME NEW schema, P!IsSchema(schema), NEW s \in FieldStates(schema), NEW a \in P!Actions
    PROVE  LET t == P!ApplyAction(s, a, schema)
           IN /\ t \in FieldStates(schema)
              /\ \A f \in DOMAIN schema.props :
                    IF a.target # f THEN t[f] = s[f]
                    ELSE /\ t[f].visible <=> IF a.type \in {"show", "hide"} THEN a.type = "show" ELSE s[f].visible
                         /\ t[f].disabled <=> a.type = "disable" \/ s[f].disabled
                         /\ t[f].required <=> IF a.type = "set_required" THEN a.required ELSE s[f].required
                         /\ t[f].options =
                              IF a.type = "restrict_options"
                              THEN P!Restricted(schema.props[f].options, a.values, s[f].options)
                              ELSE s[f].options
                         /\ t[f].min = IF a.type = "set_range" THEN P!OrElse(a.min, s[f].min) ELSE s[f].min
<1> DEFINE D == DOMAIN schema.props
           t == P!ApplyAction(s, a, schema)
           g == a.target
           u == s[g]
           new == CASE a.type = "restrict_options" ->
                         [u EXCEPT !.options = P!Restricted(schema.props[g].options, a.values, u.options)]
                    [] a.type = "set_range" ->
                         [u EXCEPT !.min = P!OrElse(a.min, u.min), !.max = P!OrElse(a.max, u.max)]
                    [] a.type = "disable" -> [u EXCEPT !.disabled = TRUE]
                    [] a.type = "show" -> [u EXCEPT !.visible = TRUE]
                    [] a.type = "hide" -> [u EXCEPT !.visible = FALSE]
                    [] a.type = "set_required" -> [u EXCEPT !.required = a.required]
                    [] OTHER -> u
<1>1. s \in [D -> FieldState] /\ DOMAIN s = D
  BY DEF FieldStates
<1>2. CASE g \notin D
  <2>1. t = s
    BY <1>1, <1>2 DEF P!ApplyAction
  <2>2. QED  BY <1>2, <2>1
<1>3. CASE g \in D
  <2>1. t = [s EXCEPT ![g] = new]
    BY <1>1, <1>3 DEF P!ApplyAction
  <2>2. u \in FieldState
    BY <1>1, <1>3
  <2>3. /\ a.min \in P!Optional(Int) /\ a.max \in P!Optional(Int)
        /\ a.required \in BOOLEAN /\ a.values \in SUBSET P!Values
    BY DEF P!Actions
  <2>4. P!OrElse(a.min, u.min) \in P!Optional(Int) /\ P!OrElse(a.max, u.max) \in P!Optional(Int)
    BY <2>2, <2>3 DEF P!OrElse, FieldState
  <2>5. P!Restricted(schema.props[g].options, a.values, u.options) \in P!Optional(Seq(P!Values))
    <3>1. PICK o \in P!Optional(Seq(P!Values)) : o = schema.props[g].options
      <4>1. schema.props[g] \in P!Definitions
        BY <1>3, SchemaFacts
      <4>2. QED  BY <4>1 DEF P!Definitions
    <3>2. CASE o = None
      BY <2>2, <3>1, <3>2 DEF P!Restricted, FieldState
    <3>3. CASE o # None
      <4>1. o \in Seq(P!Values)
        BY <3>3 DEF P!Optional
      <4>2. Only(o, a.values) \in Seq(P!Values)
        BY <4>1, OnlyFacts
      <4>3. P!Only(o, a.values) = Only(o, a.values)
        BY DEF P!Only, Only
      <4>4. QED  BY <3>1, <3>3, <4>2, <4>3 DEF P!Restricted, P!Optional
    <3>4. QED  BY <3>2, <3>3
  <2> DEFINE Right(v) ==
         /\ v \in FieldState
         /\ v.visible <=> IF a.type \in {"show", "hide"} THEN a.type = "show" ELSE u.visible
         /\ v.disabled <=> a.type = "disable" \/ u.disabled
         /\ v.required <=> IF a.type = "set_required" THEN a.required ELSE u.required
         /\ v.options = IF a.type = "restrict_options"
                        THEN P!Restricted(schema.props[g].options, a.values, u.options) ELSE u.options
         /\ v.min = IF a.type = "set_range" THEN P!OrElse(a.min, u.min) ELSE u.min
  <2>6. Right(new)
    <3>1. CASE a.type = "restrict_options"
      BY <2>2, <2>5, <3>1 DEF FieldState
    <3>2. CASE a.type = "set_range"
      BY <2>2, <2>4, <3>2 DEF FieldState
    <3>3. CASE a.type = "disable"
      BY <2>2, <3>3 DEF FieldState
    <3>4. CASE a.type = "show"
      BY <2>2, <3>4 DEF FieldState
    <3>5. CASE a.type = "hide"
      BY <2>2, <3>5 DEF FieldState
    <3>6. CASE a.type = "set_required"
      BY <2>2, <2>3, <3>6 DEF FieldState
    <3>7. CASE a.type \notin {"restrict_options", "set_range", "disable", "show", "hide", "set_required"}
      BY <2>2, <3>7
    <3>8. QED  BY <3>1, <3>2, <3>3, <3>4, <3>5, <3>6, <3>7
  <2> HIDE DEF new, u
  <2>7. t \in FieldStates(schema) /\ t[g] = new /\ \A f \in D : f # g => t[f] = s[f]
    BY <1>1, <1>3, <2>1, <2>6 DEF FieldStates
  <2>8. QED  BY <2>6, <2>7 DEF u
<1>4. QED  BY <1>2, <1>3

AfterWalk(f, acts, schema) ==
    f = [n \in 0..Len(acts) |-> IF n = 0 THEN P!InitFieldStates(schema)
                                ELSE P!ApplyAction(f[n - 1], acts[n], schema)]

\* The states after some actions, one after the other.
LEMMA AfterFacts ==
    ASSUME NEW schema, P!IsSchema(schema), NEW acts \in Seq(P!Actions)
    PROVE  \E u \in [0..Len(acts) -> FieldStates(schema)] :
              /\ u[0] = P!InitFieldStates(schema)
              /\ \A n \in 1..Len(acts) : u[n] = P!ApplyAction(u[n - 1], acts[n], schema)
              /\ P!After(acts, schema) = u[Len(acts)]
<1> DEFINE V == FieldStates(schema)
           v == P!InitFieldStates(schema)
           A == P!Actions
<1>1. PICK m \in Nat : m = Len(acts) /\ \A n \in 1..m : acts[n] \in A
  BY ElementsTyped
<1> DEFINE G == [n \in 1..m |-> [s \in V |-> P!ApplyAction(s, acts[n], schema)]]
<1>2. v \in V
  BY InitTyped
<1>3. ASSUME NEW n \in 1..m, NEW s \in V  PROVE P!ApplyAction(s, acts[n], schema) \in V
  BY <1>1, ActionFacts
<1> HIDE DEF V, v
<1>4. WalkOn(V, v, G, m)
  BY <1>1, <1>2, <1>3 DEF WalkOn
<1>5. PICK h \in [0..m -> V] : IsWalk(h, v, G, m)
  <2> HIDE DEF G
  <2>1. QED  BY <1>4, Walks
<1>6. h[0] = v /\ \A n \in 1..m : h[n] = P!ApplyAction(h[n - 1], acts[n], schema)
  <2>1. \A n \in 1..m : h[n - 1] \in V
    BY <1>1
  <2>2. QED  BY <1>5, <2>1 DEF IsWalk
<1>7. \E x : AfterWalk(x, acts, schema)
  <2> DEFINE g == [n \in 0..m |-> IF n = 0 THEN v ELSE P!ApplyAction(h[n - 1], acts[n], schema)]
  <2>1. \A n \in 0..m : h[n] = IF n = 0 THEN v ELSE P!ApplyAction(h[n - 1], acts[n], schema)
    <3>1. \A n \in 0..m : n = 0 \/ n \in 1..m
      BY <1>1
    <3>2. QED  BY <1>6, <3>1
  <2>2. h = [n \in 0..m |-> h[n]]
    OBVIOUS
  <2>3. h = g
    BY <2>1, <2>2
  <2>4. AfterWalk(h, acts, schema)
    BY <1>1, <2>3 DEF AfterWalk, v
  <2>5. QED  BY <2>4
<1> DEFINE w == CHOOSE x : AfterWalk(x, acts, schema)
<1>8. AfterWalk(w, acts, schema)
  BY <1>7
<1>9. P!After(acts, schema) = w[m]
  BY <1>1 DEF P!After, AfterWalk
<1> HIDE DEF w
<1>10. w[0] = v /\ \A n \in 1..m : w[n] = P!ApplyAction(w[n - 1], acts[n], schema)
  <2>1. 0 \in 0..m /\ \A n \in 1..m : n \in 0..m /\ n # 0
    BY <1>1
  <2>2. QED  BY <1>1, <1>8, <2>1 DEF AfterWalk, v
<1> DEFINE B == {n \in 0..m : w[n] = h[n]}
<1>11. m \in B
  <2>1. 0 \in B /\ B \in SUBSET (0..m)
    BY <1>1, <1>6, <1>10
  <2>2. ASSUME NEW n \in 1..m, n - 1 \in B  PROVE n \in B
    <3>1. w[n - 1] = h[n - 1]
      BY <2>2
    <3>2. n \in 0..m
      BY <1>1
    <3>3. QED  BY <1>6, <1>10, <3>1, <3>2
  <2> HIDE DEF B
  <2>3. B = 0..m
    BY <1>1, <2>1, <2>2, UpTo
  <2>4. QED  BY <1>1, <2>3
<1>12. P!After(acts, schema) = h[m]
  BY <1>9, <1>11
<1>13. QED  BY <1>1, <1>6, <1>12 DEF V, v

\* The engine decides as the last constraint on a field says.
LEMMA Decides ==
    ASSUME NEW c, P!IsContract(c), NEW values, None \notin P!Actions \cup Seq(P!Values)
    PROVE  P!DecidedByLast(values, c)
<1> DEFINE schema == c.schema
           D == DOMAIN schema.props
           acts == P!Applying(c.constraints, values)
           states == P!EvaluateConstraints(values, schema, c.constraints)
<1> SUFFICES ASSUME NEW f \in D
             PROVE  LET def == schema.props[f]
                        last(types) == P!LastOf(acts, P!OfType(acts, f, types))
                        shows == last({"show", "hide"})
                        needs == last({"set_required"})
                        keeps == last({"restrict_options"})
                        low   == P!LastOf(acts, {n \in P!OfType(acts, f, {"set_range"}) : acts[n].min # None})
                    IN /\ states[f].visible <=>
                             /\ IF shows = None THEN ~def.hidden ELSE shows.type = "show"
                             /\ def.when = None \/ P!EvaluateCondition(def.when, values)
                       /\ states[f].required <=> IF needs = None THEN f \in schema.required ELSE needs.required
                       /\ def.type = "enum" /\ def.options # None =>
                             P!Entries(states[f].options) =
                             {o \in P!Entries(def.options) : keeps # None => o \in keeps.values}
                       /\ def.type \in P!Numeric => states[f].min = IF low = None THEN def.min ELSE low.min
                       /\ states[f].disabled <=> last({"disable"}) # None
  BY DEF P!DecidedByLast
<1> DEFINE def == schema.props[f]
<1>1. acts \in Seq(P!Actions) /\ P!IsSchema(schema)
  BY ApplyingTyped DEF P!IsContract
<1> HIDE DEF acts
<1>2. PICK m \in Nat : m = Len(acts) /\ DOMAIN acts = 1..m /\ \A n \in 1..m : acts[n] \in P!Actions
  <2>1. Len(acts) \in Nat /\ DOMAIN acts = 1..Len(acts) /\ \A n \in 1..Len(acts) : acts[n] \in P!Actions
    BY <1>1, ElementsTyped
  <2>2. QED  BY <2>1
<1>3. PICK u \in [0..m -> FieldStates(schema)] :
         /\ u[0] = P!InitFieldStates(schema)
         /\ \A n \in 1..m : u[n] = P!ApplyAction(u[n - 1], acts[n], schema)
         /\ P!After(acts, schema) = u[m]
  BY <1>1, <1>2, AfterFacts
<1>4. \A n \in 0..m : u[n] \in FieldStates(schema) /\ u[n][f] \in FieldState
  BY DEF FieldStates
<1>5. ASSUME NEW n \in 1..m
      PROVE  LET a == acts[n]
                 s == u[n - 1][f]
                 t == u[n][f]
             IN IF a.target # f THEN t = s
                ELSE /\ t.visible <=> IF a.type \in {"show", "hide"} THEN a.type = "show" ELSE s.visible
                     /\ t.disabled <=> a.type = "disable" \/ s.disabled
                     /\ t.required <=> IF a.type = "set_required" THEN a.required ELSE s.required
                     /\ t.options = IF a.type = "restrict_options"
                                    THEN P!Restricted(def.options, a.values, s.options) ELSE s.options
                     /\ t.min = IF a.type = "set_range" THEN P!OrElse(a.min, s.min) ELSE s.min
  <2>1. n - 1 \in 0..m
    BY <1>2
  <2>2. u[n - 1] \in FieldStates(schema) /\ acts[n] \in P!Actions
    BY <1>2, <1>4, <2>1
  <2>3. PICK s \in FieldStates(schema), a \in P!Actions : s = u[n - 1] /\ a = acts[n]
    BY <2>2
  <2>4. u[n] = P!ApplyAction(s, a, schema)
    BY <1>3, <2>3
  <2>5. f \in DOMAIN schema.props
    OBVIOUS
  <2> HIDE DEF schema
  <2>6. LET t == P!ApplyAction(s, a, schema)
        IN IF a.target # f THEN t[f] = s[f]
           ELSE /\ t[f].visible <=> IF a.type \in {"show", "hide"} THEN a.type = "show" ELSE s[f].visible
                /\ t[f].disabled <=> a.type = "disable" \/ s[f].disabled
                /\ t[f].required <=> IF a.type = "set_required" THEN a.required ELSE s[f].required
                /\ t[f].options =
                     IF a.type = "restrict_options"
                     THEN P!Restricted(schema.props[f].options, a.values, s[f].options)
                     ELSE s[f].options
                /\ t[f].min = IF a.type = "set_range" THEN P!OrElse(a.min, s[f].min) ELSE s[f].min
    BY <1>1, <2>5, ActionFacts
  <2>7. QED  BY <2>3, <2>4, <2>6
<1>6. /\ states[f].disabled = u[m][f].disabled /\ states[f].required = u[m][f].required
      /\ states[f].options = u[m][f].options /\ states[f].min = u[m][f].min
      /\ states[f].visible <=>
            u[m][f].visible /\ (def.when # None => P!EvaluateCondition(def.when, values))
  <2>1. u[m] \in FieldStates(schema)
    BY <1>2, <1>4
  <2>2. PICK g \in [D -> FieldState] : g = u[m]
    BY <2>1 DEF FieldStates
  <2>3. states = [e \in D |-> [g[e] EXCEPT !.visible =
                    @ /\ (schema.props[e].when # None => P!EvaluateCondition(schema.props[e].when, values))]]
    BY <1>3, <2>2 DEF P!EvaluateConstraints, acts
  <2>4. states[f] = [g[f] EXCEPT !.visible =
                    @ /\ (def.when # None => P!EvaluateCondition(def.when, values))]
    BY <2>3
  <2>5. g[f] \in FieldState
    OBVIOUS
  <2> HIDE DEF states, def
  <2>6. QED  BY <2>2, <2>4, <2>5 DEF FieldState
<1> HIDE DEF states, def
<1> DEFINE Of(types) == {n \in DOMAIN acts : acts[n].target = f /\ acts[n].type \in types}
           last(types) == P!LastOf(acts, P!OfType(acts, f, types))
<1>7. ASSUME NEW T \in SUBSET (1..m), T # {}
      PROVE  P!Max(T) \in 1..m /\ acts[P!Max(T)] \in P!Actions /\ acts[P!Max(T)] # None
  <2>1. T \in SUBSET (0..m)
    BY <1>2
  <2>2. P!Max(T) \in 1..m
    BY <1>2, <1>7, <2>1, MaxFacts
  <2>3. QED  BY <1>2, <2>2
<1>8. u[m][f].visible <=> IF last({"show", "hide"}) = None THEN ~def.hidden ELSE last({"show", "hide"}).type = "show"
  <2> DEFINE T == Of({"show", "hide"})
             w == [n \in 0..m |-> u[n][f].visible]
             h == [n \in 1..m |-> acts[n].type = "show"]
  <2>1. T \in SUBSET (1..m)
    BY <1>2
  <2>2. Settles(w, h, T, m)
    <3>1. ASSUME NEW n \in 1..m  PROVE IF n \in T THEN w[n] = h[n] ELSE w[n] = w[n - 1]
      <4>1. n - 1 \in 0..m /\ n \in 0..m /\ n \in DOMAIN acts
        BY <1>2
      <4>2. PICK t \in FieldState, s \in FieldState, a \in P!Actions :
               t = u[n][f] /\ s = u[n - 1][f] /\ a = acts[n]
        BY <1>2, <1>4, <4>1
      <4>3. IF n \in T THEN t.visible <=> a.type = "show" ELSE t.visible <=> s.visible
        BY <1>5, <4>1, <4>2
      <4>4. t.visible \in BOOLEAN /\ s.visible \in BOOLEAN
        BY DEF FieldState
      <4>5. IF n \in T THEN t.visible = (a.type = "show") ELSE t.visible = s.visible
        BY <4>3, <4>4
      <4>6. w[n] = t.visible /\ w[n - 1] = s.visible /\ h[n] = (a.type = "show")
        BY <4>1, <4>2
      <4>7. QED  BY <4>5, <4>6
    <3>2. QED  BY <3>1 DEF Settles
  <2> HIDE DEF T, w, h
  <2>3. (T = {} => w[m] = w[0]) /\ (T # {} => P!Max(T) \in T /\ w[m] = h[P!Max(T)])
    BY <1>2, <2>1, <2>2, LastDecides
  <2>4. m \in 0..m /\ 0 \in 0..m
    BY <1>2
  <2>5. T # {} => P!Max(T) \in 1..m
    BY <1>7, <2>1
  <2>6. /\ w[m] = u[m][f].visible /\ w[0] = u[0][f].visible
        /\ T # {} => h[P!Max(T)] = (acts[P!Max(T)].type = "show")
    BY <2>4, <2>5 DEF w, h
  <2>7. u[0][f].visible <=> ~def.hidden
    BY <1>1, <1>3, InitTyped DEF def
  <2>8. T # {} => acts[P!Max(T)] # None
    BY <1>7, <2>1
  <2>9. last({"show", "hide"}) = IF T = {} THEN None ELSE acts[P!Max(T)]
    BY DEF T, P!LastOf, P!OfType
  <2> HIDE DEF last
  <2>10. QED  BY <2>3, <2>6, <2>7, <2>8, <2>9
<1>9. u[m][f].required <=> IF last({"set_required"}) = None THEN f \in schema.required ELSE last({"set_required"}).required
  <2> DEFINE T == Of({"set_required"})
             w == [n \in 0..m |-> u[n][f].required]
             h == [n \in 1..m |-> acts[n].required]
  <2>1. T \in SUBSET (1..m)
    BY <1>2
  <2>2. Settles(w, h, T, m)
    <3>1. ASSUME NEW n \in 1..m  PROVE IF n \in T THEN w[n] = h[n] ELSE w[n] = w[n - 1]
      <4>1. n - 1 \in 0..m /\ n \in 0..m /\ n \in DOMAIN acts
        BY <1>2
      <4>2. PICK t \in FieldState, s \in FieldState, a \in P!Actions :
               t = u[n][f] /\ s = u[n - 1][f] /\ a = acts[n]
        BY <1>2, <1>4, <4>1
      <4>3. IF n \in T THEN t.required <=> a.required ELSE t.required <=> s.required
        BY <1>5, <4>1, <4>2
      <4>4. t.required \in BOOLEAN /\ s.required \in BOOLEAN /\ a.required \in BOOLEAN
        BY DEF FieldState, P!Actions
      <4>5. IF n \in T THEN t.required = a.required ELSE t.required = s.required
        BY <4>3, <4>4
      <4>6. w[n] = t.required /\ w[n - 1] = s.required /\ h[n] = a.required
        BY <4>1, <4>2
      <4>7. QED  BY <4>5, <4>6
    <3>2. QED  BY <3>1 DEF Settles
  <2> HIDE DEF T, w, h
  <2>3. (T = {} => w[m] = w[0]) /\ (T # {} => P!Max(T) \in T /\ w[m] = h[P!Max(T)])
    BY <1>2, <2>1, <2>2, LastDecides
  <2>4. m \in 0..m /\ 0 \in 0..m
    BY <1>2
  <2>5. T # {} => P!Max(T) \in 1..m
    BY <1>7, <2>1
  <2>6. /\ w[m] = u[m][f].required /\ w[0] = u[0][f].required
        /\ T # {} => h[P!Max(T)] = acts[P!Max(T)].required
    BY <2>4, <2>5 DEF w, h
  <2>7. u[0][f].required <=> f \in schema.required
    BY <1>1, <1>3, InitTyped
  <2>8. T # {} => acts[P!Max(T)] # None
    BY <1>7, <2>1
  <2>9. last({"set_required"}) = IF T = {} THEN None ELSE acts[P!Max(T)]
    BY DEF T, P!LastOf, P!OfType
  <2> HIDE DEF last
  <2>10. QED  BY <2>3, <2>6, <2>7, <2>8, <2>9
<1>10. u[m][f].disabled <=> last({"disable"}) # None
  <2> DEFINE T == Of({"disable"})
             w == [n \in 0..m |-> u[n][f].disabled]
             h == [n \in 1..m |-> TRUE]
  <2>1. T \in SUBSET (1..m)
    BY <1>2
  <2>2. Settles(w, h, T, m)
    <3>1. ASSUME NEW n \in 1..m  PROVE IF n \in T THEN w[n] = h[n] ELSE w[n] = w[n - 1]
      <4>1. n - 1 \in 0..m /\ n \in 0..m /\ n \in DOMAIN acts
        BY <1>2
      <4>2. PICK t \in FieldState, s \in FieldState, a \in P!Actions :
               t = u[n][f] /\ s = u[n - 1][f] /\ a = acts[n]
        BY <1>2, <1>4, <4>1
      <4>3. IF n \in T THEN t.disabled <=> TRUE ELSE t.disabled <=> s.disabled
        BY <1>5, <4>1, <4>2
      <4>4. t.disabled \in BOOLEAN /\ s.disabled \in BOOLEAN /\ a.required \in BOOLEAN
        BY DEF FieldState, P!Actions
      <4>5. IF n \in T THEN t.disabled = TRUE ELSE t.disabled = s.disabled
        BY <4>3, <4>4
      <4>6. w[n] = t.disabled /\ w[n - 1] = s.disabled /\ h[n] = TRUE
        BY <4>1, <4>2
      <4>7. QED  BY <4>5, <4>6
    <3>2. QED  BY <3>1 DEF Settles
  <2> HIDE DEF T, w, h
  <2>3. (T = {} => w[m] = w[0]) /\ (T # {} => P!Max(T) \in T /\ w[m] = h[P!Max(T)])
    BY <1>2, <2>1, <2>2, LastDecides
  <2>4. m \in 0..m /\ 0 \in 0..m
    BY <1>2
  <2>5. T # {} => P!Max(T) \in 1..m
    BY <1>7, <2>1
  <2>6. /\ w[m] = u[m][f].disabled /\ w[0] = u[0][f].disabled
        /\ T # {} => h[P!Max(T)] = TRUE
    BY <2>4, <2>5 DEF w, h
  <2>7. ~u[0][f].disabled
    BY <1>1, <1>3, InitTyped
  <2>8. T # {} => acts[P!Max(T)] # None
    BY <1>7, <2>1
  <2>9. last({"disable"}) = IF T = {} THEN None ELSE acts[P!Max(T)]
    BY DEF T, P!LastOf, P!OfType
  <2> HIDE DEF last
  <2>10. QED  BY <2>3, <2>6, <2>7, <2>8, <2>9
<1>11. ASSUME def.type = "enum", def.options # None
      PROVE  P!Entries(u[m][f].options) =
             {o \in P!Entries(def.options) : last({"restrict_options"}) # None => o \in last({"restrict_options"}).values}
  <2> DEFINE T == Of({"restrict_options"})
             w == [n \in 0..m |-> u[n][f].options]
             h == [n \in 1..m |-> P!Only(def.options, acts[n].values)]
  <2>1. T \in SUBSET (1..m)
    BY <1>2
  <2>2. Settles(w, h, T, m)
    <3>1. ASSUME NEW n \in 1..m  PROVE IF n \in T THEN w[n] = h[n] ELSE w[n] = w[n - 1]
      <4>1. n - 1 \in 0..m /\ n \in 0..m /\ n \in DOMAIN acts
        BY <1>2
      <4>2. PICK t \in FieldState, s \in FieldState, a \in P!Actions :
               t = u[n][f] /\ s = u[n - 1][f] /\ a = acts[n]
        BY <1>2, <1>4, <4>1
      <4>3. IF n \in T THEN t.options = P!Only(def.options, a.values) ELSE t.options = s.options
        BY <1>5, <1>11, <4>1, <4>2 DEF P!Restricted, P!OrElse
      <4>4. w[n] = t.options /\ w[n - 1] = s.options /\ h[n] = P!Only(def.options, a.values)
        BY <4>1, <4>2
      <4>5. QED  BY <4>3, <4>4
    <3>2. QED  BY <3>1 DEF Settles
  <2> HIDE DEF T, w, h
  <2>3. (T = {} => w[m] = w[0]) /\ (T # {} => P!Max(T) \in T /\ w[m] = h[P!Max(T)])
    BY <1>2, <2>1, <2>2, LastDecides
  <2>4. m \in 0..m /\ 0 \in 0..m
    BY <1>2
  <2>5. T # {} => P!Max(T) \in 1..m
    BY <1>7, <2>1
  <2>6. /\ w[m] = u[m][f].options /\ w[0] = u[0][f].options
        /\ T # {} => h[P!Max(T)] = P!Only(def.options, acts[P!Max(T)].values)
    BY <2>4, <2>5 DEF w, h
  <2>7. u[0][f].options = def.options
    BY <1>1, <1>3, <1>11, InitTyped DEF def
  <2>8. T # {} => acts[P!Max(T)] # None
    BY <1>7, <2>1
  <2>9. last({"restrict_options"}) = IF T = {} THEN None ELSE acts[P!Max(T)]
    BY DEF T, P!LastOf, P!OfType
  <2> HIDE DEF last
  <2>10. def.options \in Seq(P!Values)
    <3>1. def \in P!Definitions
      BY <1>1, SchemaFacts DEF def
    <3>2. QED  BY <1>11, <3>1 DEF P!Definitions, P!Optional
  <2>11. ASSUME NEW S  PROVE P!Entries(P!Only(def.options, S)) = {o \in P!Entries(def.options) : o \in S}
    <3>1. P!Only(def.options, S) = Only(def.options, S)
      BY DEF P!Only, Only
    <3>2. QED  BY <2>10, <3>1, OnlyFacts DEF P!Entries
  <2>12. QED  BY <2>3, <2>6, <2>7, <2>8, <2>9, <2>11
<1> DEFINE low == P!LastOf(acts, {n \in P!OfType(acts, f, {"set_range"}) : acts[n].min # None})
<1>12. ASSUME def.type \in P!Numeric
      PROVE  u[m][f].min = IF low = None THEN def.min ELSE low.min
  <2> DEFINE T == {n \in DOMAIN acts : acts[n].target = f /\ acts[n].type = "set_range" /\ acts[n].min # None}
             w == [n \in 0..m |-> u[n][f].min]
             h == [n \in 1..m |-> acts[n].min]
  <2>1. T \in SUBSET (1..m)
    BY <1>2
  <2>2. Settles(w, h, T, m)
    <3>1. ASSUME NEW n \in 1..m  PROVE IF n \in T THEN w[n] = h[n] ELSE w[n] = w[n - 1]
      <4>1. n - 1 \in 0..m /\ n \in 0..m /\ n \in DOMAIN acts
        BY <1>2
      <4>2. PICK t \in FieldState, s \in FieldState, a \in P!Actions :
               t = u[n][f] /\ s = u[n - 1][f] /\ a = acts[n]
        BY <1>2, <1>4, <4>1
      <4>3. IF n \in T THEN t.min = a.min ELSE t.min = s.min
        BY <1>5, <4>1, <4>2 DEF P!Restricted, P!OrElse
      <4>4. w[n] = t.min /\ w[n - 1] = s.min /\ h[n] = a.min
        BY <4>1, <4>2
      <4>5. QED  BY <4>3, <4>4
    <3>2. QED  BY <3>1 DEF Settles
  <2> HIDE DEF T, w, h
  <2>3. (T = {} => w[m] = w[0]) /\ (T # {} => P!Max(T) \in T /\ w[m] = h[P!Max(T)])
    BY <1>2, <2>1, <2>2, LastDecides
  <2>4. m \in 0..m /\ 0 \in 0..m
    BY <1>2
  <2>5. T # {} => P!Max(T) \in 1..m
    BY <1>7, <2>1
  <2>6. /\ w[m] = u[m][f].min /\ w[0] = u[0][f].min
        /\ T # {} => h[P!Max(T)] = acts[P!Max(T)].min
    BY <2>4, <2>5 DEF w, h
  <2>7. u[0][f].min = def.min
    BY <1>1, <1>3, <1>12, InitTyped DEF def
  <2>8. T # {} => acts[P!Max(T)] # None
    BY <1>7, <2>1
  <2>9. low = IF T = {} THEN None ELSE acts[P!Max(T)]
    BY DEF T, P!LastOf, P!OfType
  <2> HIDE DEF low
  <2>10. QED  BY <2>3, <2>6, <2>7, <2>8, <2>9
<1> HIDE DEF last, low
<1>13. QED  BY <1>6, <1>8, <1>9, <1>10, <1>11, <1>12 DEF last, low, def

(***************************************************************************)
(* Parameters: the forms.                                                  *)
(***************************************************************************)

Revisions == DOMAIN ParamContracts

\* A value that a field with options holds: one that looks like an option, or the
\* default of the definition, which is also what the server completes none to.
Fits(c, f, v) ==
    LET def == c.schema.props[f]
        given == P!OrElse(v, def.default)
    IN /\ given # None
       /\ given = def.default \/ \E i \in DOMAIN def.options : P!Alike(def.options[i], given)
Chips(c) ==
    {f \in Fields \ Hidden : f \in DOMAIN c.schema.props /\ c.schema.props[f].options \notin {None, <<>>}}

LEMMA ContractTyped ==
    ASSUME NEW c \in Revisions
    PROVE  P!IsContract(ParamContracts[c]) /\ P!IsSchema(ParamContracts[c].schema) /\ c # None
BY ParamLimits DEF P!IsContract, Revisions

\* A field with options has a control that offers them.
LEMMA ChipsFacts ==
    ASSUME NEW c, P!IsContract(c), NEW f \in Chips(c)
    PROVE  /\ c # None => P!SpecOf(c, f) # None
           /\ c # None => P!SpecOf(c, f).options = c.schema.props[f].options
           /\ c # None => P!SpecOf(c, f).default =
                             P!OrElse(c.schema.props[f].default, c.schema.props[f].options[1])
           /\ c.schema.props[f].options \in Seq(P!Values) /\ 1 \in DOMAIN c.schema.props[f].options
           /\ Fits(c, f, P!OrElse(c.schema.props[f].default, c.schema.props[f].options[1]))
           /\ \A v : v \in P!Entries(c.schema.props[f].options) => Fits(c, f, v)
<1> DEFINE def == c.schema.props[f]
<1>1. f \in Fields \ Hidden /\ f \in DOMAIN c.schema.props /\ def.options \notin {None, <<>>}
  BY DEF Chips
<1>2. def \in P!Definitions
  <2>1. P!IsSchema(c.schema)
    BY DEF P!IsContract
  <2>2. QED  BY <1>1, <2>1, SchemaFacts
<1>3. PICK o \in Seq(P!Values) : o = def.options
  BY <1>1, <1>2 DEF P!Definitions, P!Optional
<1>4. Len(o) \in Nat /\ DOMAIN o = 1..Len(o) /\ \A n \in 1..Len(o) : o[n] \in P!Values
  BY ElementsTyped
<1>5. 1 \in DOMAIN o
  <2>1. Len(o) # 0
    BY <1>1, <1>3
  <2>2. QED  BY <1>4, <2>1
<1>6. None \notin P!Values
  BY ParamLimits
<1>7. \A v : v \in P!Entries(o) => Fits(c, f, v)
  <2>1. ASSUME NEW v \in P!Entries(o)  PROVE Fits(c, f, v)
    <3>1. PICK i \in DOMAIN o : o[i] = v
      BY DEF P!Entries
    <3>2. v # None /\ P!Alike(o[i], v)
      BY <1>4, <1>6, <3>1 DEF P!Alike
    <3>3. QED  BY <1>3, <3>2 DEF Fits, P!OrElse
  <2>2. QED  BY <2>1
<1>8. o[1] \in P!Entries(o)
  BY <1>5 DEF P!Entries
<1>9. Fits(c, f, P!OrElse(def.default, o[1]))
  <2>1. CASE def.default = None
    BY <1>7, <1>8, <2>1 DEF P!OrElse
  <2>2. CASE def.default # None
    BY <2>2 DEF P!OrElse, Fits
  <2>3. QED  BY <2>1, <2>2
<1>10. ASSUME c # None
       PROVE  /\ P!SpecOf(c, f) = [control |-> "chips", options |-> o, default |-> P!OrElse(def.default, o[1]),
                                   min |-> None, max |-> None]
              /\ P!SpecOf(c, f) # None
  <2> DEFINE spec == [control |-> "chips", options |-> o, default |-> P!OrElse(def.default, o[1]),
                      min |-> None, max |-> None]
  <2>1. P!OrElse(def.options, <<>>) = o /\ o # <<>>
    BY <1>1, <1>3 DEF P!OrElse
  <2>2. P!SpecOf(c, f) = spec
    BY <1>1, <1>10, <2>1 DEF P!SpecOf
  <2>3. spec \in P!Specs
    <3>1. P!OrElse(def.default, o[1]) \in P!Optional(P!Values)
      BY <1>2, <1>4, <1>5 DEF P!OrElse, P!Definitions, P!Optional
    <3>2. None \in P!Optional(Int)
      BY DEF P!Optional
    <3>3. QED  BY <1>3, <3>1, <3>2 DEF P!Specs
  <2>4. spec # None
    BY <2>3, ParamLimits
  <2>5. QED  BY <2>2, <2>4
<1>11. QED  BY <1>3, <1>5, <1>7, <1>9, <1>10

LEMMA ContractIsSome ==
    ASSUME NEW c \in Revisions
    PROVE  ParamContracts[c] # None
BY ParamLimits DEF Revisions

\* What is valid for a control fits.
LEMMA ValidFits ==
    ASSUME NEW c, P!IsContract(c), c # None, NEW f \in Chips(c), NEW v, P!IsValidParamValue(P!SpecOf(c, f), v)
    PROVE  Fits(c, f, v)
<1>1. P!SpecOf(c, f).options = c.schema.props[f].options /\ c.schema.props[f].options # <<>>
  BY ChipsFacts DEF Chips
<1>2. QED  BY <1>1 DEF P!IsValidParamValue, Fits, P!OrElse

\* What the command bar makes of the values for a contract, and what a node sends.
LEMMA ReconciledFits ==
    ASSUME NEW c, P!IsContract(c), c # None, NEW values, NEW f \in Chips(c)
    PROVE  Fits(c, f, P!ReconcileParams(c, values)[f])
<1> DEFINE spec == P!SpecOf(c, f)
           current == P!OrElse(values[f], c.schema.defaults[f])
<1>1. f \in Fields /\ spec # None
  BY ChipsFacts DEF Chips
<1>2. P!ReconcileParams(c, values)[f] = IF P!IsValidParamValue(spec, current) THEN current ELSE spec.default
  BY <1>1 DEF P!ReconcileParams
<1>3. QED  BY <1>2, ChipsFacts, ValidFits

LEMMA SelectedFits ==
    ASSUME NEW c, P!IsContract(c), c # None, NEW values, NEW f \in Chips(c)
    PROVE  Fits(c, f, P!SelectCatalogModelParams(c, values)[f])
<1> DEFINE spec == P!SpecOf(c, f)
           three == <<values[f], c.schema.defaults[f], spec.default>>
           usable == {n \in DOMAIN three : P!IsValidParamValue(spec, three[n])}
<1>1. f \in Fields /\ spec # None
  BY ChipsFacts DEF Chips
<1>2. P!SelectCatalogModelParams(c, values)[f] = P!FirstUsable(spec, three)
  BY <1>1 DEF P!SelectCatalogModelParams
<1>3. DOMAIN three = 1..3 /\ three[1] = values[f] /\ three[3] = spec.default
  OBVIOUS
<1>4. CASE usable # {}
  <2>1. P!Min(usable) \in usable
    <3>1. usable \in SUBSET Nat
      BY <1>3
    <3>2. \E n \in usable : \A k \in usable : n <= k
      <4> HIDE DEF usable
      <4>1. QED  BY <1>4, <3>1, LeastNumber
    <3>3. QED  BY <3>2 DEF P!Min
  <2>2. P!FirstUsable(spec, three) = three[P!Min(usable)]
    BY <1>4 DEF P!FirstUsable
  <2> HIDE DEF three
  <2>3. P!IsValidParamValue(spec, P!FirstUsable(spec, three))
    BY <2>1, <2>2
  <2>4. QED  BY <1>2, <2>3, ValidFits
<1>5. CASE usable = {}
  <2>1. P!FirstUsable(spec, three) = None
    BY <1>5 DEF P!FirstUsable
  <2>2. ~P!IsValidParamValue(spec, spec.default)
    <3>1. 3 \in DOMAIN three
      BY <1>3
    <3> HIDE DEF three
    <3>2. QED  BY <1>3, <1>5, <3>1
  <2>3. c.schema.props[f].default # None
    <3>1. CASE c.schema.props[f].default = None
      <4>1. spec.default = c.schema.props[f].options[1]
        BY <3>1, ChipsFacts DEF P!OrElse
      <4>2. 1 \in DOMAIN spec.options /\ spec.options[1] = spec.default
        BY <4>1, ChipsFacts
      <4>3. spec.default # None
        <5>1. spec.options \in Seq(P!Values)
          BY ChipsFacts
        <5>2. spec.options[1] \in P!Values
          BY <4>2, <5>1, ElementsTyped
        <5>3. QED  BY <4>2, <5>2, ParamLimits
      <4>4. P!IsValidParamValue(spec, spec.default)
        BY <4>2, <4>3 DEF P!IsValidParamValue, P!Alike
      <4>5. QED  BY <2>2, <4>4
    <3>2. QED  BY <3>1
  <2>4. QED  BY <1>2, <2>1, <2>3 DEF Fits, P!OrElse
<1>6. QED  BY <1>4, <1>5

\* What holds of the page and of what was sent, apart.
FormFits(x) ==
    /\ x = [kind |-> x.kind, seen |-> x.seen, ready |-> x.ready, values |-> x.values]
    /\ x.kind \in {"quick", "node"} /\ x.ready \in BOOLEAN
    /\ x.seen \in Revisions \cup {None}
    /\ x.values = [f \in Fields |-> x.values[f]]
    /\ x.kind = "quick" /\ x.seen # None =>
          \A f \in Chips(ParamContracts[x.seen]) : Fits(ParamContracts[x.seen], f, x.values[f])
SentFits(t) ==
    /\ t = [for |-> t.for, pin |-> t.pin, verdict |-> t.verdict, values |-> t.values]
    /\ t.for \in Revisions \cup {None} /\ t.pin \in Revisions \cup {None}
    /\ t.verdict \in {None, "accepted", "refused"}
    /\ t.verdict # None => t.pin # None
    /\ t.values = [f \in Fields |-> t.values[f]]
    /\ t.for # None => \A f \in Chips(ParamContracts[t.for]) : Fits(ParamContracts[t.for], f, t.values[f])
ParamInv ==
    scope = "params" => offered \in Revisions /\ FormFits(fields) /\ (sent # None => SentFits(sent))

LEMMA ParamInit ==
    ASSUME Init
    PROVE  ParamInv
<1> SUFFICES ASSUME scope = "params"  PROVE ParamInv
  BY DEF ParamInv
<1>1. P!Init
  BY DEF Init
<1>2. offered \in Revisions /\ sent = None
  BY <1>1 DEF P!Init, Revisions
<1>3. PICK kind \in {"quick", "node"} :
         fields = [kind |-> kind, seen |-> None, ready |-> FALSE, values |-> P!NoValues]
  BY <1>1 DEF P!Init
<1>4. FormFits(fields)
  BY <1>3 DEF FormFits, P!NoValues
<1>5. QED  BY <1>2, <1>4 DEF ParamInv

LEMMA ParamStep ==
    ASSUME ParamInv, UNCHANGED scope, [P!Next]_paramsVars
    PROVE  ParamInv'
<1> SUFFICES ASSUME scope = "params"  PROVE ParamInv'
  BY DEF ParamInv
<1>1. offered \in Revisions /\ FormFits(fields) /\ (sent # None => SentFits(sent))
  BY DEF ParamInv
<1> DEFINE Goal == offered' \in Revisions /\ FormFits(fields') /\ (sent' # None => SentFits(sent'))
<1> SUFFICES Goal
  BY DEF ParamInv
<1>2. CASE P!LoadSchema
  <2>1. /\ fields' = [fields EXCEPT !.seen = offered, !.ready = TRUE,
                        !.values = IF fields.kind = "quick" THEN P!ReconcileParams(ParamContracts[offered], @)
                                   ELSE P!FillMissing(ParamContracts[offered], @)]
        /\ UNCHANGED <<offered, sent>>
    BY <1>2 DEF P!LoadSchema
  <2> DEFINE c == ParamContracts[offered]
             new == IF fields.kind = "quick" THEN P!ReconcileParams(c, fields.values)
                    ELSE P!FillMissing(c, fields.values)
  <2>2. fields' = [kind |-> fields.kind, seen |-> offered, ready |-> TRUE, values |-> new]
    BY <1>1, <2>1 DEF FormFits
  <2>3. new = [f \in Fields |-> new[f]]
    BY DEF P!ReconcileParams, P!FillMissing
  <2>4. P!IsContract(c) /\ c # None
    BY <1>1, ContractTyped, ContractIsSome
  <2>5. fields.kind = "quick" => \A f \in Chips(c) : Fits(c, f, new[f])
    BY <2>4, ReconciledFits
  <2> HIDE DEF new
  <2>6. FormFits(fields')
    BY <1>1, <2>2, <2>3, <2>5 DEF FormFits
  <2>7. QED  BY <1>1, <2>1, <2>6
<1>3. CASE P!LoadFails \/ P!SwitchOutput \/ (\E c \in Revisions : P!SelectModel(c))
  <2>1. UNCHANGED sent /\ offered' \in Revisions
    BY <1>1, <1>3 DEF P!LoadFails, P!SwitchOutput, P!SelectModel
  <2>2. \/ fields' = [fields EXCEPT !.seen = None, !.ready = TRUE]
        \/ fields' = [fields EXCEPT !.seen = None, !.ready = FALSE]
        \/ fields' = [fields EXCEPT !.seen = None, !.ready = FALSE, !.values = P!NoValues]
    BY <1>3 DEF P!LoadFails, P!SwitchOutput, P!SelectModel
  <2>3. \E ready \in BOOLEAN, values \in {fields.values, P!NoValues} :
           fields' = [kind |-> fields.kind, seen |-> None, ready |-> ready, values |-> values]
    BY <1>1, <2>2 DEF FormFits
  <2>4. FormFits(fields')
    BY <1>1, <2>3 DEF FormFits, P!NoValues
  <2>5. QED  BY <1>1, <2>1, <2>4
<1>4. ASSUME NEW f \in Fields, NEW v, P!SetParam(f, v)
      PROVE  Goal
  <2> DEFINE c == ParamContracts[fields.seen]
             new == [fields.values EXCEPT ![f] = v]
  <2>1. /\ fields.seen # None /\ P!SpecOf(c, f) # None /\ v \in P!Yields(fields.kind, P!SpecOf(c, f))
        /\ fields' = [fields EXCEPT !.values[f] = v]
        /\ UNCHANGED <<offered, sent>>
    BY <1>4 DEF P!SetParam
  <2>2. fields' = [kind |-> fields.kind, seen |-> fields.seen, ready |-> fields.ready, values |-> new]
    BY <1>1, <2>1 DEF FormFits
  <2>3. new = [e \in Fields |-> new[e]] /\ \A e \in Fields : new[e] = IF e = f THEN v ELSE fields.values[e]
    BY <1>1 DEF FormFits
  <2>4. P!IsContract(c) /\ c # None
    BY <1>1, <2>1, ContractTyped, ContractIsSome DEF FormFits
  <2>5. f \in Chips(c) => Fits(c, f, v)
    <3>1. SUFFICES ASSUME f \in Chips(c)  PROVE Fits(c, f, v)
      OBVIOUS
    <3>2. P!SpecOf(c, f).options = c.schema.props[f].options /\ c.schema.props[f].options # <<>>
      BY <2>4, <3>1, ChipsFacts DEF Chips
    <3>3. v \in P!Entries(c.schema.props[f].options)
      BY <2>1, <3>2 DEF P!Yields
    <3>4. QED  BY <2>4, <3>1, <3>3, ChipsFacts
  <2> HIDE DEF new
  <2>6. fields.kind = "quick" => \A e \in Chips(c) : Fits(c, e, new[e])
    BY <1>1, <2>1, <2>3, <2>5 DEF FormFits, Chips
  <2>7. FormFits(fields')
    BY <1>1, <2>2, <2>3, <2>6 DEF FormFits
  <2>8. QED  BY <1>1, <2>1, <2>7
<1>5. ASSUME NEW inputs, P!Submit(inputs)
      PROVE  Goal
  <2>1. PICK r \in IF fields.kind = "quick" THEN {fields.seen} ELSE {offered, None} :
           /\ UNCHANGED <<offered, fields>>
           /\ sent' = [for |-> r, pin |-> None, verdict |-> None,
                       values |-> [f \in Fields |->
                          IF f \in Hidden THEN inputs[f]
                          ELSE (IF fields.kind = "quick" \/ r = None THEN fields.values
                                ELSE P!SelectCatalogModelParams(ParamContracts[r], fields.values))[f]]]
    BY <1>5 DEF P!Submit
  <2> DEFINE params == IF fields.kind = "quick" \/ r = None THEN fields.values
                       ELSE P!SelectCatalogModelParams(ParamContracts[r], fields.values)
             new == [f \in Fields |-> IF f \in Hidden THEN inputs[f] ELSE params[f]]
  <2>2. r \in Revisions \cup {None}
    BY <1>1, <2>1 DEF FormFits
  <2>3. ASSUME r # None, NEW f \in Chips(ParamContracts[r])
        PROVE  Fits(ParamContracts[r], f, new[f])
    <3>1. f \in Fields \ Hidden
      BY <2>3 DEF Chips
    <3>2. new[f] = params[f]
      BY <3>1
    <3>3. P!IsContract(ParamContracts[r]) /\ ParamContracts[r] # None
      BY <2>2, <2>3, ContractTyped, ContractIsSome
    <3>4. CASE fields.kind = "quick"
      BY <1>1, <2>1, <2>3, <3>2, <3>4 DEF FormFits
    <3>5. CASE fields.kind # "quick"
      BY <2>3, <3>2, <3>3, <3>5, SelectedFits
    <3>6. QED  BY <3>4, <3>5
  <2>4. new = [f \in Fields |-> new[f]]
    OBVIOUS
  <2>5. sent' = [for |-> r, pin |-> None, verdict |-> None, values |-> new]
    BY <2>1
  <2> HIDE DEF new
  <2>6. SentFits(sent')
    BY <2>2, <2>3, <2>4, <2>5 DEF SentFits
  <2>7. QED  BY <1>1, <2>1, <2>6
<1>6. CASE P!Create
  <2>1. sent # None /\ sent' = [sent EXCEPT !.pin = offered] /\ UNCHANGED <<offered, fields>>
    BY <1>6 DEF P!Create
  <2>2. sent' = [for |-> sent.for, pin |-> offered, verdict |-> sent.verdict, values |-> sent.values]
    BY <1>1, <2>1 DEF SentFits
  <2>3. offered # None
    BY <1>1, ContractTyped
  <2>4. SentFits(sent')
    BY <1>1, <2>1, <2>2, <2>3 DEF SentFits
  <2>5. QED  BY <1>1, <2>1, <2>4
<1>7. CASE P!Execute
  <2>1. /\ sent # None /\ sent.pin # None /\ UNCHANGED <<offered, fields>>
        /\ \E verdict \in {"accepted", "refused"} : sent' = [sent EXCEPT !.verdict = verdict]
    BY <1>7 DEF P!Execute
  <2>2. PICK verdict \in {"accepted", "refused"} :
           sent' = [for |-> sent.for, pin |-> sent.pin, verdict |-> verdict, values |-> sent.values]
    BY <1>1, <2>1 DEF SentFits
  <2>3. SentFits(sent')
    BY <1>1, <2>1, <2>2 DEF SentFits
  <2>4. QED  BY <1>1, <2>1, <2>3
<1>8. CASE \E c \in Revisions : P!Republish(c)
  BY <1>1, <1>8 DEF P!Republish
<1>9. CASE UNCHANGED paramsVars
  BY <1>1, <1>9 DEF paramsVars
<1>10. QED
  BY <1>2, <1>3, <1>4, <1>5, <1>6, <1>7, <1>8, <1>9 DEF P!Next, Revisions

LEMMA ParamsHold == Spec => []ParamInv
<1>1. Init => ParamInv
  BY ParamInit
<1>2. ParamInv /\ [Next]_vars => ParamInv'
  <2> SUFFICES ASSUME ParamInv, [Next]_vars  PROVE ParamInv'
    OBVIOUS
  <2>1. UNCHANGED scope /\ [P!Next]_paramsVars
    BY OneMoves
  <2>2. QED  BY <2>1, ParamStep
<1>3. QED  BY <1>1, <1>2, PTL DEF Spec

\* The state that the engine gives a field is the one that the last constraint on it
\* asks for, whatever the contract, the values and the order of the constraints
\* (evaluateConstraints in packages/constraint-engine).
THEOREM EngineDecidesCorrect == Spec => []EngineDecides
<1>1. ParamInv => EngineDecides
  <2> SUFFICES ASSUME ParamInv, scope = "params"  PROVE P!EngineDecides
    BY DEF EngineDecides
  <2> DEFINE r == P!OrElse(fields.seen, offered)
             c == ParamContracts[r]
             values == P!Resolved(fields.values, c.schema)
  <2>1. r \in Revisions
    BY DEF ParamInv, FormFits, P!OrElse
  <2>2. P!IsContract(c)
    BY <2>1, ContractTyped
  <2>3. None \notin P!Actions \cup Seq(P!Values)
    BY ParamLimits
  <2> HIDE DEF r, values
  <2>4. P!DecidedByLast(values, c)
    BY <2>2, <2>3, Decides
  <2>5. QED  BY <2>4 DEF P!EngineDecides, r, values
<1>2. QED  BY <1>1, ParamsHold, PTL

\* A value with options that the server refuses was not one of them, or the constraints
\* had narrowed them: it looked like one, or was a default that is none.
LEMMA RefusedGap ==
    ASSUME NEW t, SentFits(t), t.for = t.pin, t.pin # None, NEW f,
           f \in P!InvalidFields(t.values, ParamContracts[t.pin].schema, ParamContracts[t.pin].constraints)
    PROVE  P!KnownGap(t, f)
<1> DEFINE c == ParamContracts[t.pin]
           schema == c.schema
           def == schema.props[f]
           resolved == P!Resolved(t.values, schema)
           v == resolved[f]
           states == P!EvaluateConstraints(resolved, schema, c.constraints)
<1> SUFFICES ASSUME def.options \notin {None, <<>>}, f \notin Hidden, def.type = "enum",
                    states[f].options = def.options
             PROVE  /\ v # None /\ v \notin P!Entries(def.options)
                    /\ \/ v \in {def.default, schema.defaults[f]}
                       \/ \E i \in DOMAIN def.options : P!Alike(v, def.options[i])
  BY DEF P!KnownGap
<1>1. P!IsContract(c) /\ P!IsSchema(schema)
  BY ContractTyped DEF SentFits
<1>2. /\ f \in DOMAIN schema.props
      /\ v # None => ~P!FieldValueValid(v, def, states[f])
  BY DEF P!InvalidFields
<1>3. f \in Fields /\ f \in Chips(c)
  BY <1>1, <1>2, SchemaFacts DEF Chips
<1>4. Fits(c, f, t.values[f])
  BY <1>3 DEF SentFits
<1>5. v = P!OrElse(t.values[f], P!OrElse(def.default, schema.defaults[f]))
  BY <1>2, <1>3 DEF P!Resolved
<1>6. v = P!OrElse(t.values[f], def.default)
  BY <1>4, <1>5 DEF Fits, P!OrElse
<1>7. v # None /\ (v = def.default \/ \E i \in DOMAIN def.options : P!Alike(def.options[i], v))
  BY <1>4, <1>6 DEF Fits
<1>8. v \notin P!Entries(def.options)
  <2>1. P!OrElse(states[f].options, def.options) = def.options
    BY DEF P!OrElse
  <2>2. def.type \notin P!Numeric /\ def.type # "boolean" /\ def.type = "enum"
    BY DEF P!Numeric
  <2> HIDE DEF v, def, states
  <2>3. P!FieldValueValid(v, def, states[f]) <=> v \in P!Entries(def.options)
    BY <2>1, <2>2 DEF P!FieldValueValid, states, def
  <2>4. QED  BY <1>2, <1>7, <2>3 DEF v, def, states
<1>9. QED  BY <1>7, <1>8 DEF P!Alike

LEMMA ParamsAgree == Spec => [](scope = "params" => P!ParamsAccepted)
<1>1. ParamInv => (scope = "params" => P!ParamsAccepted)
  <2> SUFFICES ASSUME ParamInv, scope = "params", sent # None, sent.verdict = "refused", sent.for = sent.pin,
                      NEW f \in P!InvalidFields(sent.values, ParamContracts[sent.pin].schema,
                                                ParamContracts[sent.pin].constraints)
               PROVE  P!KnownGap(sent, f)
    BY DEF P!ParamsAccepted
  <2>1. SentFits(sent) /\ sent.pin # None
    <3>1. SentFits(sent)
      BY DEF ParamInv
    <3>2. "refused" # None
      BY ParamLimits
    <3>3. QED  BY <3>1, <3>2 DEF SentFits
  <2>2. QED  BY <2>1, RefusedGap
<1>2. QED  BY <1>1, ParamsHold, PTL

(***************************************************************************)
(* Sums of lists.                                                          *)
(***************************************************************************)

TotalWalk(f, w) == f = [n \in 0..Len(w) |-> IF n = 0 THEN 0 ELSE f[n - 1] + w[n]]
Sums(u, w) == u[0] = 0 /\ \A n \in 1..Len(w) : u[n] = u[n - 1] + w[n]

LEMMA SumsExist ==
    ASSUME NEW w \in Seq(Nat)
    PROVE  \E u \in [0..Len(w) -> Nat] : Sums(u, w)
<1>1. PICK m \in Nat : m = Len(w) /\ \A n \in 1..m : w[n] \in Nat
  BY ElementsTyped
<1> DEFINE G == [n \in 1..m |-> [s \in Nat |-> s + w[n]]]
<1>2. WalkOn(Nat, 0, G, m)
  BY <1>1 DEF WalkOn
<1>3. PICK h \in [0..m -> Nat] : IsWalk(h, 0, G, m)
  <2> HIDE DEF G
  <2>1. QED  BY <1>2, Walks
<1>4. \A n \in 1..m : h[n] = h[n - 1] + w[n]
  <2>1. \A n \in 1..m : h[n - 1] \in Nat
    <3> HIDE DEF G
    <3>1. \A n \in 1..m : n - 1 \in 0..m
      BY <1>1
    <3>2. QED  BY <3>1
  <2>2. QED  BY <1>3, <2>1 DEF IsWalk
<1>5. QED  BY <1>1, <1>3, <1>4 DEF Sums, IsWalk

LEMMA TotalIs ==
    ASSUME NEW w \in Seq(Nat), NEW u, Sums(u, w)
    PROVE  Total(w) = u[Len(w)]
<1>1. PICK h \in [0..Len(w) -> Nat] : Sums(h, w)
  BY SumsExist
<1>2. PICK m \in Nat : m = Len(w)
  BY ElementsTyped
<1>3. \E x : TotalWalk(x, w)
  <2> DEFINE g == [n \in 0..m |-> IF n = 0 THEN 0 ELSE h[n - 1] + w[n]]
  <2>1. \A n \in 0..m : h[n] = IF n = 0 THEN 0 ELSE h[n - 1] + w[n]
    <3>1. \A n \in 0..m : n = 0 \/ n \in 1..m
      BY <1>2
    <3>2. QED  BY <1>1, <1>2, <3>1 DEF Sums
  <2>2. h = [n \in 0..m |-> h[n]]
    BY <1>2
  <2>3. h = g
    BY <2>1, <2>2
  <2>4. TotalWalk(h, w)
    BY <1>2, <2>3 DEF TotalWalk
  <2>5. QED  BY <2>4
<1> DEFINE c == CHOOSE x : TotalWalk(x, w)
<1>4. TotalWalk(c, w)
  BY <1>3
<1>5. Total(w) = c[m]
  BY <1>2 DEF Total, TotalWalk
<1> HIDE DEF c
<1>6. c[0] = 0 /\ \A n \in 1..m : c[n] = c[n - 1] + w[n]
  <2>1. 0 \in 0..m /\ \A n \in 1..m : n \in 0..m /\ n # 0
    BY <1>2
  <2>2. QED  BY <1>2, <1>4, <2>1 DEF TotalWalk
<1> DEFINE B == {n \in 0..m : c[n] = u[n]}
<1>7. m \in B
  <2>1. 0 \in B /\ B \in SUBSET (0..m)
    BY <1>2, <1>6 DEF Sums
  <2>2. ASSUME NEW n \in 1..m, n - 1 \in B  PROVE n \in B
    <3>1. c[n - 1] = u[n - 1] /\ n \in 0..m
      BY <1>2, <2>2
    <3>2. QED  BY <1>2, <1>6, <3>1 DEF Sums
  <2> HIDE DEF B
  <2>3. B = 0..m
    BY <1>2, <2>1, <2>2, UpTo
  <2>4. QED  BY <1>2, <2>3
<1>8. QED  BY <1>2, <1>5, <1>7

LEMMA TotalTyped ==
    ASSUME NEW w \in Seq(Nat)
    PROVE  Total(w) \in Nat /\ (Len(w) = 0 => Total(w) = 0)
<1>1. PICK u \in [0..Len(w) -> Nat] : Sums(u, w)
  BY SumsExist
<1>2. Len(w) \in Nat
  BY ElementsTyped
<1>3. Total(w) = u[Len(w)]
  BY <1>1, TotalIs
<1>4. QED  BY <1>1, <1>2, <1>3 DEF Sums

\* The sum of two lists, one after the other.
LEMMA TotalConcat ==
    ASSUME NEW a \in Seq(Nat), NEW b \in Seq(Nat)
    PROVE  Total(a \o b) = Total(a) + Total(b)
<1>1. PICK x \in [0..Len(a) -> Nat] : Sums(x, a)
  BY SumsExist
<1>2. PICK y \in [0..Len(b) -> Nat] : Sums(y, b)
  BY SumsExist
<1>3. PICK k \in Nat, l \in Nat : k = Len(a) /\ l = Len(b)
  BY ElementsTyped
<1>4. /\ a \o b \in Seq(Nat) /\ Len(a \o b) = k + l
      /\ \A n \in 1..k : (a \o b)[n] = a[n]
      /\ \A n \in 1..l : (a \o b)[k + n] = b[n]
  <2>1. a \o b \in Seq(Nat) /\ Len(a \o b) = Len(a) + Len(b)
    OBVIOUS
  <2>2. \A n \in 1..(Len(a) + Len(b)) : (a \o b)[n] = IF n <= Len(a) THEN a[n] ELSE b[n - Len(a)]
    OBVIOUS
  <2>3. \A n \in 1..k : n \in 1..(k + l) /\ n <= k
    OBVIOUS
  <2>4. \A n \in 1..l : k + n \in 1..(k + l) /\ ~(k + n <= k) /\ (k + n) - k = n
    OBVIOUS
  <2>5. QED  BY <1>3, <2>1, <2>2, <2>3, <2>4
<1>5. PICK u : u = [n \in 0..(k + l) |-> IF n <= k THEN x[n] ELSE x[k] + y[n - k]]
  OBVIOUS
<1>50. \A n \in 0..(k + l) : n <= k => u[n] = x[n]
  BY <1>5
<1>51. \A n \in 0..(k + l) : ~(n <= k) => u[n] = x[k] + y[n - k]
  BY <1>5
<1>52. u[0] = 0 /\ u[k + l] = x[k] + y[l]
  <2>1. x[0] = 0 /\ y[0] = 0
    BY <1>1, <1>2 DEF Sums
  <2>2. x[k] \in Nat
    <3>1. k \in 0..Len(a)
      BY <1>3
    <3>2. QED  BY <1>1, <3>1
  <2>3. 0 <= k /\ 0 \in 0..(k + l) /\ k + l \in 0..(k + l)
    OBVIOUS
  <2>4. u[0] = 0
    BY <1>50, <2>1, <2>3
  <2>5. CASE l = 0
    <3>1. k + l <= k /\ k + l = k
      BY <2>5
    <3>2. u[k + l] = x[k]
      BY <1>50, <2>3, <3>1
    <3>3. QED  BY <2>1, <2>2, <2>4, <2>5, <3>2
  <2>6. CASE l # 0
    <3>1. ~(k + l <= k) /\ (k + l) - k = l
      BY <2>6
    <3>2. QED  BY <1>51, <2>3, <2>4, <3>1
  <2>7. QED  BY <2>5, <2>6
<1>53. ASSUME NEW n \in 1..(k + l), n <= k
       PROVE  u[n] = u[n - 1] + (a \o b)[n]
  <2>1. n \in 1..k /\ n - 1 <= k /\ n - 1 \in 0..(k + l) /\ n \in 0..(k + l)
    BY <1>53
  <2>2. x[n] = x[n - 1] + a[n]
    BY <1>1, <1>3, <2>1 DEF Sums
  <2>3. u[n] = x[n] /\ u[n - 1] = x[n - 1]
    BY <1>50, <1>53, <2>1
  <2>4. (a \o b)[n] = a[n]
    BY <1>4, <2>1
  <2>5. QED  BY <2>2, <2>3, <2>4
<1>54. ASSUME NEW n \in 1..(k + l), ~(n <= k)
       PROVE  u[n] = u[n - 1] + (a \o b)[n]
  <2>1. PICK j \in 1..l : n = k + j
    <3>1. n - k \in 1..l /\ n = k + (n - k)
      BY <1>54
    <3>2. QED  BY <3>1
  <2>2. y[j] = y[j - 1] + b[j] /\ y[0] = 0
    BY <1>2, <1>3 DEF Sums
  <2>3. u[n] = x[k] + y[j]
    <3>1. n \in 0..(k + l) /\ n - k = j
      BY <2>1
    <3>2. QED  BY <1>51, <1>54, <3>1
  <2>4. x[k] \in Nat /\ y[j - 1] \in Nat /\ b[j] \in Nat
    <3>1. k \in 0..Len(a) /\ j - 1 \in 0..Len(b) /\ j \in 1..Len(b)
      BY <1>3
    <3>2. x[k] \in Nat /\ y[j - 1] \in Nat
      BY <1>1, <1>2, <3>1
    <3>3. b[j] \in Nat
      BY <3>1, ElementsTyped
    <3>4. QED  BY <3>2, <3>3
  <2>5. u[n - 1] = x[k] + y[j - 1]
    <3>1. CASE j = 1
      <4>1. n - 1 = k /\ k \in 0..(k + l) /\ k <= k /\ j - 1 = 0
        BY <2>1, <3>1
      <4>2. u[n - 1] = x[k]
        BY <1>50, <4>1
      <4>3. y[j - 1] = 0
        BY <2>2, <4>1
      <4>4. QED  BY <2>4, <4>2, <4>3
    <3>2. CASE j # 1
      <4>1. n - 1 \in 0..(k + l) /\ ~(n - 1 <= k) /\ (n - 1) - k = j - 1
        BY <2>1, <3>2
      <4>2. QED  BY <1>51, <4>1
    <3>3. QED  BY <3>1, <3>2
  <2>6. (a \o b)[n] = b[j]
    BY <1>4, <2>1
  <2>7. PICK p \in Nat, q \in Nat, r \in Nat : p = x[k] /\ q = y[j - 1] /\ r = b[j]
    BY <2>4
  <2>8. u[n] = p + (q + r)
    BY <2>2, <2>3, <2>7
  <2>9. u[n - 1] = p + q /\ (a \o b)[n] = r
    BY <2>5, <2>6, <2>7
  <2>10. p + (q + r) = (p + q) + r
    OBVIOUS
  <2>11. QED  BY <2>8, <2>9, <2>10
<1>6. \A n \in 1..(k + l) : u[n] = u[n - 1] + (a \o b)[n]
  BY <1>53, <1>54
<1>7. Sums(u, a \o b)
  BY <1>4, <1>52, <1>6 DEF Sums
<1>8. Total(a \o b) = u[k + l]
  BY <1>4, <1>7, TotalIs
<1>9. Total(a) = x[k] /\ Total(b) = y[l]
  BY <1>1, <1>2, <1>3, TotalIs
<1>10. QED  BY <1>52, <1>8, <1>9

\* The sum of a number and of nothing, so many times.
LEMMA TotalEach ==
    ASSUME NEW k \in Nat, NEW e \in {0, 1}
    PROVE  /\ [i \in 1..k |-> e] \in Seq(Nat)
           /\ Total([i \in 1..k |-> e]) = IF e = 1 THEN k ELSE 0
<1> DEFINE w == [i \in 1..k |-> e]
           u == [n \in 0..k |-> IF e = 1 THEN n ELSE 0]
<1>1. w \in Seq(Nat) /\ Len(w) = k /\ \A n \in 1..k : w[n] = e
  OBVIOUS
<1>2. u[0] = 0 /\ u[k] = IF e = 1 THEN k ELSE 0
  OBVIOUS
<1>3. \A n \in 1..k : u[n] = u[n - 1] + e
  OBVIOUS
<1> HIDE DEF w, u
<1>4. Sums(u, w)
  BY <1>1, <1>2, <1>3 DEF Sums
<1>5. Total(w) = u[k]
  BY <1>1, <1>4, TotalIs
<1>6. QED  BY <1>1, <1>2, <1>5 DEF w

(***************************************************************************)
(* Inputs: lists of references.                                            *)
(***************************************************************************)

\* What obeys the steps stays where they lead.
Obeys(w, V, G, m) == \A n \in 1..m : w[n - 1] \in V => w[n] = G[n][w[n - 1]]

LEMMA Stays ==
    ASSUME NEW V, NEW v, NEW G, NEW m, WalkOn(V, v, G, m), NEW w, w[0] = v, Obeys(w, V, G, m)
    PROVE  \A n \in 0..m : w[n] \in V
<1>1. v \in V /\ m \in Nat /\ \A n \in 1..m, s \in V : G[n][s] \in V
  BY DEF WalkOn
<1> DEFINE B == {n \in 0..m : w[n] \in V}
<1>2. 0 \in B /\ B \in SUBSET (0..m)
  BY <1>1
<1>3. ASSUME NEW n \in 1..m, n - 1 \in B  PROVE n \in B
  BY <1>1, <1>3 DEF Obeys
<1>4. B = 0..m
  <2> HIDE DEF B
  <2>1. QED  BY <1>1, <1>2, <1>3, UpTo
<1>5. QED  BY <1>4

\* The names of slots: those of contracts, and those that the forms give of their own.
Names ==
    STRING \cup {"source_image", "mask", "reference_image", "driving_audio", "source_video",
                 "first_frame", "last_frame"}
Refs ==
    [slot : Names, type : R!ReferenceTypes, asset : Assets \cup {None}, entry : LibraryEntries \cup {None},
     units : Nat]

\* A reference to an asset is of its media, and one to an entry counts its assets.
GoodRefs ==
    {r \in Refs : IF r.entry = None
                  THEN r.type \notin {"json", "library_ref"} => AssetType[r.asset] = R!ReferenceAssetType(r.type)
                  ELSE r.units > 0}

LEMMA SeqOf ==
    ASSUME NEW S, NEW m \in Nat, NEW f \in [1..m -> S]
    PROVE  f \in Seq(S) /\ Len(f) = m /\ DOMAIN f = 1..m
OBVIOUS

LEMMA SameOnly ==
    ASSUME NEW c, NEW S
    PROVE  R!Only(c, S) = Only(c, S)
BY DEF R!Only, Only

LEMMA SameTotal ==
    ASSUME NEW c
    PROVE  R!Total(c) = Total(c)
BY DEF R!Total, Total

\* The first of those that pass.
LEMMA FirstOnly ==
    ASSUME NEW T, None \notin T, NEW c \in Seq(T), NEW S
    PROVE  /\ R!Only(c, S) \in Seq(T)
           /\ R!First(R!Only(c, S)) = None => \A k \in DOMAIN c : c[k] \notin S
           /\ R!First(R!Only(c, S)) # None =>
                 \E k \in DOMAIN c : c[k] \in S /\ R!First(R!Only(c, S)) = c[k]
<1> DEFINE o == R!Only(c, S)
<1>1. o = Only(c, S)
  BY SameOnly
<1>2. /\ o \in Seq(T)
      /\ \A n \in DOMAIN o : \E k \in DOMAIN c : c[k] = o[n] /\ c[k] \in S
      /\ \A k \in DOMAIN c : c[k] \in S => \E n \in DOMAIN o : o[n] = c[k]
  BY <1>1, OnlyFacts
<1> HIDE DEF o
<1>3. CASE o = <<>>
  <2>1. DOMAIN o = {}
    BY <1>3
  <2>2. R!First(o) = None
    BY <1>3 DEF R!First
  <2>3. QED  BY <1>2, <2>1, <2>2 DEF o
<1>4. CASE o # <<>>
  <2>1. 1 \in DOMAIN o /\ o[1] \in T
    BY <1>2, <1>4
  <2>2. R!First(o) = o[1] /\ o[1] # None
    BY <1>4, <2>1 DEF R!First
  <2>3. PICK k \in DOMAIN c : c[k] = o[1] /\ c[k] \in S
    BY <1>2, <2>1
  <2>4. QED  BY <1>2, <2>2, <2>3 DEF o
<1>5. QED  BY <1>3, <1>4

LEMMA InRange ==
    ASSUME NEW c
    PROVE  \A k \in DOMAIN c : c[k] \in R!Range(c)
BY DEF R!Range

\* The units of a slot.
Weights(refs, slot) == [i \in DOMAIN refs |-> IF refs[i].slot = slot THEN R!UnitsOf(refs[i]) ELSE 0]

LEMMA WeightsTyped ==
    ASSUME NEW refs \in Seq(Refs), NEW slot
    PROVE  /\ Weights(refs, slot) \in Seq(Nat) /\ Len(Weights(refs, slot)) = Len(refs)
           /\ R!Units(refs, slot) = Total(Weights(refs, slot)) /\ R!Units(refs, slot) \in Nat
<1>1. PICK m \in Nat : m = Len(refs) /\ DOMAIN refs = 1..m /\ \A n \in 1..m : refs[n] \in Refs
  BY ElementsTyped
<1>2. \A n \in 1..m : R!UnitsOf(refs[n]) \in Nat
  <2>1. \A r \in Refs : R!UnitsOf(r) \in Nat
    BY DEF R!UnitsOf, Refs
  <2>2. QED  BY <1>1, <2>1
<1>3. Weights(refs, slot) = [i \in 1..m |-> IF refs[i].slot = slot THEN R!UnitsOf(refs[i]) ELSE 0]
  BY <1>1 DEF Weights
<1> DEFINE w == [i \in 1..m |-> IF refs[i].slot = slot THEN R!UnitsOf(refs[i]) ELSE 0]
<1>4. w \in [1..m -> Nat]
  BY <1>2
<1> HIDE DEF w
<1>5. w \in Seq(Nat) /\ Len(w) = m
  BY <1>4
<1>6. R!Units(refs, slot) = Total(w)
  BY <1>3, SameTotal DEF R!Units, Weights, w
<1>7. QED  BY <1>1, <1>3, <1>5, <1>6, TotalTyped DEF w

\* One more adds its own.
LEMMA TotalLonger ==
    ASSUME NEW a \in Seq(Nat), NEW c \in Seq(Nat), Len(c) = Len(a) + 1, \A i \in 1..Len(a) : c[i] = a[i]
    PROVE  Total(c) = Total(a) + c[Len(c)]
<1>1. PICK m \in Nat : m = Len(a)
  BY ElementsTyped
<1>2. PICK u \in [0..Len(c) -> Nat] : Sums(u, c)
  BY SumsExist
<1>3. Sums(u, a)
  <2>1. \A n \in 1..m : n \in 1..(m + 1)
    OBVIOUS
  <2>2. QED  BY <1>1, <1>2, <2>1 DEF Sums
<1>4. Total(a) = u[m] /\ Total(c) = u[m + 1]
  BY <1>1, <1>2, <1>3, TotalIs
<1>5. m + 1 \in 1..(m + 1) /\ (m + 1) - 1 = m
  OBVIOUS
<1>6. u[m + 1] = u[m] + c[m + 1]
  BY <1>1, <1>2, <1>5 DEF Sums
<1>7. QED  BY <1>1, <1>4, <1>6

LEMMA UnitsAppend ==
    ASSUME NEW refs \in Seq(Refs), NEW r \in Refs, NEW slot
    PROVE  /\ R!Units(<<>>, slot) = 0
           /\ R!Units(Append(refs, r), slot) =
                 R!Units(refs, slot) + (IF r.slot = slot THEN R!UnitsOf(r) ELSE 0)
<1>1. R!Units(<<>>, slot) = 0
  <2>1. <<>> \in Seq(Refs) /\ Len(<<>>) = 0
    OBVIOUS
  <2>2. QED  BY <2>1, WeightsTyped, TotalTyped
<1>2. PICK m \in Nat : m = Len(refs) /\ DOMAIN refs = 1..m
  BY ElementsTyped
<1>3. /\ Append(refs, r) \in Seq(Refs) /\ Len(Append(refs, r)) = m + 1
      /\ \A i \in 1..m : Append(refs, r)[i] = refs[i]
      /\ Append(refs, r)[m + 1] = r
  BY <1>2, AppendProperties
<1>4. DOMAIN Append(refs, r) = 1..(m + 1)
  BY <1>3, ElementsTyped
<1>5. PICK a \in Seq(Nat) : a = Weights(refs, slot)
  BY WeightsTyped
<1>6. PICK c \in Seq(Nat) : c = Weights(Append(refs, r), slot)
  BY <1>3, WeightsTyped
<1>7. Len(a) = m /\ Len(c) = m + 1
  BY <1>2, <1>3, <1>5, <1>6, WeightsTyped
<1>8. \A i \in 1..m : c[i] = a[i]
  <2>1. \A i \in 1..m : i \in 1..(m + 1)
    OBVIOUS
  <2>2. QED  BY <1>2, <1>3, <1>4, <1>5, <1>6, <2>1 DEF Weights
<1>9. c[m + 1] = IF r.slot = slot THEN R!UnitsOf(r) ELSE 0
  <2>1. m + 1 \in 1..(m + 1)
    OBVIOUS
  <2>2. QED  BY <1>3, <1>4, <1>6, <2>1 DEF Weights
<1>10. Total(c) = Total(a) + c[m + 1]
  BY <1>7, <1>8, TotalLonger
<1>11. QED  BY <1>1, <1>3, <1>5, <1>6, <1>9, <1>10, WeightsTyped

(***************************************************************************)
(* Inputs: contracts and their modes.                                      *)
(***************************************************************************)

\* The slots of a contract, and those that a kind of node declares.
NodeSlots ==
    [port : {"reference", "mask", "audio_ref"}, advanced : BOOLEAN, required : BOOLEAN,
     slot : Names, type : R!ReferenceTypes, min : {None}, max : {None}, lib : {None}]
AnySlots == R!Slots \cup NodeSlots

LEMMA SlotFacts ==
    ASSUME NEW s \in AnySlots
    PROVE  s.slot \in Names /\ s.type \in R!ReferenceTypes /\ s.max \in Nat \cup {None}
BY DEF AnySlots, NodeSlots, R!Slots, Names, R!Optional

LEMMA ModeFacts ==
    ASSUME NEW mode \in R!Modes
    PROVE  mode # None /\ mode.id \in STRING /\ mode.id # None /\ mode.slots \in Seq(R!Slots)
BY InputLimits DEF R!Modes

\* A mode is found by its name.
LEMMA ModeFound ==
    ASSUME NEW c, c.modes \in Seq(R!Modes), NEW id
    PROVE  \/ R!ModeOf(c, id) = None /\ \A i \in DOMAIN c.modes : c.modes[i].id # id
           \/ \E i \in DOMAIN c.modes : c.modes[i].id = id /\ R!ModeOf(c, id) = c.modes[i]
<1> DEFINE S == {m \in R!Range(c.modes) : m.id = id}
<1>1. R!ModeOf(c, id) = R!First(R!Only(c.modes, S))
  BY DEF R!ModeOf, R!Select
<1>2. None \notin R!Modes
  BY InputLimits
<1>3. \A i \in DOMAIN c.modes : c.modes[i] \in S <=> c.modes[i].id = id
  BY InRange
<1> HIDE DEF S
<1>4. /\ R!First(R!Only(c.modes, S)) = None => \A k \in DOMAIN c.modes : c.modes[k] \notin S
      /\ R!First(R!Only(c.modes, S)) # None =>
            \E k \in DOMAIN c.modes : c.modes[k] \in S /\ R!First(R!Only(c.modes, S)) = c.modes[k]
  BY <1>2, FirstOnly
<1>5. QED  BY <1>1, <1>3, <1>4

\* The mode that a form sends is one of the contract.
LEMMA Ensured ==
    ASSUME NEW c, c # None, c.modes \in Seq(R!Modes), R!ContractValid(c), NEW mode
    PROVE  /\ R!EnsureInputMode(c, mode) # None
           /\ R!ModeOf(c, R!EnsureInputMode(c, mode)) \in R!Modes
           /\ R!ModeContract(c, R!EnsureInputMode(c, mode)) = R!ModeOf(c, R!EnsureInputMode(c, mode))
           /\ \E i \in DOMAIN c.modes : R!ModeOf(c, R!EnsureInputMode(c, mode)) = c.modes[i]
<1> DEFINE e == R!EnsureInputMode(c, mode)
<1>1. DOMAIN c.modes = 1..Len(c.modes) /\ Len(c.modes) \in Nat /\ \A i \in DOMAIN c.modes : c.modes[i] \in R!Modes
  BY ElementsTyped
<1>2. c.modes # <<>> /\ (c.default # None => \E i \in DOMAIN c.modes : c.modes[i].id = c.default)
  BY DEF R!ContractValid
<1>3. 1 \in DOMAIN c.modes /\ R!First(c.modes) = c.modes[1]
  BY <1>1, <1>2 DEF R!First
<1>4. \E i \in DOMAIN c.modes : c.modes[i].id = e
  <2>1. CASE mode # None /\ R!ModeOf(c, mode) # None
    <3>1. e = mode
      BY <2>1 DEF R!EnsureInputMode
    <3>2. QED  BY <2>1, <3>1, ModeFound
  <2>2. CASE ~(mode # None /\ R!ModeOf(c, mode) # None)
    <3>1. e = IF c.default = None THEN c.modes[1].id ELSE c.default
      BY <1>3, <2>2 DEF R!EnsureInputMode, R!OrElse
    <3>2. QED  BY <1>2, <1>3, <3>1
  <2>3. QED  BY <2>1, <2>2
<1> HIDE DEF e
<1>5. e # None
  BY <1>1, <1>4, ModeFacts
<1>6. PICK i \in DOMAIN c.modes : c.modes[i].id = e /\ R!ModeOf(c, e) = c.modes[i]
  BY <1>4, ModeFound
<1>7. R!ModeOf(c, e) \in R!Modes /\ R!ModeOf(c, e) # None
  BY <1>1, <1>6, ModeFacts
<1>8. R!ModeContract(c, e) = R!ModeOf(c, e)
  BY <1>5, <1>7 DEF R!ModeContract, R!OrElse
<1>9. QED  BY <1>5, <1>6, <1>7, <1>8 DEF e

LEMMA NodeSlotsTyped ==
    ASSUME NEW kind
    PROVE  R!NodeForm(kind).slots \in Seq(NodeSlots)
<1>1. /\ R!Declared("reference", "image_list", "source_image", FALSE) \in NodeSlots
      /\ R!Declared("mask", "mask", "mask", TRUE) \in NodeSlots
      /\ R!Declared("reference", "image_list", "reference_image", FALSE) \in NodeSlots
      /\ R!Declared("audio_ref", "audio", "driving_audio", TRUE) \in NodeSlots
  BY DEF NodeSlots, R!Declared, Names, R!ReferenceTypes, R!Media
<1>2. \A x, y \in NodeSlots : <<x, y>> \in Seq(NodeSlots)
  OBVIOUS
<1>3. \/ R!NodeForm(kind).slots = <<R!Declared("reference", "image_list", "source_image", FALSE),
                                    R!Declared("mask", "mask", "mask", TRUE)>>
      \/ R!NodeForm(kind).slots = <<R!Declared("reference", "image_list", "reference_image", FALSE),
                                    R!Declared("audio_ref", "audio", "driving_audio", TRUE)>>
  BY DEF R!NodeForm, R!GenImageForm, R!GenVideoForm
<1>4. QED  BY <1>1, <1>2, <1>3

LEMMA SlotsTyped ==
    ASSUME NEW mode \in R!Modes \cup {None}, NEW kind, NEW id
    PROVE  /\ R!SlotsForMode(mode, kind, id) \in Seq(AnySlots)
           /\ kind = "quick" => R!SlotsForMode(mode, kind, id) \in Seq(R!Slots)
           /\ mode # None /\ mode.slots # <<>> => R!SlotsForMode(mode, kind, id) = mode.slots
<1>1. CASE mode # None /\ mode.slots # <<>>
  <2>1. R!SlotsForMode(mode, kind, id) = mode.slots
    BY <1>1 DEF R!SlotsForMode
  <2>2. mode.slots \in Seq(R!Slots)
    BY <1>1, ModeFacts
  <2>3. \A s \in Seq(R!Slots) : s \in Seq(AnySlots)
    BY DEF AnySlots
  <2>4. QED  BY <1>1, <2>1, <2>2, <2>3
<1>2. CASE ~(mode # None /\ mode.slots # <<>>) /\ kind = "quick"
  <2>1. R!SlotsForMode(mode, kind, id) = <<>>
    BY <1>2 DEF R!SlotsForMode
  <2>2. <<>> \in Seq(AnySlots) /\ <<>> \in Seq(R!Slots)
    OBVIOUS
  <2>3. QED  BY <1>2, <2>1, <2>2
<1>3. CASE ~(mode # None /\ mode.slots # <<>>) /\ kind # "quick"
  <2> DEFINE own == R!NodeForm(kind)
             ports == IF id \in DOMAIN own.requires THEN own.requires[id] ELSE None
             S == {s \in R!Range(own.slots) : ~s.advanced \/ (ports # None /\ s.port \in ports)}
             declared == R!Only(own.slots, S)
             needed(s) == IF ports # None THEN ports # None /\ s.port \in ports ELSE ~s.advanced
  <2>1. R!SlotsForMode(mode, kind, id) =
           [i \in DOMAIN declared |-> [declared[i] EXCEPT !.required = needed(declared[i])]]
    BY <1>3 DEF R!SlotsForMode, R!Select
  <2>2. own.slots \in Seq(NodeSlots)
    BY NodeSlotsTyped
  <2> HIDE DEF S, own
  <2>3. declared \in Seq(NodeSlots)
    BY <2>2, SameOnly, OnlyFacts
  <2>4. \A s \in NodeSlots : needed(s) \in BOOLEAN
    <3>1. \A s \in NodeSlots : s.advanced \in BOOLEAN
      BY DEF NodeSlots
    <3>2. QED  BY <3>1
  <2> HIDE DEF declared, ports, needed
  <2>5. \A s \in NodeSlots : [s EXCEPT !.required = needed(s)] \in NodeSlots
    BY <2>4 DEF NodeSlots
  <2>6. PICK m \in Nat : DOMAIN declared = 1..m /\ \A i \in 1..m : declared[i] \in NodeSlots
    BY <2>3, ElementsTyped
  <2> DEFINE f == [i \in 1..m |-> [declared[i] EXCEPT !.required = needed(declared[i])]]
  <2>7. f \in [1..m -> AnySlots]
    BY <2>5, <2>6 DEF AnySlots
  <2>8. f = R!SlotsForMode(mode, kind, id)
    BY <2>1, <2>6
  <2> HIDE DEF f
  <2>9. QED  BY <1>3, <2>7, <2>8, SeqOf
<1>4. QED  BY <1>1, <1>2, <1>3

(***************************************************************************)
(* Inputs: what a form sends.                                              *)
(***************************************************************************)

\* A slot takes a reference to an asset of its type, and any entry.
Takes(r, slots) ==
    \E i \in DOMAIN slots :
       /\ slots[i].slot = r.slot
       /\ r.entry = None => r.type # "library_ref" /\ R!ReferenceTypeMatches(r.type, slots[i].type)
Agreed(slots) == {r \in GoodRefs : Takes(r, slots)}
GoodOutputs == {r \in R!Outputs : AssetType[r.asset] = R!ReferenceAssetType(r.type)}
Distinct(slots) == \A k, l \in DOMAIN slots : slots[k].slot = slots[l].slot => k = l
Within(refs, slots) ==
    \A k \in DOMAIN slots : slots[k].max # None => R!Units(refs, slots[k].slot) <= slots[k].max

LEMMA SeqIn ==
    ASSUME NEW T, NEW o \in Seq(T), NEW U, \A n \in DOMAIN o : o[n] \in U
    PROVE  o \in Seq(U)
<1>1. PICK m \in Nat : m = Len(o) /\ DOMAIN o = 1..m
  BY ElementsTyped
<1>2. o = [n \in 1..m |-> o[n]]
  BY <1>1
<1>3. o \in [1..m -> U]
  BY <1>1, <1>2
<1>4. QED  BY <1>3, SeqOf

LEMMA Filtered ==
    ASSUME NEW refs \in Seq(GoodRefs), NEW slots
    PROVE  R!FilterRefsForSlots(refs, slots) \in Seq(Agreed(slots))
<1> DEFINE Fits1(r) == \E i \in DOMAIN slots :
                          /\ slots[i].slot = r.slot
                          /\ IF r.entry # None THEN slots[i].lib # None
                             ELSE r.type # "library_ref" /\ R!ReferenceTypeMatches(r.type, slots[i].type)
           S == {r \in R!Range(refs) : Fits1(r)}
           o == Only(refs, S)
<1>1. R!FilterRefsForSlots(refs, slots) = o
  BY SameOnly DEF R!FilterRefsForSlots, R!Select
<1>2. \A r \in S : Takes(r, slots)
  BY DEF Takes
<1> HIDE DEF S
<1>3. o \in Seq(GoodRefs) /\ \A n \in DOMAIN o : \E k \in DOMAIN refs : refs[k] = o[n] /\ refs[k] \in S
  BY OnlyFacts
<1> HIDE DEF o
<1>4. \A n \in DOMAIN o : o[n] \in Agreed(slots)
  <2>1. \A n \in DOMAIN o : o[n] \in GoodRefs
    BY <1>3, ElementsTyped
  <2>2. QED  BY <1>2, <1>3, <2>1 DEF Agreed
<1>5. QED  BY <1>1, <1>3, <1>4, SeqIn

\* An output under the name of a slot is a reference.
LEMMA OutputRenamed ==
    ASSUME NEW r \in GoodOutputs, NEW slot \in Names
    PROVE  [r EXCEPT !.slot = slot] \in GoodRefs
<1>1. /\ r \in [slot : STRING, type : R!Media \cup {"image_list"}, asset : Assets, entry : {None}, units : {0}]
      /\ AssetType[r.asset] = R!ReferenceAssetType(r.type)
  BY DEF GoodOutputs, R!Outputs
<1> DEFINE x == [r EXCEPT !.slot = slot]
<1>2. x = [slot |-> slot, type |-> r.type, asset |-> r.asset, entry |-> None, units |-> 0]
  BY <1>1
<1>3. r.type \in R!ReferenceTypes /\ r.asset \in Assets
  BY <1>1 DEF R!ReferenceTypes
<1>4. x \in Refs
  BY <1>2, <1>3 DEF Refs
<1>5. x.entry = None /\ x.asset = r.asset /\ x.type = r.type
  BY <1>2
<1> HIDE DEF x
<1>6. x \in GoodRefs
  BY <1>1, <1>4, <1>5 DEF GoodRefs
<1>7. QED  BY <1>6 DEF x

UpToOf(refs, n) == SubSeq(refs, 1, IF Len(refs) < n THEN Len(refs) ELSE n)
As(refs, slot) == [i \in DOMAIN refs |-> [refs[i] EXCEPT !.slot = slot]]

LEMMA UpToFacts ==
    ASSUME NEW refs \in Seq(GoodOutputs), NEW n \in Nat
    PROVE  /\ UpToOf(refs, n) \in Seq(GoodOutputs)
           /\ \A i \in DOMAIN UpToOf(refs, n) : i \in DOMAIN refs
<1>1. PICK m \in Nat : m = Len(refs) /\ DOMAIN refs = 1..m /\ \A i \in 1..m : refs[i] \in GoodOutputs
  BY ElementsTyped
<1>2. PICK k \in Nat : k = (IF m < n THEN m ELSE n) /\ k <= m
  OBVIOUS
<1>3. UpToOf(refs, n) = SubSeq(refs, 1, k)
  BY <1>1, <1>2 DEF UpToOf
<1>4. \A i \in 1..k : refs[i] \in GoodOutputs
  BY <1>1, <1>2
<1>5. SubSeq(refs, 1, k) \in Seq(GoodOutputs) /\ Len(SubSeq(refs, 1, k)) = IF 1 <= k THEN k - 1 + 1 ELSE 0
  BY <1>4, SubSeqProperties
<1>6. Len(SubSeq(refs, 1, k)) = k
  BY <1>5
<1>7. DOMAIN SubSeq(refs, 1, k) = 1..k
  BY <1>5, <1>6, ElementsTyped
<1>8. QED  BY <1>1, <1>2, <1>3, <1>5, <1>7

LEMMA AsTyped ==
    ASSUME NEW refs \in Seq(GoodOutputs), NEW slot \in Names
    PROVE  As(refs, slot) \in Seq(GoodRefs)
<1>1. PICK m \in Nat : DOMAIN refs = 1..m /\ \A i \in 1..m : refs[i] \in GoodOutputs
  BY ElementsTyped
<1>2. As(refs, slot) \in [1..m -> GoodRefs]
  BY <1>1, OutputRenamed DEF As
<1>3. QED  BY <1>2, SeqOf

\* The outputs of the edges, by the roles of the mode.
LEMMA Mapped ==
    ASSUME NEW up \in Seq(GoodOutputs), NEW kind, NEW mode
    PROVE  R!MapReferences(kind, mode, up) \in Seq(GoodRefs)
<1> DEFINE of(types) == R!Only(up, {r \in R!Range(up) : r.type \in types})
           images == of({"image", "image_list"})
           videos == of({"video"})
           audios == of({"audio"})
           frame(i) == IF i = 1 THEN "first_frame" ELSE "last_frame"
           frames == [i \in DOMAIN UpToOf(images, 2) |-> [images[i] EXCEPT !.slot = frame(i)]]
           all == As(UpToOf(images, 9), "reference_image") \o As(UpToOf(videos, 3), "source_video")
                  \o As(UpToOf(audios, 3), "driving_audio")
           source == As(UpToOf(images, 1), "source_image")
           role == IF mode = "image_to_image" THEN "source_image" ELSE "reference_image"
           still == As(UpToOf(images, 10), role)
<1>1. images \in Seq(GoodOutputs) /\ videos \in Seq(GoodOutputs) /\ audios \in Seq(GoodOutputs)
  BY SameOnly, OnlyFacts
<1>2. R!MapReferences(kind, mode, up) \in {<<>>, still, source, frames, all}
  BY DEF R!MapReferences, R!Select, UpToOf, As
<1> HIDE DEF images, videos, audios
<1>3. /\ "source_image" \in Names /\ "reference_image" \in Names /\ "source_video" \in Names
      /\ "driving_audio" \in Names /\ role \in Names
      /\ \A i : frame(i) \in Names
  BY DEF Names
<1> HIDE DEF role, frame
<1>4. still \in Seq(GoodRefs) /\ source \in Seq(GoodRefs)
  BY <1>1, <1>3, UpToFacts, AsTyped
<1>5. all \in Seq(GoodRefs)
  <2>1. PICK a \in Seq(GoodRefs), b \in Seq(GoodRefs), c \in Seq(GoodRefs) :
           /\ a = As(UpToOf(images, 9), "reference_image")
           /\ b = As(UpToOf(videos, 3), "source_video")
           /\ c = As(UpToOf(audios, 3), "driving_audio")
    BY <1>1, <1>3, UpToFacts, AsTyped
  <2>2. a \o b \in Seq(GoodRefs)
    BY ConcatProperties
  <2>3. (a \o b) \o c \in Seq(GoodRefs)
    BY <2>2, ConcatProperties
  <2>4. QED  BY <2>1, <2>3
<1>6. frames \in Seq(GoodRefs)
  <2>0. PICK xs \in Seq(GoodOutputs) : xs = UpToOf(images, 2) /\ \A i \in DOMAIN xs : i \in DOMAIN images
    BY <1>1, UpToFacts
  <2>1. PICK m \in Nat : DOMAIN UpToOf(images, 2) = 1..m /\ \A i \in 1..m : i \in DOMAIN images
    BY <2>0, ElementsTyped
  <2>2. \A i \in 1..m : images[i] \in GoodOutputs
    BY <1>1, <2>1, ElementsTyped
  <2>3. frames \in [1..m -> GoodRefs]
    BY <1>3, <2>1, <2>2, OutputRenamed
  <2> HIDE DEF frames
  <2>4. QED  BY <2>3, SeqOf
<1>7. <<>> \in Seq(GoodRefs)
  OBVIOUS
<1>8. QED
  <2> HIDE DEF still, source, frames, all
  <2>1. QED  BY <1>2, <1>4, <1>5, <1>6, <1>7

\* What goes to a slot of its own media is taken by it.
LEMMA PickedAgrees ==
    ASSUME NEW slots \in Seq(AnySlots), NEW k \in DOMAIN slots, NEW a \in Assets,
           AssetType[a] = R!AcceptOf(slots[k].type)
    PROVE  R!Picked(slots[k], a) \in GoodRefs
<1> DEFINE s == slots[k]
           x == R!Picked(s, a)
<1>1. s \in AnySlots
  BY ElementsTyped
<1> HIDE DEF s
<1>2. s.slot \in Names /\ s.type \in R!ReferenceTypes
  BY <1>1, SlotFacts
<1>3. x = [slot |-> s.slot, type |-> s.type, asset |-> a, entry |-> None, units |-> 0]
  BY DEF R!Picked
<1>4. x \in Refs /\ x.entry = None /\ x.type = s.type /\ x.asset = a
  BY <1>2, <1>3 DEF Refs
<1>5. s.type \notin {"json", "library_ref"} => R!AcceptOf(s.type) = R!ReferenceAssetType(s.type)
  BY DEF R!AcceptOf, R!ReferenceAssetType
<1>6. AssetType[a] = R!AcceptOf(s.type)
  BY DEF s
<1> HIDE DEF x
<1>7. x \in GoodRefs
  BY <1>4, <1>5, <1>6 DEF GoodRefs
<1>8. QED  BY <1>7 DEF x, s

LEMMA MentionAgrees ==
    ASSUME NEW slots \in Seq(R!Slots), NEW a \in Assets, NEW refs, R!MentionSlot(a, slots, refs) # None
    PROVE  R!Picked(R!MentionSlot(a, slots, refs), a) \in Agreed(slots)
<1> DEFINE media == AssetType[a]
           T == {s \in R!Slots : \E k \in DOMAIN slots : slots[k] = s}
           preferred(s) == <<media, s.slot>> \in {<<"audio", "driving_audio">>, <<"video", "source_video">>}
           before == R!Only(slots, {s \in R!Range(slots) : preferred(s)})
           after == R!Only(slots, {s \in R!Range(slots) : ~preferred(s)})
           ordered == before \o after
           S == {s \in R!Range(ordered) :
                    /\ s.type = media \/ (media = "image" /\ s.type = "image_list")
                    /\ s.max = None \/ R!Units(refs, s.slot) < s.max}
           s == R!MentionSlot(a, slots, refs)
           x == R!Picked(s, a)
<1>1. s = R!First(R!Only(ordered, S))
  BY DEF R!MentionSlot, R!Select
<1>2. slots \in Seq(T)
  <2>1. \A n \in DOMAIN slots : slots[n] \in T
    BY ElementsTyped
  <2> HIDE DEF T
  <2>2. QED  BY <2>1, SeqIn
<1>3. None \notin T
  BY InputLimits
<1>4. ordered \in Seq(T)
  <2> HIDE DEF T
  <2>1. before \in Seq(T) /\ after \in Seq(T)
    BY <1>2, SameOnly, OnlyFacts
  <2> HIDE DEF before, after
  <2>2. QED  BY <2>1, ConcatProperties
<1>5. \A t \in S : t.type = media \/ (media = "image" /\ t.type = "image_list")
  OBVIOUS
<1> HIDE DEF ordered, S
<1>6. \E k \in DOMAIN ordered : ordered[k] \in S /\ s = ordered[k]
  <2> HIDE DEF T, s
  <2>1. s # None
    BY DEF s
  <2>2. QED  BY <1>1, <1>3, <1>4, <2>1, FirstOnly
<1>7. s \in T /\ s \in S
  <2> HIDE DEF T, s
  <2>1. \A k \in DOMAIN ordered : ordered[k] \in T
    BY <1>4, ElementsTyped
  <2>2. QED  BY <1>6, <2>1
<1> HIDE DEF s
<1>8. s \in R!Slots /\ \E k \in DOMAIN slots : slots[k] = s
  BY <1>7
<1>9. s.slot \in Names /\ s.type \in R!ReferenceTypes
  BY <1>8, SlotFacts DEF AnySlots
<1>10. media \in R!Media
  BY InputLimits
<1>11. s.type = media \/ (media = "image" /\ s.type = "image_list")
  BY <1>5, <1>7
<1> HIDE DEF media
<1>12. /\ s.type # "library_ref"
       /\ s.type # "json" => media = R!ReferenceAssetType(s.type)
       /\ R!ReferenceTypeMatches(s.type, s.type)
  BY <1>10, <1>11 DEF R!Media, R!ReferenceAssetType, R!ReferenceTypeMatches
<1>13. x = [slot |-> s.slot, type |-> s.type, asset |-> a, entry |-> None, units |-> 0]
  BY DEF R!Picked
<1>14. x \in Refs /\ x.entry = None /\ x.type = s.type /\ x.asset = a /\ x.slot = s.slot
  BY <1>9, <1>13 DEF Refs
<1> HIDE DEF x
<1>15. x \in GoodRefs
  BY <1>12, <1>14 DEF GoodRefs, media
<1>16. Takes(x, slots)
  BY <1>8, <1>12, <1>14 DEF Takes
<1>17. QED  BY <1>15, <1>16 DEF Agreed, x, s

MentionWalk(f, mentions, slots) ==
    f = [n \in 0..Len(mentions) |->
           LET refs == f[n - 1]
               s == R!MentionSlot(mentions[n], slots, refs)
           IN IF n = 0 THEN <<>> ELSE IF s = None THEN refs ELSE Append(refs, R!Picked(s, mentions[n]))]

\* What is mentioned becomes references that the slots take.
LEMMA MentionsTyped ==
    ASSUME NEW mentions \in Seq(Assets), NEW slots \in Seq(R!Slots)
    PROVE  R!MentionRefs(mentions, slots) \in Seq(Agreed(slots))
<1> DEFINE V == Seq(Agreed(slots))
           slot(n, refs) == R!MentionSlot(mentions[n], slots, refs)
           then(n, refs) == IF slot(n, refs) = None THEN refs
                            ELSE Append(refs, R!Picked(slot(n, refs), mentions[n]))
<1>1. PICK m \in Nat : m = Len(mentions) /\ \A n \in 1..m : mentions[n] \in Assets
  BY ElementsTyped
<1> DEFINE G == [n \in 1..m |-> [refs \in V |-> then(n, refs)]]
<1>2. <<>> \in V
  OBVIOUS
<1>3. ASSUME NEW n \in 1..m, NEW refs \in V  PROVE then(n, refs) \in V
  <2>1. CASE slot(n, refs) = None
    BY <1>3, <2>1
  <2>2. CASE slot(n, refs) # None
    <3>1. R!Picked(slot(n, refs), mentions[n]) \in Agreed(slots)
      BY <1>1, <2>2, MentionAgrees
    <3>2. then(n, refs) = Append(refs, R!Picked(slot(n, refs), mentions[n]))
      BY <2>2
    <3> HIDE DEF slot, then
    <3>3. QED  BY <1>3, <3>1, <3>2, AppendProperties
  <2>3. QED  BY <2>1, <2>2
<1> HIDE DEF V, then
<1>4. WalkOn(V, <<>>, G, m)
  BY <1>1, <1>2, <1>3 DEF WalkOn
<1>5. PICK h \in [0..m -> V] : IsWalk(h, <<>>, G, m)
  <2> HIDE DEF G
  <2>1. QED  BY <1>4, Walks
<1>6. h[0] = <<>> /\ \A n \in 1..m : h[n] = then(n, h[n - 1])
  <2>1. \A n \in 1..m : h[n - 1] \in V
    BY <1>1
  <2>2. QED  BY <1>5, <2>1 DEF IsWalk
<1>7. \E x : MentionWalk(x, mentions, slots)
  <2> DEFINE g == [n \in 0..m |-> IF n = 0 THEN <<>> ELSE then(n, h[n - 1])]
  <2>1. \A n \in 0..m : h[n] = IF n = 0 THEN <<>> ELSE then(n, h[n - 1])
    <3>1. \A n \in 0..m : n = 0 \/ n \in 1..m
      BY <1>1
    <3>2. QED  BY <1>6, <3>1
  <2>2. h = [n \in 0..m |-> h[n]]
    OBVIOUS
  <2>3. h = g
    BY <2>1, <2>2
  <2>4. MentionWalk(h, mentions, slots)
    BY <1>1, <2>3 DEF MentionWalk, then
  <2>5. QED  BY <2>4
<1> DEFINE w == CHOOSE x : MentionWalk(x, mentions, slots)
<1>8. MentionWalk(w, mentions, slots)
  BY <1>7
<1>9. R!MentionRefs(mentions, slots) = w[m]
  BY <1>1 DEF R!MentionRefs, MentionWalk
<1> HIDE DEF w
<1>10. w[0] = <<>> /\ \A n \in 1..m : w[n] = then(n, w[n - 1])
  <2>1. 0 \in 0..m /\ \A n \in 1..m : n \in 0..m /\ n # 0
    BY <1>1
  <2>2. QED  BY <1>1, <1>8, <2>1 DEF MentionWalk, then
<1>11. Obeys(w, V, G, m)
  BY <1>10 DEF Obeys
<1>12. \A n \in 0..m : w[n] \in V
  <2> HIDE DEF G
  <2>1. QED  BY <1>4, <1>10, <1>11, Stays
<1>13. m \in 0..m
  BY <1>1
<1>14. QED  BY <1>9, <1>12, <1>13 DEF V

MergeWalk(f, all, slots) ==
    f = [n \in 0..Len(all) |->
           IF n = 0 THEN <<>>
           ELSE IF R!Joins(f[n - 1], all[n], slots) THEN Append(f[n - 1], all[n]) ELSE f[n - 1]]

\* What joins leaves each slot within its limit.
LEMMA JoinsWithin ==
    ASSUME NEW slots \in Seq(AnySlots), Distinct(slots), NEW refs \in Seq(Refs), Within(refs, slots),
           NEW r \in Refs, R!Joins(refs, r, slots)
    PROVE  Within(Append(refs, r), slots)
<1> SUFFICES ASSUME NEW k \in DOMAIN slots, slots[k].max # None
             PROVE  R!Units(Append(refs, r), slots[k].slot) <= slots[k].max
  BY DEF Within
<1>1. R!Units(Append(refs, r), slots[k].slot) =
         R!Units(refs, slots[k].slot) + (IF r.slot = slots[k].slot THEN R!UnitsOf(r) ELSE 0)
  BY UnitsAppend
<1>2. R!Units(refs, slots[k].slot) <= slots[k].max
  BY DEF Within
<1>3. R!Units(refs, slots[k].slot) \in Nat
  BY WeightsTyped
<1>4. CASE r.slot # slots[k].slot
  BY <1>1, <1>2, <1>3, <1>4
<1>5. CASE r.slot = slots[k].slot
  <2> DEFINE S == {s \in R!Range(slots) : s.slot = r.slot}
             of == R!Only(slots, S)
  <2>1. of # <<>> /\ of[1].max # None => R!Units(refs, r.slot) + R!UnitsOf(r) <= of[1].max
    BY DEF R!Joins, R!Select
  <2>2. slots[k] \in S
    BY <1>5, InRange
  <2>3. \A l \in DOMAIN slots : slots[l] \in S => slots[l].slot = r.slot
    OBVIOUS
  <2>4. of = Only(slots, S)
    BY SameOnly
  <2> HIDE DEF S
  <2>5. /\ of \in Seq(AnySlots)
        /\ \A n \in DOMAIN of : \E l \in DOMAIN slots : slots[l] = of[n] /\ slots[l] \in S
        /\ \A l \in DOMAIN slots : slots[l] \in S => \E n \in DOMAIN of : of[n] = slots[l]
    BY <2>4, OnlyFacts
  <2> HIDE DEF of
  <2>6. 1 \in DOMAIN of /\ of # <<>>
    <3>1. PICK n \in DOMAIN of : of[n] = slots[k]
      BY <2>2, <2>5
    <3>2. PICK m \in Nat : m = Len(of) /\ DOMAIN of = 1..m
      BY <2>5, ElementsTyped
    <3>3. n \in 1..m
      BY <3>2
    <3>4. m # 0 /\ 1 \in 1..m
      BY <3>3
    <3>5. Len(<<>>) = 0
      OBVIOUS
    <3>6. QED  BY <3>2, <3>4, <3>5
  <2>7. PICK l \in DOMAIN slots : slots[l] = of[1] /\ slots[l] \in S
    BY <2>5, <2>6
  <2>8. slots[l].slot = slots[k].slot
    BY <1>5, <2>3, <2>7
  <2>9. l = k
    BY <2>8 DEF Distinct
  <2>10. R!Units(refs, r.slot) + R!UnitsOf(r) <= slots[k].max
    BY <2>1, <2>6, <2>7, <2>9
  <2>11. QED  BY <1>1, <1>5, <2>10
<1>6. QED  BY <1>4, <1>5

\* The one list of the request: the slots take what it holds, and hold it.
LEMMA Merged ==
    ASSUME NEW slots \in Seq(AnySlots), NEW explicit \in Seq(Agreed(slots)), NEW more \in Seq(Agreed(slots))
    PROVE  /\ R!MergeReferences(explicit, more, slots) \in Seq(Agreed(slots))
           /\ Distinct(slots) => Within(R!MergeReferences(explicit, more, slots), slots)
<1> DEFINE A == Agreed(slots)
           V == Seq(A)
           all == explicit \o more
           then(n, refs) == IF R!Joins(refs, all[n], slots) THEN Append(refs, all[n]) ELSE refs
<1>1. all \in V
  BY ConcatProperties
<1>2. PICK m \in Nat : m = Len(all) /\ \A n \in 1..m : all[n] \in A
  <2> HIDE DEF A, all
  <2>1. QED  BY <1>1, ElementsTyped
<1> HIDE DEF all
<1> DEFINE G == [n \in 1..m |-> [refs \in V |-> then(n, refs)]]
<1>3. <<>> \in V
  OBVIOUS
<1>4. \A n \in 1..m, refs \in V : then(n, refs) \in V
  <2> HIDE DEF A
  <2>1. QED  BY <1>2, AppendProperties
<1> HIDE DEF V
<1>5. WalkOn(V, <<>>, G, m)
  <2> HIDE DEF then
  <2>1. QED  BY <1>2, <1>3, <1>4 DEF WalkOn
<1>6. PICK h \in [0..m -> V] : IsWalk(h, <<>>, G, m)
  <2> HIDE DEF G
  <2>1. QED  BY <1>5, Walks
<1>7. h[0] = <<>> /\ \A n \in 1..m : h[n] = then(n, h[n - 1])
  <2>1. \A n \in 1..m : h[n - 1] \in V
    BY <1>2
  <2> HIDE DEF then
  <2>2. QED  BY <1>6, <2>1 DEF IsWalk
<1>8. \E x : MergeWalk(x, all, slots)
  <2> DEFINE g == [n \in 0..m |-> IF n = 0 THEN <<>> ELSE then(n, h[n - 1])]
  <2>1. \A n \in 0..m : h[n] = IF n = 0 THEN <<>> ELSE then(n, h[n - 1])
    <3>1. \A n \in 0..m : n = 0 \/ n \in 1..m
      BY <1>2
    <3> HIDE DEF then
    <3>2. QED  BY <1>7, <3>1
  <2>2. h = [n \in 0..m |-> h[n]]
    OBVIOUS
  <2>3. h = g
    <3> HIDE DEF then
    <3>1. QED  BY <2>1, <2>2
  <2>4. MergeWalk(h, all, slots)
    BY <1>2, <2>3 DEF MergeWalk
  <2>5. QED  BY <2>4
<1> DEFINE w == CHOOSE x : MergeWalk(x, all, slots)
<1>9. MergeWalk(w, all, slots)
  BY <1>8
<1>10. R!MergeReferences(explicit, more, slots) = w[m]
  BY <1>2 DEF R!MergeReferences, MergeWalk, all
<1> HIDE DEF w
<1>11. w[0] = <<>> /\ \A n \in 1..m : w[n] = then(n, w[n - 1])
  <2>1. 0 \in 0..m /\ \A n \in 1..m : n \in 0..m /\ n # 0
    BY <1>2
  <2>2. QED  BY <1>2, <1>9, <2>1 DEF MergeWalk
<1>12. Obeys(w, V, G, m)
  <2> HIDE DEF then
  <2>1. QED  BY <1>11 DEF Obeys
<1>13. \A n \in 0..m : w[n] \in V
  <2> HIDE DEF G, then
  <2>1. QED  BY <1>5, <1>11, <1>12, Stays
<1>14. m \in 0..m
  BY <1>2
<1>15. ASSUME Distinct(slots)  PROVE Within(w[m], slots)
  <2> DEFINE B == {n \in 0..m : Within(w[n], slots)}
  <2>1. 0 \in B /\ B \in SUBSET (0..m)
    <3>1. \A k \in DOMAIN slots : slots[k].max \in Nat \cup {None}
      BY ElementsTyped, SlotFacts
    <3>2. \A k \in DOMAIN slots : R!Units(<<>>, slots[k].slot) = 0
      <4>1. <<>> \in Seq(Refs) /\ Len(<<>>) = 0
        OBVIOUS
      <4>2. QED  BY <4>1, WeightsTyped, TotalTyped
    <3>3. Within(<<>>, slots)
      BY <3>1, <3>2 DEF Within
    <3>4. QED  BY <1>2, <1>11, <3>3
  <2>2. ASSUME NEW n \in 1..m, n - 1 \in B  PROVE n \in B
    <3>1. n - 1 \in 0..m /\ n \in 0..m /\ Within(w[n - 1], slots)
      BY <1>2, <2>2
    <3>2. w[n - 1] \in V /\ all[n] \in A
      BY <1>2, <1>13, <3>1
    <3>3. \A s \in Seq(A) : s \in Seq(Refs)
      <4>1. A \subseteq Refs
        BY DEF Agreed, GoodRefs
      <4> HIDE DEF A
      <4>2. QED  BY <4>1
    <3>4. w[n - 1] \in Seq(Refs) /\ all[n] \in Refs
      BY <3>2, <3>3 DEF V, Agreed, GoodRefs
    <3>5. CASE R!Joins(w[n - 1], all[n], slots)
      <4>1. w[n] = Append(w[n - 1], all[n])
        BY <1>11, <3>5
      <4>2. Within(Append(w[n - 1], all[n]), slots)
        BY <1>15, <3>1, <3>4, <3>5, JoinsWithin
      <4>3. QED  BY <3>1, <4>1, <4>2
    <3>6. CASE ~R!Joins(w[n - 1], all[n], slots)
      <4>1. w[n] = w[n - 1]
        BY <1>11, <3>6
      <4>2. QED  BY <3>1, <4>1
    <3>7. QED  BY <3>5, <3>6
  <2> HIDE DEF B
  <2>3. B = 0..m
    BY <1>2, <2>1, <2>2, UpTo
  <2> USE DEF B
  <2>4. QED  BY <1>14, <2>3
<1>16. w[m] \in V
  BY <1>13, <1>14
<1>17. QED  BY <1>10, <1>15, <1>16 DEF V

(***************************************************************************)
(* Inputs: what the server makes of the references.                        *)
(***************************************************************************)

\* How often a slot comes up in what was resolved.
Marks(list, slot) == [i \in DOMAIN list |-> IF list[i].slot = slot THEN 1 ELSE 0]

LEMMA MarksTyped ==
    ASSUME NEW S, NEW list \in Seq(S), NEW slot
    PROVE  Marks(list, slot) \in Seq(Nat) /\ Len(Marks(list, slot)) = Len(list)
<1>1. PICK m \in Nat : m = Len(list) /\ DOMAIN list = 1..m
  BY ElementsTyped
<1>2. Marks(list, slot) \in [1..m -> Nat]
  BY <1>1 DEF Marks
<1>3. QED  BY <1>1, <1>2, SeqOf

LEMMA MarksConcat ==
    ASSUME NEW S, NEW a \in Seq(S), NEW b \in Seq(S), NEW slot
    PROVE  Total(Marks(a \o b, slot)) = Total(Marks(a, slot)) + Total(Marks(b, slot))
<1>1. PICK k \in Nat, l \in Nat : k = Len(a) /\ DOMAIN a = 1..k /\ l = Len(b) /\ DOMAIN b = 1..l
  BY ElementsTyped
<1>2. PICK ab \in Seq(S) : ab = a \o b
  BY ConcatProperties
<1>3. Len(ab) = k + l /\ \A i \in 1..(k + l) : ab[i] = IF i <= k THEN a[i] ELSE b[i - k]
  BY <1>1, <1>2, ConcatProperties
<1>4. DOMAIN ab = 1..(k + l)
  BY <1>3, ElementsTyped
<1>5. PICK x \in Seq(Nat), y \in Seq(Nat), z \in Seq(Nat) :
         x = Marks(a, slot) /\ y = Marks(b, slot) /\ z = Marks(ab, slot)
  BY MarksTyped
<1>6. Len(x) = k /\ Len(y) = l /\ Len(z) = k + l
  BY <1>1, <1>3, <1>5, MarksTyped
<1>7. PICK xy \in Seq(Nat) : xy = x \o y
  BY ConcatProperties
<1>8. Len(xy) = k + l /\ \A i \in 1..(k + l) : xy[i] = IF i <= k THEN x[i] ELSE y[i - k]
  BY <1>6, <1>7, ConcatProperties
<1>9. ASSUME NEW i \in 1..(k + l)  PROVE z[i] = xy[i]
  <2>1. z[i] = IF ab[i].slot = slot THEN 1 ELSE 0
    BY <1>4, <1>5 DEF Marks
  <2>2. CASE i <= k
    <3>1. i \in 1..k /\ ab[i] = a[i] /\ xy[i] = x[i]
      BY <1>3, <1>8, <2>2
    <3>2. x[i] = IF a[i].slot = slot THEN 1 ELSE 0
      BY <1>1, <1>5, <3>1 DEF Marks
    <3>3. QED  BY <2>1, <3>1, <3>2
  <2>3. CASE i > k
    <3>1. PICK j \in 1..l : j = i - k
      BY <2>3
    <3>2. ~(i <= k)
      BY <2>3
    <3>3. ab[i] = b[j] /\ xy[i] = y[j]
      BY <1>3, <1>8, <3>1, <3>2
    <3>4. y[j] = IF b[j].slot = slot THEN 1 ELSE 0
      BY <1>1, <1>5 DEF Marks
    <3>5. QED  BY <2>1, <3>3, <3>4
  <2>4. QED  BY <2>2, <2>3
<1>10. z = xy
  BY <1>6, <1>8, <1>9, SeqEqual
<1>11. Total(x \o y) = Total(x) + Total(y)
  BY TotalConcat
<1>12. QED  BY <1>2, <1>5, <1>7, <1>10, <1>11

Times(k, x) == [i \in 1..k |-> x]

LEMMA MarksEach ==
    ASSUME NEW k \in Nat, NEW x, NEW slot
    PROVE  Total(Marks(Times(k, x), slot)) = IF x.slot = slot THEN k ELSE 0
<1> DEFINE e == IF x.slot = slot THEN 1 ELSE 0
<1>1. Marks(Times(k, x), slot) = [i \in 1..k |-> e]
  BY DEF Marks, Times
<1>2. e \in {0, 1} /\ (x.slot = slot <=> e = 1)
  OBVIOUS
<1> HIDE DEF e
<1>3. Total([i \in 1..k |-> e]) = IF e = 1 THEN k ELSE 0
  BY <1>2, TotalEach
<1>4. QED  BY <1>1, <1>2, <1>3

\* What becomes of a reference: of one to an entry, its assets.
Seen(r) ==
    IF r.entry = None
    THEN [slot |-> r.slot, type |-> r.type, media |-> AssetType[r.asset], kind |-> None]
    ELSE [slot |-> r.slot, type |-> R!MediaOfKind(EntryKind[r.entry]), media |-> MaterialType[r.entry],
          kind |-> EntryKind[r.entry]]
Fresh(refs) ==
    \A i \in DOMAIN refs : refs[i].entry # None => library[refs[i].entry].units = refs[i].units

LEMMA Expanded ==
    ASSUME NEW r \in GoodRefs, r.entry # None => library[r.entry].units = r.units
    PROVE  /\ R!UnitsOf(r) \in Nat \ {0}
           /\ R!ExpandReference(r) = [i \in 1..R!UnitsOf(r) |-> Seen(r)]
<1>1. r \in Refs /\ (r.entry # None => r.units > 0)
  BY DEF GoodRefs
<1>2. r.units \in Nat
  BY <1>1 DEF Refs
<1>3. CASE r.entry = None
  <2>1. R!UnitsOf(r) = 1
    BY <1>3 DEF R!UnitsOf
  <2>2. R!ExpandReference(r) = <<Seen(r)>>
    BY <1>3 DEF R!ExpandReference, Seen
  <2>3. <<Seen(r)>> = [i \in 1..1 |-> Seen(r)]
    OBVIOUS
  <2>4. QED  BY <2>1, <2>2, <2>3
<1>4. CASE r.entry # None
  <2>1. R!UnitsOf(r) = r.units /\ r.units # 0
    BY <1>1, <1>2, <1>4 DEF R!UnitsOf
  <2>2. library[r.entry].units > 0
    BY <1>1, <1>4
  <2>3. R!ExpandReference(r) = [i \in 1..library[r.entry].units |-> Seen(r)]
    BY <1>4, <2>2 DEF R!ExpandReference, Seen
  <2>4. library[r.entry].units = r.units
    BY <1>4
  <2>5. QED  BY <1>2, <2>1, <2>3, <2>4
<1>5. QED  BY <1>3, <1>4

LEMMA SameFlatten ==
    ASSUME NEW seqs
    PROVE  R!FlattenSeq(seqs) = P!FlattenSeq(seqs)
BY DEF R!FlattenSeq, P!FlattenSeq

\* As many inputs for each slot as the form counted, each of them seen.
LEMMA Resolved ==
    ASSUME NEW refs \in Seq(GoodRefs), Fresh(refs)
    PROVE  /\ R!ResolveInputs(refs) \in Seq({Seen(refs[i]) : i \in DOMAIN refs})
           /\ \A slot : Total(Marks(R!ResolveInputs(refs), slot)) = R!Units(refs, slot)
           /\ \A i \in DOMAIN refs : R!ExpandReference(refs[i]) # <<>>
<1>1. PICK m \in Nat : m = Len(refs) /\ DOMAIN refs = 1..m /\ \A i \in 1..m : refs[i] \in GoodRefs
  BY ElementsTyped
<1>2. refs \in Seq(Refs)
  <2>1. \A i \in DOMAIN refs : refs[i] \in Refs
    BY <1>1 DEF GoodRefs
  <2>2. QED  BY <2>1, SeqIn
<1> DEFINE S == {Seen(refs[i]) : i \in DOMAIN refs}
           seqs == [i \in 1..m |-> R!ExpandReference(refs[i])]
<1>3. \A i \in 1..m : /\ R!UnitsOf(refs[i]) \in Nat \ {0}
                      /\ R!ExpandReference(refs[i]) = [j \in 1..R!UnitsOf(refs[i]) |-> Seen(refs[i])]
  BY <1>1, Expanded DEF Fresh
<1>4. ASSUME NEW i \in 1..m  PROVE R!ExpandReference(refs[i]) \in Seq(S) /\ R!ExpandReference(refs[i]) # <<>>
  <2>1. PICK k \in Nat : k = R!UnitsOf(refs[i]) /\ k # 0
    BY <1>3
  <2>2. PICK x \in S : x = Seen(refs[i])
    BY <1>1
  <2> HIDE DEF S
  <2>3. [j \in 1..k |-> x] \in [1..k -> S]
    OBVIOUS
  <2>4. [j \in 1..k |-> x] \in Seq(S) /\ Len([j \in 1..k |-> x]) = k
    BY <2>3, SeqOf
  <2>5. [j \in 1..k |-> x] # <<>>
    <3>1. Len(<<>>) = 0
      OBVIOUS
    <3>2. QED  BY <2>1, <2>4, <3>1
  <2>6. QED  BY <1>3, <2>1, <2>2, <2>4, <2>5
<1> HIDE DEF S
<1>5. seqs \in Seq(Seq(S)) /\ Len(seqs) = m
  <2>1. seqs \in [1..m -> Seq(S)]
    BY <1>4
  <2> HIDE DEF seqs
  <2>2. QED  BY <2>1, SeqOf
<1>6. R!ResolveInputs(refs) = P!FlattenSeq(seqs)
  <2>1. seqs = [i \in DOMAIN refs |-> R!ExpandReference(refs[i])]
    BY <1>1
  <2>2. QED  BY <2>1, SameFlatten DEF R!ResolveInputs
<1>7. \A i \in 1..m : seqs[i] = R!ExpandReference(refs[i])
  OBVIOUS
<1> HIDE DEF seqs
<1>8. P!FlattenSeq(seqs) \in Seq(S)
  BY <1>5, FlattenTyped
<1>9. ASSUME NEW slot  PROVE Total(Marks(P!FlattenSeq(seqs), slot)) = R!Units(refs, slot)
  <2>1. PICK v \in Seq(Nat) : v = Weights(refs, slot) /\ Len(v) = m /\ R!Units(refs, slot) = Total(v)
    BY <1>1, <1>2, WeightsTyped
  <2>2. PICK u \in [0..m -> Nat] : Sums(u, v)
    BY <2>1, SumsExist
  <2>3. u[0] = 0 /\ \A n \in 1..m : u[n] = u[n - 1] + v[n]
    BY <2>1, <2>2 DEF Sums
  <2>4. \A n \in 1..m : v[n] = IF refs[n].slot = slot THEN R!UnitsOf(refs[n]) ELSE 0
    BY <1>1, <2>1 DEF Weights
  <2>5. ASSUME NEW n \in 1..m  PROVE Total(Marks(seqs[n], slot)) = v[n]
    <3>1. PICK k \in Nat : k = R!UnitsOf(refs[n])
      BY <1>3
    <3>2. PICK x : x = Seen(refs[n]) /\ seqs[n] = Times(k, x)
      BY <1>3, <1>7, <3>1 DEF Times
    <3>3. Total(Marks(Times(k, x), slot)) = IF x.slot = slot THEN k ELSE 0
      BY MarksEach
    <3>4. x.slot = refs[n].slot
      BY <3>2 DEF Seen
    <3>5. QED  BY <2>4, <3>1, <3>2, <3>3, <3>4
  <2>6. Total(v) = u[m]
    BY <2>1, <2>2, TotalIs
  <2>7. CASE seqs = <<>>
    <3>1. m = 0
      BY <1>5, <2>7
    <3>2. P!FlattenSeq(seqs) = seqs
      BY <2>7 DEF P!FlattenSeq
    <3>3. Total(Marks(seqs, slot)) = 0
      BY <1>5, <3>1, MarksTyped, TotalTyped
    <3>4. QED  BY <2>1, <2>3, <2>6, <3>1, <3>2, <3>3
  <2>8. CASE seqs # <<>>
    <3>1. PICK w \in [1..m -> Seq(S)] :
             /\ w[1] = seqs[1] /\ \A n \in 2..m : w[n] = w[n - 1] \o seqs[n]
             /\ P!FlattenSeq(seqs) = w[m]
      BY <1>5, <2>8, FlattenFacts
    <3>2. m # 0
      BY <1>5, <2>8, EmptySeq
    <3> DEFINE B == {n \in 0..m : n = 0 \/ Total(Marks(w[n], slot)) = u[n]}
    <3>3. 0 \in B /\ B \in SUBSET (0..m)
      OBVIOUS
    <3>4. ASSUME NEW n \in 1..m, n - 1 \in B  PROVE n \in B
      <4>1. CASE n = 1
        <5>1. 1 \in 1..m /\ 1 - 1 = 0
          BY <4>1
        <5>2. v[1] \in Nat /\ u[1] = u[0] + v[1]
          BY <2>1, <2>3, <5>1, ElementsTyped
        <5>3. Total(Marks(w[1], slot)) = v[1] /\ u[1] = v[1]
          BY <2>3, <2>5, <3>1, <5>1, <5>2
        <5>4. QED  BY <4>1, <5>3
      <4>2. CASE n # 1
        <5>1. n \in 2..m /\ n - 1 \in 1..m /\ n - 1 # 0
          BY <4>2
        <5>2. Total(Marks(w[n - 1], slot)) = u[n - 1]
          BY <3>4, <5>1
        <5>3. w[n - 1] \in Seq(S) /\ seqs[n] \in Seq(S)
          BY <1>4, <1>7, <3>1, <5>1
        <5>4. Total(Marks(w[n - 1] \o seqs[n], slot)) =
                 Total(Marks(w[n - 1], slot)) + Total(Marks(seqs[n], slot))
          BY <5>3, MarksConcat
        <5>5. Total(Marks(w[n], slot)) = u[n - 1] + v[n]
          BY <2>5, <3>1, <5>1, <5>2, <5>4
        <5>6. n \in 0..m
          OBVIOUS
        <5>7. QED  BY <2>3, <5>5, <5>6
      <4>3. QED  BY <4>1, <4>2
    <3>5. B = 0..m
      <4> HIDE DEF B
      <4>1. QED  BY <3>3, <3>4, UpTo
    <3>6. m \in B
      <4>1. m \in 0..m
        OBVIOUS
      <4> HIDE DEF B
      <4>2. QED  BY <3>5, <4>1
    <3>7. Total(Marks(w[m], slot)) = u[m]
      BY <3>2, <3>6
    <3>8. QED  BY <2>1, <2>6, <3>1, <3>7
  <2>9. QED  BY <2>7, <2>8
<1>10. QED  BY <1>1, <1>4, <1>6, <1>8, <1>9 DEF S

Enough(refs, slots) ==
    \A k \in DOMAIN slots :
       slots[k].required => ~(R!Units(refs, slots[k].slot) < R!OrElse(slots[k].min, 1))

LEMMA NoneMissing ==
    ASSUME NEW slots \in Seq(AnySlots), NEW refs, R!MissingRequiredSlots(slots, refs) = <<>>
    PROVE  Enough(refs, slots)
<1> DEFINE S == {s \in R!Range(slots) : s.required /\ R!Units(refs, s.slot) < R!OrElse(s.min, 1)}
           o == Only(slots, S)
<1>1. R!MissingRequiredSlots(slots, refs) = o
  BY SameOnly DEF R!MissingRequiredSlots, R!Select
<1>2. \A k \in DOMAIN slots : slots[k] \in S <=>
         (slots[k].required /\ R!Units(refs, slots[k].slot) < R!OrElse(slots[k].min, 1))
  BY InRange
<1> HIDE DEF S
<1>3. \A k \in DOMAIN slots : slots[k] \in S => \E n \in DOMAIN o : o[n] = slots[k]
  BY OnlyFacts
<1> HIDE DEF o
<1>4. DOMAIN o = {}
  BY <1>1
<1>5. QED  BY <1>2, <1>3, <1>4 DEF Enough

LEMMA DistinctSlots ==
    ASSUME NEW c, R!ContractValid(c), NEW i \in DOMAIN c.modes
    PROVE  Distinct(c.modes[i].slots)
BY DEF R!ContractValid, Distinct

\* The one slot that takes a reference is the slot of its name.
LEMMA TheSlot ==
    ASSUME NEW slots \in Seq(R!Slots), Distinct(slots), NEW r \in Agreed(slots)
    PROVE  \E k \in DOMAIN slots :
              /\ slots[k].slot = r.slot /\ \A l \in DOMAIN slots : slots[l].slot = r.slot => l = k
              /\ r.entry = None => r.type # "library_ref" /\ R!ReferenceTypeMatches(r.type, slots[k].type)
              /\ R!First(R!Select(slots, LAMBDA s : s.slot = r.slot)) = slots[k]
              /\ slots[k] # None
<1>1. PICK k \in DOMAIN slots :
         /\ slots[k].slot = r.slot
         /\ r.entry = None => r.type # "library_ref" /\ R!ReferenceTypeMatches(r.type, slots[k].type)
  BY DEF Agreed, Takes
<1>2. \A l \in DOMAIN slots : slots[l].slot = r.slot => l = k
  BY <1>1 DEF Distinct
<1> DEFINE S == {s \in R!Range(slots) : s.slot = r.slot}
<1>3. R!Select(slots, LAMBDA s : s.slot = r.slot) = R!Only(slots, S)
  BY DEF R!Select
<1>4. \A l \in DOMAIN slots : slots[l] \in S <=> slots[l].slot = r.slot
  BY InRange
<1>5. None \notin R!Slots
  BY InputLimits
<1> HIDE DEF S
<1>6. /\ R!First(R!Only(slots, S)) = None => \A l \in DOMAIN slots : slots[l] \notin S
      /\ R!First(R!Only(slots, S)) # None =>
            \E l \in DOMAIN slots : slots[l] \in S /\ R!First(R!Only(slots, S)) = slots[l]
  BY <1>5, FirstOnly
<1>7. R!First(R!Only(slots, S)) = slots[k]
  BY <1>1, <1>2, <1>4, <1>6
<1>8. slots[k] # None
  BY <1>5, ElementsTyped
<1>9. QED  BY <1>1, <1>2, <1>3, <1>7, <1>8

\* A reference to an asset is resolved as its slot wants it, but for the known gaps.
LEMMA AssetServes ==
    ASSUME NEW r \in GoodRefs, r.entry = None, NEW s, r.type # "library_ref",
           R!ReferenceTypeMatches(r.type, s.type), s.type # "json", ~(r.type = "image" /\ s.type = "image_list")
    PROVE  /\ R!ReferenceAssetType(Seen(r).type) = Seen(r).media
           /\ Seen(r).type = s.type \/ (s.type = "image" /\ Seen(r).type = "image_list")
           /\ Seen(r).kind = None
<1>1. Seen(r).type = r.type /\ Seen(r).media = AssetType[r.asset] /\ Seen(r).kind = None
  BY DEF Seen
<1>2. r.type # "json"
  BY DEF R!ReferenceTypeMatches
<1>3. AssetType[r.asset] = R!ReferenceAssetType(r.type)
  BY <1>2 DEF GoodRefs
<1>4. r.type = s.type \/ (s.type = "image" /\ r.type = "image_list")
  BY DEF R!ReferenceTypeMatches
<1>5. QED  BY <1>1, <1>3, <1>4

LEMMA EntryServes ==
    ASSUME NEW r, r.entry # None, NEW s, s.lib # None, EntryKind[r.entry] \in s.lib.kinds,
           "material" \in s.lib.forms, s.type = R!MediaOfKind(EntryKind[r.entry]),
           MaterialType[r.entry] = R!MediaOfKind(EntryKind[r.entry])
    PROVE  /\ R!ReferenceAssetType(Seen(r).type) = Seen(r).media
           /\ Seen(r).type = s.type /\ Seen(r).kind \in s.lib.kinds
           /\ Seen(r).media # None
<1>1. /\ Seen(r).type = R!MediaOfKind(EntryKind[r.entry]) /\ Seen(r).media = MaterialType[r.entry]
      /\ Seen(r).kind = EntryKind[r.entry]
  BY DEF Seen
<1>2. R!MediaOfKind(EntryKind[r.entry]) \in {"audio", "image"}
  BY DEF R!MediaOfKind
<1>3. None \notin {"audio", "image"}
  BY InputLimits DEF R!ReferenceTypes, R!Media
<1>4. \A x \in {"audio", "image"} : R!ReferenceAssetType(x) = x
  BY DEF R!ReferenceAssetType
<1>5. QED  BY <1>1, <1>2, <1>3, <1>4

\* The inputs of each slot are as many and of the type that it asks for.
Serves(slots, inputs) ==
    \A k \in DOMAIN slots :
       LET s == slots[k]
           n == R!Total([m \in DOMAIN inputs |-> IF inputs[m].slot = s.slot THEN 1 ELSE 0])
       IN /\ s.required => n >= R!OrElse(s.min, 1)
          /\ s.max = None \/ n <= s.max
          /\ \A m \in {j \in DOMAIN inputs : inputs[j].slot = s.slot} :
                LET r == inputs[m]
                IN /\ r.type = s.type \/ (s.type = "image" /\ r.type = "image_list")
                   /\ r.kind = None
                      \/ /\ s.lib # None
                         /\ r.kind \in s.lib.kinds
                         /\ (IF r.media # None THEN "material" ELSE "provider_ref") \in s.lib.forms

\* What agrees with a mode of a contract that the catalog took passes the checks.
LEMMA Passes ==
    ASSUME NEW t, t.mode # None, NEW c, c = InputContracts[t.pin], R!ContractValid(c),
           NEW i \in DOMAIN c.modes, c.modes[i] \in R!Modes, R!ModeOf(c, t.mode) = c.modes[i],
           t.refs \in Seq(Agreed(c.modes[i].slots)), Fresh(t.refs),
           Within(t.refs, c.modes[i].slots), Enough(t.refs, c.modes[i].slots), ~R!KnownGap(t)
    PROVE  ~R!ResolutionFails(t.refs) /\ R!ContractAccepts(c, t.mode, R!ResolveInputs(t.refs))
<1> DEFINE slots == c.modes[i].slots
           refs == t.refs
           res == R!ResolveInputs(refs)
<1>1. slots \in Seq(R!Slots) /\ c.modes[i] # None
  BY ModeFacts
<1>2. Distinct(slots)
  BY DistinctSlots
<1>3. \A j \in DOMAIN refs : refs[j] \in Agreed(slots) /\ refs[j] \in GoodRefs
  <2>1. \A j \in DOMAIN refs : refs[j] \in Agreed(slots)
    BY ElementsTyped
  <2>2. QED  BY <2>1 DEF Agreed
<1>4. refs \in Seq(GoodRefs) /\ refs \in Seq(Refs)
  <2>1. \A j \in DOMAIN refs : refs[j] \in GoodRefs /\ refs[j] \in Refs
    BY <1>3 DEF GoodRefs
  <2>2. QED  BY <2>1, SeqIn
<1>5. ASSUME NEW j \in DOMAIN refs
      PROVE  \E k \in DOMAIN slots :
                /\ slots[k].slot = refs[j].slot
                /\ \A l \in DOMAIN slots : slots[l].slot = refs[j].slot => l = k
                /\ R!ReferenceAssetType(Seen(refs[j]).type) = Seen(refs[j]).media
                /\ Seen(refs[j]).type = slots[k].type
                   \/ (slots[k].type = "image" /\ Seen(refs[j]).type = "image_list")
                /\ \/ Seen(refs[j]).kind = None
                   \/ /\ slots[k].lib # None /\ Seen(refs[j]).kind \in slots[k].lib.kinds
                      /\ Seen(refs[j]).media # None /\ "material" \in slots[k].lib.forms
  <2> DEFINE r == refs[j]
  <2>1. r \in Agreed(slots) /\ r \in GoodRefs
    BY <1>3
  <2>2. PICK k \in DOMAIN slots :
           /\ slots[k].slot = r.slot /\ \A l \in DOMAIN slots : slots[l].slot = r.slot => l = k
           /\ r.entry = None => r.type # "library_ref" /\ R!ReferenceTypeMatches(r.type, slots[k].type)
           /\ R!First(R!Select(slots, LAMBDA s : s.slot = r.slot)) = slots[k]
           /\ slots[k] # None
    BY <1>1, <1>2, <2>1, TheSlot
  <2> DEFINE s == slots[k]
  <2>3. /\ ~(r.type = "image" /\ s.type = "image_list") /\ s.type # "json"
        /\ r.entry # None =>
              /\ s.lib # None /\ EntryKind[r.entry] \in s.lib.kinds /\ "material" \in s.lib.forms
              /\ s.type = R!MediaOfKind(EntryKind[r.entry])
              /\ MaterialType[r.entry] = R!MediaOfKind(EntryKind[r.entry])
    BY <2>2 DEF R!KnownGap
  <2> HIDE DEF r, s
  <2>4. CASE r.entry = None
    BY ZenonT(30), <2>1, <2>2, <2>3, <2>4, AssetServes DEF r, s
  <2>5. CASE r.entry # None
    BY <2>2, <2>3, <2>5, EntryServes DEF r, s
  <2>6. QED  BY <2>4, <2>5
<1>6. /\ res \in Seq({Seen(refs[j]) : j \in DOMAIN refs})
      /\ \A slot : Total(Marks(res, slot)) = R!Units(refs, slot)
      /\ \A j \in DOMAIN refs : R!ExpandReference(refs[j]) # <<>>
  BY <1>4, Resolved
<1>7. \A n \in DOMAIN res : \E j \in DOMAIN refs : res[n] = Seen(refs[j])
  <2> DEFINE S == {Seen(refs[j]) : j \in DOMAIN refs}
  <2>1. \A x \in S : \E j \in DOMAIN refs : x = Seen(refs[j])
    OBVIOUS
  <2> HIDE DEF S, refs, res
  <2>2. \A n \in DOMAIN res : res[n] \in S
    BY <1>6, ElementsTyped DEF S
  <2>3. QED  BY <2>1, <2>2
<1>8. \A j \in DOMAIN refs : Seen(refs[j]).slot = refs[j].slot
  BY DEF Seen
<1>9. ~R!ResolutionFails(refs)
  <2> HIDE DEF refs, res, slots
  <2>1. \A n \in DOMAIN res : R!ReferenceAssetType(res[n].type) = res[n].media
    BY <1>5, <1>7
  <2>2. QED  BY <1>6, <2>1 DEF R!ResolutionFails, res
<1>10. R!ModeOf(c, R!OrElse(t.mode, R!OrElse(c.default, R!First(c.modes).id))) = c.modes[i]
  BY DEF R!OrElse
<1>11. \A n \in DOMAIN res : \E k \in DOMAIN slots : slots[k].slot = res[n].slot
  <2> HIDE DEF refs, res, slots
  <2>1. QED  BY <1>5, <1>7, <1>8
<1>12. ASSUME NEW k \in DOMAIN slots
       PROVE  LET s == slots[k]
                  n == R!Total([m \in DOMAIN res |-> IF res[m].slot = s.slot THEN 1 ELSE 0])
              IN /\ s.required => n >= R!OrElse(s.min, 1)
                 /\ s.max = None \/ n <= s.max
                 /\ \A m \in {j \in DOMAIN res : res[j].slot = s.slot} :
                       LET r == res[m]
                       IN /\ r.type = s.type \/ (s.type = "image" /\ r.type = "image_list")
                          /\ r.kind = None
                             \/ /\ s.lib # None
                                /\ r.kind \in s.lib.kinds
                                /\ (IF r.media # None THEN "material" ELSE "provider_ref") \in s.lib.forms
  <2> DEFINE s == slots[k]
             n == R!Total([m \in DOMAIN res |-> IF res[m].slot = s.slot THEN 1 ELSE 0])
             units == R!Units(refs, s.slot)
  <2>1. n = units
    BY <1>6, SameTotal DEF Marks
  <2>2. units \in Nat
    BY <1>4, WeightsTyped
  <2>3. s \in R!Slots
    BY <1>1, ElementsTyped
  <2>4. s.min \in Nat \cup {None}
    BY <2>3 DEF R!Slots, R!Optional
  <2>5. s.required => ~(units < R!OrElse(s.min, 1))
    BY DEF Enough
  <2>6. s.max = None \/ units <= s.max
    BY DEF Within
  <2> HIDE DEF n, units
  <2>7. s.required => n >= R!OrElse(s.min, 1)
    <3> HIDE DEF s
    <3> DEFINE least == R!OrElse(s.min, 1)
    <3>1. least \in Nat
      BY <2>4 DEF R!OrElse
    <3>2. s.required => ~(units < least)
      BY <2>5
    <3> HIDE DEF least
    <3>3. QED  BY <2>1, <2>2, <3>1, <3>2 DEF least
  <2>8. ASSUME NEW m \in DOMAIN res, res[m].slot = s.slot
        PROVE  /\ res[m].type = s.type \/ (s.type = "image" /\ res[m].type = "image_list")
               /\ res[m].kind = None
                  \/ /\ s.lib # None /\ res[m].kind \in s.lib.kinds
                     /\ (IF res[m].media # None THEN "material" ELSE "provider_ref") \in s.lib.forms
    <3>1. PICK j \in DOMAIN refs : res[m] = Seen(refs[j])
      BY <1>7
    <3>2. refs[j].slot = slots[k].slot
      BY <1>8, <2>8, <3>1
    <3>3. PICK l \in DOMAIN slots :
             /\ \A x \in DOMAIN slots : slots[x].slot = refs[j].slot => x = l
             /\ Seen(refs[j]).type = slots[l].type
                \/ (slots[l].type = "image" /\ Seen(refs[j]).type = "image_list")
             /\ \/ Seen(refs[j]).kind = None
                \/ /\ slots[l].lib # None /\ Seen(refs[j]).kind \in slots[l].lib.kinds
                   /\ Seen(refs[j]).media # None /\ "material" \in slots[l].lib.forms
      BY <1>5
    <3>4. l = k
      BY <3>2, <3>3
    <3> HIDE DEF refs, res
    <3>5. QED  BY <3>1, <3>3, <3>4
  <2> HIDE DEF s, res
  <2>9. QED  BY <2>1, <2>6, <2>7, <2>8 DEF n, s
<1>13. R!ContractAccepts(c, t.mode, res)
  <2> DEFINE mode == R!ModeOf(c, R!OrElse(t.mode, R!OrElse(c.default, R!First(c.modes).id)))
  <2>1. mode = c.modes[i] /\ mode # None
    BY <1>1, <1>10
  <2>2. \A n \in DOMAIN res : \E k \in DOMAIN mode.slots : mode.slots[k].slot = res[n].slot
    <3>1. mode.slots = slots
      BY <2>1
    <3> HIDE DEF mode, slots, res
    <3>2. QED  BY <1>11, <3>1
  <2>3. Serves(slots, res)
    <3> HIDE DEF slots, res
    <3>1. QED  BY <1>12 DEF Serves
  <2> HIDE DEF res, mode
  <2>4. Serves(mode.slots, res)
    BY <2>1, <2>3
  <2>5. QED  BY <2>1, <2>2, <2>4 DEF R!ContractAccepts, Serves, mode
<1>14. QED  BY <1>9, <1>13

(***************************************************************************)
(* Inputs: what a form holds and what it makes of it.                      *)
(***************************************************************************)

ValidRevision(c) == c \in DOMAIN InputContracts /\ R!ContractValid(InputContracts[c])
FormHolds(x) ==
    /\ x = [kind |-> x.kind, mode |-> x.mode, seen |-> x.seen, ready |-> x.ready, refs |-> x.refs,
            mentions |-> x.mentions, upstream |-> x.upstream]
    /\ x.kind \in {"quick"} \cup NodeKinds /\ x.ready \in BOOLEAN
    /\ x.seen # None => ValidRevision(x.seen)
    /\ x.refs \in Seq(GoodRefs) /\ Len(x.refs) <= MaxRefs + 1
    /\ x.mentions \in Seq(Assets) /\ x.upstream \in Seq(GoodOutputs)

\* References that agree with a mode of the contract, if it has slots.
AgreesWith(revision, mode, refs, whole) ==
    LET c == InputContracts[revision]
    IN \E i \in DOMAIN c.modes :
          /\ c.modes[i] \in R!Modes /\ R!ModeOf(c, mode) = c.modes[i]
          /\ c.modes[i].slots # <<>> =>
                /\ refs \in Seq(Agreed(c.modes[i].slots)) /\ Within(refs, c.modes[i].slots)
                /\ whole => Enough(refs, c.modes[i].slots)

LEMMA RevisionFacts ==
    ASSUME NEW c, ValidRevision(c)
    PROVE  /\ c # None /\ R!Contract(c) = InputContracts[c] /\ InputContracts[c] # None
           /\ InputContracts[c].modes \in Seq(R!Modes) /\ R!ContractValid(InputContracts[c])
BY InputLimits DEF ValidRevision, R!Contract

LEMMA AgreedAreGood ==
    ASSUME NEW slots, NEW refs \in Seq(Agreed(slots))
    PROVE  refs \in Seq(GoodRefs)
<1>1. \A n \in DOMAIN refs : refs[n] \in GoodRefs
  <2>1. \A n \in DOMAIN refs : refs[n] \in Agreed(slots)
    BY ElementsTyped
  <2>2. QED  BY <2>1 DEF Agreed
<1>2. QED  BY <1>1, SeqIn

\* The slots of the mode that is sent or shown.
LEMMA SentSlots ==
    ASSUME NEW revision, revision # None => ValidRevision(revision), NEW kind, NEW own
    PROVE  LET c == R!Contract(revision)
               mode == R!EnsureInputMode(c, own)
               slots == R!SlotsForMode(R!ModeContract(c, mode), kind, mode)
           IN /\ slots \in Seq(AnySlots) /\ (kind = "quick" => slots \in Seq(R!Slots))
              /\ revision # None =>
                    /\ mode # None
                    /\ \E i \in DOMAIN InputContracts[revision].modes :
                          /\ InputContracts[revision].modes[i] \in R!Modes
                          /\ R!ModeOf(InputContracts[revision], mode) = InputContracts[revision].modes[i]
                          /\ InputContracts[revision].modes[i].slots # <<>> =>
                                slots = InputContracts[revision].modes[i].slots
<1> DEFINE c == R!Contract(revision)
           mode == R!EnsureInputMode(c, own)
           slots == R!SlotsForMode(R!ModeContract(c, mode), kind, mode)
<1>1. CASE revision = None
  <2>1. c = None
    BY <1>1 DEF R!Contract
  <2>2. R!ModeContract(c, mode) = None
    BY <2>1 DEF R!ModeContract
  <2>3. R!ModeContract(c, mode) \in R!Modes \cup {None}
    BY <2>2
  <2> HIDE DEF c, mode
  <2>4. slots \in Seq(AnySlots) /\ (kind = "quick" => slots \in Seq(R!Slots))
    BY <2>3, SlotsTyped
  <2>5. QED  BY <1>1, <2>4 DEF c, mode
<1>2. CASE revision # None
  <2>1. /\ c = InputContracts[revision] /\ c # None /\ c.modes \in Seq(R!Modes) /\ R!ContractValid(c)
    BY <1>2, RevisionFacts
  <2> HIDE DEF c
  <2>2. /\ mode # None /\ R!ModeOf(c, mode) \in R!Modes
        /\ R!ModeContract(c, mode) = R!ModeOf(c, mode)
        /\ \E i \in DOMAIN c.modes : R!ModeOf(c, mode) = c.modes[i]
    BY <2>1, Ensured
  <2> HIDE DEF mode
  <2>3. PICK i \in DOMAIN c.modes : R!ModeOf(c, mode) = c.modes[i]
    BY <2>2
  <2>4. c.modes[i] # None
    BY <2>2, <2>3, ModeFacts
  <2>5. /\ slots \in Seq(AnySlots) /\ (kind = "quick" => slots \in Seq(R!Slots))
        /\ (c.modes[i].slots # <<>> => slots = c.modes[i].slots)
    BY <2>2, <2>3, <2>4, SlotsTyped
  <2> HIDE DEF slots
  <2>6. QED  BY <1>2, <2>1, <2>2, <2>3, <2>5 DEF c, mode, slots
<1>3. QED  BY <1>1, <1>2

\* What a form sends agrees with the contract it goes by.
LEMMA BodyFacts ==
    ASSUME FormHolds(form), NEW revision, revision # None => ValidRevision(revision)
    PROVE  /\ R!Body(revision).refs \in Seq(GoodRefs)
           /\ revision # None =>
                 /\ R!Body(revision).mode # None
                 /\ AgreesWith(revision, R!Body(revision).mode, R!Body(revision).refs,
                               R!Body(revision).missing = <<>>)
<1> DEFINE c == R!Contract(revision)
           mode == R!EnsureInputMode(c, form.mode)
           slots == R!SlotsForMode(R!ModeContract(c, mode), form.kind, mode)
           picked == R!FilterRefsForSlots(form.refs, slots)
           mentioned == R!MentionRefs(form.mentions, slots)
           carried == R!FilterRefsForSlots(R!MapReferences(form.kind, mode, form.upstream), slots)
           refs == IF form.kind = "quick" THEN R!MergeReferences(picked, mentioned, slots)
                   ELSE R!MergeReferences(carried, picked, slots)
           missing == R!MissingRequiredSlots(slots, refs)
<1>1. R!Body(revision) = [mode |-> mode, refs |-> refs, missing |-> missing]
  BY DEF R!Body
<1>2. /\ slots \in Seq(AnySlots) /\ (form.kind = "quick" => slots \in Seq(R!Slots))
      /\ revision # None =>
            /\ mode # None
            /\ \E i \in DOMAIN InputContracts[revision].modes :
                  /\ InputContracts[revision].modes[i] \in R!Modes
                  /\ R!ModeOf(InputContracts[revision], mode) = InputContracts[revision].modes[i]
                  /\ InputContracts[revision].modes[i].slots # <<>> =>
                        slots = InputContracts[revision].modes[i].slots
  BY SentSlots
<1> HIDE DEF slots
<1>3. picked \in Seq(Agreed(slots))
  BY Filtered DEF FormHolds
<1>4. carried \in Seq(Agreed(slots))
  BY Mapped, Filtered DEF FormHolds
<1>5. form.kind = "quick" => mentioned \in Seq(Agreed(slots))
  BY <1>2, MentionsTyped DEF FormHolds
<1> HIDE DEF picked, carried, mentioned, mode
<1>6. refs \in Seq(Agreed(slots)) /\ (Distinct(slots) => Within(refs, slots))
  BY <1>2, <1>3, <1>4, <1>5, Merged
<1> HIDE DEF refs
<1>7. refs \in Seq(GoodRefs)
  BY <1>6, AgreedAreGood
<1>8. missing = <<>> => Enough(refs, slots)
  BY <1>2, NoneMissing
<1> HIDE DEF missing
<1>9. ASSUME revision # None
      PROVE  mode # None /\ AgreesWith(revision, mode, refs, missing = <<>>)
  <2>1. R!ContractValid(InputContracts[revision])
    BY <1>9, RevisionFacts
  <2>2. PICK i \in DOMAIN InputContracts[revision].modes :
           /\ InputContracts[revision].modes[i] \in R!Modes
           /\ R!ModeOf(InputContracts[revision], mode) = InputContracts[revision].modes[i]
           /\ InputContracts[revision].modes[i].slots # <<>> =>
                 slots = InputContracts[revision].modes[i].slots
    BY <1>2, <1>9
  <2>3. Distinct(InputContracts[revision].modes[i].slots)
    BY <2>1, DistinctSlots
  <2>4. InputContracts[revision].modes[i].slots # <<>> =>
           /\ refs \in Seq(Agreed(InputContracts[revision].modes[i].slots))
           /\ Within(refs, InputContracts[revision].modes[i].slots)
           /\ missing = <<>> => Enough(refs, InputContracts[revision].modes[i].slots)
    BY <1>6, <1>8, <2>2, <2>3
  <2>5. QED  BY <1>2, <1>9, <2>2, <2>4 DEF AgreesWith
<1>10. QED  BY <1>1, <1>7, <1>9

\* The slots that the form shows.
LEMMA ShownTyped ==
    ASSUME FormHolds(form)
    PROVE  R!ShownSlots \in Seq(AnySlots)
<1>1. form.seen # None => ValidRevision(form.seen)
  BY DEF FormHolds
<1>2. QED  BY <1>1, SentSlots DEF R!ShownSlots, R!ShownMode

\* The items that references stand for.
HeldBy(refs) == {<<refs[i].slot, R!Item(refs[i])>> : i \in DOMAIN refs}

LEMMA HeldMore ==
    ASSUME NEW S, NEW refs \in Seq(S), NEW r \in S
    PROVE  HeldBy(Append(refs, r)) = HeldBy(refs) \cup {<<r.slot, R!Item(r)>>}
<1>1. PICK m \in Nat : m = Len(refs) /\ DOMAIN refs = 1..m
  BY ElementsTyped
<1>2. PICK a \in Seq(S) : a = Append(refs, r)
  BY AppendProperties
<1>3. Len(a) = m + 1 /\ (\A i \in 1..m : a[i] = refs[i]) /\ a[m + 1] = r
  BY <1>1, <1>2, AppendProperties
<1>4. DOMAIN a = 1..(m + 1)
  BY <1>3, ElementsTyped
<1>5. \A i \in 1..(m + 1) : i \in 1..m \/ i = m + 1
  OBVIOUS
<1>6. \A i \in 1..m : i \in 1..(m + 1)
  OBVIOUS
<1>7. m + 1 \in 1..(m + 1)
  OBVIOUS
<1>8. HeldBy(a) = HeldBy(refs) \cup {<<r.slot, R!Item(r)>>}
  BY <1>1, <1>3, <1>4, <1>5, <1>6, <1>7 DEF HeldBy
<1>9. QED  BY <1>2, <1>8

LEMMA HeldLess ==
    ASSUME NEW S, NEW refs \in Seq(S), NEW gone
    PROVE  /\ R!Without(refs, gone) \in Seq(S) /\ Len(R!Without(refs, gone)) <= Len(refs)
           /\ HeldBy(R!Without(refs, gone)) = HeldBy(refs) \ {<<gone.slot, R!Item(gone)>>}
<1> DEFINE K == {r \in R!Range(refs) : ~(r.slot = gone.slot /\ R!Item(r) = R!Item(gone))}
           o == Only(refs, K)
<1>1. R!Without(refs, gone) = o
  BY SameOnly DEF R!Without, R!Select
<1>2. \A k \in DOMAIN refs : refs[k] \in K <=> ~(refs[k].slot = gone.slot /\ R!Item(refs[k]) = R!Item(gone))
  BY InRange
<1> HIDE DEF K
<1>3. /\ o \in Seq(S) /\ Len(o) <= Len(refs)
      /\ \A n \in DOMAIN o : \E k \in DOMAIN refs : refs[k] = o[n] /\ refs[k] \in K
      /\ \A k \in DOMAIN refs : refs[k] \in K => \E n \in DOMAIN o : o[n] = refs[k]
  BY OnlyFacts
<1> HIDE DEF o
<1>4. ASSUME NEW p \in HeldBy(o)  PROVE p \in HeldBy(refs) \ {<<gone.slot, R!Item(gone)>>}
  <2>1. PICK n \in DOMAIN o : p = <<o[n].slot, R!Item(o[n])>>
    BY <1>4 DEF HeldBy
  <2>2. PICK k \in DOMAIN refs : refs[k] = o[n] /\ refs[k] \in K
    BY <1>3
  <2>3. QED  BY <1>2, <2>1, <2>2 DEF HeldBy
<1>5. ASSUME NEW p \in HeldBy(refs) \ {<<gone.slot, R!Item(gone)>>}  PROVE p \in HeldBy(o)
  <2>1. PICK k \in DOMAIN refs : p = <<refs[k].slot, R!Item(refs[k])>>
    BY <1>5 DEF HeldBy
  <2>2. refs[k] \in K
    BY <1>2, <1>5, <2>1
  <2>3. PICK n \in DOMAIN o : o[n] = refs[k]
    BY <1>3, <2>2
  <2>4. QED  BY <2>1, <2>3 DEF HeldBy
<1>6. QED  BY <1>1, <1>3, <1>4, <1>5

\* The inductive invariant of the inputs.
UploadHolds(u) ==
    /\ u = [refs |-> u.refs, ref |-> u.ref]
    /\ u.refs \in Seq(GoodRefs) /\ Len(u.refs) <= MaxRefs
    /\ u.ref \in GoodRefs /\ u.ref.asset \in Assets /\ u.ref.entry = None
TaskHolds(t) ==
    /\ t = [for |-> t.for, pin |-> t.pin, verdict |-> t.verdict, edited |-> t.edited, mode |-> t.mode,
            refs |-> t.refs]
    /\ t.edited \in BOOLEAN /\ t.verdict \in {None, "accepted", "refused"}
    /\ t.refs \in Seq(GoodRefs)
    /\ t.for # None => ValidRevision(t.for) /\ t.mode # None /\ AgreesWith(t.for, t.mode, t.refs, TRUE)
    /\ t.verdict = "refused" =>
          Len(t.refs) > MaxReferences \/ t.for # t.pin \/ t.edited \/ R!KnownGap(t)
TaskFits == task # None => TaskHolds(task) /\ (~task.edited => Fresh(task.refs))
Libraries == [LibraryEntries -> [units : 0..MaxUnits, bound : BOOLEAN]]
Keeps(refs, picks, pending) == (pending # None => pending.refs = refs) /\ HeldBy(refs) = picks
InputsHold ==
    /\ ValidRevision(contract) /\ FormHolds(form) /\ (upload # None => UploadHolds(upload))
    /\ library \in Libraries /\ TaskFits
    /\ crossed \in BOOLEAN /\ (~crossed => Keeps(form.refs, chosen, upload))
InputInv == scope = "inputs" => InputsHold

LEMMA FormKept ==
    ASSUME FormHolds(form), NEW mode, NEW seen, seen # None => ValidRevision(seen), NEW ready \in BOOLEAN,
           NEW x, x = [kind |-> form.kind, mode |-> mode, seen |-> seen, ready |-> ready, refs |-> form.refs,
                       mentions |-> form.mentions, upstream |-> form.upstream]
    PROVE  FormHolds(x) /\ x.refs = form.refs
BY DEF FormHolds

LEMMA FormWith ==
    ASSUME FormHolds(form), NEW refs \in Seq(GoodRefs), Len(refs) <= MaxRefs + 1,
           NEW x, x = [form EXCEPT !.refs = refs]
    PROVE  FormHolds(x) /\ x.refs = refs
<1>1. x = [kind |-> form.kind, mode |-> form.mode, seen |-> form.seen, ready |-> form.ready, refs |-> refs,
           mentions |-> form.mentions, upstream |-> form.upstream]
  BY DEF FormHolds
<1>2. QED  BY <1>1 DEF FormHolds

\* One more reference, of what was picked.
LEMMA OneMore ==
    ASSUME FormHolds(form), Len(form.refs) < MaxRefs, NEW r \in GoodRefs,
           NEW x, x = [form EXCEPT !.refs = Append(form.refs, r)]
    PROVE  /\ FormHolds(x) /\ x.refs = Append(form.refs, r)
           /\ HeldBy(x.refs) = HeldBy(form.refs) \cup {<<r.slot, R!Item(r)>>}
<1>1. form.refs \in Seq(GoodRefs)
  BY DEF FormHolds
<1>2. PICK refs \in Seq(GoodRefs) : refs = Append(form.refs, r) /\ Len(refs) = Len(form.refs) + 1
  <2>1. PICK old \in Seq(GoodRefs) : old = form.refs
    BY <1>1
  <2>2. Append(old, r) \in Seq(GoodRefs) /\ Len(Append(old, r)) = Len(old) + 1
    BY AppendProperties
  <2>3. QED  BY <2>1, <2>2
<1>3. Len(form.refs) \in Nat /\ MaxRefs \in Nat
  BY <1>1, InputLimits, ElementsTyped
<1>4. Len(refs) <= MaxRefs + 1
  BY <1>2, <1>3
<1>5. FormHolds(x) /\ x.refs = refs
  BY <1>2, <1>4, FormWith
<1>6. QED  BY <1>1, <1>2, <1>5, HeldMore

LEMMA InputInit ==
    ASSUME Init
    PROVE  InputInv
<1> SUFFICES ASSUME scope = "inputs"  PROVE InputsHold
  BY DEF InputInv
<1>1. R!Init
  BY DEF Init
<1>2. ValidRevision(contract) /\ upload = None /\ task = None /\ chosen = {} /\ crossed = FALSE
  BY <1>1 DEF R!Init, ValidRevision
<1>3. PICK kind \in {"quick"} \cup NodeKinds, up \in Upstream :
         form = [kind |-> kind, mode |-> IF kind = "quick" THEN None ELSE R!NodeForm(kind).first,
                 seen |-> None, ready |-> FALSE, refs |-> <<>>, mentions |-> <<>>,
                 upstream |-> IF kind = "quick" THEN <<>> ELSE up]
  BY <1>1 DEF R!Init
<1>4. up \in Seq(GoodOutputs)
  <2>1. up \in Seq(R!Outputs) /\ \A i \in DOMAIN up : AssetType[up[i].asset] = R!ReferenceAssetType(up[i].type)
    BY InputLimits
  <2>2. \A i \in DOMAIN up : up[i] \in GoodOutputs
    BY <2>1, ElementsTyped DEF GoodOutputs
  <2>3. QED  BY <2>1, <2>2, SeqIn
<1>5. <<>> \in Seq(GoodRefs) /\ <<>> \in Seq(Assets) /\ <<>> \in Seq(GoodOutputs) /\ Len(<<>>) <= MaxRefs + 1
  BY InputLimits
<1>6. FormHolds(form) /\ form.refs = <<>>
  BY <1>3, <1>4, <1>5 DEF FormHolds
<1>7. library \in Libraries
  BY <1>1, InputLimits DEF R!Init, Libraries
<1>8. HeldBy(<<>>) = {}
  BY DEF HeldBy
<1>9. QED  BY <1>2, <1>6, <1>7, <1>8 DEF InputsHold, TaskFits, Keeps

\* The user at the form.
LEMMA FormStep ==
    ASSUME InputsHold,
           \/ R!LoadContract \/ R!LoadFails \/ R!SelectModel \/ R!SwitchOutput
           \/ R!FinishUpload \/ R!UploadFails
           \/ \E i \in 1..3 : R!SwitchMode(i) \/ R!TakeBack(i)
           \/ \E i \in 1..3, a \in Assets : R!Pick(i, a) \/ R!StartUpload(i, a)
           \/ \E i \in 1..3, e \in LibraryEntries : R!PickEntry(i, e)
           \/ \E a \in Assets : R!Mention(a)
    PROVE  InputsHold'
<1> USE DEF InputsHold
<1>1. UNCHANGED <<contract, library, task>>
  BY DEF R!LoadContract, R!LoadFails, R!SelectModel, R!SwitchOutput, R!FinishUpload, R!UploadFails,
         R!SwitchMode, R!TakeBack, R!Pick, R!StartUpload, R!PickEntry, R!Mention
<1>2. ValidRevision(contract)' /\ (library \in Libraries)' /\ TaskFits'
  BY <1>1 DEF TaskFits, Fresh
<1> DEFINE Goal == /\ FormHolds(form') /\ (upload' # None => UploadHolds(upload'))
                   /\ crossed' \in BOOLEAN /\ (~crossed' => Keeps(form'.refs, chosen', upload'))
<1> SUFFICES Goal
  BY <1>2
<1>3. form.refs \in Seq(GoodRefs) /\ Len(form.refs) \in Nat /\ MaxRefs \in Nat
  BY InputLimits, ElementsTyped DEF FormHolds
<1>4. ASSUME NEW mode, NEW seen, seen # None => ValidRevision(seen), NEW ready \in BOOLEAN,
             form' = [form EXCEPT !.seen = seen, !.ready = ready, !.mode = mode],
             UNCHANGED <<upload, chosen, crossed>>
      PROVE  Goal
  <2>1. form' = [kind |-> form.kind, mode |-> mode, seen |-> seen, ready |-> ready, refs |-> form.refs,
                 mentions |-> form.mentions, upstream |-> form.upstream]
    BY <1>4 DEF FormHolds
  <2>2. FormHolds(form') /\ form'.refs = form.refs
    BY <1>4, <2>1, FormKept
  <2>3. QED  BY <1>4, <2>2
<1>5. CASE R!LoadContract
  <2>1. /\ form' = [form EXCEPT !.seen = contract, !.ready = TRUE,
                       !.mode = R!EnsureInputMode(InputContracts[contract], form.mode)]
        /\ UNCHANGED <<upload, chosen, crossed>>
    BY <1>5 DEF R!LoadContract
  <2> HIDE DEF Goal
  <2>2. QED  BY <1>4, <2>1
<1>6. CASE R!LoadFails \/ R!SelectModel
  <2>1. /\ form' = [form EXCEPT !.seen = None, !.ready = TRUE]
           \/ form' = [form EXCEPT !.seen = None, !.ready = FALSE]
        /\ UNCHANGED <<upload, chosen, crossed>>
    BY <1>6 DEF R!LoadFails, R!SelectModel
  <2>2. \E ready \in BOOLEAN : form' = [form EXCEPT !.seen = None, !.ready = ready, !.mode = form.mode]
    BY <2>1 DEF FormHolds
  <2> HIDE DEF Goal
  <2>3. QED  BY <1>4, <2>1, <2>2
<1>7. ASSUME NEW i \in 1..3, R!SwitchMode(i)  PROVE Goal
  <2>1. /\ form' = [form EXCEPT !.mode = InputContracts[form.seen].modes[i].id]
        /\ UNCHANGED <<upload, chosen, crossed>>
    BY <1>7 DEF R!SwitchMode
  <2>2. form.ready \in BOOLEAN /\ (form.seen # None => ValidRevision(form.seen))
    BY DEF FormHolds
  <2>3. form' = [form EXCEPT !.seen = form.seen, !.ready = form.ready,
                    !.mode = InputContracts[form.seen].modes[i].id]
    BY <2>1 DEF FormHolds
  <2> HIDE DEF Goal
  <2>4. QED  BY <1>4, <2>1, <2>2, <2>3
<1>8. CASE R!SwitchOutput
  <2>1. /\ form' = [form EXCEPT !.mode = None, !.seen = None, !.ready = FALSE, !.refs = <<>>]
        /\ chosen' = {} /\ crossed' = (crossed \/ upload # None) /\ upload' = upload
    BY <1>8 DEF R!SwitchOutput
  <2>2. form' = [kind |-> form.kind, mode |-> None, seen |-> None, ready |-> FALSE, refs |-> <<>>,
                 mentions |-> form.mentions, upstream |-> form.upstream]
    BY <2>1 DEF FormHolds
  <2>3. <<>> \in Seq(GoodRefs) /\ Len(<<>>) <= MaxRefs + 1
    BY <1>3
  <2>4. FormHolds(form') /\ form'.refs = <<>>
    BY <2>2, <2>3 DEF FormHolds
  <2>5. HeldBy(<<>>) = {}
    BY DEF HeldBy
  <2>6. QED  BY <2>1, <2>4, <2>5 DEF Keeps
<1>9. ASSUME NEW r \in GoodRefs, Len(form.refs) < MaxRefs,
             form' = [form EXCEPT !.refs = Append(form.refs, r)],
             chosen' = chosen \cup {<<r.slot, R!Item(r)>>},
             crossed' = (crossed \/ upload # None), UNCHANGED upload
      PROVE  Goal
  <2>1. FormHolds(form') /\ HeldBy(form'.refs) = HeldBy(form.refs) \cup {<<r.slot, R!Item(r)>>}
    BY <1>9, OneMore
  <2>2. QED  BY <1>9, <2>1 DEF Keeps
<1>10. R!ShownSlots \in Seq(AnySlots) /\ \A i \in DOMAIN R!ShownSlots : R!ShownSlots[i] \in AnySlots
  BY ShownTyped, ElementsTyped
<1>11. ASSUME NEW i \in 1..3, NEW a \in Assets, R!Pick(i, a)  PROVE Goal
  <2>1. /\ i \in DOMAIN R!ShownSlots /\ AssetType[a] = R!AcceptOf(R!ShownSlots[i].type)
        /\ Len(form.refs) < MaxRefs
        /\ form' = [form EXCEPT !.refs = Append(form.refs, R!Picked(R!ShownSlots[i], a))]
        /\ chosen' = chosen \cup {<<R!ShownSlots[i].slot, a>>}
        /\ crossed' = (crossed \/ upload # None) /\ UNCHANGED upload
    BY <1>11 DEF R!Pick
  <2>2. PICK r \in GoodRefs : r = R!Picked(R!ShownSlots[i], a)
    BY <1>10, <2>1, PickedAgrees
  <2>3. r.slot = R!ShownSlots[i].slot /\ R!Item(r) = a
    BY <2>2 DEF R!Picked, R!Item
  <2> HIDE DEF Goal
  <2>4. QED  BY <1>9, <2>1, <2>2, <2>3
<1>12. ASSUME NEW i \in 1..3, NEW e \in LibraryEntries, R!PickEntry(i, e)  PROVE Goal
  <2> DEFINE s == R!ShownSlots[i]
  <2>1. /\ i \in DOMAIN R!ShownSlots /\ library[e].units > 0 /\ Len(form.refs) < MaxRefs
        /\ form' = [form EXCEPT !.refs = Append(form.refs, R!PickedEntry(s, e))]
        /\ chosen' = chosen \cup {<<s.slot, e>>}
        /\ crossed' = (crossed \/ upload # None) /\ UNCHANGED upload
    BY <1>12 DEF R!PickEntry
  <2>2. s.slot \in Names
    BY <1>10, <2>1, SlotFacts
  <2>3. library[e].units \in Nat
    BY InputLimits DEF Libraries
  <2>4. e # None
    BY InputLimits
  <2> HIDE DEF s
  <2>5. R!PickedEntry(s, e) =
           [slot |-> s.slot, type |-> "library_ref", asset |-> None, entry |-> e, units |-> library[e].units]
    BY DEF R!PickedEntry
  <2>6. PICK r : r = R!PickedEntry(s, e)
    OBVIOUS
  <2>7. r \in Refs /\ r.entry = e /\ r.units = library[e].units /\ r.slot = s.slot
    BY <2>2, <2>3, <2>5, <2>6 DEF Refs, R!ReferenceTypes
  <2>8. r \in GoodRefs /\ R!Item(r) = e
    BY <2>1, <2>4, <2>7 DEF GoodRefs, R!Item
  <2> HIDE DEF Goal
  <2>9. QED  BY <1>9, <2>1, <2>6, <2>7, <2>8
<1>13. ASSUME NEW i \in 1..3, R!TakeBack(i)  PROVE Goal
  <2> DEFINE slot == R!ShownSlots[i].slot
             S == {r \in R!Range(form.refs) : r.slot = slot}
             first == R!First(R!Select(form.refs, LAMBDA r : r.slot = slot))
  <2>1. /\ first # None
        /\ form' = [form EXCEPT !.refs = R!Without(form.refs, first)]
        /\ chosen' = chosen \ {<<slot, R!Item(first)>>}
        /\ crossed' = (crossed \/ upload # None) /\ UNCHANGED upload
    BY <1>13 DEF R!TakeBack
  <2>2. first.slot = slot
    <3>1. first = R!First(R!Only(form.refs, S))
      BY DEF R!Select
    <3>2. None \notin {r \in GoodRefs : r # None}
      OBVIOUS
    <3>3. \A r \in S : r.slot = slot
      OBVIOUS
    <3> HIDE DEF S
    <3> DEFINE o == Only(form.refs, S)
    <3>4. o = R!Only(form.refs, S) /\ o \in Seq(GoodRefs)
          /\ \A n \in DOMAIN o : \E k \in DOMAIN form.refs : form.refs[k] = o[n] /\ form.refs[k] \in S
      BY <1>3, SameOnly, OnlyFacts
    <3> HIDE DEF o, first
    <3>5. o # <<>> /\ first = o[1]
      BY <2>1, <3>1, <3>4 DEF R!First
    <3>6. 1 \in DOMAIN o
      BY <3>4, <3>5, EmptySeq, ElementsTyped
    <3>7. first \in S
      BY <3>4, <3>5, <3>6
    <3>8. QED  BY <3>3, <3>7
  <2> HIDE DEF first, slot
  <2>3. PICK refs \in Seq(GoodRefs) :
           /\ refs = R!Without(form.refs, first) /\ Len(refs) <= Len(form.refs)
           /\ HeldBy(refs) = HeldBy(form.refs) \ {<<first.slot, R!Item(first)>>}
    BY <1>3, HeldLess
  <2>4. Len(refs) \in Nat /\ Len(form.refs) <= MaxRefs + 1
    BY <2>3, ElementsTyped DEF FormHolds
  <2>5. Len(refs) <= MaxRefs + 1
    BY <1>3, <2>3, <2>4
  <2>6. FormHolds(form') /\ form'.refs = refs
    BY <2>1, <2>3, <2>5, FormWith
  <2>7. QED  BY <2>1, <2>2, <2>3, <2>6 DEF Keeps
<1>14. ASSUME NEW i \in 1..3, NEW a \in Assets, R!StartUpload(i, a)  PROVE Goal
  <2>1. /\ i \in DOMAIN R!ShownSlots /\ AssetType[a] = R!AcceptOf(R!ShownSlots[i].type)
        /\ Len(form.refs) < MaxRefs
        /\ upload' = [refs |-> form.refs, ref |-> R!Picked(R!ShownSlots[i], a)]
        /\ UNCHANGED <<form, chosen, crossed>>
    BY <1>14 DEF R!StartUpload
  <2>2. PICK r \in GoodRefs : r = R!Picked(R!ShownSlots[i], a)
    BY <1>10, <2>1, PickedAgrees
  <2>3. r.asset \in Assets /\ r.entry = None
    BY <2>2 DEF R!Picked
  <2>4. UploadHolds(upload')
    BY <1>3, <2>1, <2>2, <2>3 DEF UploadHolds
  <2>5. QED  BY <2>1, <2>4 DEF Keeps
<1>15. CASE R!FinishUpload
  <2>1. /\ upload # None /\ form' = [form EXCEPT !.refs = Append(upload.refs, upload.ref)]
        /\ chosen' = chosen \cup {<<upload.ref.slot, upload.ref.asset>>}
        /\ upload' = None /\ UNCHANGED crossed
    BY <1>15 DEF R!FinishUpload
  <2>2. PICK old \in Seq(GoodRefs), r \in GoodRefs :
           old = upload.refs /\ r = upload.ref /\ Len(old) <= MaxRefs /\ r.entry = None
    BY <2>1 DEF UploadHolds
  <2>3. PICK refs \in Seq(GoodRefs) : refs = Append(old, r) /\ Len(refs) = Len(old) + 1
    BY AppendProperties
  <2>4. Len(refs) <= MaxRefs + 1
    <3>1. Len(old) \in Nat
      BY ElementsTyped
    <3>2. QED  BY <1>3, <2>2, <2>3, <3>1
  <2>5. FormHolds(form') /\ form'.refs = refs
    BY <2>1, <2>2, <2>3, <2>4, FormWith
  <2>6. HeldBy(refs) = HeldBy(old) \cup {<<r.slot, R!Item(r)>>}
    BY <2>3, HeldMore
  <2>7. R!Item(r) = r.asset
    BY <2>2 DEF R!Item
  <2>8. QED  BY <2>1, <2>2, <2>5, <2>6, <2>7 DEF Keeps
<1>16. CASE R!UploadFails
  BY <1>16 DEF R!UploadFails, Keeps
<1>17. ASSUME NEW a \in Assets, R!Mention(a)  PROVE Goal
  <2>1. form' = [form EXCEPT !.mentions = <<a>>] /\ UNCHANGED <<upload, chosen, crossed>>
    BY <1>17 DEF R!Mention
  <2>2. form' = [kind |-> form.kind, mode |-> form.mode, seen |-> form.seen, ready |-> form.ready,
                 refs |-> form.refs, mentions |-> <<a>>, upstream |-> form.upstream]
    BY <2>1 DEF FormHolds
  <2>3. <<a>> \in Seq(Assets)
    OBVIOUS
  <2>4. FormHolds(form') /\ form'.refs = form.refs
    BY <2>2, <2>3 DEF FormHolds
  <2>5. QED  BY <2>1, <2>4
<1>18. QED
  <2> HIDE DEF Goal
  <2>1. QED  BY <1>5, <1>6, <1>7, <1>8, <1>11, <1>12, <1>13, <1>14, <1>15, <1>16, <1>17

\* A gap is one of the mode and of the references.
GapOf(mode, refs) ==
    LET slotOf(r) == R!First(R!Only(mode.slots, {s \in R!Range(mode.slots) : s.slot = r.slot}))
    IN \/ Len(refs) > MaxReferences
       \/ mode = None \/ mode.slots = <<>>
       \/ \E i \in DOMAIN refs :
             LET r == refs[i]
                 s == slotOf(r)
             IN \/ s = None
                \/ r.type = "image" /\ s.type = "image_list"
                \/ s.type = "json"
                \/ r.entry # None /\ s.lib = None
                \/ r.entry # None /\ (\/ EntryKind[r.entry] \notin s.lib.kinds
                                      \/ "material" \notin s.lib.forms
                                      \/ s.type # R!MediaOfKind(EntryKind[r.entry])
                                      \/ MaterialType[r.entry] # R!MediaOfKind(EntryKind[r.entry]))

LEMMA GapIs ==
    ASSUME NEW t
    PROVE  R!KnownGap(t) <=> GapOf(R!ModeOf(InputContracts[t.pin], t.mode), t.refs)
BY DEF R!KnownGap, GapOf, R!Select

\* The Task, and what changes on the server meanwhile.
LEMMA TaskStep ==
    ASSUME InputsHold,
           \/ R!Submit \/ R!Create \/ R!Execute
           \/ \E c \in DOMAIN InputContracts : R!Republish(c)
           \/ \E e \in LibraryEntries, n \in 0..(MaxUnits - 1), b \in BOOLEAN : R!EditEntry(e, n, b)
    PROVE  InputsHold'
<1> USE DEF InputsHold
<1>1. CASE R!Submit
  <2>1. /\ UNCHANGED <<contract, form, library, chosen, crossed>> /\ upload' = None
        /\ \E c \in IF form.kind = "quick" THEN {form.seen} ELSE {contract, None} : \E body \in {R!Body(c)} :
              /\ body.missing = <<>>
              /\ task' = [for |-> c, pin |-> None, verdict |-> None,
                          edited |-> \E k \in DOMAIN body.refs :
                             body.refs[k].entry # None /\ body.refs[k].units # library[body.refs[k].entry].units,
                          mode |-> body.mode, refs |-> body.refs]
    BY <1>1 DEF R!Submit
  <2>20. PICK c \in IF form.kind = "quick" THEN {form.seen} ELSE {contract, None} :
            \E body \in {R!Body(c)} :
              /\ body.missing = <<>>
              /\ task' = [for |-> c, pin |-> None, verdict |-> None,
                       edited |-> \E k \in DOMAIN body.refs :
                          body.refs[k].entry # None /\ body.refs[k].units # library[body.refs[k].entry].units,
                       mode |-> body.mode, refs |-> body.refs]
    BY <2>1
  <2>21. PICK body \in {R!Body(c)} :
           /\ body.missing = <<>>
           /\ task' = [for |-> c, pin |-> None, verdict |-> None,
                       edited |-> \E k \in DOMAIN body.refs :
                          body.refs[k].entry # None /\ body.refs[k].units # library[body.refs[k].entry].units,
                       mode |-> body.mode, refs |-> body.refs]
    BY <2>20
  <2>22. c # None => ValidRevision(c)
    BY <2>20 DEF FormHolds
  <2>2. body = R!Body(c) /\ (c # None => ValidRevision(c)) /\ body.missing = <<>>
    BY <2>21, <2>22
  <2> DEFINE edited == \E k \in DOMAIN body.refs :
                          body.refs[k].entry # None /\ body.refs[k].units # library[body.refs[k].entry].units
  <2>3. task' = [for |-> c, pin |-> None, verdict |-> None, edited |-> edited, mode |-> body.mode,
                 refs |-> body.refs]
    BY <2>21
  <2>4. /\ body.refs \in Seq(GoodRefs)
        /\ c # None => body.mode # None /\ AgreesWith(c, body.mode, body.refs, body.missing = <<>>)
    BY <2>2, BodyFacts
  <2>5. c # None => AgreesWith(c, body.mode, body.refs, TRUE)
    BY <2>2, <2>4 DEF AgreesWith
  <2>6. edited \in BOOLEAN
    OBVIOUS
  <2>7. ~edited => Fresh(body.refs)
    BY DEF Fresh
  <2>8. None # "refused"
    BY InputLimits
  <2> HIDE DEF edited
  <2>9. /\ task'.for = c /\ task'.pin = None /\ task'.verdict = None /\ task'.edited = edited
        /\ task'.mode = body.mode /\ task'.refs = body.refs
    BY <2>3
  <2>10. task' = [for |-> task'.for, pin |-> task'.pin, verdict |-> task'.verdict, edited |-> task'.edited,
                  mode |-> task'.mode, refs |-> task'.refs]
    BY <2>3, <2>9
  <2>11. TaskHolds(task')
    BY <2>2, <2>4, <2>5, <2>6, <2>8, <2>9, <2>10 DEF TaskHolds
  <2>12. ~task'.edited => Fresh(task.refs)'
    BY <2>1, <2>7, <2>9 DEF Fresh
  <2>13. QED  BY <2>1, <2>11, <2>12 DEF TaskFits, Keeps
<1>2. CASE R!Create
  <2>1. /\ task # None /\ UNCHANGED <<contract, form, upload, library, chosen, crossed>>
        /\ task' = IF Len(task.refs) <= MaxReferences THEN [task EXCEPT !.pin = contract]
                   ELSE [task EXCEPT !.verdict = "refused"]
        /\ task.verdict = None
    BY <1>2 DEF R!Create, R!PublicInputsValid
  <2>2. TaskHolds(task) /\ (~task.edited => Fresh(task.refs))
    BY <2>1 DEF TaskFits
  <2>3. None # "refused" /\ MaxReferences \in Nat
    BY InputLimits
  <2>4. Len(task.refs) \in Nat
    BY <2>2, ElementsTyped DEF TaskHolds
  <2>5. CASE Len(task.refs) <= MaxReferences
    <3>1. task' = [for |-> task.for, pin |-> contract, verdict |-> task.verdict, edited |-> task.edited,
                   mode |-> task.mode, refs |-> task.refs]
      BY <2>1, <2>2, <2>5 DEF TaskHolds
    <3>2. TaskHolds(task')
      <4>1. /\ task'.for = task.for /\ task'.pin = contract /\ task'.verdict = None
            /\ task'.edited = task.edited /\ task'.mode = task.mode /\ task'.refs = task.refs
        BY <2>1, <3>1
      <4>2. task' = [for |-> task'.for, pin |-> task'.pin, verdict |-> task'.verdict, edited |-> task'.edited,
                     mode |-> task'.mode, refs |-> task'.refs]
        BY <3>1, <4>1
      <4>3. QED  BY <2>2, <2>3, <4>1, <4>2 DEF TaskHolds
    <3>3. ~task'.edited => Fresh(task.refs)'
      BY <2>1, <2>2, <3>1 DEF Fresh
    <3>4. QED  BY <2>1, <3>2, <3>3 DEF TaskFits, Keeps
  <2>6. CASE ~(Len(task.refs) <= MaxReferences)
    <3>1. task' = [for |-> task.for, pin |-> task.pin, verdict |-> "refused", edited |-> task.edited,
                   mode |-> task.mode, refs |-> task.refs]
      BY <2>1, <2>2, <2>6 DEF TaskHolds
    <3>2. Len(task.refs) > MaxReferences
      BY <2>3, <2>4, <2>6
    <3>3. TaskHolds(task')
      BY <2>2, <3>1, <3>2 DEF TaskHolds
    <3>4. ~task'.edited => Fresh(task.refs)'
      BY <2>1, <2>2, <3>1 DEF Fresh
    <3>5. QED  BY <2>1, <3>3, <3>4 DEF TaskFits, Keeps
  <2>7. QED  BY <2>5, <2>6
<1>3. CASE R!Execute
  <2> DEFINE passes == /\ ~R!ResolutionFails(task.refs)
                       /\ R!ContractAccepts(InputContracts[task.pin], task.mode, R!ResolveInputs(task.refs))
             verdict == IF passes THEN "accepted" ELSE "refused"
  <2>1. /\ task # None /\ task.pin # None /\ UNCHANGED <<contract, form, upload, library, chosen, crossed>>
        /\ task' = [task EXCEPT !.verdict = verdict]
    BY <1>3 DEF R!Execute
  <2>2. TaskHolds(task) /\ (~task.edited => Fresh(task.refs))
    BY <2>1 DEF TaskFits
  <2>3. ASSUME task.for = task.pin, ~task.edited, ~R!KnownGap(task)
        PROVE  passes
    <3> DEFINE c == InputContracts[task.pin]
    <3>1. /\ ValidRevision(task.pin) /\ task.mode # None
          /\ AgreesWith(task.pin, task.mode, task.refs, TRUE)
      BY <2>1, <2>2, <2>3 DEF TaskHolds
    <3>2. PICK i \in DOMAIN c.modes :
             /\ c.modes[i] \in R!Modes /\ R!ModeOf(c, task.mode) = c.modes[i]
             /\ c.modes[i].slots # <<>> =>
                   /\ task.refs \in Seq(Agreed(c.modes[i].slots)) /\ Within(task.refs, c.modes[i].slots)
                   /\ Enough(task.refs, c.modes[i].slots)
      BY <3>1 DEF AgreesWith
    <3>3. c.modes[i].slots # <<>>
      BY <2>3, <3>2 DEF R!KnownGap
    <3>4. Fresh(task.refs) /\ R!ContractValid(c)
      BY <2>2, <2>3, <3>1, RevisionFacts
    <3> HIDE DEF c
    <3>5. PICK k : k = c /\ k = InputContracts[task.pin]
      BY DEF c
    <3>6. ~R!ResolutionFails(task.refs) /\ R!ContractAccepts(k, task.mode, R!ResolveInputs(task.refs))
      BY <2>3, <3>1, <3>2, <3>3, <3>4, <3>5, Passes
    <3>7. QED  BY <3>5, <3>6
  <2> HIDE DEF passes
  <2>4. task' = [for |-> task.for, pin |-> task.pin, verdict |-> verdict, edited |-> task.edited,
                 mode |-> task.mode, refs |-> task.refs]
    BY <2>1, <2>2 DEF TaskHolds
  <2>5. verdict \in {"accepted", "refused"} /\ (verdict = "refused" => ~passes)
    OBVIOUS
  <2> HIDE DEF verdict
  <2>6. /\ task'.for = task.for /\ task'.pin = task.pin /\ task'.verdict = verdict
        /\ task'.edited = task.edited /\ task'.mode = task.mode /\ task'.refs = task.refs
    BY <2>4
  <2>7. R!KnownGap(task) => R!KnownGap(task')
    BY <2>6, GapIs
  <2>8. task'.verdict = "refused" =>
           Len(task'.refs) > MaxReferences \/ task'.for # task'.pin \/ task'.edited \/ R!KnownGap(task')
    <3>1. task.edited \in BOOLEAN
      BY <2>2 DEF TaskHolds
    <3>2. QED  BY <2>3, <2>5, <2>6, <2>7, <3>1
  <2>9. task' = [for |-> task'.for, pin |-> task'.pin, verdict |-> task'.verdict, edited |-> task'.edited,
                 mode |-> task'.mode, refs |-> task'.refs]
    BY <2>4, <2>6
  <2>10. TaskHolds(task')
    BY <2>2, <2>5, <2>6, <2>8, <2>9 DEF TaskHolds
  <2>11. ~task'.edited => Fresh(task.refs)'
    BY <2>1, <2>2, <2>6 DEF Fresh
  <2>12. QED  BY <2>1, <2>10, <2>11 DEF TaskFits, Keeps
<1>4. ASSUME NEW c \in DOMAIN InputContracts, R!Republish(c)  PROVE InputsHold'
  <2>1. /\ R!ContractValid(InputContracts[c]) /\ contract' = c
        /\ UNCHANGED <<form, upload, library, task, chosen, crossed>>
    BY <1>4 DEF R!Republish
  <2>2. TaskFits'
    BY <2>1 DEF TaskFits, Fresh
  <2>3. QED  BY <2>1, <2>2 DEF ValidRevision
<1>5. ASSUME NEW e \in LibraryEntries, NEW n \in 0..(MaxUnits - 1), NEW b \in BOOLEAN, R!EditEntry(e, n, b)
      PROVE  InputsHold'
  <2>1. /\ library' = [library EXCEPT ![e] = [units |-> n, bound |-> b]]
        /\ task' = IF task = None THEN None ELSE [task EXCEPT !.edited = TRUE]
        /\ UNCHANGED <<contract, form, upload, chosen, crossed>>
    BY <1>5 DEF R!EditEntry
  <2>2. library' \in Libraries
    <3>1. n \in 0..MaxUnits
      BY InputLimits
    <3>2. QED  BY <2>1, <3>1 DEF Libraries
  <2>3. ASSUME task # None  PROVE TaskHolds(task') /\ task'.edited
    <3>1. TaskHolds(task)
      BY <2>3 DEF TaskFits
    <3>2. task' = [for |-> task.for, pin |-> task.pin, verdict |-> task.verdict, edited |-> TRUE,
                   mode |-> task.mode, refs |-> task.refs]
      BY <2>1, <2>3, <3>1 DEF TaskHolds
    <3>3. QED  BY <3>1, <3>2 DEF TaskHolds
  <2>4. TaskFits'
    BY <2>1, <2>3 DEF TaskFits
  <2>5. QED  BY <2>1, <2>2, <2>4
<1>6. QED  BY <1>1, <1>2, <1>3, <1>4, <1>5

LEMMA InputStep ==
    ASSUME InputInv, UNCHANGED scope, [R!Next]_inputsVars
    PROVE  InputInv'
<1> SUFFICES ASSUME scope = "inputs"  PROVE InputsHold'
  BY DEF InputInv
<1>1. InputsHold
  BY DEF InputInv
<1>2. CASE R!Next
  BY <1>1, <1>2, FormStep, TaskStep DEF R!Next
<1>3. CASE UNCHANGED inputsVars
  <2>1. UNCHANGED <<contract, form, upload, library, task, chosen, crossed>>
    BY <1>3 DEF inputsVars
  <2>2. TaskFits'
    BY <1>1, <2>1 DEF InputsHold, TaskFits, Fresh
  <2>3. QED  BY <1>1, <2>1, <2>2 DEF InputsHold
<1>4. QED  BY <1>2, <1>3

LEMMA InputsStay == Spec => []InputInv
<1>1. Init => InputInv
  BY InputInit
<1>2. InputInv /\ [Next]_vars => InputInv'
  <2> SUFFICES ASSUME InputInv, [Next]_vars  PROVE InputInv'
    OBVIOUS
  <2>1. UNCHANGED scope /\ [R!Next]_inputsVars
    BY OneMoves
  <2>2. QED  BY <2>1, InputStep
<1>3. QED  BY <1>1, <1>2, PTL DEF Spec

\* What a form of the web client lets through, the server accepts, however many
\* revisions, slots, references, library entries and parameters there are: the
\* references of a mode (useQuickGenInputs and GenNodeForm against the input contract
\* that InputResolverService checks) and the values of the parameters, but for a
\* revision in between, an edited entry and the gaps that are listed; and the form
\* holds what was picked and not taken back.
THEOREM FormsAgreeCorrect == Spec => []FormsAgree
<1>1. InputInv => (scope = "inputs" => R!SentIsAccepted /\ R!FormHoldsChosen)
  <2> SUFFICES ASSUME InputInv, scope = "inputs"  PROVE R!SentIsAccepted /\ R!FormHoldsChosen
    OBVIOUS
  <2>1. InputsHold
    BY DEF InputInv
  <2>2. R!SentIsAccepted
    BY <2>1 DEF InputsHold, TaskFits, TaskHolds, R!SentIsAccepted
  <2>3. R!FormHoldsChosen
    BY <2>1 DEF InputsHold, Keeps, HeldBy, R!FormHoldsChosen
  <2>4. QED  BY <2>2, <2>3
<1>2. (scope = "inputs" => R!SentIsAccepted /\ R!FormHoldsChosen)
      /\ (scope = "params" => P!ParamsAccepted) => FormsAgree
  BY DEF FormsAgree
<1>3. QED  BY <1>1, <1>2, InputsStay, ParamsAgree, PTL

\* The variables of the pages, of the forms and of the services behind them have
\* their types.
THEOREM PagesTyped == Spec => []TypeOK
<1>1. InputInv => (scope = "inputs" => R!TypeOK)
  <2> SUFFICES ASSUME InputInv, scope = "inputs"  PROVE R!TypeOK
    OBVIOUS
  <2>1. InputsHold
    BY DEF InputInv
  <2>2. contract \in DOMAIN InputContracts /\ form.seen \in DOMAIN InputContracts \cup {None}
    BY <2>1 DEF InputsHold, FormHolds, ValidRevision
  <2>3. DOMAIN library = LibraryEntries
    BY <2>1 DEF InputsHold, Libraries
  <2>4. /\ upload = None \/ upload.ref.asset \in Assets
        /\ task = None \/ task.verdict \in {None, "accepted", "refused"}
    BY <2>1 DEF InputsHold, UploadHolds, TaskFits, TaskHolds
  <2>5. QED  BY <2>1, <2>2, <2>3, <2>4 DEF R!TypeOK, InputsHold, FormHolds
<1>2. ParamInv => (scope = "params" => P!TypeOK)
  <2> SUFFICES ASSUME ParamInv, scope = "params"  PROVE P!TypeOK
    OBVIOUS
  <2>1. offered \in Revisions /\ FormFits(fields) /\ (sent # None => SentFits(sent))
    BY DEF ParamInv
  <2>2. DOMAIN fields.values = Fields
    BY <2>1 DEF FormFits
  <2>3. sent # None => sent.verdict \in {None, "accepted", "refused"}
    BY <2>1 DEF SentFits
  <2>4. fields.kind \in {"quick", "node"} /\ fields.ready \in BOOLEAN
    BY <2>1 DEF FormFits
  <2>5. QED  BY <2>1, <2>2, <2>3, <2>4 DEF P!TypeOK, Revisions
<1>3. CredentialInv /\ OnboardingInv /\ FeatureInv /\ FeedInv /\ InputInv /\ ParamInv => TypeOK
  BY <1>1, <1>2, FeatureTypes DEF CredentialInv, OnboardingInv, FeedInv, FeedScope, TypeOK
<1>4. QED
  BY <1>3, CredentialCorrect, OnboardingCorrect, FeatureCorrect, FeedCorrect, InputsStay, ParamsHold, PTL
=============================================================================
