-------------------------- MODULE Placement_proofs --------------------------
(***************************************************************************)
(* What is told of a queue holds of the cluster, for every cluster, job,   *)
(* association and limit set.                                              *)
(*                                                                         *)
(* A reading is of a cluster that was: Inv keeps which, and what has only  *)
(* become easier since, if nobody came.  What was judged is then a         *)
(* function of that cluster, so each promise comes down to one about the   *)
(* readers: that a node that fits by what was read of it takes the job,    *)
(* that the limit set that was checked is the one that binds, and that a   *)
(* verdict says what is true.                                              *)
(***************************************************************************)
EXTENDS Placement, FiniteSetTheorems, WellFoundedInduction, NaturalsInduction, TLAPS

-----------------------------------------------------------------------------
(* Sets of numbers, and sums over finite sets.                             *)

LEMMA LeastSubset ==
  ASSUME NEW S, IsFiniteSet(S), NEW B \in SUBSET (SUBSET S), B # {}
  PROVE  \E T \in B : \A U \in B : U \subseteq T => U = T
<1>1. IsWellFoundedOn(StrictSubsetOrdering(S), SUBSET S)
  BY FS_StrictSubsetOrderingWellFounded, FS_FiniteSubsetsOfFinite
<1>2. PICK T \in B : \A U \in B : ~ (<<U, T>> \in StrictSubsetOrdering(S))
  BY <1>1, WFMin
<1> QED BY <1>2 DEF StrictSubsetOrdering

LEMMA LeastNumber ==
  ASSUME NEW S \in SUBSET Nat, S # {}
  PROVE  Min(S) \in S /\ \A x \in S : Min(S) <= x
<1> DEFINE R == OpToRel(<, Nat)
<1>1. IsWellFoundedOn(R, Nat)
  BY NatLessThanWellFounded
<1>2. \A x, y \in Nat : x < y => <<x, y>> \in R
  BY DEF OpToRel
<1> HIDE DEF R
<1>3. PICK m \in S : \A x \in S : ~ (<<x, m>> \in R)
  BY <1>1, WFMin
<1>4. ASSUME NEW x \in S PROVE m <= x
  <2>1. x \in Nat /\ m \in Nat
    OBVIOUS
  <2>2. ~(x < m)
    BY <1>2, <1>3, <2>1
  <2> QED BY <2>1, <2>2
<1> QED BY <1>4 DEF Min

LEMMA GreatestNumber ==
  ASSUME NEW S, IsFiniteSet(S), S # {}, NEW f \in [S -> Nat]
  PROVE  LET V == {f[x] : x \in S} IN Max(V) \in V /\ \A x \in S : f[x] <= Max(V)
<1> DEFINE B == {T \in SUBSET S : T # {} /\ ~ \E x \in T : \A y \in T : f[y] <= f[x]}
<1>1. ASSUME B # {} PROVE FALSE
  <2>1. PICK T \in B : \A U \in B : U \subseteq T => U = T
    <3>1. B \in SUBSET (SUBSET S)
      OBVIOUS
    <3> HIDE DEF B
    <3> QED BY <1>1, <3>1, LeastSubset
  <2>2. PICK a \in T : TRUE
    BY <2>1
  <2>3. T \ {a} # {}
    BY <2>1, <2>2
  <2>4. T \ {a} \notin B
    BY <2>1, <2>2
  <2>5. PICK b \in T \ {a} : \A y \in T \ {a} : f[y] <= f[b]
    BY <2>1, <2>3, <2>4
  <2>6. f[a] \in Nat /\ f[b] \in Nat
    BY <2>1, <2>2, <2>5
  <2>7. CASE f[a] <= f[b]
    BY <2>1, <2>2, <2>5, <2>7
  <2>8. CASE ~(f[a] <= f[b])
    <3>1. \A y \in T : f[y] \in Nat
      BY <2>1
    <3>2. \A y \in T : f[y] <= f[a]
      BY <2>5, <2>6, <2>8, <3>1
    <3> QED BY <2>1, <2>2, <3>2
  <2> QED BY <2>7, <2>8
<1>2. PICK x \in S : \A y \in S : f[y] <= f[x]
  BY <1>1
<1> DEFINE V == {f[z] : z \in S}
<1>3. f[x] \in V /\ (\A v \in V : f[x] >= v)
  BY <1>2
<1>4. Max(V) \in V /\ \A v \in V : Max(V) >= v
  BY <1>3 DEF Max
<1>5. \A z \in S : f[z] \in V /\ f[z] \in Nat
  OBVIOUS
<1>6. Max(V) \in Nat
  BY <1>4
<1> QED BY <1>4, <1>5, <1>6

Pick(s) == CHOOSE x \in s : TRUE
Adds(f, S, g) == g = [s \in SUBSET S |-> IF s = {} THEN 0 ELSE f[Pick(s)] + g[s \ {Pick(s)}]]

LEMMA Picked ==
  ASSUME NEW s, s # {}
  PROVE  Pick(s) \in s /\ s \ {Pick(s)} \subseteq s /\ s \ {Pick(s)} # s
BY DEF Pick

LEMMA SumIsChosen ==
  ASSUME NEW f, NEW S
  PROVE  SumFunctionOnSet(f, S) = (CHOOSE g : Adds(f, S, g))[S]
BY DEF SumFunctionOnSet, FoldFunctionOnSet, MapThenFoldSet, Adds, Pick

\* The functions that add up over the subsets of S agree where both are defined.
LEMMA AddsOnce ==
  ASSUME NEW S, IsFiniteSet(S), NEW R \in SUBSET S, NEW f, NEW g, NEW h,
         Adds(f, S, g), Adds(f, R, h)
  PROVE  \A s \in SUBSET R : g[s] = h[s]
<1> DEFINE B == {s \in SUBSET R : g[s] # h[s]}
<1>1. ASSUME B # {} PROVE FALSE
  <2>1. PICK T \in B : \A U \in B : U \subseteq T => U = T
    <3>1. B \in SUBSET (SUBSET S)
      OBVIOUS
    <3> HIDE DEF B
    <3> QED BY <1>1, <3>1, LeastSubset
  <2>2. CASE T = {}
    BY <2>1, <2>2 DEF Adds
  <2>3. CASE T # {}
    <3>1. T \ {Pick(T)} \notin B /\ T \ {Pick(T)} \in SUBSET R
      BY <2>1, <2>3, Picked
    <3>2. g[T] = f[Pick(T)] + g[T \ {Pick(T)}]
      BY <2>1, <2>3 DEF Adds
    <3>3. h[T] = f[Pick(T)] + h[T \ {Pick(T)}]
      BY <2>1, <2>3 DEF Adds
    <3> QED BY <2>1, <3>1, <3>2, <3>3
  <2> QED BY <2>2, <2>3
<1> QED BY <1>1

LEMMA AddsExists ==
  ASSUME NEW S, IsFiniteSet(S), NEW f
  PROVE  \E g : Adds(f, S, g)
<1> DEFINE B == {T \in SUBSET S : ~ \E g : Adds(f, T, g)}
<1>1. ASSUME B # {} PROVE FALSE
  <2>1. PICK T \in B : \A U \in B : U \subseteq T => U = T
    <3>1. B \in SUBSET (SUBSET S)
      OBVIOUS
    <3> HIDE DEF B
    <3> QED BY <1>1, <3>1, LeastSubset
  <2>2. ASSUME NEW U \in SUBSET T, U # T PROVE \E g : Adds(f, U, g)
    BY <2>1, <2>2
  <2> DEFINE of(U) == CHOOSE g : Adds(f, U, g)
             G == [s \in SUBSET T |-> IF s = {} THEN 0 ELSE f[Pick(s)] + of(s \ {Pick(s)})[s \ {Pick(s)}]]
  <2>3. ASSUME NEW U \in SUBSET T, U # T PROVE Adds(f, U, of(U))
    BY <2>2, <2>3
  <2>4. ASSUME NEW U \in SUBSET T, U # T PROVE G[U] = of(U)[U]
    <3>1. Adds(f, U, of(U))
      BY <2>3, <2>4
    <3>2. CASE U = {}
      BY <3>1, <3>2 DEF Adds
    <3>3. CASE U # {}
      <4> DEFINE V == U \ {Pick(U)}
      <4>1. V \in SUBSET U /\ V \in SUBSET T /\ V # T
        BY <3>3, <2>4, Picked
      <4>2. Adds(f, V, of(V))
        BY <4>1, <2>3
      <4>3. IsFiniteSet(U)
        BY FS_Subset, <2>1
      <4>4. of(U)[V] = of(V)[V]
        <5>1. V \in SUBSET V
          OBVIOUS
        <5> HIDE DEF V, of
        <5> QED BY <4>1, <4>2, <4>3, <3>1, <5>1, AddsOnce
      <4>5. of(U)[U] = f[Pick(U)] + of(U)[V]
        <5>1. U \in SUBSET U
          OBVIOUS
        <5> HIDE DEF of
        <5> QED BY <3>1, <3>3, <5>1 DEF Adds
      <4>6. G[U] = f[Pick(U)] + of(V)[V]
        <5> HIDE DEF of
        <5> QED BY <3>3, <2>4
      <4> QED BY <4>4, <4>5, <4>6
    <3> QED BY <3>2, <3>3
  <2>5. Adds(f, T, G)
    <3>1. ASSUME NEW s \in SUBSET T PROVE G[s] = IF s = {} THEN 0 ELSE f[Pick(s)] + G[s \ {Pick(s)}]
      <4>1. CASE s = {}
        BY <4>1
      <4>2. CASE s # {}
        <5>1. s \ {Pick(s)} \in SUBSET T /\ s \ {Pick(s)} # T
          BY <4>2, Picked
        <5>2. G[s \ {Pick(s)}] = of(s \ {Pick(s)})[s \ {Pick(s)}]
          BY <5>1, <2>4
        <5>3. G[s] = f[Pick(s)] + of(s \ {Pick(s)})[s \ {Pick(s)}]
          BY <4>2
        <5> QED BY <4>2, <5>2, <5>3
      <4> QED BY <4>1, <4>2
    <3>2. G = [s \in SUBSET T |-> G[s]]
      OBVIOUS
    <3> HIDE DEF G
    <3>3. [s \in SUBSET T |-> G[s]] = [s \in SUBSET T |-> IF s = {} THEN 0 ELSE f[Pick(s)] + G[s \ {Pick(s)}]]
      BY <3>1
    <3> QED BY <3>2, <3>3 DEF Adds
  <2> HIDE DEF G
  <2> QED BY <2>1, <2>5
<1> QED BY <1>1

LEMMA SumEmpty ==
  ASSUME NEW f
  PROVE  SumFunctionOnSet(f, {}) = 0
<1>1. \E g : Adds(f, {}, g)
  BY AddsExists, FS_EmptySet
<1>2. Adds(f, {}, CHOOSE g : Adds(f, {}, g))
  BY <1>1
<1> DEFINE h == CHOOSE g : Adds(f, {}, g)
<1>3. h[{}] = 0
  <2>1. {} \in SUBSET {}
    OBVIOUS
  <2> HIDE DEF h
  <2> QED BY <1>2, <2>1 DEF Adds, h
<1> QED BY <1>3, SumIsChosen

LEMMA SumPicks ==
  ASSUME NEW S, IsFiniteSet(S), S # {}, NEW f
  PROVE  SumFunctionOnSet(f, S) = f[Pick(S)] + SumFunctionOnSet(f, S \ {Pick(S)})
<1> DEFINE of(U) == CHOOSE g : Adds(f, U, g)
           V == S \ {Pick(S)}
<1>1. IsFiniteSet(V) /\ V \in SUBSET S
  BY FS_RemoveElement
<1>2. Adds(f, S, of(S)) /\ Adds(f, V, of(V))
  <2>1. (\E g : Adds(f, S, g)) /\ (\E g : Adds(f, V, g))
    BY <1>1, AddsExists
  <2> QED BY <2>1
<1>3. of(S)[S] = f[Pick(S)] + of(S)[V]
  <2>1. S \in SUBSET S
    OBVIOUS
  <2> HIDE DEF of
  <2> QED BY <1>2, <2>1 DEF Adds
<1>4. of(S)[V] = of(V)[V]
  <2>1. V \in SUBSET V
    OBVIOUS
  <2> HIDE DEF of, V
  <2> QED BY <1>1, <1>2, <2>1, AddsOnce
<1>5. SumFunctionOnSet(f, S) = of(S)[S] /\ SumFunctionOnSet(f, V) = of(V)[V]
  BY SumIsChosen
<1> HIDE DEF of
<1> QED BY <1>3, <1>4, <1>5

LEMMA SumIsNumber ==
  ASSUME NEW S, IsFiniteSet(S), NEW f, \A x \in S : f[x] \in Nat
  PROVE  SumFunctionOnSet(f, S) \in Nat
<1> DEFINE B == {T \in SUBSET S : SumFunctionOnSet(f, T) \notin Nat}
<1>1. ASSUME B # {} PROVE FALSE
  <2>1. PICK T \in B : \A U \in B : U \subseteq T => U = T
    <3>1. B \in SUBSET (SUBSET S)
      OBVIOUS
    <3> HIDE DEF B
    <3> QED BY <1>1, <3>1, LeastSubset
  <2>2. T # {}
    <3>1. SumFunctionOnSet(f, {}) \in Nat
      BY SumEmpty
    <3> QED BY <2>1, <3>1
  <2>3. T \ {Pick(T)} \notin B /\ T \ {Pick(T)} \in SUBSET S
    BY <2>1, <2>2, Picked
  <2>4. SumFunctionOnSet(f, T) = f[Pick(T)] + SumFunctionOnSet(f, T \ {Pick(T)})
    BY <2>1, <2>2, FS_Subset, SumPicks
  <2>5. f[Pick(T)] \in Nat
    BY <2>1, <2>2, Picked
  <2>6. SumFunctionOnSet(f, T \ {Pick(T)}) \in Nat
    BY <2>3
  <2> QED BY <2>1, <2>4, <2>5, <2>6
<1> QED BY <1>1

\* Any member may be taken out.
LEMMA SumTakesOut ==
  ASSUME NEW S, IsFiniteSet(S), NEW f, \A x \in S : f[x] \in Nat, NEW a \in S
  PROVE  SumFunctionOnSet(f, S) = f[a] + SumFunctionOnSet(f, S \ {a})
<1> DEFINE sum(T) == SumFunctionOnSet(f, T)
           B == {T \in SUBSET S : \E x \in T : sum(T) # f[x] + sum(T \ {x})}
<1>1. ASSUME B # {} PROVE FALSE
  <2>1. PICK T \in B : \A U \in B : U \subseteq T => U = T
    <3>1. B \in SUBSET (SUBSET S)
      OBVIOUS
    <3> HIDE DEF B
    <3> QED BY <1>1, <3>1, LeastSubset
  <2>2. PICK x \in T : sum(T) # f[x] + sum(T \ {x})
    BY <2>1
  <2> DEFINE p == Pick(T)
  <2>3. p \in T /\ T \ {p} \in SUBSET S /\ T \ {p} # T /\ T # {}
    BY <2>2, Picked, <2>1
  <2>4. IsFiniteSet(T)
    BY <2>1, FS_Subset
  <2>5. sum(T) = f[p] + sum(T \ {p})
    BY <2>3, <2>4, SumPicks
  <2> HIDE DEF p
  <2>6. p # x
    BY <2>2, <2>5
  <2>7. T \ {p} \notin B /\ x \in T \ {p}
    BY <2>1, <2>2, <2>3, <2>6
  <2>8. sum(T \ {p}) = f[x] + sum((T \ {p}) \ {x})
    BY <2>3, <2>7
  <2>9. T \ {x} \notin B /\ p \in T \ {x} /\ T \ {x} \in SUBSET S
    BY <2>1, <2>2, <2>3, <2>6
  <2>10. sum(T \ {x}) = f[p] + sum((T \ {x}) \ {p})
    BY <2>9
  <2>11. (T \ {x}) \ {p} = (T \ {p}) \ {x}
    OBVIOUS
  <2>12. f[p] \in Nat /\ f[x] \in Nat
    BY <2>2, <2>3, <2>1
  <2>13. sum((T \ {p}) \ {x}) \in Nat
    <3>1. IsFiniteSet((T \ {p}) \ {x})
      BY <2>4, FS_RemoveElement
    <3>2. \A y \in (T \ {p}) \ {x} : f[y] \in Nat
      BY <2>1
    <3> QED BY <3>1, <3>2, SumIsNumber
  <2> HIDE DEF sum
  <2> QED BY <2>2, <2>5, <2>8, <2>10, <2>11, <2>12, <2>13
<1> QED BY <1>1

LEMMA SumGrows ==
  ASSUME NEW S, IsFiniteSet(S), NEW f, \A x \in S : f[x] \in Nat, NEW R \in SUBSET S
  PROVE  SumFunctionOnSet(f, R) <= SumFunctionOnSet(f, S)
<1> DEFINE sum(T) == SumFunctionOnSet(f, T)
           B == {T \in SUBSET S : R \subseteq T /\ ~ (sum(R) <= sum(T))}
<1>1. ASSUME B # {} PROVE FALSE
  <2>1. PICK T \in B : \A U \in B : U \subseteq T => U = T
    <3>1. B \in SUBSET (SUBSET S)
      OBVIOUS
    <3> HIDE DEF B
    <3> QED BY <1>1, <3>1, LeastSubset
  <2>2. sum(R) \in Nat /\ sum(T) \in Nat /\ IsFiniteSet(T)
    BY <2>1, FS_Subset, SumIsNumber
  <2>3. T # R
    BY <2>1, <2>2
  <2>4. PICK a \in T : a \notin R
    BY <2>1, <2>3
  <2>5. T \ {a} \notin B /\ T \ {a} \in SUBSET S /\ R \subseteq T \ {a}
    BY <2>1, <2>4
  <2>6. sum(R) <= sum(T \ {a})
    BY <2>5
  <2>7. sum(T) = f[a] + sum(T \ {a})
    <3>1. \A x \in T : f[x] \in Nat
      BY <2>1
    <3> QED BY <2>2, <2>4, <3>1, SumTakesOut
  <2>8. f[a] \in Nat /\ sum(T \ {a}) \in Nat
    <3>1. IsFiniteSet(T \ {a})
      BY <2>2, FS_RemoveElement
    <3>2. \A x \in T \ {a} : f[x] \in Nat
      BY <2>1
    <3> QED BY <2>1, <2>4, <3>1, <3>2, SumIsNumber
  <2> HIDE DEF sum
  <2> QED BY <2>1, <2>2, <2>6, <2>7, <2>8
<1>2. sum(R) <= sum(S)
  BY <1>1
<1> QED BY <1>2

-----------------------------------------------------------------------------
(* Tables.                                                                 *)

\* What a table says of a text is in a row whose phrase is in the text.
LEMMA FirstOfIsARow ==
  ASSUME NEW table, DOMAIN table \subseteq Nat, NEW text
  PROVE  \/ FirstOf(table, text) = "UNKNOWN" /\ \A i \in DOMAIN table : table[i][1] \notin text
         \/ \E i \in DOMAIN table : table[i][1] \in text /\ FirstOf(table, text) = table[i][2]
<1> DEFINE found == {i \in DOMAIN table : table[i][1] \in text}
<1>1. CASE found = {}
  BY <1>1 DEF FirstOf
<1>2. CASE found # {}
  <2>1. Min(found) \in found
    BY <1>2, LeastNumber
  <2> QED BY <1>2, <2>1 DEF FirstOf
<1> QED BY <1>1, <1>2

-----------------------------------------------------------------------------
(* What is read of a limit set is what binds.                              *)

\* A ceiling that is over, and no field that could not be read.
ReadRight(p, s) ==
    LET l == ReadLimits(p)
    IN  /\ l.unreadable = {} /\ Over(p, s) => Blockers(l, s) # {}
        /\ Blockers(l, s) # {} => Over(p, s)

LEMMA SlurmIsReadRight ==
  ASSUME NEW p, NEW s, PublishedOK(p), p.by = "slurm", Legible(p)
  PROVE  ReadRight(p, s)
<1> DEFINE l == ReadLimits(p)
           F == {"wall", "user", "job"}
           read(f) == TresMap(p, f)
<1>1. /\ CapsOK(p["wall"]) /\ CapsOK(p["user"]) /\ CapsOK(p["job"])
      /\ DOMAIN p["wall"] \subseteq {"wall"} /\ "wall" \notin DOMAIN p["job"]
  BY DEF PublishedOK
<1>2. \A f \in F : p.garbled[f] \in {{}, DOMAIN p[f]}
  BY DEF Legible
<1>3. /\ l.job = [x \in DOMAIN read("wall") \cup DOMAIN read("job") |->
                      IF x = "wall" THEN read("wall")[x] ELSE read("job")[x]]
      /\ l.user = read("user")
      /\ l.unreadable = {f \in F : DOMAIN p[f] # {} /\ DOMAIN read(f) = {}}
  BY DEF ReadLimits, SlurmLimits
<1>4. \A f \in F : DOMAIN read(f) = DOMAIN p[f] \ p.garbled[f] /\ \A x \in DOMAIN read(f) : read(f)[x] = p[f][x]
  BY DEF TresMap
<1>5. Over(p, s) <=> \E f \in F : \E x \in DOMAIN p[f] : p[f][x] # Garbled /\ Asked(s)[x] > p[f][x]
  <2>1. Binding(p) = UNION {{<<x, p[f][x]>> : x \in DOMAIN p[f]} : f \in {"wall", "user", "job"}}
    BY DEF Binding
  <2>2. \A b : b \in Binding(p) <=> \E f \in F : \E x \in DOMAIN p[f] : b = <<x, p[f][x]>>
    <3> DEFINE of(f) == {<<x, p[f][x]>> : x \in DOMAIN p[f]}
    <3>1. \A b, f : b \in of(f) <=> \E x \in DOMAIN p[f] : b = <<x, p[f][x]>>
      OBVIOUS
    <3>2. Binding(p) = UNION {of(f) : f \in F}
      BY <2>1
    <3> HIDE DEF of, F
    <3>3. \A b : b \in Binding(p) <=> \E f \in F : b \in of(f)
      BY <3>2
    <3> QED BY <3>1, <3>3
  <2>3. ASSUME Over(p, s) PROVE \E f \in F : \E x \in DOMAIN p[f] : p[f][x] # Garbled /\ Asked(s)[x] > p[f][x]
    <3>1. PICK b \in Binding(p) : b[2] # Garbled /\ Asked(s)[b[1]] > b[2]
      BY <2>3 DEF Over
    <3> QED BY <2>2, <3>1
  <2>4. ASSUME NEW f \in F, NEW x \in DOMAIN p[f], p[f][x] # Garbled, Asked(s)[x] > p[f][x] PROVE Over(p, s)
    <3>1. <<x, p[f][x]>> \in Binding(p)
      BY <2>2
    <3> QED BY <2>4, <3>1 DEF Over
  <2> QED BY <2>3, <2>4
<1>6. Blockers(l, s) # {} <=> \/ \E x \in DOMAIN l.job : Asked(s)[x] > l.job[x]
                             \/ \E x \in DOMAIN l.user : Asked(s)[x] > l.user[x]
  BY DEF Blockers, Exceeded
<1>7. \A f \in F : \A x \in DOMAIN p[f] : p[f][x] # Garbled
  BY <1>1 DEF CapsOK, Garbled
<1> HIDE DEF l, read
<1>8. ASSUME l.unreadable = {}, Over(p, s) PROVE Blockers(l, s) # {}
  <2>0. PICK f \in F : \E x \in DOMAIN p[f] : Asked(s)[x] > p[f][x]
    BY <1>5, <1>8
  <2>1. PICK x \in DOMAIN p[f] : Asked(s)[x] > p[f][x]
    BY <2>0
  <2>2. x \in DOMAIN read(f) /\ read(f)[x] = p[f][x]
    BY <1>2, <1>3, <1>4, <1>8, <2>1
  <2>3. CASE f = "user"
    BY <1>3, <1>6, <2>1, <2>2, <2>3
  <2>4. CASE f = "wall"
    <3>1. x = "wall"
      BY <1>1, <2>4
    <3>2. x \in DOMAIN l.job /\ l.job[x] = p[f][x]
      BY <1>3, <2>2, <2>4, <3>1
    <3> QED BY <1>6, <2>1, <3>2
  <2>5. CASE f = "job"
    <3>1. x # "wall"
      BY <1>1, <2>5
    <3>2. x \in DOMAIN l.job /\ l.job[x] = p[f][x]
      BY <1>3, <2>2, <2>5, <3>1
    <3> QED BY <1>6, <2>1, <3>2
  <2> QED BY <2>1, <2>3, <2>4, <2>5
<1>9. ASSUME Blockers(l, s) # {} PROVE Over(p, s)
  <2>1. CASE \E x \in DOMAIN l.job : Asked(s)[x] > l.job[x]
    <3>1. PICK x \in DOMAIN l.job : Asked(s)[x] > l.job[x]
      BY <2>1
    <3>2. CASE x = "wall"
      <4>1. x \in DOMAIN read("wall")
        BY <1>1, <1>3, <1>4, <3>2
      <4>2. l.job[x] = read("wall")[x]
        BY <1>3, <3>2
      <4> QED BY <1>4, <1>5, <1>7, <3>1, <4>1, <4>2
    <3>3. CASE x # "wall"
      <4>1. x \in DOMAIN read("job")
        BY <1>1, <1>3, <1>4, <3>3
      <4>2. l.job[x] = read("job")[x]
        BY <1>3, <3>3
      <4> QED BY <1>4, <1>5, <1>7, <3>1, <4>1, <4>2
    <3> QED BY <3>2, <3>3
  <2>2. CASE \E x \in DOMAIN l.user : Asked(s)[x] > l.user[x]
    BY <1>3, <1>4, <1>5, <1>7, <2>2
  <2> QED BY <1>6, <1>9, <2>1, <2>2
<1> QED BY <1>8, <1>9 DEF ReadRight, l

LEMMA CellIsBinding ==
  ASSUME NEW table, InOrder(table),
         LET binding == {i \in DOMAIN table : CellBinds(table[i], table)}
         IN  (binding # {} \/ Len(table) # 1) /\ \A i, j \in binding : i = j
  PROVE  LET binding == {i \in DOMAIN table : CellBinds(table[i], table)}
         IN  /\ binding = {} => Cell(table) = <<>>
             /\ \A i \in binding : Cell(table) = <<table[i]>>
<1> DEFINE binding == {i \in DOMAIN table : CellBinds(table[i], table)}
           users(entity) == {i \in DOMAIN table : table[i].kind = "u" /\ table[i].entity = entity}
           any == {i \in DOMAIN table : table[i].entity = Generic}
           found == IF users(Me) # {} THEN users(Me) ELSE IF users(Generic) # {} THEN users(Generic) ELSE any
<1>1. binding # {} \/ Len(table) # 1
  OBVIOUS
<1>2. \A i, j \in binding : i = j
  OBVIOUS
<1>3. found \subseteq binding
  BY DEF CellBinds
<1>4. binding # {} => found # {}
  BY DEF CellBinds
<1>5. DOMAIN table \subseteq Nat
  BY DEF InOrder
<1>6. found # {} => Min(found) \in found
  <2>1. found \in SUBSET Nat
    BY <1>5
  <2> HIDE DEF found
  <2> QED BY <2>1, LeastNumber
<1>7. Cell(table) = IF found # {} THEN <<table[Min(found)]>> ELSE IF Len(table) = 1 THEN table ELSE <<>>
  BY DEF Cell
<1> HIDE DEF found, binding
<1> QED BY <1>1, <1>2, <1>3, <1>4, <1>6, <1>7 DEF binding

LEMMA PbsIsReadRight ==
  ASSUME NEW p, NEW s, PublishedOK(p), p.by = "pbs", Legible(p)
  PROVE  ReadRight(p, s)
<1> DEFINE l == ReadLimits(p)
           F == {"user", "job"}
           is(f, x, good) == Cell(p[f][x]) # <<>> /\ (Cell(p[f][x])[1].cap # Garbled) = good
           binding(f, x) == {i \in DOMAIN p[f][x] : CellBinds(p[f][x][i], p[f][x])}
<1>1. \A f \in F : \A x \in DOMAIN p[f] : InOrder(p[f][x])
  BY DEF PublishedOK
<1>2. ASSUME NEW f \in F, NEW x \in DOMAIN p[f]
      PROVE  /\ binding(f, x) = {} => Cell(p[f][x]) = <<>>
             /\ \A i \in binding(f, x) : Cell(p[f][x]) = <<p[f][x][i]>>
  <2>1. (binding(f, x) # {} \/ Len(p[f][x]) # 1) /\ \A i, j \in binding(f, x) : i = j
    BY DEF Legible
  <2> QED BY <1>1, <2>1, CellIsBinding
<1>3. /\ l.job = [x \in {y \in DOMAIN p["job"] : is("job", y, TRUE)} |-> Cell(p["job"][x])[1].cap]
      /\ l.user = [x \in {y \in DOMAIN p["user"] : is("user", y, TRUE)} |-> Cell(p["user"][x])[1].cap]
      /\ l.unreadable = UNION {{x \in DOMAIN p[f] : is(f, x, FALSE)} : f \in {"job", "user"}}
  BY DEF ReadLimits, PbsLimits
<1>4. Over(p, s) <=> \E f \in F : \E x \in DOMAIN p[f] : \E i \in binding(f, x) :
                        p[f][x][i].cap # Garbled /\ Asked(s)[x] > p[f][x][i].cap
  <2>1. Binding(p) = UNION {UNION {{<<x, p[f][x][i].cap>> : i \in binding(f, x)} : x \in DOMAIN p[f]}
                              : f \in {"user", "job"}}
    BY DEF Binding
  <2>2. \A b : b \in Binding(p) <=>
           \E f \in F : \E x \in DOMAIN p[f] : \E i \in binding(f, x) : b = <<x, p[f][x][i].cap>>
    <3> DEFINE cells(f, x) == {<<x, p[f][x][i].cap>> : i \in binding(f, x)}
               of(f) == UNION {cells(f, x) : x \in DOMAIN p[f]}
    <3>1. Binding(p) = UNION {of(f) : f \in F}
      BY <2>1
    <3> HIDE DEF binding, F
    <3>2. \A b, f, x : b \in cells(f, x) <=> \E i \in binding(f, x) : b = <<x, p[f][x][i].cap>>
      OBVIOUS
    <3> HIDE DEF cells
    <3>3. \A b, f : b \in of(f) <=> \E x \in DOMAIN p[f] : b \in cells(f, x)
      OBVIOUS
    <3> HIDE DEF of
    <3>4. \A b : b \in Binding(p) <=> \E f \in F : b \in of(f)
      BY <3>1
    <3> QED BY <3>2, <3>3, <3>4
  <2>3. ASSUME Over(p, s)
        PROVE  \E f \in F : \E x \in DOMAIN p[f] : \E i \in binding(f, x) :
                   p[f][x][i].cap # Garbled /\ Asked(s)[x] > p[f][x][i].cap
    <3>1. PICK b \in Binding(p) : b[2] # Garbled /\ Asked(s)[b[1]] > b[2]
      BY <2>3 DEF Over
    <3> HIDE DEF binding
    <3> QED BY <2>2, <3>1
  <2>4. ASSUME NEW f \in F, NEW x \in DOMAIN p[f], NEW i \in binding(f, x),
               p[f][x][i].cap # Garbled, Asked(s)[x] > p[f][x][i].cap
        PROVE  Over(p, s)
    <3>1. <<x, p[f][x][i].cap>> \in Binding(p)
      BY <2>2
    <3> QED BY <2>4, <3>1 DEF Over
  <2> HIDE DEF binding
  <2> QED BY <2>3, <2>4
<1>5. Blockers(l, s) # {} <=> \/ \E x \in DOMAIN l.job : Asked(s)[x] > l.job[x]
                             \/ \E x \in DOMAIN l.user : Asked(s)[x] > l.user[x]
  BY DEF Blockers, Exceeded
<1>6. ASSUME NEW f \in F, NEW x \in DOMAIN p[f], NEW i \in binding(f, x)
      PROVE  Cell(p[f][x]) # <<>> /\ Cell(p[f][x])[1] = p[f][x][i]
  BY <1>2
<1> HIDE DEF l, binding
<1>7. ASSUME Over(p, s) PROVE Blockers(l, s) # {}
  <2>0. PICK f \in F : \E x \in DOMAIN p[f] : \E i \in binding(f, x) :
            p[f][x][i].cap # Garbled /\ Asked(s)[x] > p[f][x][i].cap
    BY <1>4, <1>7
  <2> PICK x \in DOMAIN p[f] : \E i \in binding(f, x) :
            p[f][x][i].cap # Garbled /\ Asked(s)[x] > p[f][x][i].cap
    BY <2>0
  <2>1. PICK i \in binding(f, x) : p[f][x][i].cap # Garbled /\ Asked(s)[x] > p[f][x][i].cap
    OBVIOUS
  <2>2. is(f, x, TRUE) /\ Cell(p[f][x])[1].cap = p[f][x][i].cap
    BY <1>6, <2>1
  <2>3. CASE f = "user"
    BY <1>3, <1>5, <2>1, <2>2, <2>3
  <2>4. CASE f = "job"
    BY <1>3, <1>5, <2>1, <2>2, <2>4
  <2> QED BY <2>1, <2>3, <2>4
<1>8. ASSUME Blockers(l, s) # {} PROVE Over(p, s)
  <2>0. PICK f \in F : \E x \in DOMAIN p[f] : is(f, x, TRUE) /\ Asked(s)[x] > Cell(p[f][x])[1].cap
    <3>1. CASE \E x \in DOMAIN l.job : Asked(s)[x] > l.job[x]
      BY <1>3, <3>1
    <3>2. CASE \E x \in DOMAIN l.user : Asked(s)[x] > l.user[x]
      BY <1>3, <3>2
    <3> QED BY <1>5, <1>8, <3>1, <3>2
  <2>1. PICK x \in DOMAIN p[f] : is(f, x, TRUE) /\ Asked(s)[x] > Cell(p[f][x])[1].cap
    BY <2>0
  <2>2. PICK i \in binding(f, x) : TRUE
    BY <1>2, <2>1
  <2> QED BY <1>4, <1>6, <2>1, <2>2
<1> QED BY <1>7, <1>8 DEF ReadRight, l

LEMMA OnlyPlace ==
  ASSUME NEW s, InOrder(s), NEW i \in DOMAIN s, ~ (Len(s) > 1)
  PROVE  Len(s) = 1 /\ i = 1
<1> DEFINE n == Len(s)
<1>1. n \in Nat /\ i \in Nat /\ 1 <= i /\ i <= n
  BY DEF InOrder
<1>2. ~ (n > 1)
  OBVIOUS
<1> HIDE DEF n
<1>3. n = 1 /\ i = 1
  BY <1>1, <1>2
<1> QED BY <1>3 DEF n

LEMMA PlaceBefore ==
  ASSUME NEW s, InOrder(s), NEW i \in DOMAIN s, NEW j \in 1 .. i - 1
  PROVE  j \in DOMAIN s /\ j \in Nat /\ j < i /\ i \in Nat
BY DEF InOrder

\* The cell of the memory ceiling, where one is read, is the one in its column.
LEMMA MemoryCell ==
  ASSUME NEW p, PublishedOK(p), p.by = "lsf"
  PROVE  /\ MemlimitText(p) \notin {Unlimited, Garbled} =>
               \E i \in DOMAIN p.cells : p.cells[i].of \in Memory(p) /\ p.cells[i].cap = MemlimitText(p)
         /\ \A i \in DOMAIN p.cells : p.cells[i].of \in Memory(p) =>
               MemlimitText(p) \in {Garbled, p.cells[i].cap}
<1> DEFINE mem == MemlimitText(p)
           agree == Len(p.cells) = Len(p.labels) /\ \A i \in DOMAIN p.cells : p.cells[i].under = i
<1>1. /\ InOrder(p.labels) /\ InOrder(p.cells)
      /\ \A i, j \in Memory(p) : i = j
      /\ \A i \in DOMAIN p.cells : p.cells[i].cap \in Nat \cup {Garbled, Unlimited}
      /\ Len(p.labels) = 1 => Len(p.cells) = 1 /\ p.cells[1].of = 1
      /\ agree => \A i \in DOMAIN p.cells : p.cells[i].of = i
  BY DEF PublishedOK
<1>2. Memory(p) \subseteq DOMAIN p.labels
  BY DEF Memory
<1>3. /\ Len(p.labels) \in Nat /\ DOMAIN p.labels = 1 .. Len(p.labels)
      /\ Len(p.cells) \in Nat /\ DOMAIN p.cells = 1 .. Len(p.cells)
  BY <1>1 DEF InOrder
<1>4. mem = IF Memory(p) = {} THEN Unlimited
            ELSE IF Len(p.labels) > 1 THEN MemlimitCell(p) ELSE p.cells[1].cap
  BY DEF MemlimitText
<1>5. MemlimitCell(p) = IF agree THEN p.cells[CHOOSE i \in Memory(p) : TRUE].cap ELSE Garbled
  BY DEF MemlimitCell
<1>6. Memory(p) # {} => (CHOOSE i \in Memory(p) : TRUE) \in Memory(p)
  OBVIOUS
<1> DEFINE c == CHOOSE i \in Memory(p) : TRUE
<1> HIDE DEF mem, agree, c
<1>7. ASSUME mem \notin {Unlimited, Garbled}
      PROVE  \E i \in DOMAIN p.cells : p.cells[i].of \in Memory(p) /\ p.cells[i].cap = mem
  <2>1. Memory(p) # {}
    BY <1>4, <1>7
  <2>2. CASE Len(p.labels) > 1
    <3>1. agree /\ mem = p.cells[c].cap
      BY <1>4, <1>5, <1>7, <2>1, <2>2 DEF c
    <3>2. c \in Memory(p)
      BY <1>6, <2>1 DEF c
    <3>3. c \in DOMAIN p.cells
      BY <1>2, <1>3, <3>1, <3>2 DEF agree
    <3> QED BY <1>1, <3>1, <3>2, <3>3
  <2>3. CASE ~(Len(p.labels) > 1)
    <3>1. PICK m \in Memory(p) : TRUE
      BY <2>1
    <3>2. Len(p.labels) = 1
      BY <1>1, <1>2, <2>3, <3>1, OnlyPlace
    <3>3. m = 1
      BY <1>1, <1>2, <2>3, <3>1, OnlyPlace
    <3>4. 1 \in DOMAIN p.cells
      BY <1>1, <1>3, <3>2
    <3> QED BY <1>1, <1>4, <2>1, <2>3, <3>1, <3>2, <3>3, <3>4
  <2> QED BY <2>2, <2>3
<1>8. ASSUME NEW i \in DOMAIN p.cells, p.cells[i].of \in Memory(p)
      PROVE  mem \in {Garbled, p.cells[i].cap}
  <2>1. Memory(p) # {}
    BY <1>8
  <2>2. CASE Len(p.labels) > 1
    <3>1. CASE agree
      <4>1. i \in Memory(p) /\ c \in Memory(p)
        BY <1>1, <1>6, <1>8, <2>1, <3>1 DEF c
      <4>2. i = c
        BY <1>1, <4>1
      <4> QED BY <1>4, <1>5, <2>1, <2>2, <3>1, <4>2 DEF c
    <3>2. CASE ~agree
      BY <1>4, <1>5, <2>1, <2>2, <3>2
    <3> QED BY <3>1, <3>2
  <2>3. CASE ~(Len(p.labels) > 1)
    <3> PICK m \in Memory(p) : TRUE
      BY <2>1
    <3>1. Len(p.labels) = 1
      BY <1>1, <1>2, <2>3, OnlyPlace
    <3>2. i = 1
      BY <1>1, <1>3, <3>1
    <3> QED BY <1>4, <2>1, <2>3, <3>2
  <2> QED BY <2>2, <2>3
<1> QED BY <1>7, <1>8 DEF mem

\* A setting that is read is the one in force.
LEMMA SettingInForce ==
  ASSUME NEW p, PublishedOK(p), p.by = "lsf", Legible(p), MemlimitIsPerJob(p)
  PROVE  p.wholeJob
<1> DEFINE found == {i \in DOMAIN p.files : p.files[i] \in {"whole job", "process"}}
<1>0. InOrder(p.files)
  BY DEF PublishedOK
<1>1. DOMAIN p.files \subseteq Nat /\ DOMAIN p.files = 1 .. Len(p.files) /\ Len(p.files) \in Nat
  BY DEF PublishedOK, InOrder
<1>2. found # {} /\ p.files[Min(found)] = "whole job"
  BY DEF MemlimitIsPerJob, ConfSetting
<1>3. Min(found) \in found /\ \A i \in found : Min(found) <= i
  <2>1. found \in SUBSET Nat
    BY <1>1
  <2> HIDE DEF found
  <2> QED BY <1>2, <2>1, LeastNumber
<1> DEFINE first == Min(found)
<1>4. first \in DOMAIN p.files /\ p.files[first] = "whole job"
  BY <1>2, <1>3
<1>5. ASSUME ~p.wholeJob PROVE FALSE
  <2>1. \A i \in DOMAIN p.files : p.files[i] = "whole job" => \E j \in 1 .. i - 1 : p.files[j] = "process"
    BY <1>5 DEF Legible
  <2> HIDE DEF first, found
  <2>2. PICK j \in 1 .. first - 1 : p.files[j] = "process"
    BY <1>4, <2>1
  <2>5. j \in DOMAIN p.files /\ j \in Nat /\ j < first /\ first \in Nat
    BY <1>0, <1>4, <2>2, PlaceBefore
  <2>6. j \in found
    BY <2>2, <2>5 DEF found
  <2>7. first <= j
    BY <1>3, <2>6 DEF first
  <2> QED BY <2>5, <2>7
<1> QED BY <1>5

LEMMA LsfIsReadRight ==
  ASSUME NEW p, NEW s, PublishedOK(p), p.by = "lsf", Legible(p)
  PROVE  ReadRight(p, s)
<1> DEFINE l == ReadLimits(p)
           mem == MemlimitText(p)
           counts == mem \notin {Unlimited, Garbled} /\ MemlimitIsPerJob(p)
           held(i) == p.wholeJob /\ p.cells[i].of \in Memory(p) /\ p.cells[i].cap # Unlimited
<1>1. CapsOK(p.user) /\ CapsOK(p.job) /\ "mem" \notin DOMAIN p.job
  BY DEF PublishedOK
<1>2. /\ l.job = [x \in DOMAIN p.job \cup (IF counts THEN {"mem"} ELSE {}) |-> IF x = "mem" THEN mem ELSE p.job[x]]
      /\ l.user = p.user
      /\ l.unreadable = IF mem = Unlimited \/ counts THEN {} ELSE {"mem"}
  BY DEF ReadLimits, LsfLimits
<1>3. Binding(p) = {<<x, p.user[x]>> : x \in DOMAIN p.user} \cup {<<x, p.job[x]>> : x \in DOMAIN p.job}
                   \cup {<<"mem", p.cells[i].cap>> : i \in {j \in DOMAIN p.cells : held(j)}}
  BY DEF Binding
<1>4. /\ \A x \in DOMAIN p.user : <<x, p.user[x]>> \in Binding(p)
      /\ \A x \in DOMAIN p.job : <<x, p.job[x]>> \in Binding(p)
      /\ \A i \in DOMAIN p.cells : held(i) => <<"mem", p.cells[i].cap>> \in Binding(p)
  BY <1>3
<1>5. ASSUME NEW b \in Binding(p)
      PROVE  \/ \E x \in DOMAIN p.user : b = <<x, p.user[x]>>
             \/ \E x \in DOMAIN p.job : b = <<x, p.job[x]>>
             \/ \E i \in DOMAIN p.cells : held(i) /\ b = <<"mem", p.cells[i].cap>>
  <2> DEFINE users == {<<x, p.user[x]>> : x \in DOMAIN p.user}
             queued == {<<x, p.job[x]>> : x \in DOMAIN p.job}
             cells == {<<"mem", p.cells[i].cap>> : i \in {j \in DOMAIN p.cells : held(j)}}
  <2> HIDE DEF held
  <2>1. CASE b \in users
    BY <2>1
  <2>2. CASE b \in queued
    BY <2>2
  <2>3. CASE b \in cells
    BY <2>3
  <2>4. b \in users \/ b \in queued \/ b \in cells
    <3> USE DEF held
    <3> QED BY <1>3
  <2> QED BY <2>1, <2>2, <2>3, <2>4
<1>6. Blockers(l, s) # {} <=> \/ \E x \in DOMAIN l.job : Asked(s)[x] > l.job[x]
                             \/ \E x \in DOMAIN l.user : Asked(s)[x] > l.user[x]
  BY DEF Blockers, Exceeded
<1>7. /\ \A x \in DOMAIN p.user : p.user[x] # Garbled
      /\ \A x \in DOMAIN p.job : p.job[x] # Garbled
  BY <1>1 DEF CapsOK, Garbled
<1>8. /\ mem \notin {Unlimited, Garbled} =>
               \E i \in DOMAIN p.cells : p.cells[i].of \in Memory(p) /\ p.cells[i].cap = mem
      /\ \A i \in DOMAIN p.cells : p.cells[i].of \in Memory(p) => mem \in {Garbled, p.cells[i].cap}
  BY MemoryCell
<1>9. counts => p.wholeJob
  BY SettingInForce
<1>10. Unlimited # Garbled
  BY DEF Unlimited, Garbled
<1> HIDE DEF l, mem
<1>11. ASSUME l.unreadable = {}, Over(p, s) PROVE Blockers(l, s) # {}
  <2>1. PICK b \in Binding(p) : b[2] # Garbled /\ Asked(s)[b[1]] > b[2]
    BY <1>11 DEF Over
  <2>2. CASE \E x \in DOMAIN p.user : b = <<x, p.user[x]>>
    BY <1>2, <1>6, <2>1, <2>2
  <2>3. CASE \E x \in DOMAIN p.job : b = <<x, p.job[x]>>
    <3>1. PICK x \in DOMAIN p.job : b = <<x, p.job[x]>>
      BY <2>3
    <3>2. x \in DOMAIN l.job /\ l.job[x] = p.job[x]
      BY <1>1, <1>2, <3>1
    <3> QED BY <1>6, <2>1, <3>1, <3>2
  <2>4. CASE \E i \in DOMAIN p.cells : held(i) /\ b = <<"mem", p.cells[i].cap>>
    <3>1. PICK i \in DOMAIN p.cells : held(i) /\ b = <<"mem", p.cells[i].cap>>
      BY <2>4
    <3>2. mem = Unlimited \/ counts
      BY <1>2, <1>11
    <3>3. mem = p.cells[i].cap /\ counts
      BY <1>8, <1>10, <2>1, <3>1, <3>2
    <3>4. "mem" \in DOMAIN l.job /\ l.job["mem"] = mem
      BY <1>2, <3>3
    <3> QED BY <1>6, <2>1, <3>1, <3>3, <3>4
  <2> QED BY <1>5, <2>2, <2>3, <2>4
<1>12. ASSUME Blockers(l, s) # {} PROVE Over(p, s)
  <2>1. CASE \E x \in DOMAIN l.user : Asked(s)[x] > l.user[x]
    <3>1. PICK x \in DOMAIN p.user : Asked(s)[x] > p.user[x]
      BY <1>2, <2>1
    <3>2. <<x, p.user[x]>> \in Binding(p) /\ p.user[x] # Garbled
      BY <1>4, <1>7
    <3> QED BY <3>1, <3>2 DEF Over
  <2>2. CASE \E x \in DOMAIN l.job : Asked(s)[x] > l.job[x]
    <3>1. PICK x \in DOMAIN l.job : Asked(s)[x] > l.job[x]
      BY <2>2
    <3>2. CASE x \in DOMAIN p.job
      <4>1. l.job[x] = p.job[x]
        BY <1>1, <1>2, <3>2
      <4>2. <<x, p.job[x]>> \in Binding(p)
        BY <1>4, <3>2
      <4> QED BY <1>7, <3>1, <3>2, <4>1, <4>2 DEF Over
    <3>3. CASE x \notin DOMAIN p.job
      <4>1. x = "mem" /\ counts /\ l.job[x] = mem
        BY <1>2, <3>1, <3>3
      <4>2. PICK i \in DOMAIN p.cells : p.cells[i].of \in Memory(p) /\ p.cells[i].cap = mem
        BY <1>8, <4>1
      <4>3. <<"mem", mem>> \in Binding(p)
        BY <1>4, <1>9, <4>1, <4>2
      <4> QED BY <3>1, <4>1, <4>3 DEF Over
    <3> QED BY <3>2, <3>3
  <2> QED BY <1>6, <1>12, <2>1, <2>2
<1> QED BY <1>11, <1>12 DEF ReadRight, l

LEMMA AskedIsNumber ==
  ASSUME NEW s, ShapeOK(s), NEW x \in Axes
  PROVE  Asked(s)[x] \in Nat
<1>1. s.nodes \in Nat /\ s.cpus \in Nat /\ s.gpus \in Nat /\ s.mem \in Nat /\ s.wall \in Nat
  BY DEF ShapeOK
<1>2. \A i, j \in Nat : i * j \in Nat
  OBVIOUS
<1> QED BY <1>1, <1>2 DEF Asked, Axes

LEMMA KubernetesIsReadRight ==
  ASSUME NEW p, NEW s, ShapeOK(s), PublishedOK(p), p.by = "kubernetes", Legible(p)
  PROVE  ReadRight(p, s)
<1> DEFINE l == ReadLimits(p)
           axes(q) == {q[i][1] : i \in DOMAIN q}
           caps(x) == {LastOf(q, x) : q \in {r \in p.quotas : x \in axes(r)}}
<1>1. \A q \in p.quotas : InOrder(q) /\ \A i \in DOMAIN q : q[i][1] \in Axes /\ q[i][2] \in Nat
  BY DEF PublishedOK
<1>2. l = [NoLimits EXCEPT !.job = [x \in UNION {axes(q) : q \in p.quotas} |-> Min(caps(x))]]
  BY DEF ReadLimits, KubernetesLimits
<1>3. /\ DOMAIN l.user = {}
      /\ l.job = [x \in UNION {axes(q) : q \in p.quotas} |-> Min(caps(x))]
  <2> HIDE DEF axes, caps
  <2> QED BY <1>2 DEF NoLimits, NoCaps
<1>4. ASSUME NEW q \in p.quotas, NEW i \in DOMAIN q PROVE LastOf(q, q[i][1]) = q[i][2]
  <2> DEFINE at == {k \in DOMAIN q : q[k][1] = q[i][1]}
  <2>1. \A j \in at : i = j
    BY DEF Legible
  <2>2. at = {i}
    BY <2>1
  <2>3. i \in Int
    <3>1. DOMAIN q = 1 .. Len(q)
      BY <1>1 DEF InOrder
    <3> QED BY <3>1
  <2>4. Max({i}) = i
    BY <2>3 DEF Max
  <2>5. LastOf(q, q[i][1]) = q[Max(at)][2]
    BY DEF LastOf
  <2> HIDE DEF at
  <2> QED BY <2>2, <2>4, <2>5
<1>5. \A x, c : c \in caps(x) <=> \E q \in p.quotas : \E i \in DOMAIN q : q[i][1] = x /\ q[i][2] = c
  BY <1>4
<1>6. \A x : x \in UNION {axes(q) : q \in p.quotas} <=> \E q \in p.quotas : \E i \in DOMAIN q : q[i][1] = x
  OBVIOUS
<1> HIDE DEF caps, axes, l
<1>7. ASSUME NEW x, caps(x) # {} PROVE Min(caps(x)) \in caps(x) /\ \A c \in caps(x) : Min(caps(x)) <= c
  <2>1. caps(x) \in SUBSET Nat
    BY <1>1, <1>5
  <2> QED BY <1>7, <2>1, LeastNumber
<1>8. \A b : b \in Binding(p) <=> \E q \in p.quotas : \E i \in DOMAIN q : b = q[i]
  <2>1. Binding(p) = UNION {{q[i] : i \in DOMAIN q} : q \in p.quotas}
    BY DEF Binding
  <2> DEFINE of(q) == {q[i] : i \in DOMAIN q}
  <2>2. \A b, q : b \in of(q) <=> \E i \in DOMAIN q : b = q[i]
    OBVIOUS
  <2>3. Binding(p) = UNION {of(q) : q \in p.quotas}
    BY <2>1
  <2> HIDE DEF of
  <2> QED BY <2>2, <2>3
<1>9. Blockers(l, s) # {} <=> \E x \in DOMAIN l.job : Asked(s)[x] > l.job[x]
  BY <1>3 DEF Blockers, Exceeded
<1>10. ASSUME Over(p, s) PROVE Blockers(l, s) # {}
  <2>0. PICK b \in Binding(p) : b[2] # Garbled /\ Asked(s)[b[1]] > b[2]
    BY <1>10 DEF Over
  <2>1. PICK q \in p.quotas : \E i \in DOMAIN q : b = q[i]
    BY <1>8
  <2>2. PICK i \in DOMAIN q : b = q[i]
    BY <2>1
  <2> DEFINE x == q[i][1]
  <2>3. q[i][2] \in caps(x) /\ x \in DOMAIN l.job /\ l.job[x] = Min(caps(x))
    BY <1>3, <1>5, <1>6
  <2>4. Min(caps(x)) <= q[i][2] /\ Min(caps(x)) \in Nat /\ q[i][2] \in Nat
    BY <1>1, <1>5, <1>7, <2>3
  <2>5. Asked(s)[x] > q[i][2]
    BY <2>0, <2>2
  <2>6. Asked(s)[x] \in Nat
    BY <1>1, AskedIsNumber
  <2>7. Asked(s)[x] > l.job[x]
    BY <2>3, <2>4, <2>5, <2>6
  <2> QED BY <1>9, <2>3, <2>7
<1>11. ASSUME Blockers(l, s) # {} PROVE Over(p, s)
  <2>1. PICK x \in DOMAIN l.job : Asked(s)[x] > l.job[x]
    BY <1>9, <1>11
  <2>2. \E q \in p.quotas : \E i \in DOMAIN q : q[i][1] = x
    BY <1>3, <1>6
  <2>6. caps(x) # {} /\ l.job[x] = Min(caps(x))
    <3> PICK q \in p.quotas : \E i \in DOMAIN q : q[i][1] = x
      BY <2>2
    <3>0. PICK i \in DOMAIN q : q[i][1] = x
      OBVIOUS
    <3>1. q[i][2] \in caps(x)
      BY <1>5, <3>0
    <3> QED BY <1>3, <3>1
  <2>3. Min(caps(x)) \in caps(x)
    BY <1>7, <2>6
  <2>4. PICK q \in p.quotas : \E i \in DOMAIN q : q[i][1] = x /\ q[i][2] = Min(caps(x))
    BY <1>5, <2>3
  <2>5. PICK i \in DOMAIN q : q[i][1] = x /\ q[i][2] = Min(caps(x))
    BY <2>4
  <2>7. q[i] \in Binding(p) /\ q[i][2] # Garbled
    BY <1>1, <1>8 DEF Garbled
  <2> QED BY <2>1, <2>5, <2>6, <2>7 DEF Over
<1> QED BY <1>10, <1>11 DEF ReadRight, l

LEMMA LimitSetsAreRead ==
  ASSUME NEW p, NEW s, ShapeOK(s), PublishedOK(p), Legible(p)
  PROVE  ReadRight(p, s)
BY SlurmIsReadRight, PbsIsReadRight, LsfIsReadRight, KubernetesIsReadRight DEF PublishedOK

-----------------------------------------------------------------------------
(* What is handed out on a node.                                           *)

LEMMA CaseFacts ==
  ASSUME case \in Cases
  PROVE  /\ case.silent \subseteq Nodes /\ case.lost \subseteq Nodes
         /\ \A n \in Nodes : MachineOK(case.machine[n]) /\ case.floor <= case.machine[n].mem
         /\ case.floor \in Nat /\ ShapeOK(shape) /\ RowsOK(case.rows) /\ CapsOK(case.caps)
         /\ {case.accounted, case.entitled, case.identified, case.declared, case.unlisted, case.probing}
               \subseteq BOOLEAN
         /\ case.by \in {"slurm", "sge", "kubernetes"}
         /\ NoName \notin DOMAIN case.published
         /\ \A name \in DOMAIN case.published : PublishedOK(case.published[name])
BY PlacementAssumption DEF shape

LEMMA ShapeFacts ==
  ASSUME case \in Cases
  PROVE  /\ shape.nodes \in Nat \ {0} /\ shape.cpus \in Nat \ {0} /\ shape.mem \in Nat /\ shape.gpus \in Nat
         /\ shape.size \in Nat /\ shape.able \in BOOLEAN /\ shape.tolerates \in BOOLEAN
BY CaseFacts DEF ShapeOK

LEMMA HeldIsNumber ==
  ASSUME NEW J \in SUBSET Work, NEW n
  PROVE  CpusHeld(J, n) \in Nat /\ MemHeld(J, n) \in Nat /\ GpusHeld(J, n) \in Nat
<1>1. IsFiniteSet(On(J, n)) /\ On(J, n) \subseteq Work
  BY PlacementAssumption, FS_Subset DEF On
<1>2. \A j \in Work : j.cpus \in Nat /\ j.mem \in Nat /\ j.gpus \in Nat
  BY PlacementAssumption
<1> QED BY <1>1, <1>2, SumIsNumber DEF CpusHeld, MemHeld, GpusHeld

\* Of fewer jobs, no more is held.
LEMMA HeldGrows ==
  ASSUME NEW K \in SUBSET Work, NEW J \in SUBSET K, NEW n
  PROVE  CpusHeld(J, n) <= CpusHeld(K, n) /\ MemHeld(J, n) <= MemHeld(K, n) /\ GpusHeld(J, n) <= GpusHeld(K, n)
<1>1. IsFiniteSet(On(K, n)) /\ On(K, n) \subseteq Work /\ On(J, n) \in SUBSET On(K, n)
  BY PlacementAssumption, FS_Subset DEF On
<1>2. \A j \in Work : j.cpus \in Nat /\ j.mem \in Nat /\ j.gpus \in Nat
  BY PlacementAssumption
<1> QED BY <1>1, <1>2, SumGrows DEF CpusHeld, MemHeld, GpusHeld

LEMMA HeldByNone ==
  ASSUME NEW J, NEW n, On(J, n) = {}
  PROVE  CpusHeld(J, n) = 0 /\ MemHeld(J, n) = 0 /\ GpusHeld(J, n) = 0
BY SumEmpty DEF CpusHeld, MemHeld, GpusHeld

LEMMA HeldByOneMore ==
  ASSUME NEW J \in SUBSET Work, NEW j \in Work \ J
  PROVE  /\ CpusHeld(J \cup {j}, j.on) = CpusHeld(J, j.on) + j.cpus
         /\ MemHeld(J \cup {j}, j.on) = MemHeld(J, j.on) + j.mem
         /\ GpusHeld(J \cup {j}, j.on) = GpusHeld(J, j.on) + j.gpus
<1> DEFINE K == On(J \cup {j}, j.on)
<1>1. IsFiniteSet(K) /\ K \subseteq Work /\ j \in K /\ K \ {j} = On(J, j.on)
  BY PlacementAssumption, FS_Subset DEF On
<1>2. \A i \in Work : i.cpus \in Nat /\ i.mem \in Nat /\ i.gpus \in Nat
  BY PlacementAssumption
<1>3. CpusHeld(J, j.on) \in Nat /\ MemHeld(J, j.on) \in Nat /\ GpusHeld(J, j.on) \in Nat
  BY HeldIsNumber
<1> DEFINE f == [i \in Work |-> i.cpus]
           g == [i \in Work |-> i.mem]
           h == [i \in Work |-> i.gpus]
<1>4. /\ \A x \in K : f[x] \in Nat /\ g[x] \in Nat /\ h[x] \in Nat
      /\ f[j] = j.cpus /\ g[j] = j.mem /\ h[j] = j.gpus
      /\ j.cpus \in Nat /\ j.mem \in Nat /\ j.gpus \in Nat
  BY <1>1, <1>2
<1>5. /\ CpusHeld(J \cup {j}, j.on) = SumFunctionOnSet(f, K) /\ CpusHeld(J, j.on) = SumFunctionOnSet(f, K \ {j})
      /\ MemHeld(J \cup {j}, j.on) = SumFunctionOnSet(g, K) /\ MemHeld(J, j.on) = SumFunctionOnSet(g, K \ {j})
      /\ GpusHeld(J \cup {j}, j.on) = SumFunctionOnSet(h, K) /\ GpusHeld(J, j.on) = SumFunctionOnSet(h, K \ {j})
  BY <1>1 DEF CpusHeld, MemHeld, GpusHeld
<1> HIDE DEF f, g, h, K
<1>6. /\ SumFunctionOnSet(f, K) = f[j] + SumFunctionOnSet(f, K \ {j})
      /\ SumFunctionOnSet(g, K) = g[j] + SumFunctionOnSet(g, K \ {j})
      /\ SumFunctionOnSet(h, K) = h[j] + SumFunctionOnSet(h, K \ {j})
  BY <1>1, <1>4, SumTakesOut
<1> QED BY <1>3, <1>4, <1>5, <1>6

-----------------------------------------------------------------------------
(* Room.                                                                   *)

LEMMA MachineFacts ==
  ASSUME case \in Cases, NEW n \in Nodes
  PROVE  /\ case.machine[n].cpus \in Nat /\ case.machine[n].mem \in Nat \ {0} /\ case.machine[n].gpus \in Nat
         /\ case.machine[n].tainted \in BOOLEAN
         /\ case.machine[n].card.size \in Nat /\ case.machine[n].card.able \in BOOLEAN
         /\ case.floor \in Nat /\ case.floor <= case.machine[n].mem /\ case.accounted \in BOOLEAN
BY CaseFacts DEF MachineOK

LEMMA FitsFewer ==
  ASSUME case \in Cases, NEW K \in SUBSET Work, NEW J \in SUBSET K, NEW n \in Nodes,
         NEW c \in Nat, NEW m \in Nat, NEW g \in Nat, Fits(K, n, c, m, g)
  PROVE  Fits(J, n, c, m, g)
<1>1. J \subseteq Work
  OBVIOUS
<1> QED BY <1>1, MachineFacts, HeldIsNumber, HeldGrows DEF Fits

LEMMA FitsOneMore ==
  ASSUME case \in Cases, NEW J \in SUBSET Work, NEW j \in Work \ J, NEW n \in Nodes,
         Fits(J, n, 0, 0, 0), Fits(J, j.on, j.cpus, j.mem, j.gpus)
  PROVE  Fits(J \cup {j}, n, 0, 0, 0)
<1>0. j.on \in Nodes /\ j.cpus \in Nat /\ j.mem \in Nat /\ j.gpus \in Nat
  BY PlacementAssumption
<1>1. CASE n = j.on
  BY <1>0, <1>1, HeldByOneMore, HeldIsNumber, MachineFacts DEF Fits
<1>2. CASE n # j.on
  <2>1. On(J \cup {j}, n) = On(J, n)
    BY <1>2 DEF On
  <2> QED BY <2>1 DEF Fits, CpusHeld, MemHeld, GpusHeld
<1> QED BY <1>1, <1>2

\* What was handed out when a reading was taken was within what there is.
Snapshot(U, J) ==
    /\ U \subseteq Nodes /\ J \subseteq Work
    /\ \A n \in Nodes : Fits(J, n, 0, 0, 0)

LEMMA ReadingOfANode ==
  ASSUME NEW U, NEW J, NEW n \in Nodes \ case.lost
  PROVE  LET r == ReadingOf(U, J)[n]
         IN  /\ n \in DOMAIN ReadingOf(U, J)
             /\ r.cpus = case.machine[n].cpus /\ r.cpusHeld = CpusHeld(J, n)
             /\ r.mem = (IF n \in case.silent THEN 0 ELSE case.machine[n].mem) /\ r.memHeld = MemHeld(J, n)
             /\ r.gpus = case.machine[n].gpus /\ r.gpusHeld = GpusHeld(J, n)
             /\ r.up = (n \in U) /\ r.tainted = case.machine[n].tainted
             /\ r.consumable = case.accounted /\ r.floor = (IF case.accounted THEN case.floor ELSE 0)
             /\ r.card = CardRead(n)
BY DEF ReadingOf

LEMMA RequestFacts ==
  ASSUME case \in Cases
  PROVE  /\ Request.nodes = shape.nodes /\ Request.cpus = shape.cpus /\ Request.mem = shape.mem
         /\ Request.gpus = shape.gpus /\ Request.size = shape.size /\ Request.able = shape.able
         /\ Request.tolerates = shape.tolerates /\ Request.exclude = ExcludedBy(shape.exclude)
BY CaseFacts DEF Request, ShapeOK

\* A node is excluded as it is meant.
LEMMA ExcludedIsMeant ==
  ASSUME case \in Cases, NEW n \in Nodes
  PROVE  n \in Request.exclude <=> shape.exclude # <<>> /\ Spelling[n] \in Hosts!Names(shape.exclude)
<1>1. CASE shape.exclude = <<>>
  BY <1>1, RequestFacts DEF ExcludedBy
<1>2. CASE shape.exclude # <<>>
  BY <1>2, RequestFacts, ExclusionsAreRead DEF shape
<1> QED BY <1>1, <1>2

LEMMA CardFacts ==
  ASSUME case \in Cases, NEW n \in Nodes
  PROVE  /\ CardRead(n) \in [able : BOOLEAN, size : Nat, certain : BOOLEAN]
         /\ CardRead(n) # Unidentified =>
              /\ CardRead(n).able = case.machine[n].card.able
              /\ CardRead(n).certain => CardRead(n).size >= case.machine[n].card.size
              /\ Whole(case.machine[n]) => CardRead(n).size <= case.machine[n].card.size
         /\ case.machine[n].gpus > 0 /\ (\E t \in TokensOf(case.machine[n]) : t.parts # {} /\ t.form # "embedded")
              => CardRead(n) # Unidentified
<1> DEFINE m == case.machine[n]
           read == ReadCard(m)
<1>1. /\ read \in [able : BOOLEAN, size : Nat, certain : BOOLEAN]
      /\ read # Unidentified =>
             /\ read.able = m.card.able /\ (read.certain => read.size >= m.card.size)
             /\ Whole(m) => read.size <= m.card.size
      /\ m.gpus > 0 /\ (\E t \in TokensOf(m) : t.parts # {} /\ t.form # "embedded") => read # Unidentified
  BY CardsAreRead
<1>2. CardRead(n) = read
  BY DEF CardRead
<1> HIDE DEF read
<1> QED BY <1>1, <1>2

\* What it takes for the hardware of a node to do, as it is read.
LEMMA HardwareReadsAs ==
  ASSUME case \in Cases, NEW U, NEW J, NEW n \in Nodes \ case.lost
  PROVE  HardwareOk(ReadingOf(U, J)[n], Request) <=>
           /\ shape.cpus <= case.machine[n].cpus
           /\ n \in case.silent \/ shape.mem <= case.machine[n].mem
           /\ case.machine[n].tainted => shape.tolerates
           /\ shape.gpus > 0 =>
                /\ shape.gpus <= case.machine[n].gpus
                /\ IF CardRead(n) # Unidentified
                   THEN CardRead(n).size >= shape.size /\ (shape.able => CardRead(n).able)
                   ELSE ~AsksOfTheCard(shape)
<1> DEFINE r == ReadingOf(U, J)[n]
<1>1. /\ r.cpus = case.machine[n].cpus /\ r.gpus = case.machine[n].gpus
      /\ r.mem = (IF n \in case.silent THEN 0 ELSE case.machine[n].mem)
      /\ r.tainted = case.machine[n].tainted /\ r.card = CardRead(n)
  BY ReadingOfANode
<1>2. /\ n \in Nodes /\ MachineOK(case.machine[n])
  BY CaseFacts
<1> HIDE DEF r
<1>3. SizeReasons(r, Request) = {} <=>
        /\ shape.cpus <= case.machine[n].cpus
        /\ n \in case.silent \/ shape.mem <= case.machine[n].mem
        /\ case.machine[n].tainted => shape.tolerates
  <2>1. SizeReasons(r, Request) = {} <=>
          ~ (r.cpus < Request.cpus) /\ ~ (r.mem > 0 /\ r.mem < Request.mem) /\ ~ (r.tainted /\ ~Request.tolerates)
    BY DEF SizeReasons
  <2> QED BY <1>1, <1>2, <2>1, MachineFacts, ShapeFacts, RequestFacts
<1>4. CardReasons(r, Request) = {} <=>
        IF CardRead(n) # Unidentified
        THEN CardRead(n).size >= shape.size /\ (shape.able => CardRead(n).able)
        ELSE ~ (case.machine[n].gpus > 0 /\ AsksOfTheCard(shape))
  <2>1. CASE CardRead(n) # Unidentified
    <3>1. CardReasons(r, Request) = {} <=> ~ (r.card.size < Request.size) /\ ~ (Request.able /\ ~r.card.able)
      BY <1>1, <2>1 DEF CardReasons
    <3>2. CardRead(n).size \in Nat
      BY <1>2, CardFacts
    <3> QED BY <1>1, <2>1, <3>1, <3>2, ShapeFacts, RequestFacts
  <2>2. CASE CardRead(n) = Unidentified
    BY <1>1, <2>2, RequestFacts DEF CardReasons, AsksOfTheCard
  <2> QED BY <2>1, <2>2
<1>5. {x \in {"accelerators"} : r.gpus = 0 \/ r.gpus < Request.gpus} = {} <=> ~ (r.gpus = 0 \/ r.gpus < Request.gpus)
  OBVIOUS
<1>6. HardwareOk(r, Request) <=>
        /\ SizeReasons(r, Request) = {}
        /\ shape.gpus > 0 => CardReasons(r, Request) = {} /\ ~ (r.gpus = 0 \/ r.gpus < Request.gpus)
  <2>1. NeedsGpu(Request) <=> shape.gpus > 0
    BY RequestFacts DEF NeedsGpu
  <2> QED BY <1>5, <2>1 DEF HardwareOk, HardwareReasons
<1>7. HardwareOk(r, Request) <=>
           /\ shape.cpus <= case.machine[n].cpus
           /\ n \in case.silent \/ shape.mem <= case.machine[n].mem
           /\ case.machine[n].tainted => shape.tolerates
           /\ shape.gpus > 0 =>
                /\ shape.gpus <= case.machine[n].gpus
                /\ IF CardRead(n) # Unidentified
                   THEN CardRead(n).size >= shape.size /\ (shape.able => CardRead(n).able)
                   ELSE ~AsksOfTheCard(shape)
  BY <1>1, <1>2, <1>3, <1>4, <1>6, MachineFacts, ShapeFacts, RequestFacts
<1> QED BY <1>7 DEF r

-----------------------------------------------------------------------------
(* A node that is judged to do, and one that does.                         *)

\* Hardware that is right, as it was read, is right.
LEMMA HardwareSuits ==
  ASSUME case \in Cases, RoomIsTold, NEW U, NEW J, NEW n \in Nodes \ case.lost, n \notin Request.exclude,
         HardwareOk(ReadingOf(U, J)[n], Request)
  PROVE  /\ Suits(n)
         /\ shape.cpus <= case.machine[n].cpus /\ shape.gpus <= case.machine[n].gpus
         /\ Counted(n) => MemGiven <= case.machine[n].mem
<1>0. n \in Nodes
  BY CaseFacts
<1>1. /\ shape.cpus <= case.machine[n].cpus
      /\ n \in case.silent \/ shape.mem <= case.machine[n].mem
      /\ case.machine[n].tainted => shape.tolerates
      /\ shape.gpus > 0 =>
           /\ shape.gpus <= case.machine[n].gpus
           /\ IF CardRead(n) # Unidentified
              THEN CardRead(n).size >= shape.size /\ (shape.able => CardRead(n).able)
              ELSE ~AsksOfTheCard(shape)
  BY HardwareReadsAs
<1>2. shape.gpus <= case.machine[n].gpus
  BY <1>0, <1>1, ShapeFacts, MachineFacts
<1>3. CardDoes(n)
  <2>1. SUFFICES ASSUME shape.gpus > 0
                 PROVE  case.machine[n].card.size >= shape.size /\ (shape.able => case.machine[n].card.able)
    BY DEF CardDoes, NeedsGpu
  <2>2. case.machine[n].card.size \in Nat /\ shape.size \in Nat
    BY <1>0, ShapeFacts, MachineFacts
  <2>3. CASE CardRead(n) # Unidentified
    <3>1. CardRead(n).size \in Nat
      BY <1>0, CardFacts
    <3>2. shape.able => case.machine[n].card.able
      BY <1>0, <1>1, <2>1, <2>3, CardFacts
    <3>3. CASE Whole(case.machine[n])
      <4>1. CardRead(n).size <= case.machine[n].card.size /\ CardRead(n).size >= shape.size
        BY <1>0, <1>1, <2>1, <2>3, <3>3, CardFacts
      <4> QED BY <2>2, <3>1, <3>2, <4>1
    <3>4. CASE ~Whole(case.machine[n])
      <4>1. shape.size = 0
        BY <1>0, <3>4 DEF RoomIsTold, NoSlices
      <4> QED BY <2>2, <3>2, <4>1
    <3> QED BY <3>3, <3>4
  <2>4. CASE CardRead(n) = Unidentified
    <3>1. ~ shape.able /\ ~ (shape.size > 0)
      BY <1>1, <2>1, <2>4 DEF AsksOfTheCard
    <3> QED BY <2>2, <3>1
  <2> QED BY <2>3, <2>4
<1>4. Suits(n)
  <2>1. shape.exclude # <<>> => Spelling[n] \notin Hosts!Names(shape.exclude)
    BY <1>0, ExcludedIsMeant
  <2> QED BY <1>1, <1>3, <2>1 DEF Suits
<1>5. ASSUME Counted(n) PROVE MemGiven <= case.machine[n].mem
  <2>1. n \notin case.silent /\ case.accounted
    BY <1>5 DEF Counted
  <2>2. CASE shape.mem > 0
    BY <1>1, <2>1, <2>2 DEF MemGiven
  <2>3. CASE ~ (shape.mem > 0) /\ case.floor > 0
    <3>1. shape.cpus = 1
      BY <2>1, <2>3, <1>0, MachineFacts DEF RoomIsTold, FloorCovers
    <3> QED BY <1>0, <2>3, <3>1, MachineFacts DEF MemGiven
  <2>4. CASE ~ (shape.mem > 0) /\ ~ (case.floor > 0)
    BY <1>0, <2>4, MachineFacts DEF MemGiven
  <2> QED BY <2>2, <2>3, <2>4
<1> QED BY <1>1, <1>2, <1>4, <1>5

\* A node that fits, as it was read, takes the job while it is as it was read.
LEMMA FittingTakes ==
  ASSUME case \in Cases, RoomIsTold, NEW U, NEW J, Snapshot(U, J), NEW n \in Nodes \ case.lost,
         NodeFits(n, ReadingOf(U, J)[n], Request)
  PROVE  n \in U /\ Suits(n) /\ Fits(J, n, shape.cpus, MemGiven, shape.gpus)
<1> DEFINE r == ReadingOf(U, J)[n]
<1>0. n \in Nodes /\ J \in SUBSET Work /\ Fits(J, n, 0, 0, 0)
  BY CaseFacts DEF Snapshot
<1>1. /\ r.cpus = case.machine[n].cpus /\ r.cpusHeld = CpusHeld(J, n)
      /\ r.mem = (IF n \in case.silent THEN 0 ELSE case.machine[n].mem) /\ r.memHeld = MemHeld(J, n)
      /\ r.gpus = case.machine[n].gpus /\ r.gpusHeld = GpusHeld(J, n)
      /\ r.up = (n \in U)
      /\ r.consumable = case.accounted /\ r.floor = (IF case.accounted THEN case.floor ELSE 0)
  BY ReadingOfANode
<1>2. /\ r.up /\ n \notin Request.exclude /\ HardwareOk(r, Request)
      /\ NeedsGpu(Request) => GpusFree(r) >= Request.gpus
      /\ CpusFree(r) >= Request.cpus /\ ~MemoryExhausted(r) /\ MemFree(r) >= Request.mem
  BY DEF NodeFits
<1>3. /\ Suits(n) /\ shape.cpus <= case.machine[n].cpus /\ shape.gpus <= case.machine[n].gpus
  BY <1>2, HardwareSuits
<1>4. CpusHeld(J, n) \in Nat /\ MemHeld(J, n) \in Nat /\ GpusHeld(J, n) \in Nat
  BY <1>0, HeldIsNumber
<1>5. /\ shape.cpus \in Nat \ {0} /\ shape.mem \in Nat /\ shape.gpus \in Nat
      /\ case.machine[n].cpus \in Nat /\ case.machine[n].mem \in Nat \ {0} /\ case.machine[n].gpus \in Nat
      /\ case.floor \in Nat /\ case.accounted \in BOOLEAN
  BY <1>0, MachineFacts, ShapeFacts
<1> HIDE DEF r
<1>6. CpusHeld(J, n) + shape.cpus <= case.machine[n].cpus
  BY <1>1, <1>2, <1>4, <1>5, RequestFacts DEF CpusFree, AtLeastZero
<1>7. GpusHeld(J, n) + shape.gpus <= case.machine[n].gpus
  <2>1. CASE shape.gpus > 0
    BY <1>1, <1>2, <1>4, <1>5, <2>1, RequestFacts DEF GpusFree, AtLeastZero, NeedsGpu
  <2>2. CASE shape.gpus = 0
    BY <1>0, <2>2 DEF Fits
  <2> QED BY <1>5, <2>1, <2>2
<1>8. ASSUME Counted(n) PROVE MemHeld(J, n) + MemGiven <= case.machine[n].mem
  <2>1. n \notin case.silent /\ case.accounted
    BY <1>8 DEF Counted
  <2>2. MemFree(r) >= shape.mem /\ MemFree(r) >= 1 /\ MemFree(r) >= case.floor
    BY <1>1, <1>2, <1>4, <1>5, <2>1, RequestFacts DEF MemoryExhausted, MemFree, AtLeastZero
  <2>3. MemHeld(J, n) + shape.mem <= case.machine[n].mem /\ MemHeld(J, n) + 1 <= case.machine[n].mem
        /\ MemHeld(J, n) + case.floor <= case.machine[n].mem
    BY <1>1, <1>4, <1>5, <2>1, <2>2 DEF MemFree, AtLeastZero
  <2>4. CASE shape.mem > 0
    BY <2>3, <2>4 DEF MemGiven
  <2>5. CASE ~ (shape.mem > 0) /\ case.floor > 0
    <3>1. shape.cpus = 1
      BY <1>5, <2>1, <2>5 DEF RoomIsTold, FloorCovers
    <3> QED BY <1>5, <2>3, <2>5, <3>1 DEF MemGiven
  <2>6. CASE ~ (shape.mem > 0) /\ ~ (case.floor > 0)
    BY <2>3, <2>6 DEF MemGiven
  <2> QED BY <2>4, <2>5, <2>6
<1> QED BY <1>1, <1>2, <1>3, <1>6, <1>7, <1>8 DEF Fits

\* What a node must be for the job to run there at all.
CouldTake(n) ==
    /\ Suits(n)
    /\ shape.cpus <= case.machine[n].cpus /\ shape.gpus <= case.machine[n].gpus

LEMMA TakesCould ==
  ASSUME case \in Cases, jobs \in SUBSET Work, NEW n \in Nodes, Takes(n)
  PROVE  CouldTake(n)
BY MachineFacts, ShapeFacts, HeldIsNumber DEF Takes, HasRoom, Fits, CouldTake

\* Hardware that could take the job is not read as hardware that could not.
LEMMA CouldTakeIsRead ==
  ASSUME case \in Cases, SizesSaid, NEW U, NEW J, NEW n \in Nodes \ case.lost, CouldTake(n)
  PROVE  /\ n \notin Request.exclude
         /\ \/ HardwareOk(ReadingOf(U, J)[n], Request)
            \/ ~CardsSaid /\ "unverified" \in HardwareReasons(ReadingOf(U, J)[n], Request)
<1>0. n \in Nodes
  BY CaseFacts
<1>1. /\ Suits(n) /\ shape.cpus <= case.machine[n].cpus /\ shape.gpus <= case.machine[n].gpus
  BY DEF CouldTake
<1>2. n \notin Request.exclude
  BY <1>0, <1>1, ExcludedIsMeant DEF Suits
<1>3. /\ case.machine[n].tainted => shape.tolerates
      /\ n \in case.silent \/ shape.mem <= case.machine[n].mem
      /\ shape.gpus > 0 => /\ case.machine[n].card.size >= shape.size
                           /\ shape.able => case.machine[n].card.able
  BY <1>0, <1>1, ShapeFacts, MachineFacts DEF Suits, CardDoes, NeedsGpu
<1>4. CASE shape.gpus > 0 /\ CardRead(n) = Unidentified /\ AsksOfTheCard(shape)
  <2>1. ~CardsSaid
    BY <1>0, <1>1, <1>4, CardFacts, ShapeFacts, MachineFacts DEF CardsSaid
  <2>2. "unverified" \in HardwareReasons(ReadingOf(U, J)[n], Request)
    <3> DEFINE r == ReadingOf(U, J)[n]
    <3>1. r.card = CardRead(n) /\ r.gpus = case.machine[n].gpus
      BY ReadingOfANode
    <3>2. r.gpus > 0 /\ NeedsGpu(Request) /\ AsksOfTheCard(Request)
      BY <1>0, <1>1, <1>4, <3>1, RequestFacts, ShapeFacts, MachineFacts DEF NeedsGpu, AsksOfTheCard
    <3> HIDE DEF r
    <3>3. "unverified" \in CardReasons(r, Request)
      BY <1>4, <3>1, <3>2 DEF CardReasons
    <3>4. "unverified" \in HardwareReasons(r, Request)
      BY <3>2, <3>3 DEF HardwareReasons
    <3> QED BY <3>4 DEF r
  <2> QED BY <1>2, <2>1, <2>2
<1>5. CASE ~ (shape.gpus > 0 /\ CardRead(n) = Unidentified /\ AsksOfTheCard(shape))
  <2>1. ASSUME shape.gpus > 0, CardRead(n) # Unidentified
        PROVE  CardRead(n).size >= shape.size /\ (shape.able => CardRead(n).able)
    <3>1. CardRead(n).size \in Nat /\ case.machine[n].card.size \in Nat /\ shape.size \in Nat
      BY <1>0, CardFacts, ShapeFacts, MachineFacts
    <3>2. shape.able => CardRead(n).able
      BY <1>0, <1>3, <2>1, CardFacts
    <3>3. CASE shape.size = 0
      BY <3>1, <3>2, <3>3
    <3>4. CASE shape.size > 0
      <4>1. CardRead(n).certain
        BY <1>0, <2>1, <3>4 DEF SizesSaid
      <4>2. CardRead(n).size >= case.machine[n].card.size
        BY <1>0, <2>1, <4>1, CardFacts
      <4> QED BY <1>3, <2>1, <3>1, <3>2, <4>2
    <3> QED BY <3>1, <3>3, <3>4
  <2>2. HardwareOk(ReadingOf(U, J)[n], Request)
    BY <1>1, <1>3, <1>5, <2>1, HardwareReadsAs
  <2> QED BY <1>2, <2>2
<1> QED BY <1>4, <1>5

-----------------------------------------------------------------------------
(* What the nodes come to.                                                 *)

LEMMA AssessedSets ==
  /\ Assessed.considered = Cardinality(DOMAIN nodesRead)
  /\ Assessed.required = (IF case.lost = {} THEN Request.nodes ELSE 0)
  /\ Assessed.hardware = {n \in DOMAIN nodesRead \ Request.exclude : HardwareOk(nodesRead[n], Request)}
  /\ Assessed.fitting = {n \in DOMAIN nodesRead : NodeFits(n, nodesRead[n], Request)}
  /\ Assessed.capable = {n \in Assessed.hardware \ Assessed.fitting : nodesRead[n].up}
  /\ Assessed.unverified = {n \in DOMAIN nodesRead : "unverified" \in HardwareReasons(nodesRead[n], Request)}
  /\ Assessed.earliest = EarliestNeeded(freeRead, Assessed.capable, Cardinality(Assessed.fitting), Request)
BY DEF Assessed, Assess

LEMMA EarliestIsATime ==
  ASSUME NEW C, NEW k, NEW F, \A n \in C \cap DOMAIN F : F[n] \in Nat, EarliestOf(F, C, k) # Never
  PROVE  LET t == EarliestOf(F, C, k)
         IN  /\ \E n \in C \cap DOMAIN F : t = F[n]
             /\ Cardinality({n \in C \cap DOMAIN F : F[n] <= t}) >= k
<1> DEFINE By(t) == Cardinality({n \in C \cap DOMAIN F : F[n] <= t})
           Times == {F[n] : n \in C \cap DOMAIN F}
           enough == {t \in Times : By(t) >= k}
<1>1. /\ \E t \in Times : By(t) >= k
      /\ EarliestOf(F, C, k) = CHOOSE t \in Times : By(t) >= k /\ \A u \in Times : By(u) >= k => t <= u
  BY DEF EarliestOf
<1>2. enough # {} /\ enough \in SUBSET Nat
  BY <1>1
<1> HIDE DEF By
<1>3. \E t \in Times : By(t) >= k /\ \A u \in Times : By(u) >= k => t <= u
  <2>1. Min(enough) \in enough /\ \A u \in enough : Min(enough) <= u
    <3> HIDE DEF enough
    <3> QED BY <1>2, LeastNumber
  <2> QED BY <2>1
<1>4. EarliestOf(F, C, k) \in Times /\ By(EarliestOf(F, C, k)) >= k
  BY <1>1, <1>3
<1> QED BY <1>4 DEF By

\* A busy node is free when the last job on it ends.
LEMMA FreeWhenTheLastEnds ==
  ASSUME NEW J \in SUBSET Work, NEW n \in DOMAIN FreeTimesOf(J)
  PROVE  /\ FreeTimesOf(J)[n] \in Nat
         /\ \E j \in J : FreeTimesOf(J)[n] = j.end
         /\ \A j \in J : j.on = n => j.end <= FreeTimesOf(J)[n]
<1> DEFINE S == On(J, n)
           f == [j \in S |-> j.end]
<1>1. IsFiniteSet(S) /\ S # {} /\ S \subseteq J
  BY PlacementAssumption, FS_Subset DEF On, FreeTimesOf
<1>2. f \in [S -> Nat]
  BY <1>1, PlacementAssumption
<1>3. {j.end : j \in On(J, n)} = {f[x] : x \in S}
  OBVIOUS
<1>4. FreeTimesOf(J)[n] = Max({f[x] : x \in S})
  BY <1>3 DEF FreeTimesOf
<1> DEFINE V == {f[x] : x \in S}
<1>5. /\ \A x \in S : f[x] = x.end /\ f[x] \in Nat
      /\ \A v \in V : \E x \in S : v = f[x]
      /\ \A j \in J : j.on = n => j \in S
  BY <1>2 DEF On
<1> HIDE DEF f, S
<1>6. Max(V) \in V /\ \A x \in S : f[x] <= Max(V)
  BY <1>1, <1>2, GreatestNumber
<1>7. PICK x \in S : Max(V) = f[x]
  BY <1>5, <1>6
<1> QED BY <1>1, <1>4, <1>5, <1>6, <1>7

-----------------------------------------------------------------------------
(* What holds of every state that is reached.                              *)

Given ==
    /\ case \in Cases /\ clock \in 0 .. MaxClock
    /\ disturbed \in BOOLEAN /\ started \in BOOLEAN
    /\ Snapshot(up, jobs)

\* Each reading is of a cluster that was; if nobody came and no node left since
\* the first, of one with as many jobs or more, and as many nodes or fewer.
NodesOnceRead ==
    nodesRead # Unread => \E U \in SUBSET Nodes, J \in SUBSET Work :
        /\ Snapshot(U, J) /\ nodesRead = ReadingOf(U, J)
        /\ ~disturbed => U \subseteq up /\ jobs \subseteq J
FreeOnceRead ==
    freeRead # Unread => \E J \in SUBSET Work : /\ freeRead = FreeTimesOf(J)
                                                /\ ~disturbed => jobs \subseteq J

Judged ==
    answer # Unread =>
        /\ nodesRead # Unread /\ freeRead # Unread
        /\ \E all \in BOOLEAN : \E v \in Verdicts(Assessed, all) : answer = Judgement(Assessed, all, v)

\* A job that started could.
StartedWhereItCould ==
    started => /\ answer # Unread /\ case.entitled
               /\ Cardinality({n \in Nodes : CouldTake(n)}) >= shape.nodes

Inv == Given /\ NodesOnceRead /\ FreeOnceRead /\ Judged /\ StartedWhereItCould

LEMMA JudgementFields ==
  ASSUME NEW cap, NEW all, NEW v
  PROVE  LET a == Judgement(cap, all, v)
             limits == LimitsFor(LimitsRead, case.rows, case.identified, case.limitSet, case.qos, v.effective)
         IN  /\ a.fatal = Operational(nodesRead) \cup Access /\ a.cap = cap
             /\ a.soft <=> (Exceeded(case.caps, shape) \cup Blockers(limits, shape) # {})
             /\ a.unchecked <=> (limits.unreadable # {})
             /\ a.withheld <=> (case.probing /\ Impossible(cap)) /\ a.verdict = Settled(v, all)
BY DEF Judgement

LEMMA JudgedAs ==
  ASSUME Inv, answer # Unread
  PROVE  /\ nodesRead # Unread /\ freeRead # Unread /\ answer.cap = Assessed
         /\ answer.withheld => Impossible(Assessed)
         /\ answer.fatal = Operational(nodesRead) \cup Access
<1>1. /\ nodesRead # Unread /\ freeRead # Unread
      /\ \E all \in BOOLEAN : \E v \in Verdicts(Assessed, all) : answer = Judgement(Assessed, all, v)
  BY DEF Inv, Judged
<1>2. PICK all \in BOOLEAN : \E v \in Verdicts(Assessed, all) : answer = Judgement(Assessed, all, v)
  BY <1>1
<1>3. PICK v \in Verdicts(Assessed, all) : answer = Judgement(Assessed, all, v)
  BY <1>2
<1>4. answer.cap = Assessed /\ answer.fatal = Operational(nodesRead) \cup Access
  BY <1>3, JudgementFields
<1>5. answer.withheld => Impossible(Assessed)
  BY <1>3, JudgementFields
<1> QED BY <1>1, <1>4, <1>5

LEMMA SubsetIsCounted ==
  ASSUME NEW T \in SUBSET Nodes, NEW S \in SUBSET T
  PROVE  /\ IsFiniteSet(S) /\ Cardinality(S) \in Nat /\ Cardinality(T) \in Nat
         /\ Cardinality(S) <= Cardinality(T)
<1>1. IsFiniteSet(T)
  BY PlacementAssumption, FS_Subset
<1>2. IsFiniteSet(S) /\ Cardinality(S) <= Cardinality(T)
  BY <1>1, FS_Subset
<1> QED BY <1>1, <1>2, FS_CardinalityType

\* The nodes that could take the job are among those that the hardware of is
\* right, or is not known to be.
LEMMA HardwareIsEnough ==
  ASSUME Inv, started, SizesSaid, case.lost = {}, CardsSaid \/ Assessed.unverified = {}
  PROVE  Assessed.hardware # {} /\ EverPossible(Assessed)
<1>1. PICK U, J : nodesRead = ReadingOf(U, J)
  BY JudgedAs DEF Inv, NodesOnceRead, StartedWhereItCould
<1> DEFINE could == {n \in Nodes : CouldTake(n)}
           hw == {n \in DOMAIN nodesRead \ Request.exclude : HardwareOk(nodesRead[n], Request)}
<1>2. case \in Cases /\ Cardinality(could) >= shape.nodes
  BY DEF Inv, Given, StartedWhereItCould
<1>3. DOMAIN nodesRead = Nodes
  BY <1>1 DEF ReadingOf
<1>4. /\ Assessed.hardware = hw /\ Assessed.required = shape.nodes
      /\ Assessed.unverified = {n \in Nodes : "unverified" \in HardwareReasons(nodesRead[n], Request)}
  BY <1>2, <1>3, AssessedSets, RequestFacts
<1>5. could \subseteq hw
  <2>1. ASSUME NEW n \in Nodes, CouldTake(n)
        PROVE  n \notin Request.exclude /\ HardwareOk(nodesRead[n], Request)
    <3>1. n \in Nodes \ case.lost
      OBVIOUS
    <3>2. ~ ("unverified" \in HardwareReasons(nodesRead[n], Request)) \/ CardsSaid
      BY <1>4
    <3> QED BY <1>1, <1>2, <2>1, <3>1, <3>2, CouldTakeIsRead
  <2> QED BY <1>3, <2>1
<1>6. hw \in SUBSET Nodes
  BY <1>3
<1> HIDE DEF could, hw
<1>7. Cardinality(hw) \in Nat /\ Cardinality(could) \in Nat /\ Cardinality(could) <= Cardinality(hw)
  BY <1>5, <1>6, SubsetIsCounted
<1>8. Cardinality(hw) >= shape.nodes /\ Cardinality(hw) # 0
  BY <1>2, <1>7, ShapeFacts
<1>9. hw # {}
  BY <1>8, FS_EmptySet
<1> QED BY <1>4, <1>8, <1>9 DEF EverPossible

\* Of nodes none of which resolved nothing is said.
LEMMA NothingResolved ==
  ASSUME Inv, answer # Unread, case.lost = Nodes, case.lost # {}
  PROVE  EverPossible(Assessed)
<1>1. PICK U, J : nodesRead = ReadingOf(U, J)
  BY JudgedAs DEF Inv, NodesOnceRead
<1>2. DOMAIN nodesRead = {}
  BY <1>1 DEF ReadingOf
<1>3. Assessed.considered = 0 /\ Assessed.required = 0 /\ Assessed.hardware = {}
  BY <1>2, AssessedSets, FS_EmptySet
<1> QED BY <1>3 DEF EverPossible

LEMMA StartedIsPossible ==
  ASSUME Inv, started, CardsSaid, case.lost \in {{}, Nodes}
  PROVE  answer # Unread /\ EverPossible(answer.cap)
<1>1. answer # Unread /\ answer.cap = Assessed
  BY JudgedAs DEF Inv, StartedWhereItCould
<1>2. CASE case.lost = {}
  BY <1>1, <1>2, HardwareIsEnough DEF CardsSaid
<1>3. CASE case.lost = Nodes /\ case.lost # {}
  BY <1>1, <1>3, NothingResolved
<1> QED BY <1>1, <1>2, <1>3

LEMMA WrongHardware ==
  ASSUME Inv
  PROVE  WrongHardwareIsForever
<1>1. ASSUME started, CardsSaid, case.lost \in {{}, Nodes}
      PROVE  Label(answer) \notin {"WRONG HW", "TOO FEW"}
  BY <1>1, StartedIsPossible DEF Label
<1> QED BY <1>1 DEF WrongHardwareIsForever

LEMMA Withheld ==
  ASSUME Inv
  PROVE  WithheldOnlyWhereHopeless
<1>1. SUFFICES ASSUME started, SizesSaid, answer.withheld
               PROVE  FALSE
  BY DEF WithheldOnlyWhereHopeless
<1>2. Impossible(Assessed)
  BY <1>1, JudgedAs DEF Inv, StartedWhereItCould
<1> QED BY <1>1, <1>2, HardwareIsEnough DEF Impossible

-----------------------------------------------------------------------------
(* Room now, and room at the earliest.                                     *)

LEMMA RunNow ==
  ASSUME NEW a, Label(a) = "RUN NOW"
  PROVE  /\ a.fatal = {} /\ ~a.soft /\ (Durable(a.verdict) => a.verdict.allowed)
         /\ Satisfies(a.cap, shape)
BY DEF Label, StartsNow, RunnableNow, Reachable

LEMMA EnoughTake ==
  ASSUME Inv, NEW S, S \subseteq {n \in Nodes : Takes(n)}, Cardinality(S) >= shape.nodes
  PROVE  RoomNow
<1> DEFINE taking == {n \in Nodes : Takes(n)}
<1>1. taking \in SUBSET Nodes
  OBVIOUS
<1> HIDE DEF taking
<1>2. S \in SUBSET taking
  BY DEF taking
<1>3. Cardinality(S) \in Nat /\ Cardinality(taking) \in Nat /\ Cardinality(S) <= Cardinality(taking)
  BY <1>1, <1>2, SubsetIsCounted
<1> QED BY <1>3, ShapeFacts DEF taking, RoomNow, Inv, Given

LEMMA RoomWhereItFits ==
  ASSUME Inv, answer # Unread, Label(answer) = "RUN NOW", nodesRead = Reading, RoomIsTold
  PROVE  RoomNow
<1>1. case \in Cases /\ Snapshot(up, jobs) /\ nodesRead = ReadingOf(up, jobs)
  BY DEF Inv, Given, Reading
<1>2. Cardinality(Assessed.fitting) >= shape.nodes
  BY RunNow, JudgedAs DEF Satisfies
<1>3. DOMAIN nodesRead = Nodes \ case.lost
  BY <1>1 DEF ReadingOf
<1>4. ASSUME NEW n \in Assessed.fitting PROVE n \in Nodes /\ Takes(n)
  <2>1. n \in Nodes \ case.lost /\ NodeFits(n, nodesRead[n], Request)
    BY <1>3, AssessedSets
  <2>2. n \in up /\ Suits(n) /\ Fits(jobs, n, shape.cpus, MemGiven, shape.gpus)
    BY <1>1, <2>1, FittingTakes
  <2> QED BY <2>1, <2>2 DEF Takes, HasRoom
<1> QED BY <1>2, <1>4, EnoughTake

\* The node was in service, and the last of its jobs was to end by then; every
\* job has ended by its limit, so that none is left there.
LEMMA FreedTakes ==
  ASSUME Inv, RoomIsTold, NEW U \in SUBSET up, NEW J \in SUBSET Work, jobs \subseteq J,
         NEW K, nodesRead = ReadingOf(U, K),
         NEW n \in Assessed.capable \cap DOMAIN FreeTimesOf(J), FreeTimesOf(J)[n] <= clock,
         \A j \in jobs : j.end > clock
  PROVE  n \in Nodes /\ Takes(n)
<1>1. case \in Cases /\ Snapshot(up, jobs) /\ clock \in Nat
  BY PlacementAssumption DEF Inv, Given
<1>2. /\ n \in Nodes \ case.lost /\ n \notin Request.exclude /\ HardwareOk(nodesRead[n], Request) /\ nodesRead[n].up
  <2>1. DOMAIN nodesRead = Nodes \ case.lost
    BY DEF ReadingOf
  <2> QED BY <2>1, AssessedSets
<1>3. n \in up /\ n \in Nodes
  <2>1. ReadingOf(U, K)[n].up <=> n \in U
    <3>1. n \in Nodes \ case.lost
      BY <1>2
    <3> QED BY <3>1 DEF ReadingOf
  <2> QED BY <1>1, <1>2, <2>1, CaseFacts
<1>4. On(jobs, n) = {}
  <2>1. SUFFICES ASSUME NEW j \in jobs, j.on = n PROVE FALSE
    BY DEF On
  <2>2. j \in J /\ j.end \in Nat /\ FreeTimesOf(J)[n] \in Nat
    BY PlacementAssumption, FreeWhenTheLastEnds
  <2>3. j.end <= FreeTimesOf(J)[n] /\ j.end > clock
    BY <2>1, <2>2, FreeWhenTheLastEnds
  <2> QED BY <1>1, <2>2, <2>3
<1>5. CpusHeld(jobs, n) = 0 /\ MemHeld(jobs, n) = 0 /\ GpusHeld(jobs, n) = 0
  BY <1>4, HeldByNone
<1>6. /\ Suits(n)
      /\ shape.cpus <= case.machine[n].cpus /\ shape.gpus <= case.machine[n].gpus
      /\ Counted(n) => MemGiven <= case.machine[n].mem
  BY <1>1, <1>2, HardwareSuits
<1>7. MemGiven \in Nat /\ shape.cpus \in Nat /\ shape.gpus \in Nat
  BY <1>1, <1>3, ShapeFacts, MachineFacts DEF MemGiven
<1>8. Fits(jobs, n, shape.cpus, MemGiven, shape.gpus)
  BY <1>5, <1>6, <1>7 DEF Fits
<1> QED BY <1>3, <1>6, <1>8 DEF Takes, HasRoom

LEMMA RoomAtTheEarliest ==
  ASSUME Inv
  PROVE  EarliestIsReached
<1>1. SUFFICES ASSUME answer # Unread, answer.cap.earliest # Never, ~disturbed, RoomIsTold,
                      clock >= answer.cap.earliest, \A j \in jobs : j.end > clock
               PROVE  RoomNow
  BY DEF EarliestIsReached
<1>2. /\ nodesRead # Unread /\ freeRead # Unread /\ answer.cap = Assessed
  BY <1>1, JudgedAs
<1>3. PICK U, K : Snapshot(U, K) /\ nodesRead = ReadingOf(U, K) /\ U \subseteq up /\ jobs \subseteq K
  BY <1>1, <1>2 DEF Inv, NodesOnceRead
<1>4. PICK J \in SUBSET Work : freeRead = FreeTimesOf(J) /\ jobs \subseteq J
  BY <1>1, <1>2 DEF Inv, FreeOnceRead
<1>5. case \in Cases /\ Snapshot(up, jobs) /\ clock \in Nat /\ shape.nodes \in Nat /\ Request.nodes = shape.nodes
  BY PlacementAssumption, ShapeFacts, RequestFacts DEF Inv, Given
<1> DEFINE fitting == Assessed.fitting
           C == Assessed.capable
           t == Assessed.earliest
           k == shape.nodes - Cardinality(fitting)
           freed == {n \in C \cap DOMAIN freeRead : freeRead[n] <= t}
<1>6. DOMAIN nodesRead = Nodes \ case.lost
  BY <1>3 DEF ReadingOf
<1>7. fitting \subseteq Nodes /\ C \subseteq Nodes /\ C \cap fitting = {}
  BY <1>6, AssessedSets
<1>8. ~ (Cardinality(fitting) >= shape.nodes) /\ t = EarliestOf(freeRead, C, k) /\ EarliestOf(freeRead, C, k) # Never
  <2>1. t = EarliestNeeded(freeRead, C, Cardinality(fitting), Request) /\ t # Never
    BY <1>1, <1>2, AssessedSets
  <2> HIDE DEF t, C, fitting
  <2> QED BY <1>5, <2>1 DEF EarliestNeeded
<1>9. (\E n \in C \cap DOMAIN freeRead : t = freeRead[n]) /\ Cardinality(freed) >= k
  <2>1. \A n \in C \cap DOMAIN freeRead : freeRead[n] \in Nat
    BY <1>4, FreeWhenTheLastEnds
  <2> HIDE DEF t, C, k
  <2> QED BY <1>8, <2>1, EarliestIsATime
<1>10. t \in Nat /\ t <= clock
  <2>1. t \in Nat
    BY <1>4, <1>9, FreeWhenTheLastEnds
  <2> QED BY <1>1, <1>2, <2>1
<1>11. ASSUME NEW n \in freed PROVE n \in Nodes /\ Takes(n)
  <2>1. n \in C \cap DOMAIN FreeTimesOf(J) /\ FreeTimesOf(J)[n] <= t
    BY <1>4
  <2>2. FreeTimesOf(J)[n] \in Nat
    BY <2>1, FreeWhenTheLastEnds
  <2>3. FreeTimesOf(J)[n] <= clock
    BY <1>5, <1>10, <2>1, <2>2
  <2> QED BY <1>1, <1>3, <1>4, <2>1, <2>3, FreedTakes
<1>12. ASSUME NEW n \in fitting PROVE n \in Nodes /\ Takes(n)
  <2>1. n \in Nodes \ case.lost /\ NodeFits(n, nodesRead[n], Request)
    BY <1>6, AssessedSets
  <2>2. n \in U /\ Suits(n) /\ Fits(K, n, shape.cpus, MemGiven, shape.gpus)
    BY <1>1, <1>3, <1>5, <2>1, FittingTakes
  <2>3. MemGiven \in Nat /\ shape.cpus \in Nat /\ shape.gpus \in Nat
    BY <1>5, <2>1, ShapeFacts, MachineFacts DEF MemGiven
  <2>4. K \in SUBSET Work /\ jobs \in SUBSET K
    BY <1>3 DEF Snapshot
  <2>5. Fits(jobs, n, shape.cpus, MemGiven, shape.gpus)
    BY <1>5, <2>1, <2>2, <2>3, <2>4, FitsFewer
  <2> QED BY <1>3, <2>1, <2>2, <2>5 DEF Takes, HasRoom
<1>13. IsFiniteSet(fitting) /\ IsFiniteSet(freed) /\ fitting \cap freed = {}
  <2>1. fitting \in SUBSET Nodes /\ freed \in SUBSET Nodes /\ Nodes \in SUBSET Nodes
    BY <1>7
  <2>2. fitting \cap freed = {}
    BY <1>7
  <2> HIDE DEF fitting, freed
  <2> QED BY <2>1, <2>2, SubsetIsCounted
<1> HIDE DEF fitting, freed, C, t
<1>14. Cardinality(fitting \cup freed) >= shape.nodes
  <2>1. Cardinality(fitting) \in Nat /\ Cardinality(freed) \in Nat
    BY <1>13, FS_CardinalityType
  <2>2. Cardinality(fitting \cup freed) = Cardinality(fitting) + Cardinality(freed)
    BY <1>13, <2>1, FS_Union, FS_EmptySet
  <2> QED BY <1>5, <1>9, <2>1, <2>2
<1>15. fitting \cup freed \subseteq {n \in Nodes : Takes(n)}
  BY <1>11, <1>12
<1> QED BY <1>14, <1>15, EnoughTake

-----------------------------------------------------------------------------
(* Inv is inductive.                                                       *)

\* What only the case decides does not change.
LEMMA CaseDecides ==
  ASSUME case' = case
  PROVE  /\ shape' = shape
         /\ \A J, n, c, m, g : Fits(J, n, c, m, g)' <=> Fits(J, n, c, m, g)
         /\ \A U, J : Snapshot(U, J)' <=> Snapshot(U, J)
         /\ \A U, J : ReadingOf(U, J)' = ReadingOf(U, J)
         /\ {n \in Nodes : CouldTake(n)}' = {n \in Nodes : CouldTake(n)}
<1>1. \A J, n, c, m, g : Fits(J, n, c, m, g)' <=> Fits(J, n, c, m, g)
  BY DEF Fits, Counted
<1>2. \A U, J : Snapshot(U, J)' <=> Snapshot(U, J)
  BY <1>1 DEF Snapshot
<1>3. ASSUME NEW U, NEW J PROVE ReadingOf(U, J)' = ReadingOf(U, J)
  BY DEF ReadingOf, CardRead
<1>4. \A n : CouldTake(n)' <=> CouldTake(n)
  BY DEF CouldTake, Suits, CardDoes, shape
<1> QED BY <1>1, <1>2, <1>3, <1>4 DEF shape

\* Nor does what was judged, once both readings are taken.
LEMMA JudgementStands ==
  ASSUME case' = case, nodesRead' = nodesRead, freeRead' = freeRead
  PROVE  /\ Assessed' = Assessed
         /\ \A cap, all : Verdicts(cap, all)' = Verdicts(cap, all)
         /\ \A cap, all, v : Judgement(cap, all, v)' = Judgement(cap, all, v)
<1>1. Assessed' = Assessed
  BY DEF Assessed, Request, shape
<1>2. Operational(nodesRead)' = Operational(nodesRead) /\ Access' = Access /\ Known' = Known
  BY DEF Operational, Access, Known
<1>3. \A cap : Impossible(cap)' <=> Impossible(cap)
  BY DEF Impossible
<1>4. ASSUME NEW all PROVE ControlPlane(all)' = ControlPlane(all)
  BY DEF ControlPlane, Consents, Answers, Named, Taken, Chosen, Candidates, Grants, QosTaken, Known, shape
<1>5. ASSUME NEW cap, NEW all PROVE Verdicts(cap, all)' = Verdicts(cap, all)
  BY <1>2, <1>3, <1>4 DEF Verdicts
<1>6. LimitsRead' = LimitsRead
  BY DEF LimitsRead
<1>7. \A all, v : Settled(v, all)' = Settled(v, all)
  BY <1>2 DEF Settled
<1>8. ASSUME NEW cap, NEW all, NEW v PROVE Judgement(cap, all, v)' = Judgement(cap, all, v)
  BY <1>2, <1>3, <1>6, <1>7 DEF Judgement, shape
<1> QED BY <1>1, <1>5, <1>8

LEMMA InitIsGiven ==
  Init => Inv
<1> SUFFICES ASSUME Init PROVE Inv
  OBVIOUS
<1>1. Given
  <2>1. /\ case \in Cases /\ clock = 0 /\ disturbed = FALSE /\ started = FALSE
        /\ up \subseteq Nodes /\ jobs \subseteq Work /\ \A n \in Nodes : Fits(jobs, n, 0, 0, 0)
    BY DEF Init
  <2>2. 0 \in 0 .. MaxClock
    BY PlacementAssumption
  <2> QED BY <2>1, <2>2 DEF Given, Snapshot
<1>2. nodesRead = Unread /\ freeRead = Unread /\ answer = Unread /\ started = FALSE
  BY DEF Init
<1> QED BY <1>1, <1>2 DEF Inv, NodesOnceRead, FreeOnceRead, Judged, StartedWhereItCould

LEMMA StartingIsPossible ==
  ASSUME Inv, CanStart
  PROVE  case.entitled /\ Cardinality({n \in Nodes : CouldTake(n)}) >= shape.nodes
<1> DEFINE taking == {n \in Nodes : Takes(n)}
           could == {n \in Nodes : CouldTake(n)}
<1>1. case \in Cases /\ jobs \in SUBSET Work /\ case.entitled /\ Cardinality(taking) >= shape.nodes
  BY DEF Inv, Given, Snapshot, CanStart, RoomNow
<1>2. taking \in SUBSET could /\ could \in SUBSET Nodes
  BY <1>1, TakesCould
<1> HIDE DEF taking, could
<1>3. Cardinality(taking) \in Nat /\ Cardinality(could) \in Nat /\ Cardinality(taking) <= Cardinality(could)
  BY <1>2, SubsetIsCounted
<1>4. Cardinality(could) >= shape.nodes
  BY <1>1, <1>3, ShapeFacts
<1> QED BY <1>1, <1>4 DEF could

LEMMA StepKeepsGiven ==
  ASSUME Inv, [Next]_vars
  PROVE  Given' /\ case' = case
<1>1. case' = case
  BY DEF Next, vars, Tick, JobEnds, JobStarts, LeavesService, Returns, Start, ReadNodes, ReadFreeTimes, Evaluate
<1>2. /\ case \in Cases /\ clock \in 0 .. MaxClock /\ disturbed \in BOOLEAN /\ started \in BOOLEAN
      /\ up \subseteq Nodes /\ jobs \subseteq Work /\ \A n \in Nodes : Fits(jobs, n, 0, 0, 0)
  BY DEF Inv, Given, Snapshot
<1>3. clock' \in 0 .. MaxClock /\ disturbed' \in BOOLEAN /\ started' \in BOOLEAN /\ up' \subseteq Nodes
  <2>1. clock' = clock \/ (clock < MaxClock /\ clock' = clock + 1)
    BY DEF Next, vars, Tick, JobEnds, JobStarts, LeavesService, Returns, Start, ReadNodes, ReadFreeTimes, Evaluate
  <2>2. disturbed' = disturbed \/ disturbed' = (disturbed \/ Underway)
    BY DEF Next, vars, Tick, JobEnds, JobStarts, LeavesService, Returns, Start, ReadNodes, ReadFreeTimes, Evaluate
  <2>3. started' = started \/ started' = TRUE
    BY DEF Next, vars, Tick, JobEnds, JobStarts, LeavesService, Returns, Start, ReadNodes, ReadFreeTimes, Evaluate
  <2>4. up' \subseteq Nodes
    BY <1>2
       DEF Next, vars, Tick, JobEnds, JobStarts, LeavesService, Returns, Start, ReadNodes, ReadFreeTimes, Evaluate
  <2>5. clock' \in 0 .. MaxClock
    BY <1>2, <2>1, PlacementAssumption
  <2>6. disturbed' \in BOOLEAN /\ started' \in BOOLEAN
    BY <1>2, <2>2, <2>3
  <2> QED BY <2>4, <2>5, <2>6
<1>4. jobs' \subseteq Work /\ \A n \in Nodes : Fits(jobs', n, 0, 0, 0)
  <2>1. CASE jobs' \subseteq jobs
    BY <1>2, <2>1, FitsFewer
  <2>2. CASE JobStarts
    <3>1. PICK j \in Work \ jobs : HasRoom(j.on, j.cpus, j.mem, j.gpus) /\ jobs' = jobs \cup {j}
      BY <2>2 DEF JobStarts
    <3>2. Fits(jobs, j.on, j.cpus, j.mem, j.gpus)
      BY <3>1 DEF HasRoom
    <3> QED BY <1>2, <3>1, <3>2, FitsOneMore
  <2>3. JobStarts \/ jobs' \subseteq jobs
    BY DEF Next, vars, Tick, JobEnds, JobStarts, LeavesService, Returns, Start, ReadNodes, ReadFreeTimes, Evaluate
  <2> QED BY <2>1, <2>2, <2>3
<1>5. case' \in Cases
  BY <1>1, <1>2
<1>6. Snapshot(up, jobs)'
  BY <1>1, <1>3, <1>4, CaseDecides DEF Snapshot
<1> QED BY <1>1, <1>3, <1>5, <1>6 DEF Given

LEMMA StepKeepsNodes ==
  ASSUME Inv, [Next]_vars
  PROVE  NodesOnceRead'
<1>1. case' = case
  BY StepKeepsGiven
<1>2. CASE ReadNodes
  <2>1. nodesRead' = ReadingOf(up, jobs) /\ up' = up /\ jobs' = jobs /\ Snapshot(up, jobs)
    BY <1>2 DEF ReadNodes, Reading, Inv, Given
  <2>2. \E U \in SUBSET Nodes, J \in SUBSET Work :
                  /\ Snapshot(U, J)' /\ nodesRead' = ReadingOf(U, J)'
                  /\ U \subseteq up' /\ jobs' \subseteq J
    BY <1>1, <2>1, CaseDecides DEF Snapshot
  <2> QED BY <2>2 DEF NodesOnceRead
<1>3. CASE nodesRead' = nodesRead
  <2>1. SUFFICES ASSUME nodesRead # Unread
                 PROVE  \E U \in SUBSET Nodes, J \in SUBSET Work :
                          /\ Snapshot(U, J)' /\ nodesRead' = ReadingOf(U, J)'
                          /\ ~disturbed' => U \subseteq up' /\ jobs' \subseteq J
    BY <1>3 DEF NodesOnceRead
  <2>2. PICK U \in SUBSET Nodes, J \in SUBSET Work :
               /\ Snapshot(U, J) /\ nodesRead = ReadingOf(U, J)
               /\ ~disturbed => U \subseteq up /\ jobs \subseteq J
    BY <2>1 DEF Inv, NodesOnceRead
  <2>3. ~disturbed' => ~disturbed /\ up \subseteq up' /\ jobs' \subseteq jobs
    BY <2>1 DEF Inv, Given, Underway, Next, vars, Tick, JobEnds, JobStarts, LeavesService, Returns, Start,
                ReadNodes, ReadFreeTimes, Evaluate
  <2> QED BY <1>1, <1>3, <2>2, <2>3, CaseDecides
<1> QED BY <1>2, <1>3
        DEF Next, vars, Tick, JobEnds, JobStarts, LeavesService, Returns, Start, ReadNodes, ReadFreeTimes, Evaluate

LEMMA StepKeepsFree ==
  ASSUME Inv, [Next]_vars
  PROVE  FreeOnceRead'
<1>1. CASE ReadFreeTimes
  <2>1. freeRead' = FreeTimesOf(jobs) /\ jobs' = jobs /\ jobs \in SUBSET Work
    BY <1>1 DEF ReadFreeTimes, FreeTimes, Inv, Given, Snapshot
  <2> QED BY <2>1 DEF FreeOnceRead
<1>2. CASE freeRead' = freeRead
  <2>1. SUFFICES ASSUME freeRead # Unread
                 PROVE  \E J \in SUBSET Work : freeRead' = FreeTimesOf(J) /\ (~disturbed' => jobs' \subseteq J)
    BY <1>2 DEF FreeOnceRead
  <2>2. PICK J \in SUBSET Work : freeRead = FreeTimesOf(J) /\ (~disturbed => jobs \subseteq J)
    BY <2>1 DEF Inv, FreeOnceRead
  <2>3. ~disturbed' => ~disturbed /\ jobs' \subseteq jobs
    BY <2>1 DEF Inv, Given, Underway, Next, vars, Tick, JobEnds, JobStarts, LeavesService, Returns, Start,
                ReadNodes, ReadFreeTimes, Evaluate
  <2> QED BY <1>2, <2>2, <2>3
<1> QED BY <1>1, <1>2
        DEF Next, vars, Tick, JobEnds, JobStarts, LeavesService, Returns, Start, ReadNodes, ReadFreeTimes, Evaluate

LEMMA StepKeepsAnswer ==
  ASSUME Inv, [Next]_vars
  PROVE  Judged' /\ StartedWhereItCould'
<1>1. case' = case
  BY StepKeepsGiven
<1>2. CASE Evaluate
  <2>1. /\ nodesRead # Unread /\ freeRead # Unread /\ answer = Unread
        /\ \E all \in BOOLEAN : \E v \in Verdicts(Assessed, all) : answer' = Judgement(Assessed, all, v)
        /\ nodesRead' = nodesRead /\ freeRead' = freeRead /\ started' = started
    BY <1>2 DEF Evaluate
  <2>2. Judged'
    BY <1>1, <2>1, JudgementStands DEF Judged
  <2>3. ~started'
    BY <2>1 DEF Inv, StartedWhereItCould
  <2> QED BY <2>2, <2>3 DEF StartedWhereItCould
<1>3. CASE answer' = answer
  <2>1. ASSUME answer # Unread
        PROVE  nodesRead' = nodesRead /\ freeRead' = freeRead
    BY <2>1 DEF Inv, Judged, Next, vars, Tick, JobEnds, JobStarts, LeavesService, Returns, Start,
                ReadNodes, ReadFreeTimes, Evaluate
  <2>2. Judged'
    <3>1. SUFFICES ASSUME answer # Unread
                   PROVE  /\ nodesRead' # Unread /\ freeRead' # Unread
                          /\ \E all \in BOOLEAN : \E v \in Verdicts(Assessed, all)' : answer' = Judgement(Assessed, all, v)'
      BY <1>3 DEF Judged
    <3>2. /\ nodesRead # Unread /\ freeRead # Unread
          /\ \E all \in BOOLEAN : \E v \in Verdicts(Assessed, all) : answer = Judgement(Assessed, all, v)
      BY <3>1 DEF Inv, Judged
    <3> QED BY <1>1, <1>3, <2>1, <3>1, <3>2, JudgementStands
  <2>3. CASE started' = started
    BY <1>1, <1>3, <2>2, <2>3, CaseDecides DEF Inv, StartedWhereItCould
  <2>4. CASE Start
    <3>1. answer # Unread /\ CanStart
      BY <2>4 DEF Start
    <3>2. case.entitled /\ Cardinality({n \in Nodes : CouldTake(n)}) >= shape.nodes
      BY <3>1, StartingIsPossible
    <3> QED BY <1>1, <1>3, <2>2, <3>1, <3>2, CaseDecides DEF StartedWhereItCould
  <2>5. started' = started \/ Start
    BY DEF Next, vars, Tick, JobEnds, JobStarts, LeavesService, Returns, ReadNodes, ReadFreeTimes, Evaluate
  <2> QED BY <2>3, <2>4, <2>5
<1> QED BY <1>2, <1>3
        DEF Next, vars, Tick, JobEnds, JobStarts, LeavesService, Returns, Start, ReadNodes, ReadFreeTimes, Evaluate

LEMMA StepKeepsInv ==
  Inv /\ [Next]_vars => Inv'
BY StepKeepsGiven, StepKeepsNodes, StepKeepsFree, StepKeepsAnswer DEF Inv

THEOREM Inductive ==
  Spec => []Inv
<1>1. Init => Inv
  BY InitIsGiven
<1>2. Inv /\ [Next]_vars => Inv'
  BY StepKeepsInv
<1> QED BY <1>1, <1>2, PTL DEF Spec

-----------------------------------------------------------------------------
(* What a dry-run is read as.                                              *)

Truths == {"accepts", "down", "full", "no qos", "denied"}

LEMMA SlurmRows ==
  /\ DOMAIN SlurmPatterns \subseteq Nat
  /\ 13 \in DOMAIN SlurmPatterns /\ SlurmPatterns[13][1] = "configuration"
  /\ \A i \in DOMAIN SlurmPatterns :
       /\ SlurmPatterns[i][2] \in Categories
       /\ SlurmPatterns[i][1] = "script not written" => SlurmPatterns[i][2] = "CONTROL_PLANE_DOWN"
       /\ SlurmPatterns[i][1] = "no controller" => SlurmPatterns[i][2] = "CONTROL_PLANE_DOWN"
       /\ SlurmPatterns[i][1] = "configuration" => SlurmPatterns[i][2] = "SHAPE_UNAVAILABLE"
       /\ SlurmPatterns[i][1] # "other"
<1>1. DOMAIN SlurmPatterns = 1 .. 15
  BY DEF SlurmPatterns
<1>2. /\ SlurmPatterns[1][1] = "script not written" /\ SlurmPatterns[1][2] = "CONTROL_PLANE_DOWN"
      /\ SlurmPatterns[2][1] = "no controller" /\ SlurmPatterns[2][2] = "CONTROL_PLANE_DOWN"
      /\ SlurmPatterns[3][1] = "not a member" /\ SlurmPatterns[3][2] = "NOT_ENTITLED"
      /\ SlurmPatterns[4][1] = "combination" /\ SlurmPatterns[4][2] = "ACCOUNT_MISMATCH"
      /\ SlurmPatterns[5][1] = "no account" /\ SlurmPatterns[5][2] = "NO_ACCOUNT"
      /\ SlurmPatterns[6][1] = "invalid account" /\ SlurmPatterns[6][2] = "NOT_ENTITLED"
      /\ SlurmPatterns[7][1] = "group" /\ SlurmPatterns[7][2] = "GROUP_DENIED"
      /\ SlurmPatterns[8][1] = "no partition" /\ SlurmPatterns[8][2] = "UNKNOWN_QUEUE"
      /\ SlurmPatterns[9][1] = "partition down" /\ SlurmPatterns[9][2] = "QUEUE_CLOSED"
      /\ SlurmPatterns[10][1] = "invalid qos" /\ SlurmPatterns[10][2] = "INVALID_QOS"
      /\ SlurmPatterns[11][1] = "policy" /\ SlurmPatterns[11][2] = "QUOTA_EXCEEDED"
      /\ SlurmPatterns[12][1] = "time limit" /\ SlurmPatterns[12][2] = "TIME_LIMIT"
      /\ SlurmPatterns[13][1] = "configuration" /\ SlurmPatterns[13][2] = "SHAPE_UNAVAILABLE"
      /\ SlurmPatterns[14][1] = "no units left" /\ SlurmPatterns[14][2] = "QUOTA_EXCEEDED"
      /\ SlurmPatterns[15][1] = "permission" /\ SlurmPatterns[15][2] = "ACCESS_DENIED"
  BY DEF SlurmPatterns
<1>3. \A i \in DOMAIN SlurmPatterns : i \in {1, 2, 3, 4, 5, 6, 7, 8, 9, 10, 11, 12, 13, 14, 15}
  BY <1>1
<1>4. DOMAIN SlurmPatterns \subseteq Nat /\ 13 \in DOMAIN SlurmPatterns
  BY <1>1
<1>5. \A i \in DOMAIN SlurmPatterns : SlurmPatterns[i][2] \in Categories
  <2> SUFFICES ASSUME NEW i \in DOMAIN SlurmPatterns PROVE SlurmPatterns[i][2] \in Categories
    OBVIOUS
  <2>1. CASE i \in {1, 2, 3, 4, 5}
    BY <1>2, <2>1 DEF Categories
  <2>2. CASE i \in {6, 7, 8, 9, 10}
    BY <1>2, <2>2 DEF Categories
  <2>3. CASE i \in {11, 12, 13, 14, 15}
    BY <1>2, <2>3 DEF Categories
  <2> QED BY <1>3, <2>1, <2>2, <2>3
<1>6. \A i \in DOMAIN SlurmPatterns :
       /\ SlurmPatterns[i][1] = "script not written" => SlurmPatterns[i][2] = "CONTROL_PLANE_DOWN"
       /\ SlurmPatterns[i][1] = "no controller" => SlurmPatterns[i][2] = "CONTROL_PLANE_DOWN"
       /\ SlurmPatterns[i][1] = "configuration" => SlurmPatterns[i][2] = "SHAPE_UNAVAILABLE"
       /\ SlurmPatterns[i][1] # "other"
  BY <1>2, <1>3
<1> QED BY <1>2, <1>4, <1>5, <1>6

LEMMA SgeRows ==
  /\ DOMAIN SgePatterns \subseteq Nat
  /\ 1 \in DOMAIN SgePatterns /\ SgePatterns[1][1] = "suitable"
  /\ 2 \in DOMAIN SgePatterns /\ SgePatterns[2][1] = "none suitable"
  /\ \A i \in DOMAIN SgePatterns :
       /\ SgePatterns[i][2] \in Categories
       /\ SgePatterns[i][1] = "suitable" <=> SgePatterns[i][2] = "OK"
       /\ SgePatterns[i][1] = "no master" => SgePatterns[i][2] = "CONTROL_PLANE_DOWN"
       /\ SgePatterns[i][1] = "none suitable" => SgePatterns[i][2] = "SHAPE_UNAVAILABLE"
       /\ SgePatterns[i][1] # "other"
<1>1. DOMAIN SgePatterns = 1 .. 5
  BY DEF SgePatterns
<1>2. /\ SgePatterns[1][1] = "suitable" /\ SgePatterns[1][2] = "OK"
      /\ SgePatterns[2][1] = "none suitable" /\ SgePatterns[2][2] = "SHAPE_UNAVAILABLE"
      /\ SgePatterns[3][1] = "no permission" /\ SgePatterns[3][2] = "NOT_ENTITLED"
      /\ SgePatterns[4][1] = "no queue" /\ SgePatterns[4][2] = "UNKNOWN_QUEUE"
      /\ SgePatterns[5][1] = "no master" /\ SgePatterns[5][2] = "CONTROL_PLANE_DOWN"
  BY DEF SgePatterns
<1>3. \A i \in DOMAIN SgePatterns : i \in {1, 2, 3, 4, 5}
  BY <1>1
<1>4. DOMAIN SgePatterns \subseteq Nat /\ 1 \in DOMAIN SgePatterns /\ 2 \in DOMAIN SgePatterns
  BY <1>1
<1>5. \A i \in DOMAIN SgePatterns : SgePatterns[i][2] \in Categories
  <2> SUFFICES ASSUME NEW i \in DOMAIN SgePatterns PROVE SgePatterns[i][2] \in Categories
    OBVIOUS
  <2>1. CASE i \in {1, 2, 3, 4, 5}
    BY <1>2, <2>1 DEF Categories
  <2> QED BY <1>3, <2>1
<1>6. \A i \in DOMAIN SgePatterns :
       /\ SgePatterns[i][1] = "suitable" <=> SgePatterns[i][2] = "OK"
       /\ SgePatterns[i][1] = "no master" => SgePatterns[i][2] = "CONTROL_PLANE_DOWN"
       /\ SgePatterns[i][1] = "none suitable" => SgePatterns[i][2] = "SHAPE_UNAVAILABLE"
       /\ SgePatterns[i][1] # "other"
  BY <1>2, <1>3
<1> QED BY <1>2, <1>4, <1>5, <1>6

LEMMA KubernetesRows ==
  /\ DOMAIN KubernetesPatterns \subseteq Nat
  /\ 4 \in DOMAIN KubernetesPatterns /\ KubernetesPatterns[4][1] = "insufficient"
  /\ \A i \in DOMAIN KubernetesPatterns :
       /\ KubernetesPatterns[i][2] \in Categories
       /\ KubernetesPatterns[i][1] = "unreachable" => KubernetesPatterns[i][2] = "CONTROL_PLANE_DOWN"
       /\ KubernetesPatterns[i][1] = "insufficient" => KubernetesPatterns[i][2] = "SHAPE_UNAVAILABLE"
       /\ KubernetesPatterns[i][1] # "other"
<1>1. DOMAIN KubernetesPatterns = 1 .. 5
  BY DEF KubernetesPatterns
<1>2. /\ KubernetesPatterns[1][1] = "quota" /\ KubernetesPatterns[1][2] = "QUOTA_EXCEEDED"
      /\ KubernetesPatterns[2][1] = "forbidden" /\ KubernetesPatterns[2][2] = "NOT_ENTITLED"
      /\ KubernetesPatterns[3][1] = "no namespace" /\ KubernetesPatterns[3][2] = "UNKNOWN_QUEUE"
      /\ KubernetesPatterns[4][1] = "insufficient" /\ KubernetesPatterns[4][2] = "SHAPE_UNAVAILABLE"
      /\ KubernetesPatterns[5][1] = "unreachable" /\ KubernetesPatterns[5][2] = "CONTROL_PLANE_DOWN"
  BY DEF KubernetesPatterns
<1>3. \A i \in DOMAIN KubernetesPatterns : i \in {1, 2, 3, 4, 5}
  BY <1>1
<1>4. DOMAIN KubernetesPatterns \subseteq Nat /\ 4 \in DOMAIN KubernetesPatterns
  BY <1>1
<1>5. \A i \in DOMAIN KubernetesPatterns : KubernetesPatterns[i][2] \in Categories
  <2> SUFFICES ASSUME NEW i \in DOMAIN KubernetesPatterns PROVE KubernetesPatterns[i][2] \in Categories
    OBVIOUS
  <2>1. CASE i \in {1, 2, 3, 4, 5}
    BY <1>2, <2>1 DEF Categories
  <2> QED BY <1>3, <2>1
<1>6. \A i \in DOMAIN KubernetesPatterns :
       /\ KubernetesPatterns[i][1] = "unreachable" => KubernetesPatterns[i][2] = "CONTROL_PLANE_DOWN"
       /\ KubernetesPatterns[i][1] = "insufficient" => KubernetesPatterns[i][2] = "SHAPE_UNAVAILABLE"
       /\ KubernetesPatterns[i][1] # "other"
  BY <1>2, <1>3
<1> QED BY <1>2, <1>4, <1>5, <1>6

LEMMA FirstOfIsACategory ==
  ASSUME NEW table, DOMAIN table \subseteq Nat, \A i \in DOMAIN table : table[i][2] \in Categories, NEW text
  PROVE  FirstOf(table, text) \in Categories
BY FirstOfIsARow DEF Categories

\* How a verdict stands to what is true.
TellsRight(v, by, truth, qos) ==
    /\ truth = "accepts" => \E start, e : v = Accepted(start, e) /\ e \in {qos, Unnamed}
    /\ truth # "accepts" =>
         \E why \in Categories : \E e :
            /\ v = Refused(why, e) /\ e \in {qos, Unnamed}
            /\ truth = "down" => \/ why \in {"CONTROL_PLANE_DOWN", "UNKNOWN"}
                                 \/ by = "kubernetes" /\ why = "NOT_ENTITLED"
            /\ truth = "full" => why = "SHAPE_UNAVAILABLE"

LEMMA SgeTellsRight ==
  ASSUME NEW truth \in Truths, NEW qos, NEW o \in SgeSays(truth)
  PROVE  TellsRight(SgeReads(o), "sge", truth, qos)
<1> DEFINE said == FirstOf(SgePatterns, o.text)
<1>1. \/ said = "UNKNOWN" /\ \A i \in DOMAIN SgePatterns : SgePatterns[i][1] \notin o.text
      \/ \E i \in DOMAIN SgePatterns : SgePatterns[i][1] \in o.text /\ said = SgePatterns[i][2]
  BY FirstOfIsARow, SgeRows
<1>2. said \in Categories
  BY FirstOfIsACategory, SgeRows
<1> HIDE DEF said
<1>3. CASE truth = "accepts"
  <2>1. o.ran /\ o.text = {"suitable"}
    BY <1>3 DEF SgeSays
  <2>2. said = "OK"
    BY <1>1, <2>1, SgeRows
  <2>3. SgeReads(o) = Accepted("unsaid", Unnamed)
    BY <2>1, <2>2 DEF SgeReads, said
  <2> QED BY <1>3, <2>3 DEF TellsRight
<1>4. CASE truth # "accepts"
  <2>1. \/ ~o.ran /\ truth = "down"
        \/ /\ o.ran /\ "suitable" \notin o.text
           /\ truth = "down" => o.text \in {{"no master"}, {"other"}}
           /\ truth = "full" => o.text = {"none suitable"}
    <3> DEFINE says(texts) == {[ran |-> TRUE, text |-> text] : text \in texts}
    <3>0. ASSUME NEW texts, o \in says(texts) PROVE o.ran /\ o.text \in texts
      BY <3>0
    <3>1. CASE truth = "down"
      <4>1. o \in says({{"no master"}, {"other"}}) \/ o = [ran |-> FALSE, text |-> {}]
        BY <3>1 DEF SgeSays
      <4>2. CASE o = [ran |-> FALSE, text |-> {}]
        BY <3>1, <4>2
      <4>3. CASE o \in says({{"no master"}, {"other"}})
        <5> HIDE DEF says
        <5>0. o.ran /\ o.text \in {{"no master"}, {"other"}}
          BY <3>0, <4>3
        <5>1. o.ran /\ (o.text = {"no master"} \/ o.text = {"other"})
          BY <5>0
        <5>2. CASE o.text = {"no master"}
          BY <3>1, <5>1, <5>2
        <5>3. CASE o.text = {"other"}
          BY <3>1, <5>1, <5>3
        <5> QED BY <5>1, <5>2, <5>3
      <4> QED BY <4>1, <4>2, <4>3
    <3>2. CASE truth = "full"
      <4>1. o \in says({{"none suitable"}})
        BY <3>2 DEF SgeSays
      <4> HIDE DEF says
      <4>0. o.ran /\ o.text \in {{"none suitable"}}
        BY <3>0, <4>1
      <4>2. o.ran /\ o.text = {"none suitable"}
        BY <4>0
      <4> QED BY <3>2, <4>2
    <3>3. CASE truth = "no qos"
      BY <3>3 DEF SgeSays
    <3>4. CASE truth = "denied"
      <4>1. o \in says({{"no permission"}, {"no permission", "none suitable"}})
        BY <3>4 DEF SgeSays
      <4> HIDE DEF says
      <4>0. o.ran /\ o.text \in {{"no permission"}, {"no permission", "none suitable"}}
        BY <3>0, <4>1
      <4>2. o.ran /\ (o.text = {"no permission"} \/ o.text = {"no permission", "none suitable"})
        BY <4>0
      <4>3. CASE o.text = {"no permission"}
        BY <3>4, <4>2, <4>3
      <4>4. CASE o.text = {"no permission", "none suitable"}
        BY <3>4, <4>2, <4>4
      <4> QED BY <4>2, <4>3, <4>4
    <3> QED BY <1>4, <3>1, <3>2, <3>3, <3>4 DEF Truths
  <2>2. CASE ~o.ran /\ truth = "down"
    <3>1. SgeReads(o) = Refused("CONTROL_PLANE_DOWN", Unnamed)
      BY <2>2 DEF SgeReads
    <3> QED BY <2>2, <3>1 DEF TellsRight, Categories
  <2>3. CASE o.ran /\ "suitable" \notin o.text /\ (truth = "down" => o.text \in {{"no master"}, {"other"}})
             /\ (truth = "full" => o.text = {"none suitable"})
    <3>1. said # "OK"
      BY <1>1, <2>3, SgeRows
    <3>2. SgeReads(o) = Refused(said, Unnamed)
      BY <2>3, <3>1 DEF SgeReads, said
    <3>3. truth = "down" => said \in {"CONTROL_PLANE_DOWN", "UNKNOWN"}
      BY <1>1, <2>3, SgeRows
    <3>4. truth = "full" => said = "SHAPE_UNAVAILABLE"
      BY <1>1, <2>3, SgeRows
    <3> QED BY <1>2, <1>4, <3>2, <3>3, <3>4 DEF TellsRight
  <2> QED BY <2>1, <2>2, <2>3
<1> QED BY <1>3, <1>4

LEMMA KubernetesTellsRight ==
  ASSUME NEW truth \in Truths, NEW qos, NEW o \in KubernetesSays(truth)
  PROVE  TellsRight(KubernetesReads(o), "kubernetes", truth, qos)
<1> DEFINE said == FirstOf(KubernetesPatterns, o.run.text)
<1>1. \/ said = "UNKNOWN" /\ \A i \in DOMAIN KubernetesPatterns : KubernetesPatterns[i][1] \notin o.run.text
      \/ \E i \in DOMAIN KubernetesPatterns :
            KubernetesPatterns[i][1] \in o.run.text /\ said = KubernetesPatterns[i][2]
  BY FirstOfIsARow, KubernetesRows
<1>2. said \in Categories
  BY FirstOfIsACategory, KubernetesRows
<1> HIDE DEF said
<1>3. CASE truth = "accepts"
  <2>1. o.asked.ran /\ ~o.asked.failed /\ "yes" \in o.asked.text /\ o.run.ran /\ ~o.run.failed
    BY <1>3 DEF KubernetesSays
  <2>2. KubernetesReads(o) = Accepted("unsaid", Unnamed)
    BY <2>1 DEF KubernetesReads
  <2> QED BY <1>3, <2>2 DEF TellsRight
<1>4. CASE truth # "accepts"
  <2>1. /\ o.run.ran => o.run.failed
        /\ truth = "down" /\ o.run.ran => o.run.text \in {{"unreachable"}, {"other"}}
        /\ truth = "full" => /\ o.asked.ran /\ ~o.asked.failed /\ "yes" \in o.asked.text
                             /\ o.run.ran /\ o.run.text = {"insufficient"}
    <3>1. CASE truth = "down"
      BY <3>1 DEF KubernetesSays
    <3>2. CASE truth = "full"
      BY <3>2 DEF KubernetesSays
    <3>3. CASE truth = "no qos"
      BY <3>3 DEF KubernetesSays
    <3>4. CASE truth = "denied"
      BY <3>4 DEF KubernetesSays
    <3> QED BY <1>4, <3>1, <3>2, <3>3, <3>4 DEF Truths
  <2>2. \/ KubernetesReads(o) = Refused("CONTROL_PLANE_DOWN", Unnamed)
        \/ KubernetesReads(o) = Refused("NOT_ENTITLED", Unnamed)
        \/ o.run.ran /\ KubernetesReads(o) = Refused(said, Unnamed)
    BY <2>1 DEF KubernetesReads, said
  <2>3. truth = "full" => o.run.ran /\ KubernetesReads(o) = Refused(said, Unnamed) /\ said = "SHAPE_UNAVAILABLE"
    <3>1. truth = "full" => said = "SHAPE_UNAVAILABLE"
      BY <1>1, <2>1, KubernetesRows
    <3> QED BY <2>1, <3>1 DEF KubernetesReads, said
  <2>4. truth = "down" /\ o.run.ran => said \in {"CONTROL_PLANE_DOWN", "UNKNOWN"}
    BY <1>1, <2>1, KubernetesRows
  <2> HIDE DEF TellsRight
  <2>5. PICK why \in Categories : /\ KubernetesReads(o) = Refused(why, Unnamed)
                                  /\ truth = "down" => why \in {"CONTROL_PLANE_DOWN", "UNKNOWN", "NOT_ENTITLED"}
                                  /\ truth = "full" => why = "SHAPE_UNAVAILABLE"
    BY <1>2, <2>2, <2>3, <2>4 DEF Categories
  <2> QED BY <1>4, <2>5 DEF TellsRight
<1> QED BY <1>3, <1>4

\* What Slurm prints for each truth.
SlurmFails(o) ==
    \/ ~o.ran
    \/ /\ o.reason = {} /\ o.plugin = {} /\ o.filter # "REJECTED" /\ o.failed
       /\ \/ o.core = {"script not written"} /\ o.rest = {}
          \/ o.core = {} /\ o.rest = {"no controller"}
          \/ o.core = {} /\ o.rest = {"other"}

LEMMA SlurmPrints ==
  ASSUME NEW truth \in Truths, NEW qos, NEW start, NEW o \in SlurmSays(truth, qos, start)
  PROVE  /\ o.qos = qos /\ o.start = start
         /\ truth = "accepts" => /\ o.ran /\ ~o.failed /\ o.filter \in {"none", "PASSED"}
                                 /\ o.core = {} /\ o.plugin = {}
         /\ truth # "accepts" => ~o.ran \/ o.failed
         /\ truth = "down" => SlurmFails(o)
         /\ truth = "full" => o.ran /\ o.core = {"configuration"} /\ o.reason = {} /\ o.plugin = {}
<1> DEFINE ok == [ran |-> TRUE, failed |-> FALSE, filter |-> "none", reason |-> {}, plugin |-> {},
                  core |-> {}, rest |-> {}, qos |-> qos, start |-> start]
           filtered(S) == S \cup {[p EXCEPT !.filter = "PASSED"] : p \in S}
           no == [ok EXCEPT !.failed = TRUE]
           core(text) == [no EXCEPT !.core = text]
           rest(text) == [no EXCEPT !.rest = text]
           like(p) == /\ o.ran = p.ran /\ o.failed = p.failed /\ o.filter \in {p.filter, "PASSED"}
                      /\ o.reason = p.reason /\ o.plugin = p.plugin /\ o.core = p.core /\ o.rest = p.rest
                      /\ o.qos = p.qos /\ o.start = p.start
           formed(p) == p = [ran |-> p.ran, failed |-> p.failed, filter |-> p.filter, reason |-> p.reason,
                             plugin |-> p.plugin, core |-> p.core, rest |-> p.rest, qos |-> p.qos, start |-> p.start]
<1>1. ASSUME NEW S, \A p \in S : formed(p), o \in filtered(S)
      PROVE  \E p \in S : like(p)
  <2>1. CASE o \in S
    BY <2>1
  <2>2. CASE o \in {[p EXCEPT !.filter = "PASSED"] : p \in S}
    <3>1. PICK p \in S : o = [p EXCEPT !.filter = "PASSED"]
      BY <2>2
    <3>2. p = [ran |-> p.ran, failed |-> p.failed, filter |-> p.filter, reason |-> p.reason,
               plugin |-> p.plugin, core |-> p.core, rest |-> p.rest, qos |-> p.qos, start |-> p.start]
      BY <1>1
    <3>3. like(p)
      BY <3>1, <3>2
    <3> QED BY <3>3
  <2> QED BY <1>1, <2>1, <2>2
<1> DEFINE full(co, rs) == [ran |-> TRUE, failed |-> TRUE, filter |-> "none", reason |-> {}, plugin |-> {},
                            core |-> co, rest |-> rs, qos |-> qos, start |-> start]
<1>2. \A co, rs :
        /\ formed(full(co, rs)) /\ full(co, rs).ran /\ full(co, rs).failed /\ full(co, rs).filter = "none"
        /\ full(co, rs).reason = {} /\ full(co, rs).plugin = {} /\ full(co, rs).core = co
        /\ full(co, rs).rest = rs /\ full(co, rs).qos = qos /\ full(co, rs).start = start
  OBVIOUS
<1>3. no = full({}, {}) /\ \A text : core(text) = full(text, {}) /\ rest(text) = full({}, text)
  <2>1. ok = [ran |-> TRUE, failed |-> FALSE, filter |-> "none", reason |-> {}, plugin |-> {},
              core |-> {}, rest |-> {}, qos |-> qos, start |-> start]
    OBVIOUS
  <2>2. no = [ok EXCEPT !.failed = TRUE]
    OBVIOUS
  <2> HIDE DEF ok
  <2>3. \A text : core(text) = [no EXCEPT !.core = text] /\ rest(text) = [no EXCEPT !.rest = text]
    OBVIOUS
  <2> HIDE DEF no, core, rest
  <2>4. no = full({}, {})
    BY <2>1, <2>2
  <2>5. ASSUME NEW text PROVE core(text) = full(text, {})
    BY <2>3, <2>4
  <2>6. ASSUME NEW text PROVE rest(text) = full({}, text)
    BY <2>3, <2>4
  <2> QED BY <2>4, <2>5, <2>6
<1>9. ASSUME NEW text
      PROVE  /\ formed(core(text)) /\ core(text).ran /\ core(text).failed /\ core(text).filter = "none"
             /\ core(text).reason = {} /\ core(text).plugin = {} /\ core(text).core = text
             /\ core(text).rest = {} /\ core(text).qos = qos /\ core(text).start = start
  <2>1. core(text) = full(text, {})
    BY <1>3
  <2> HIDE DEF core, full, formed
  <2> QED BY <1>2, <2>1
<1>10. ASSUME NEW text
       PROVE  /\ formed(rest(text)) /\ rest(text).ran /\ rest(text).failed /\ rest(text).filter = "none"
              /\ rest(text).reason = {} /\ rest(text).plugin = {} /\ rest(text).core = {}
              /\ rest(text).rest = text /\ rest(text).qos = qos /\ rest(text).start = start
  <2>1. rest(text) = full({}, text)
    BY <1>3
  <2> HIDE DEF rest, full, formed
  <2> QED BY <1>2, <2>1
<1>4. CASE truth = "accepts"
  <2> DEFINE other == [ok EXCEPT !.rest = {"other"}]
  <2>1. o \in filtered({ok, other})
    BY <1>4 DEF SlurmSays
  <2>2. formed(ok) /\ formed(other)
    <3>1. ok = [ran |-> TRUE, failed |-> FALSE, filter |-> "none", reason |-> {}, plugin |-> {},
                core |-> {}, rest |-> {}, qos |-> qos, start |-> start]
      OBVIOUS
    <3>2. other = [ok EXCEPT !.rest = {"other"}]
      OBVIOUS
    <3> HIDE DEF ok, other
    <3> QED BY <3>1, <3>2
  <2>3. /\ ok.ran /\ ~ok.failed /\ ok.filter = "none" /\ ok.core = {} /\ ok.plugin = {}
        /\ ok.qos = qos /\ ok.start = start
        /\ other.ran /\ ~other.failed /\ other.filter = "none" /\ other.core = {} /\ other.plugin = {}
        /\ other.qos = qos /\ other.start = start
    OBVIOUS
  <2> HIDE DEF ok, other, filtered, formed
  <2>4. PICK p \in {ok, other} : like(p)
    BY <1>1, <2>1, <2>2
  <2> QED BY <1>4, <2>3, <2>4
<1>5. CASE truth = "down"
  <2> DEFINE unwritten == core({"script not written"})
             unheard == rest({"no controller"})
             unknown == rest({"other"})
             S == {unwritten, unheard, unknown}
             lost == [no EXCEPT !.ran = FALSE]
  <2>1. o = lost \/ o \in filtered(S)
    BY <1>5 DEF SlurmSays
  <2>2. ~lost.ran /\ lost.failed /\ lost.qos = qos /\ lost.start = start
    OBVIOUS
  <2> HIDE DEF lost, full, core, rest, no, ok, filtered, formed
  <2>3. formed(unwritten) /\ formed(unheard) /\ formed(unknown)
    BY <1>9, <1>10
  <2>6. ASSUME NEW p \in S PROVE formed(p)
    <3> HIDE DEF unwritten, unheard, unknown
    <3> QED BY <2>3
  <2>4. CASE o = lost
    BY <1>5, <2>2, <2>4 DEF SlurmFails
  <2>5. CASE o \in filtered(S)
    <3>1. PICK p \in S : like(p)
      <4> HIDE DEF S
      <4> QED BY <1>1, <2>5, <2>6
    <3>2. CASE p = unwritten
      BY <1>9, <1>5, <3>1, <3>2 DEF SlurmFails
    <3>3. CASE p = unheard
      BY <1>10, <1>5, <3>1, <3>3 DEF SlurmFails
    <3>4. CASE p = unknown
      BY <1>10, <1>5, <3>1, <3>4 DEF SlurmFails
    <3> QED BY <3>1, <3>2, <3>3, <3>4
  <2> QED BY <2>1, <2>4, <2>5
<1>6. CASE truth = "full"
  <2>1. o \in filtered({core({"configuration"})})
    BY <1>6 DEF SlurmSays
  <2> HIDE DEF full, core, no, ok, filtered, formed
  <2>2. PICK p \in {core({"configuration"})} : like(p)
    BY <1>1, <1>9, <2>1
  <2> QED BY <1>9, <1>6, <2>2
<1>7. CASE truth = "no qos"
  <2> DEFINE invalid == core({"invalid qos"})
  <2>1. o \in filtered({invalid})
    BY <1>7 DEF SlurmSays
  <2> HIDE DEF full, core, no, ok, filtered, formed
  <2>2. formed(invalid) /\ invalid.failed /\ invalid.qos = qos /\ invalid.start = start
    BY <1>9
  <2> HIDE DEF invalid
  <2>3. PICK p \in {invalid} : like(p)
    BY <1>1, <2>1, <2>2
  <2> QED BY <1>7, <2>2, <2>3
<1>8. CASE truth = "denied"
  <2> DEFINE plug == [core({"other"}) EXCEPT !.plugin = {"other"}]
             policy == [core({"permission"}) EXCEPT !.filter = "REJECTED", !.reason = {"no units left"}]
             stranger == core({"not a member"})
             both == core({"combination", "invalid account"})
             unknown == rest({"other"})
             S == {stranger, both, unknown, plug}
  <2>1. o \in filtered(S) \/ o = policy
    BY <1>8 DEF SlurmSays
  <2>2. policy.ran /\ policy.failed /\ policy.qos = qos /\ policy.start = start
    OBVIOUS
  <2>3. formed(plug) /\ plug.ran /\ plug.failed /\ plug.qos = qos /\ plug.start = start
    <3>1. core({"other"}) = [ran |-> TRUE, failed |-> TRUE, filter |-> "none", reason |-> {}, plugin |-> {},
                             core |-> {"other"}, rest |-> {}, qos |-> qos, start |-> start]
      BY <1>3
    <3>2. plug = [core({"other"}) EXCEPT !.plugin = {"other"}]
      OBVIOUS
    <3> HIDE DEF plug, core
    <3> QED BY <3>1, <3>2
  <2> HIDE DEF policy, plug, full, core, rest, no, ok, filtered, formed
  <2>6. /\ formed(stranger) /\ stranger.failed /\ stranger.qos = qos /\ stranger.start = start
        /\ formed(both) /\ both.failed /\ both.qos = qos /\ both.start = start
        /\ formed(unknown) /\ unknown.failed /\ unknown.qos = qos /\ unknown.start = start
    BY <1>9, <1>10
  <2>4. ASSUME NEW p \in S PROVE formed(p) /\ p.failed /\ p.qos = qos /\ p.start = start
    <3> HIDE DEF stranger, both, unknown
    <3> QED BY <2>3, <2>6
  <2> HIDE DEF S
  <2>5. o.failed /\ o.qos = qos /\ o.start = start
    BY <1>1, <2>1, <2>2, <2>4
  <2> QED BY <1>8, <2>5
<1> QED BY <1>4, <1>5, <1>6, <1>7, <1>8 DEF Truths

LEMMA SlurmTellsRight ==
  ASSUME NEW truth \in Truths, NEW qos, NEW start, NEW o \in SlurmSays(truth, qos, start)
  PROVE  TellsRight(SlurmReads(o), "slurm", truth, qos)
<1> DEFINE said == o.reason \cup o.plugin \cup o.core
           first(text) == FirstOf(SlurmPatterns, text)
<1>1. \A text : first(text) \in Categories
  BY FirstOfIsACategory, SlurmRows
<1>2. ASSUME NEW word
      PROVE  \/ first({word}) = "UNKNOWN" /\ \A i \in DOMAIN SlurmPatterns : SlurmPatterns[i][1] # word
             \/ \E i \in DOMAIN SlurmPatterns : SlurmPatterns[i][1] = word /\ first({word}) = SlurmPatterns[i][2]
  <2>1. \/ first({word}) = "UNKNOWN" /\ \A i \in DOMAIN SlurmPatterns : SlurmPatterns[i][1] \notin {word}
        \/ \E i \in DOMAIN SlurmPatterns : SlurmPatterns[i][1] \in {word} /\ first({word}) = SlurmPatterns[i][2]
    BY FirstOfIsARow, SlurmRows
  <2> HIDE DEF first
  <2> QED BY <2>1
<1>3. /\ first({"script not written"}) \in {"CONTROL_PLANE_DOWN", "UNKNOWN"}
      /\ first({"no controller"}) \in {"CONTROL_PLANE_DOWN", "UNKNOWN"}
      /\ first({"other"}) = "UNKNOWN" /\ first({"configuration"}) = "SHAPE_UNAVAILABLE"
  <2> HIDE DEF first
  <2>1. first({"script not written"}) = "CONTROL_PLANE_DOWN" \/ first({"script not written"}) = "UNKNOWN"
    BY <1>2, SlurmRows
  <2>2. first({"no controller"}) = "CONTROL_PLANE_DOWN" \/ first({"no controller"}) = "UNKNOWN"
    BY <1>2, SlurmRows
  <2>3. first({"other"}) = "UNKNOWN"
    BY <1>2, SlurmRows
  <2>4. first({"configuration"}) = "SHAPE_UNAVAILABLE"
    BY <1>2, SlurmRows
  <2> QED BY <2>1, <2>2, <2>3, <2>4
<1>4. o.qos = qos /\ o.start = start
  BY SlurmPrints
<1>5. CASE truth = "accepts"
  <2>1. SlurmReads(o) = Accepted(start, qos)
    BY <1>4, <1>5, SlurmPrints DEF SlurmReads
  <2> QED BY <1>5, <2>1 DEF TellsRight
<1>6. CASE truth # "accepts"
  <2>1. \/ ~o.ran /\ SlurmReads(o) = Refused("CONTROL_PLANE_DOWN", Unnamed)
        \/ o.ran /\ SlurmReads(o) = Refused(first(said), qos)
        \/ /\ o.ran /\ o.core = {} /\ o.plugin = {} /\ o.filter # "REJECTED"
           /\ SlurmReads(o) = Refused(first(said \cup o.rest), qos)
    BY <1>4, <1>6, SlurmPrints DEF SlurmReads
  <2>2. CASE truth \notin {"down", "full"}
    <3>1. \E why \in Categories, e \in {qos, Unnamed} : SlurmReads(o) = Refused(why, e)
      BY <1>1, <2>1 DEF Categories
    <3> QED BY <1>6, <2>2, <3>1 DEF TellsRight
  <2>3. CASE truth = "down"
    <3>1. CASE ~o.ran
      <4>1. SlurmReads(o) = Refused("CONTROL_PLANE_DOWN", Unnamed)
        BY <3>1 DEF SlurmReads
      <4> QED BY <2>3, <4>1 DEF TellsRight, Categories
    <3>2. CASE o.ran
      <4>1. /\ o.reason = {} /\ o.plugin = {} /\ o.filter # "REJECTED" /\ o.failed
            /\ \/ o.core = {"script not written"} /\ o.rest = {}
               \/ o.core = {} /\ o.rest = {"no controller"}
               \/ o.core = {} /\ o.rest = {"other"}
        <5>1. SlurmFails(o)
          BY <2>3, SlurmPrints
        <5> QED BY <3>2, <5>1 DEF SlurmFails
      <4>2. CASE o.core = {"script not written"} /\ o.rest = {}
        <5>1. said = {"script not written"} /\ o.core # {}
          BY <4>1, <4>2
        <5>2. SlurmReads(o) = Refused(first({"script not written"}), qos)
          BY <1>4, <3>2, <5>1 DEF SlurmReads
        <5> QED BY <1>1, <1>3, <2>3, <5>2 DEF TellsRight
      <4>3. CASE o.core = {} /\ (o.rest = {"no controller"} \/ o.rest = {"other"})
        <5>1. said \cup o.rest = o.rest
          BY <4>1, <4>3
        <5>2. SlurmReads(o) = Refused(first(o.rest), qos)
          BY <1>4, <3>2, <4>1, <4>3, <5>1 DEF SlurmReads
        <5>3. first(o.rest) \in {"CONTROL_PLANE_DOWN", "UNKNOWN"}
          BY <1>3, <4>3
        <5> QED BY <1>1, <2>3, <5>2, <5>3 DEF TellsRight
      <4> QED BY <4>1, <4>2, <4>3
    <3> QED BY <3>1, <3>2
  <2>4. CASE truth = "full"
    <3>1. o.ran /\ said = {"configuration"} /\ o.core # {}
      BY <2>4, SlurmPrints
    <3>2. SlurmReads(o) = Refused("SHAPE_UNAVAILABLE", qos)
      BY <1>3, <1>4, <3>1 DEF SlurmReads
    <3> QED BY <2>4, <3>2 DEF TellsRight, Categories
  <2> QED BY <2>2, <2>3, <2>4
<1> QED BY <1>5, <1>6

\* A verdict is what the truth makes it, whichever scheduler gives it.
LEMMA VerdictIsOfTheTruth ==
  ASSUME NEW by \in {"slurm", "sge", "kubernetes"}, NEW truth \in Truths, NEW qos, NEW start,
         NEW v \in Tells(by, truth, qos, start)
  PROVE  TellsRight(v, by, truth, qos)
<1>1. CASE by = "slurm"
  <2>1. PICK o \in SlurmSays(truth, qos, start) : v = SlurmReads(o)
    BY <1>1 DEF Tells
  <2> QED BY <1>1, <2>1, SlurmTellsRight
<1>2. CASE by = "sge"
  <2>1. PICK o \in SgeSays(truth) : v = SgeReads(o)
    BY <1>2 DEF Tells
  <2> QED BY <1>2, <2>1, SgeTellsRight
<1>3. CASE by = "kubernetes"
  <2>1. PICK o \in KubernetesSays(truth) : v = KubernetesReads(o)
    BY <1>3 DEF Tells
  <2> QED BY <1>3, <2>1, KubernetesTellsRight
<1> QED BY <1>1, <1>2, <1>3

-----------------------------------------------------------------------------
(* Which QOS.                                                              *)

\* The row of an account for this queue, or its blanket row.
Own(a) ==
    LET at(q) == {r \in case.rows : r.account = a /\ r.queue = q}
    IN  IF at(Here) # {} THEN at(Here) ELSE at(NoName)

LEMMA OnlyIsIn ==
  ASSUME NEW S, Only(S) # NoName
  PROVE  Only(S) \in S /\ Cardinality(S) = 1
<1>1. Cardinality(S) = 1 /\ Only(S) = CHOOSE x \in S : TRUE
  BY DEF Only
<1>2. S # {}
  BY <1>1, FS_EmptySet
<1> QED BY <1>1, <1>2

LEMMA OnlyOfOne ==
  ASSUME NEW d, NEW S, d \in S, \A x \in S : x = d
  PROVE  Only(S) = d
<1>1. S = {d}
  OBVIOUS
<1>2. Cardinality(S) = 1
  BY <1>1, FS_Singleton
<1> QED BY <1>1, <1>2 DEF Only

LEMMA OnlyOfNone ==
  Only({}) = NoName
BY FS_EmptySet DEF Only

\* An account has one row that counts, and is granted what it says.
LEMMA OwnRow ==
  ASSUME RowsOK(case.rows), NEW a, a # NoName
  PROVE  /\ Grants(a) = Own(a) /\ Own(a) \subseteq case.rows
         /\ \A r, s \in Own(a) : r = s
         /\ QosFor(case.rows, a) = Only({Decides(r) : r \in Own(a)})
<1>1. Grants(a) = Own(a)
  BY DEF Grants, Own
<1>2. Own(a) \subseteq case.rows
  BY DEF Own
<1>3. \A r, s \in Own(a) : r = s
  BY DEF Own, RowsOK
<1>4. QosFor(case.rows, a) = Only({Decides(r) : r \in Own(a)})
  BY DEF QosFor, Own
<1> QED BY <1>1, <1>2, <1>3, <1>4

\* Whoever is identified and belongs somewhere is tried by name.
LEMMA CandidatesAreNamed ==
  ASSUME RowsOK(case.rows), case.identified, case.rows # {}, NEW a \in Candidates
  PROVE  a # NoName
BY DEF Candidates, Accounts, RowsOK

LEMMA NothingAssociated ==
  ASSUME case.rows = {}, NEW a
  PROVE  QosFor(case.rows, a) = NoName
<1>1. CASE a # NoName
  <2>1. {Decides(r) : r \in Own(a)} = {}
    BY DEF Own
  <2>2. QosFor(case.rows, a) = Only({Decides(r) : r \in Own(a)})
    BY <1>1 DEF QosFor, Own
  <2> QED BY <2>1, <2>2, OnlyOfNone
<1>2. CASE a = NoName
  <2> DEFINE said == {Decides(r) : r \in {s \in case.rows : s.queue = Here}} \ {NoName}
             defaults == {r.default : r \in case.rows} \ {NoName}
  <2>1. said = {} /\ defaults = {}
    OBVIOUS
  <2>2. Cardinality(said) # 1
    BY <2>1, FS_EmptySet
  <2>3. QosFor(case.rows, a) = Only(defaults)
    BY <1>2, <2>2 DEF QosFor, DefaultQos
  <2> QED BY <2>1, <2>3, OnlyOfNone
<1> QED BY <1>1, <1>2

\* What the control plane may choose, the job may run under.
LEMMA ChosenIsOfTheJob ==
  ASSUME case \in Cases, NEW e \in Chosen, e # NoName
  PROVE  e \in JobQos /\ (case.qos # NoName => e = case.qos)
<1>1. RowsOK(case.rows)
  BY CaseFacts
<1>2. ASSUME NEW a \in Candidates, NEW r \in Grants(a), case.rows # {}, case.qos = NoName
      PROVE  Decides(r) \in JobQos
  BY <1>2 DEF JobQos
<1>3. CASE \E a \in Taken : Named(a) = e
  <2>1. PICK a \in Taken : Named(a) = e
    BY <1>3
  <2>2. a \in Candidates
    BY <2>1 DEF Taken
  <2>3. CASE case.qos # NoName
    BY <2>1, <2>3 DEF Named, WithQos, JobQos
  <2>4. CASE case.qos = NoName
    <3>1. case.identified /\ e = QosFor(case.rows, a)
      BY <2>1, <2>4 DEF Named, WithQos
    <3>2. case.rows # {}
      BY <3>1, NothingAssociated
    <3>3. a # NoName
      BY <1>1, <2>2, <3>1, <3>2, CandidatesAreNamed
    <3>4. e \in {Decides(r) : r \in Own(a)} /\ Own(a) = Grants(a)
      BY <1>1, <3>1, <3>3, OwnRow, OnlyIsIn
    <3> QED BY <1>2, <2>2, <2>4, <3>2, <3>4
  <2> QED BY <2>3, <2>4
<1>4. CASE \E a \in Taken : \E r \in Grants(a) : Named(a) = NoName /\ e = r.default
  <2>1. PICK a \in Taken : \E r \in Grants(a) : Named(a) = NoName /\ e = r.default
    BY <1>4
  <2>2. PICK r \in Grants(a) : Named(a) = NoName /\ e = r.default
    BY <2>1
  <2>3. a \in Candidates /\ Decides(r) = e
    BY <2>1, <2>2 DEF Taken, Decides
  <2>4. case.qos = NoName
    BY <2>2 DEF Named, WithQos
  <2>5. case.rows # {}
    BY <2>2 DEF Grants
  <2> QED BY <1>2, <2>2, <2>3, <2>4, <2>5
<1> QED BY <1>3, <1>4 DEF Chosen

\* Where the associations leave no choice, or the caller made it, some account is
\* taken.
LEMMA DecidedIsTaken ==
  ASSUME case \in Cases, QosDecided
  PROVE  Taken # {}
<1>1. RowsOK(case.rows)
  BY CaseFacts
<1>2. CASE case.rows = {}
  <2>1. Candidates # {}
    BY <1>2 DEF Candidates
  <2> QED BY <1>2, <2>1 DEF Taken, QosTaken
<1>3. CASE case.rows # {}
  <2>1. PICK a \in Candidates : \E r \in Grants(a) : IF case.qos # NoName THEN case.qos \in r.qos
                           ELSE r.default # NoName \/ (case.identified /\ Cardinality(r.qos) = 1)
    BY <1>3 DEF QosDecided
  <2>2. PICK r \in Grants(a) : IF case.qos # NoName THEN case.qos \in r.qos
                           ELSE r.default # NoName \/ (case.identified /\ Cardinality(r.qos) = 1)
    BY <2>1
  <2>3. GrantTakes(r, Named(a))
    <3>1. CASE case.qos # NoName
      BY <2>2, <3>1 DEF GrantTakes, Named, WithQos
    <3>2. CASE case.qos = NoName /\ ~case.identified
      BY <2>2, <3>2 DEF GrantTakes, Named, WithQos
    <3>3. CASE case.qos = NoName /\ case.identified
      <4>1. a # NoName
        BY <1>1, <1>3, <3>3, CandidatesAreNamed
      <4> DEFINE S == {Decides(s) : s \in Own(a)}
      <4>2. r \in Own(a) /\ r \in case.rows /\ (\A s \in Own(a) : s = r) /\ Named(a) = Only(S)
        BY <1>1, <2>2, <3>3, <4>1, OwnRow DEF Named, WithQos
      <4>3. Decides(r) \in S /\ \A x \in S : x = Decides(r)
        BY <4>2
      <4> HIDE DEF S
      <4>4. Named(a) = Decides(r)
        BY <4>2, <4>3, OnlyOfOne
      <4>5. r.default \in r.qos \cup {NoName} /\ NoName \notin r.qos /\ r.qos # {}
        BY <1>1, <4>2 DEF RowsOK
      <4>6. CASE r.default # NoName
        BY <4>4, <4>5, <4>6 DEF GrantTakes, Decides
      <4>7. CASE r.default = NoName
        <5>1. Only(r.qos) = CHOOSE x \in r.qos : TRUE
          BY <2>2, <3>3, <4>7 DEF Only
        <5>2. Only(r.qos) \in r.qos
          BY <4>5, <5>1
        <5> QED BY <4>4, <4>5, <4>7, <5>2 DEF GrantTakes, Decides
      <4> QED BY <4>6, <4>7
    <3> QED BY <3>1, <3>2, <3>3
  <2> QED BY <2>2, <2>3 DEF Taken, QosTaken
<1> QED BY <1>2, <1>3

-----------------------------------------------------------------------------
(* What a verdict says, and what is made of it.                            *)

\* What a refusal is due to.
DueTo(why, all) ==
    \/ why \in {"CONTROL_PLANE_DOWN", "UNKNOWN", "SHAPE_UNAVAILABLE"}
    \/ case.by = "kubernetes" /\ why = "NOT_ENTITLED"
    \/ Taken = {} \/ ~case.entitled \/ ~Known \/ ~all

LEMMA ControlPlaneSays ==
  ASSUME case \in Cases, NEW all \in BOOLEAN, NEW v \in ControlPlane(all)
  PROVE  \/ \E start : \E e \in Chosen : v = Accepted(start, e) /\ case.entitled /\ Taken # {}
         \/ \E why \in Categories : v = Refused(why, NoName) /\ DueTo(why, all)
<1>1. \/ v \in Answers("down") \/ v \in Answers("full")
      \/ case.entitled /\ Taken # {} /\ v \in Consents
      \/ (Taken = {} \/ ~all) /\ v \in Answers("no qos")
      \/ ~ (case.entitled /\ Known /\ all) /\ v \in Answers("denied")
  BY DEF ControlPlane
<1>2. case.by \in {"slurm", "sge", "kubernetes"} /\ Unnamed = NoName
  BY CaseFacts, PlacementAssumption
<1>3. ASSUME NEW truth \in Truths, truth # "accepts", v \in Answers(truth)
      PROVE  \E why \in Categories : /\ v = Refused(why, NoName)
                                     /\ truth = "down" => \/ why \in {"CONTROL_PLANE_DOWN", "UNKNOWN"}
                                                          \/ case.by = "kubernetes" /\ why = "NOT_ENTITLED"
                                     /\ truth = "full" => why = "SHAPE_UNAVAILABLE"
  <2>1. TellsRight(v, case.by, truth, NoName)
    BY <1>2, <1>3, VerdictIsOfTheTruth DEF Answers
  <2> QED BY <1>2, <1>3, <2>1 DEF TellsRight
<1>4. "down" \in Truths /\ "full" \in Truths /\ "no qos" \in Truths /\ "denied" \in Truths /\ "accepts" \in Truths
  BY DEF Truths
<1>5. CASE case.entitled /\ Taken # {} /\ v \in Consents
  <2>2. PICK s \in {"unsaid", "soon", "later"}, q \in Chosen : v \in Tells(case.by, "accepts", q, s)
    BY <1>5 DEF Consents
  <2>3. TellsRight(v, case.by, "accepts", q)
    BY <1>2, <1>4, <2>2, VerdictIsOfTheTruth
  <2>4. NoName \in Chosen
    BY DEF Chosen
  <2>5. \E start, e : v = Accepted(start, e) /\ e \in {q, Unnamed}
    BY <2>3 DEF TellsRight
  <2> QED BY <1>2, <1>5, <2>2, <2>4, <2>5
<1>6. CASE v \in Answers("down") \/ v \in Answers("full")
  BY <1>3, <1>4, <1>6 DEF DueTo
<1>7. CASE (Taken = {} \/ ~all) /\ v \in Answers("no qos")
  BY <1>3, <1>4, <1>7 DEF DueTo
<1>8. CASE ~ (case.entitled /\ Known /\ all) /\ v \in Answers("denied")
  BY <1>3, <1>4, <1>8 DEF DueTo
<1> QED BY <1>1, <1>5, <1>6, <1>7, <1>8

LEMMA VerdictFields ==
  ASSUME NEW why \in Categories, NEW start, NEW e
  PROVE  /\ Refused(why, e).category = why /\ Refused(why, e).effective = e /\ ~Refused(why, e).allowed
         /\ Refused(why, e).allowed \in BOOLEAN
         /\ Refused(why, e) # NoVerdict
         /\ Accepted(start, e).category = "OK" /\ Accepted(start, e).effective = e /\ Accepted(start, e).allowed
         /\ Accepted(start, e) # NoVerdict
         /\ ~NoVerdict.allowed /\ NoVerdict.effective = Unnamed /\ NoVerdict.category \notin Categories
BY DEF Refused, Accepted, NoVerdict, Categories

\* What is settled of a refusal is a refusal of the same QOS; where it lasts,
\* every account was asked.
LEMMA SettledRefusal ==
  ASSUME NEW why \in Categories, NEW all \in BOOLEAN
  PROVE  LET v == Refused(why, NoName)
             w == Settled(v, all)
         IN  /\ ~w.allowed /\ w.effective = NoName /\ w.category \in Categories
             /\ w # NoVerdict
             /\ Durable(w) => all /\ Known /\ w.category = why /\ why \notin Transient
<1> DEFINE v == Refused(why, NoName)
           u == [v EXCEPT !.category = "ACCOUNTS_UNTRIED"]
           w == Settled(v, all)
<1>2. w = IF Durable(v) /\ ~v.allowed /\ (~all \/ ~Known) THEN u ELSE v
  BY DEF Settled
<1>3. /\ ~v.allowed /\ v.effective = NoName /\ v.category = why
      /\ ~u.allowed /\ u.effective = NoName /\ u.category = "ACCOUNTS_UNTRIED"
  BY DEF Refused, NoVerdict
<1>4. "ACCOUNTS_UNTRIED" \in Categories /\ "ACCOUNTS_UNTRIED" \in Transient /\ NoVerdict.category \notin Categories
  BY DEF Categories, Transient, NoVerdict
<1> HIDE DEF v, u, w
<1>5. Durable(v) => why \notin Transient
  BY <1>3 DEF Durable
<1>6. ~Durable(u)
  BY <1>3, <1>4 DEF Durable
<1>7. /\ ~w.allowed /\ w.effective = NoName /\ w.category \in Categories /\ w # NoVerdict
      /\ Durable(w) => all /\ Known /\ w.category = why /\ why \notin Transient
  <2>1. CASE Durable(v) /\ (~all \/ ~Known)
    <3>1. w = u
      BY <1>2, <1>3, <2>1
    <3> QED BY <1>3, <1>4, <1>6, <3>1
  <2>2. CASE ~ (Durable(v) /\ (~all \/ ~Known))
    <3>1. w = v
      BY <1>2, <2>2
    <3> QED BY <1>3, <1>4, <1>5, <2>2, <3>1
  <2> QED BY <2>1, <2>2
<1> QED BY <1>7 DEF w, v

LEMMA SettledAcceptance ==
  ASSUME NEW start, NEW e, NEW all
  PROVE  Settled(Accepted(start, e), all) = Accepted(start, e) /\ Settled(NoVerdict, all) = NoVerdict
<1>1. Accepted(start, e).allowed /\ ~Durable(NoVerdict)
  BY DEF Accepted, Durable
<1> QED BY <1>1 DEF Settled

\* All that may be answered of the dry-run.
LEMMA AnsweredVerdict ==
  ASSUME Inv, answer # Unread
  PROVE  \E all \in BOOLEAN : \E v \in Verdicts(Assessed, all) :
           /\ answer = Judgement(Assessed, all, v) /\ answer.verdict.effective = v.effective
           /\ \/ answer.verdict = NoVerdict /\ v.effective = NoName
              \/ \E start : \E e \in Chosen : /\ answer.verdict = Accepted(start, e)
                                          /\ case.entitled /\ Taken # {}
              \/ \E why \in Categories :
                   /\ ~answer.verdict.allowed /\ answer.verdict.effective = NoName
                   /\ answer.verdict.category \in Categories /\ answer.verdict # NoVerdict
                   /\ Durable(answer.verdict) => /\ all /\ Known /\ answer.verdict.category = why
                                                 /\ why \notin Transient /\ DueTo(why, all)
<1>1. PICK all \in BOOLEAN : \E v \in Verdicts(Assessed, all) : answer = Judgement(Assessed, all, v)
  BY DEF Inv, Judged
<1>2. PICK v \in Verdicts(Assessed, all) : answer = Judgement(Assessed, all, v)
  BY <1>1
<1>3. answer.verdict = Settled(v, all)
  <2>1. Judgement(Assessed, all, v).verdict = Settled(v, all)
    BY DEF Judgement
  <2> QED BY <1>2, <2>1
<1>4. case \in Cases /\ Unnamed = NoName
  BY PlacementAssumption DEF Inv, Given
<1>5. v = NoVerdict \/ v \in ControlPlane(all)
  BY <1>2 DEF Verdicts
<1>6. CASE v = NoVerdict
  <2>1. answer.verdict = NoVerdict
    BY <1>3, <1>6, SettledAcceptance
  <2>2. v.effective = NoName
    BY <1>4, <1>6 DEF NoVerdict
  <2> QED BY <1>2, <1>6, <2>1, <2>2
<1>7. CASE \E start : \E e \in Chosen : v = Accepted(start, e) /\ case.entitled /\ Taken # {}
  <2>1. answer.verdict = v
    BY <1>3, <1>7, SettledAcceptance
  <2> QED BY <1>2, <1>7, <2>1
<1>8. CASE \E why \in Categories : v = Refused(why, NoName) /\ DueTo(why, all)
  <2>1. PICK why \in Categories : v = Refused(why, NoName) /\ DueTo(why, all)
    BY <1>8
  <2>2. /\ ~answer.verdict.allowed /\ answer.verdict.effective = NoName
        /\ answer.verdict.category \in Categories /\ answer.verdict # NoVerdict
        /\ Durable(answer.verdict) => all /\ Known /\ answer.verdict.category = why /\ why \notin Transient
    BY <1>3, <2>1, SettledRefusal
  <2>3. v.effective = NoName
    BY <2>1, VerdictFields
  <2> QED BY <1>2, <2>1, <2>2, <2>3
<1> QED BY <1>4, <1>5, <1>6, <1>7, <1>8, ControlPlaneSays

-----------------------------------------------------------------------------
(* Which limit set.                                                        *)

\* Of the four names, the first of which a limit set was read decides.
LEMMA LimitsByName ==
  ASSUME NEW limits, NEW rows, NEW identified, NEW declared, NEW named, NEW effective
  PROVE  LET D == DOMAIN limits
             l == LimitsFor(limits, rows, identified, declared, named, effective)
         IN  /\ effective \in D => l = limits[effective]
             /\ effective \notin D /\ named \in D => l = limits[named]
             /\ effective \notin D /\ named \notin D /\ declared \in D => l = limits[declared]
             /\ effective \notin D /\ named \notin D /\ declared \notin D /\ Here \in D => l = limits[Here]
             /\ effective \notin D /\ named \notin D /\ declared \notin D /\ Here \notin D =>
                  l = IF named # NoName \/ ~identified THEN NoLimits ELSE CallerLimits(limits, rows)
<1> DEFINE names == <<effective, named, declared, Here>>
           D == DOMAIN limits
           l == LimitsFor(limits, rows, identified, declared, named, effective)
           found == {i \in DOMAIN names : names[i] \in D}
<1>1. l = IF found # {} THEN limits[names[Min(found)]]
          ELSE IF named # NoName \/ ~identified THEN NoLimits ELSE CallerLimits(limits, rows)
  BY DEF LimitsFor
<1>2. /\ DOMAIN names = 1 .. 4 /\ \A i \in 1 .. 4 : i = 1 \/ i = 2 \/ i = 3 \/ i = 4
      /\ names[1] = effective /\ names[2] = named /\ names[3] = declared /\ names[4] = Here
  OBVIOUS
<1> HIDE DEF names, D, l
<1>3. /\ found \in SUBSET Nat /\ \A i \in found : (i = 1 \/ i = 2 \/ i = 3 \/ i = 4)
      /\ 1 \in found <=> effective \in D
      /\ 2 \in found <=> named \in D
      /\ 3 \in found <=> declared \in D
      /\ 4 \in found <=> Here \in D
  BY <1>2
<1> HIDE DEF found
<1>4. found # {} => Min(found) \in found /\ \A x \in found : Min(found) <= x
  BY <1>3, LeastNumber
<1>5. effective \in D => l = limits[effective]
  <2> HAVE effective \in D
  <2>1. Min(found) = 1
    <3>1. 1 \in found
      BY <1>3
    <3>2. Min(found) \in found /\ Min(found) <= 1
      BY <1>4, <3>1
    <3>3. Min(found) = 1 \/ Min(found) = 2 \/ Min(found) = 3 \/ Min(found) = 4
      BY <1>3, <3>2
    <3> QED BY <3>2, <3>3
  <2> QED BY <1>1, <1>2, <1>3, <2>1
<1>6. effective \notin D /\ named \in D => l = limits[named]
  <2> HAVE effective \notin D /\ named \in D
  <2>1. Min(found) = 2
    <3>1. 2 \in found /\ 1 \notin found
      BY <1>3
    <3>2. Min(found) \in found /\ Min(found) <= 2
      BY <1>4, <3>1
    <3>3. Min(found) # 1
      BY <3>1, <3>2
    <3>4. Min(found) = 1 \/ Min(found) = 2 \/ Min(found) = 3 \/ Min(found) = 4
      BY <1>3, <3>2
    <3> QED BY <3>2, <3>3, <3>4
  <2> QED BY <1>1, <1>2, <1>3, <2>1
<1>7. effective \notin D /\ named \notin D /\ declared \in D => l = limits[declared]
  <2> HAVE effective \notin D /\ named \notin D /\ declared \in D
  <2>1. Min(found) = 3
    <3>1. 3 \in found /\ 1 \notin found /\ 2 \notin found
      BY <1>3
    <3>2. Min(found) \in found /\ Min(found) <= 3
      BY <1>4, <3>1
    <3>3. Min(found) # 1 /\ Min(found) # 2
      BY <3>1, <3>2
    <3>4. Min(found) = 1 \/ Min(found) = 2 \/ Min(found) = 3 \/ Min(found) = 4
      BY <1>3, <3>2
    <3> QED BY <3>2, <3>3, <3>4
  <2> QED BY <1>1, <1>2, <1>3, <2>1
<1>8. effective \notin D /\ named \notin D /\ declared \notin D /\ Here \in D => l = limits[Here]
  <2> HAVE effective \notin D /\ named \notin D /\ declared \notin D /\ Here \in D
  <2>1. Min(found) = 4
    <3>1. 4 \in found /\ 1 \notin found /\ 2 \notin found /\ 3 \notin found
      BY <1>3
    <3>2. Min(found) \in found /\ Min(found) <= 4
      BY <1>4, <3>1
    <3>3. Min(found) # 1 /\ Min(found) # 2 /\ Min(found) # 3
      BY <3>1, <3>2
    <3>4. Min(found) = 1 \/ Min(found) = 2 \/ Min(found) = 3 \/ Min(found) = 4
      BY <1>3, <3>2
    <3> QED BY <3>2, <3>3, <3>4
  <2> QED BY <1>1, <1>2, <1>3, <2>1
<1>9. effective \notin D /\ named \notin D /\ declared \notin D /\ Here \notin D =>
        l = IF named # NoName \/ ~identified THEN NoLimits ELSE CallerLimits(limits, rows)
  BY <1>1, <1>3
<1> QED BY <1>5, <1>6, <1>7, <1>8, <1>9 DEF D, l

\* Associations that all say the same leave one limit set, or none.
LEMMA CallersOwn ==
  ASSUME NEW limits, NEW rows, RowsOK(rows), NEW d, d # NoName, \E r \in rows : TRUE,
         \A r \in rows : Decides(r) = d
  PROVE  CallerLimits(limits, rows) = IF d \in DOMAIN limits THEN limits[d] ELSE NoLimits
<1> DEFINE defaults == {r.default : r \in rows} \ {NoName}
           permitted == UNION {r.qos : r \in rows}
           name == IF DefaultQos(rows) # NoName THEN DefaultQos(rows) ELSE Only(permitted)
<1>1. DefaultQos(rows) = Only(defaults)
  BY DEF DefaultQos
<1>2. \A x \in defaults : x = d
  BY DEF Decides
<1>3. CASE defaults # {}
  <2>1. d \in defaults
    BY <1>2, <1>3
  <2> HIDE DEF defaults
  <2>2. DefaultQos(rows) = d
    BY <1>1, <1>2, <2>1, OnlyOfOne
  <2> QED BY <2>2 DEF CallerLimits
<1>4. CASE defaults = {}
  <2>1. DefaultQos(rows) = NoName
    BY <1>1, <1>4, OnlyOfNone
  <2>2. ASSUME NEW r \in rows PROVE d \in r.qos /\ \A x \in r.qos : x = d
    <3>1. r.default = NoName
      BY <1>4
    <3>2. Only(r.qos) = d
      BY <3>1 DEF Decides
    <3>3. d \in r.qos /\ Cardinality(r.qos) = 1 /\ IsFiniteSet(r.qos)
      BY <3>2, OnlyIsIn DEF RowsOK
    <3>4. PICK x : r.qos = {x}
      BY <3>3, FS_Singleton
    <3> QED BY <3>3, <3>4
  <2>3. d \in permitted /\ \A x \in permitted : x = d
    BY <2>2
  <2> HIDE DEF permitted
  <2>4. Only(permitted) = d
    BY <2>3, OnlyOfOne
  <2> QED BY <2>1, <2>4 DEF CallerLimits, permitted
<1> QED BY <1>3, <1>4

\* Nothing is over no limits.
LEMMA NoLimitsBlockNothing ==
  ASSUME NEW s
  PROVE  Blockers(NoLimits, s) = {}
BY DEF Blockers, NoLimits, NoCaps, Exceeded

LEMMA NobodysLimits ==
  ASSUME NEW limits, NEW rows, rows = {} \/ DOMAIN limits = {}, NoName \notin DOMAIN limits
  PROVE  CallerLimits(limits, rows) = NoLimits
<1>1. CASE DOMAIN limits = {}
  BY <1>1 DEF CallerLimits
<1>2. CASE rows = {}
  <2> DEFINE defaults == {r.default : r \in rows} \ {NoName}
             permitted == UNION {r.qos : r \in rows}
  <2>1. defaults = {} /\ permitted = {}
    BY <1>2
  <2>2. DefaultQos(rows) = Only(defaults)
    BY DEF DefaultQos
  <2>3. DefaultQos(rows) = NoName /\ Only(permitted) = NoName
    BY <2>1, <2>2, OnlyOfNone
  <2> QED BY <2>3 DEF CallerLimits
<1> QED BY <1>1, <1>2

LEMMA ReadSets ==
  /\ DOMAIN LimitsRead = IF case.unlisted THEN {} ELSE DOMAIN case.published
  /\ \A name \in DOMAIN LimitsRead : LimitsRead[name] = ReadLimits(case.published[name])
BY DEF LimitsRead

LEMMA GrantsAreRows ==
  ASSUME NEW a
  PROVE  Grants(a) \subseteq case.rows
BY DEF Grants

LEMMA AtMostOne ==
  ASSUME NEW a, NEW b, NEW D, Cardinality({a, b} \cap D) <= 1, NEW x \in {a, b} \cap D, NEW y \in {a, b} \cap D
  PROVE  x = y
<1> SUFFICES ASSUME x # y PROVE FALSE
  OBVIOUS
<1>1. {a, b} \cap D = {x} \cup {y}
  OBVIOUS
<1>2. IsFiniteSet({x}) /\ Cardinality({x}) = 1
  BY FS_Singleton
<1>3. Cardinality({x} \cup {y}) = 2
  BY <1>2, FS_AddElement
<1> QED BY <1>1, <1>3

-----------------------------------------------------------------------------
(* Ceilings that bind, and ceilings that were checked.                     *)

\* The limit set that is checked when the control plane's choice is e.
Checked(e) == LimitsFor(LimitsRead, case.rows, case.identified, case.limitSet, case.qos, e)

\* Associations that all decide the same leave the job that QOS.
LEMMA SaidByAll ==
  ASSUME case \in Cases, case.rows # {}, case.qos = NoName, \A r, s \in case.rows : Decides(r) = Decides(s),
         NEW q \in JobQos
  PROVE  \A r \in case.rows : Decides(r) = q
<1>1. PICK a \in Candidates : q \in {Decides(r) : r \in Grants(a)}
  BY DEF JobQos
<1>2. PICK r \in Grants(a) : q = Decides(r)
  BY <1>1
<1> QED BY <1>2, GrantsAreRows

\* Where the binding ceilings are known, the one set that binds is the one that
\* is checked.
LEMMA CheckedBinds ==
  ASSUME Inv, answer # Unread, CeilingKnown(answer), ~case.unlisted,
         NEW qos \in RunsUnder(answer), NEW name \in BoundBy(qos)
  PROVE  Checked(answer.verdict.effective) = ReadLimits(case.published[name])
<1> DEFINE D == DOMAIN case.published
           e == answer.verdict.effective
           l == Checked(e)
<1>1. /\ case \in Cases /\ NoName \notin D /\ RowsOK(case.rows)
      /\ DOMAIN LimitsRead = D /\ \A n \in D : LimitsRead[n] = ReadLimits(case.published[n])
  BY CaseFacts, ReadSets DEF Inv, Given
<1>2. /\ e \in D => l = LimitsRead[e]
      /\ e \notin D /\ case.qos \in D => l = LimitsRead[case.qos]
      /\ e \notin D /\ case.qos \notin D /\ case.limitSet \in D => l = LimitsRead[case.limitSet]
      /\ e \notin D /\ case.qos \notin D /\ case.limitSet \notin D /\ Here \notin D =>
           l = IF case.qos # NoName \/ ~case.identified THEN NoLimits ELSE CallerLimits(LimitsRead, case.rows)
  BY <1>1, LimitsByName DEF Checked
<1>3. /\ Here \in D => case.limitSet = Here
      /\ e # NoName \/ case.qos # NoName \/ case.rows = {}
         \/ (case.identified /\ \A r, s \in case.rows : Decides(r) = Decides(s))
      /\ \A q \in JobQos : Cardinality(BoundBy(q)) <= 1
  BY DEF CeilingKnown
<1>4. name \in D /\ (name = case.limitSet \/ name = qos)
  BY DEF BoundBy
<1>5. e # NoName => e \in JobQos /\ qos = e /\ (case.qos # NoName => e = case.qos)
  <2> HAVE e # NoName
  <2>1. e \in Chosen
    <3>1. CASE \E start : \E c \in Chosen : answer.verdict = Accepted(start, c)
      BY <3>1 DEF Accepted
    <3>2. CASE answer.verdict = NoVerdict \/ answer.verdict.effective = NoName
      BY <3>2, PlacementAssumption DEF NoVerdict
    <3> QED BY <3>1, <3>2, AnsweredVerdict
  <2> QED BY <1>1, <2>1, ChosenIsOfTheJob DEF RunsUnder
<1>6. qos \in JobQos
  BY <1>5 DEF RunsUnder
<1>7. ASSUME NEW x \in {case.limitSet, qos} \cap D PROVE x = name
  <2>1. Cardinality({case.limitSet, qos} \cap D) <= 1
    BY <1>3, <1>6 DEF BoundBy
  <2>2. name \in {case.limitSet, qos} \cap D
    BY <1>4
  <2>3. x \in {case.limitSet, qos} \cap D
    OBVIOUS
  <2> HIDE DEF D
  <2> QED BY <2>1, <2>2, <2>3, AtMostOne
<1> SUFFICES l = ReadLimits(case.published[name])
  OBVIOUS
<1> HIDE DEF D, e, l
<1>8. CASE e # NoName
  <2>1. CASE e \in D
    <3>1. e = name
      BY <1>5, <1>7, <1>8, <2>1
    <3> QED BY <1>1, <1>2, <2>1, <3>1
  <2>2. CASE e \notin D
    <3>1. name = case.limitSet /\ case.qos \notin D
      BY <1>1, <1>4, <1>5, <1>8, <2>2
    <3> QED BY <1>1, <1>2, <1>4, <2>2, <3>1
  <2> QED BY <2>1, <2>2
<1>9. CASE e = NoName /\ case.qos # NoName
  <2>1. qos = case.qos
    BY <1>6, <1>9 DEF JobQos
  <2> QED BY <1>1, <1>2, <1>4, <1>7, <1>9, <2>1
<1>10. CASE e = NoName /\ case.qos = NoName /\ (case.rows = {} \/ case.limitSet \in D)
  <2>1. case.rows = {} => qos = NoName
    BY <1>6, <1>10 DEF JobQos
  <2> QED BY <1>1, <1>2, <1>4, <1>7, <1>10, <2>1
<1>11. CASE e = NoName /\ case.qos = NoName /\ case.rows # {} /\ case.limitSet \notin D
  <2>1. case.identified /\ name = qos /\ Here \notin D /\ qos # NoName
    BY <1>1, <1>3, <1>4, <1>11
  <2>2. \A r \in case.rows : Decides(r) = qos
    BY <1>1, <1>3, <1>6, <1>11, SaidByAll
  <2>3. l = CallerLimits(LimitsRead, case.rows)
    BY <1>1, <1>2, <1>11, <2>1
  <2>4. CallerLimits(LimitsRead, case.rows) = LimitsRead[qos]
    BY <1>1, <1>4, <1>11, <2>1, <2>2, CallersOwn
  <2> QED BY <1>1, <1>4, <2>1, <2>3, <2>4
<1> QED BY <1>8, <1>9, <1>10, <1>11

\* What is answered of the ceilings.
LEMMA AnsweredCeilings ==
  ASSUME Inv, answer # Unread
  PROVE  /\ answer.soft <=> (Exceeded(case.caps, shape) \cup Blockers(Checked(answer.verdict.effective), shape) # {})
         /\ answer.unchecked <=> (Checked(answer.verdict.effective).unreadable # {})
         /\ answer.fatal = Operational(nodesRead) \cup Access
<1>1. PICK all \in BOOLEAN : \E v \in Verdicts(Assessed, all) :
        answer = Judgement(Assessed, all, v) /\ answer.verdict.effective = v.effective
  BY AnsweredVerdict
<1>2. PICK v \in Verdicts(Assessed, all) :
        answer = Judgement(Assessed, all, v) /\ answer.verdict.effective = v.effective
  BY <1>1
<1>3. Checked(answer.verdict.effective) =
        LimitsFor(LimitsRead, case.rows, case.identified, case.limitSet, case.qos, v.effective)
  BY <1>2 DEF Checked
<1>4. answer.fatal = Operational(nodesRead) \cup Access
  BY JudgedAs
<1>5. answer.soft <=> (Exceeded(case.caps, shape) \cup Blockers(Checked(answer.verdict.effective), shape) # {})
  BY <1>2, <1>3, JudgementFields
<1>6. answer.unchecked <=> (Checked(answer.verdict.effective).unreadable # {})
  BY <1>2, <1>3, JudgementFields
<1> QED BY <1>4, <1>5, <1>6

LEMMA UnderTheCeilings ==
  ASSUME Inv, answer # Unread, Label(answer) = "RUN NOW", CeilingKnown(answer), ~case.unlisted,
         ~answer.unchecked, NEW qos \in RunsUnder(answer)
  PROVE  ~OverCeiling(qos)
<1>1. /\ case \in Cases /\ ShapeOK(shape) /\ \A n \in DOMAIN case.published : PublishedOK(case.published[n])
  BY CaseFacts DEF Inv, Given
<1>2. ~answer.soft
  BY RunNow
<1>3. Exceeded(case.caps, shape) = {} /\ Blockers(Checked(answer.verdict.effective), shape) = {}
  BY <1>2, AnsweredCeilings
<1>4. Checked(answer.verdict.effective).unreadable = {}
  BY AnsweredCeilings
<1>5. ASSUME NEW name \in BoundBy(qos), Over(case.published[name], shape) PROVE FALSE
  <2>1. Checked(answer.verdict.effective) = ReadLimits(case.published[name])
    BY CheckedBinds
  <2>2. name \in DOMAIN case.published /\ Legible(case.published[name])
    BY DEF BoundBy, CeilingKnown
  <2>3. ReadRight(case.published[name], shape)
    BY <1>1, <2>2, LimitSetsAreRead
  <2> QED BY <1>3, <1>4, <1>5, <2>1, <2>3 DEF ReadRight
<1> QED BY <1>3, <1>5 DEF OverCeiling

LEMMA FitsNow ==
  ASSUME Inv
  PROVE  FitsNowIsAFact
BY RoomWhereItFits, UnderTheCeilings DEF FitsNowIsAFact

-----------------------------------------------------------------------------
(* Whom the queue takes is told so.                                        *)

\* Where the choice of QOS is made, the job runs under one.
LEMMA DecidedQos ==
  ASSUME case \in Cases, QosDecided
  PROVE  /\ JobQos # {}
         /\ case.rows # {} /\ case.qos = NoName /\ (\A r, s \in case.rows : Decides(r) = Decides(s)) =>
              \E d \in JobQos : d # NoName /\ \A r \in case.rows : Decides(r) = d
<1>1. CASE case.rows = {} \/ case.qos # NoName
  BY <1>1 DEF JobQos
<1>2. CASE case.rows # {} /\ case.qos = NoName
  <2>1. PICK a \in Candidates : \E r \in Grants(a) :
          r.default # NoName \/ (case.identified /\ Cardinality(r.qos) = 1)
    BY <1>2 DEF QosDecided
  <2>2. PICK r \in Grants(a) : r.default # NoName \/ (case.identified /\ Cardinality(r.qos) = 1)
    BY <2>1
  <2>3. Decides(r) \in JobQos /\ r \in case.rows
    BY <1>2, <2>1, <2>2, GrantsAreRows DEF JobQos
  <2>4. Decides(r) # NoName
    <3>1. CASE r.default # NoName
      BY <3>1 DEF Decides
    <3>2. CASE r.default = NoName
      <4>1. Only(r.qos) = CHOOSE x \in r.qos : TRUE
        BY <2>2, <3>2 DEF Only
      <4>2. r.qos # {} /\ NoName \notin r.qos
        BY <2>3, CaseFacts DEF RowsOK
      <4> QED BY <3>2, <4>1, <4>2 DEF Decides
    <3> QED BY <3>1, <3>2
  <2> QED BY <2>3, <2>4
<1> QED BY <1>1, <1>2

\* The limit set that is checked is one that binds, or there is none.
LEMMA NobodyElsesCeiling ==
  ASSUME Inv, answer # Unread, QosDecided, CeilingKnown(answer), ChosenIsPublished(answer)
  PROVE  LET l == Checked(answer.verdict.effective)
         IN  \/ l = NoLimits
             \/ \E q \in JobQos : \E name \in BoundBy(q) : l = ReadLimits(case.published[name])
<1> DEFINE D == DOMAIN case.published
           R == DOMAIN LimitsRead
           e == answer.verdict.effective
           l == Checked(e)
           Bound(n) == \E q \in JobQos : n \in BoundBy(q)
<1>1. /\ case \in Cases /\ NoName \notin D /\ RowsOK(case.rows)
      /\ R \subseteq D /\ (R # {} => R = D) /\ \A n \in R : LimitsRead[n] = ReadLimits(case.published[n])
  BY CaseFacts, ReadSets DEF Inv, Given
<1>2. /\ e \in R => l = LimitsRead[e]
      /\ e \notin R /\ case.qos \in R => l = LimitsRead[case.qos]
      /\ e \notin R /\ case.qos \notin R /\ case.limitSet \in R => l = LimitsRead[case.limitSet]
      /\ e \notin R /\ case.qos \notin R /\ case.limitSet \notin R /\ Here \in R => l = LimitsRead[Here]
      /\ e \notin R /\ case.qos \notin R /\ case.limitSet \notin R /\ Here \notin R =>
           l = IF case.qos # NoName \/ ~case.identified THEN NoLimits ELSE CallerLimits(LimitsRead, case.rows)
  BY LimitsByName DEF Checked
<1>3. /\ Here \in D => case.limitSet = Here
      /\ e # NoName \/ case.qos # NoName \/ case.rows = {}
         \/ (case.identified /\ \A r, s \in case.rows : Decides(r) = Decides(s))
      /\ e = NoName \/ e \in D \/ case.qos # NoName \/ case.limitSet \in D
         \/ \A r, s \in case.rows : Decides(r) = Decides(s)
  BY DEF CeilingKnown, ChosenIsPublished
<1>4. e # NoName => e \in JobQos
  <2> HAVE e # NoName
  <2>1. e \in Chosen
    <3>1. CASE \E start : \E c \in Chosen : answer.verdict = Accepted(start, c)
      BY <3>1 DEF Accepted
    <3>2. CASE answer.verdict = NoVerdict \/ answer.verdict.effective = NoName
      BY <3>2, PlacementAssumption DEF NoVerdict
    <3> QED BY <3>1, <3>2, AnsweredVerdict
  <2> QED BY <1>1, <2>1, ChosenIsOfTheJob
<1>5. PICK any \in JobQos : TRUE
  BY <1>1, DecidedQos
<1>6. /\ \A n \in JobQos \cap D : Bound(n)
      /\ case.limitSet \in D => Bound(case.limitSet)
      /\ case.qos # NoName => case.qos \in JobQos
  BY <1>5 DEF BoundBy, JobQos
<1>7. SUFFICES l = NoLimits \/ \E n \in R : Bound(n) /\ l = ReadLimits(case.published[n])
  OBVIOUS
<1> HIDE DEF D, R, e, l, Bound
<1>8. CASE e \in R \/ case.qos \in R \/ case.limitSet \in R \/ Here \in R
  <2>1. CASE e \in R
    BY <1>1, <1>2, <1>4, <1>6, <2>1
  <2>2. CASE e \notin R /\ case.qos \in R
    BY <1>1, <1>2, <1>6, <2>2
  <2>3. CASE e \notin R /\ case.qos \notin R /\ (case.limitSet \in R \/ Here \in R)
    <3>1. case.limitSet \in R
      BY <1>1, <1>3, <2>3
    <3> QED BY <1>1, <1>2, <1>6, <2>3, <3>1
  <2> QED BY <1>8, <2>1, <2>2, <2>3
<1>9. CASE ~ (e \in R \/ case.qos \in R \/ case.limitSet \in R \/ Here \in R)
  <2>1. CASE case.qos # NoName \/ ~case.identified
    BY <1>2, <1>9, <2>1
  <2>2. CASE case.qos = NoName /\ case.identified /\ (case.rows = {} \/ R = {})
    <3>1. CallerLimits(LimitsRead, case.rows) = NoLimits
      BY <1>1, <2>2, NobodysLimits DEF R
    <3> QED BY <1>2, <1>9, <2>2, <3>1
  <2>3. CASE case.qos = NoName /\ case.identified /\ case.rows # {} /\ R # {}
    <3>1. R = D /\ \A r, s \in case.rows : Decides(r) = Decides(s)
      BY <1>1, <1>3, <1>9, <2>3
    <3>2. PICK d \in JobQos : d # NoName /\ \A r \in case.rows : Decides(r) = d
      BY <1>1, <2>3, <3>1, DecidedQos
    <3>3. CallerLimits(LimitsRead, case.rows) = IF d \in R THEN LimitsRead[d] ELSE NoLimits
      BY <1>1, <2>3, <3>2, CallersOwn DEF R
    <3> QED BY <1>1, <1>2, <1>6, <1>9, <2>3, <3>1, <3>3
  <2> QED BY <2>1, <2>2, <2>3
<1> QED BY <1>8, <1>9

LEMMA TakersReach ==
  ASSUME Inv, answer # Unread, Welcome
  PROVE  Reachable(answer) \/ ReadAsDenied(answer.verdict)
<1>1. /\ case \in Cases /\ ShapeOK(shape) /\ \A n \in DOMAIN case.published : PublishedOK(case.published[n])
  BY CaseFacts DEF Inv, Given
<1>2. /\ case.entitled /\ (case.declared \/ ~case.identified) /\ Operational(nodesRead) = {} /\ QosDecided
      /\ CeilingKnown(answer) /\ ChosenIsPublished(answer) /\ \A qos \in JobQos : ~OverCeiling(qos)
  BY DEF Welcome
<1>3. answer.fatal = {}
  <2>1. Access = {}
    BY <1>2 DEF Access
  <2> QED BY <1>2, <2>1, AnsweredCeilings
<1>4. ~answer.soft
  <2>1. Exceeded(case.caps, shape) = {}
    BY <1>1, <1>2, DecidedQos DEF OverCeiling
  <2>2. Blockers(Checked(answer.verdict.effective), shape) = {}
    <3>1. CASE Checked(answer.verdict.effective) = NoLimits
      BY <3>1, NoLimitsBlockNothing
    <3>2. ASSUME NEW q \in JobQos, NEW name \in BoundBy(q),
                 Checked(answer.verdict.effective) = ReadLimits(case.published[name])
          PROVE  Blockers(Checked(answer.verdict.effective), shape) = {}
      <4>1. name \in DOMAIN case.published /\ Legible(case.published[name])
        BY <1>2, <3>2 DEF BoundBy, CeilingKnown
      <4>2. ReadRight(case.published[name], shape)
        BY <1>1, <4>1, LimitSetsAreRead
      <4>3. ~Over(case.published[name], shape)
        BY <1>2, <3>2 DEF OverCeiling
      <4> QED BY <3>2, <4>2, <4>3 DEF ReadRight
    <3> QED BY <1>2, <3>1, <3>2, NobodyElsesCeiling
  <2> QED BY <2>1, <2>2, AnsweredCeilings
<1>5. Durable(answer.verdict) => answer.verdict.allowed \/ ReadAsDenied(answer.verdict)
  <2> HAVE Durable(answer.verdict)
  <2>1. Taken # {}
    BY <1>1, <1>2, DecidedIsTaken
  <2>2. CASE \E start : \E c \in Chosen : answer.verdict = Accepted(start, c)
    BY <2>2 DEF Accepted
  <2>3. answer.verdict # NoVerdict
    BY DEF Durable
  <2>4. ASSUME NEW all \in BOOLEAN, NEW why \in Categories, all, Known, answer.verdict.category = why,
               why \notin Transient, DueTo(why, all)
        PROVE  ReadAsDenied(answer.verdict)
    <3>1. why \notin {"CONTROL_PLANE_DOWN", "UNKNOWN", "SHAPE_UNAVAILABLE"}
      BY <2>4 DEF Transient
    <3>2. case.by = "kubernetes" /\ why = "NOT_ENTITLED"
      BY <1>2, <2>1, <2>4, <3>1 DEF DueTo
    <3> QED BY <2>4, <3>2 DEF ReadAsDenied
  <2> QED BY <2>2, <2>3, <2>4, AnsweredVerdict
<1> QED BY <1>3, <1>4, <1>5 DEF Reachable

LEMMA TakersAreTold ==
  ASSUME Inv
  PROVE  TakersAreReachable
<1> SUFFICES ASSUME answer # Unread
             PROVE  /\ (Welcome => Reachable(answer) \/ ReadAsDenied(answer.verdict))
                    /\ (Welcome /\ started /\ CardsSaid /\ case.lost \in {{}, Nodes}
                        => WhereStatus(answer) = 0 \/ ReadAsDenied(answer.verdict))
                    /\ (Confirmed(answer) => case.entitled)
  BY DEF TakersAreReachable
<1>1. Welcome => Reachable(answer) \/ ReadAsDenied(answer.verdict)
  BY TakersReach
<1>2. ASSUME Welcome, started, CardsSaid, case.lost \in {{}, Nodes}
      PROVE  WhereStatus(answer) = 0 \/ ReadAsDenied(answer.verdict)
  BY <1>1, <1>2, StartedIsPossible DEF WhereStatus, Listed, Reachable
<1>3. ASSUME Confirmed(answer) PROVE case.entitled
  <2>1. answer.verdict.allowed
    BY <1>3 DEF Confirmed
  <2>2. answer.verdict # NoVerdict
    BY <2>1 DEF NoVerdict
  <2> QED BY <2>1, <2>2, AnsweredVerdict
<1> QED BY <1>1, <1>2, <1>3

-----------------------------------------------------------------------------
(* What was judged is of what was read.                                    *)

LEMMA EarliestIsAnEnd ==
  ASSUME Inv, answer # Unread, answer.cap.earliest # Never
  PROVE  answer.cap.earliest \in {w.end : w \in Work}
<1> DEFINE C == Assessed.capable
           fit == Cardinality(Assessed.fitting)
           t == Assessed.earliest
<1>1. answer.cap = Assessed /\ freeRead # Unread
  BY JudgedAs
<1>2. t # Never /\ t = EarliestNeeded(freeRead, C, fit, Request)
  BY <1>1, AssessedSets
<1>3. PICK J \in SUBSET Work : freeRead = FreeTimesOf(J)
  BY <1>1 DEF Inv, FreeOnceRead
<1>4. \A n \in C \cap DOMAIN freeRead : freeRead[n] \in Nat
  BY <1>3, FreeWhenTheLastEnds
<1> HIDE DEF t, C, fit
<1>5. EarliestOf(freeRead, C, Request.nodes - fit) # Never /\ t = EarliestOf(freeRead, C, Request.nodes - fit)
  BY <1>2 DEF EarliestNeeded
<1>6. PICK n \in C \cap DOMAIN freeRead : t = freeRead[n]
  BY <1>4, <1>5, EarliestIsATime
<1>7. \E j \in J : t = j.end
  BY <1>3, <1>6, FreeWhenTheLastEnds
<1> QED BY <1>1, <1>3, <1>7 DEF t

LEMMA Typed ==
  ASSUME Inv
  PROVE  TypeOK
<1>1. /\ case \in Cases /\ clock \in 0 .. MaxClock /\ up \subseteq Nodes
      /\ jobs \subseteq Work /\ disturbed \in BOOLEAN /\ started \in BOOLEAN
      /\ \A n \in Nodes : Fits(jobs, n, 0, 0, 0)
  BY DEF Inv, Given, Snapshot
<1>2. ASSUME answer # Unread
      PROVE  /\ answer.cap.fitting \subseteq answer.cap.hardware
             /\ answer.cap.capable \subseteq answer.cap.hardware \ answer.cap.fitting
  <2>1. answer.cap = Assessed
    BY <1>2, JudgedAs
  <2>2. Assessed.fitting \subseteq Assessed.hardware
    BY AssessedSets DEF NodeFits
  <2>3. Assessed.capable \subseteq Assessed.hardware \ Assessed.fitting
    BY AssessedSets
  <2> QED BY <2>1, <2>2, <2>3
<1>3. ASSUME answer # Unread, answer.verdict # NoVerdict
      PROVE  answer.verdict.category \in Categories
  <2>1. CASE \E start : \E e \in Chosen : answer.verdict = Accepted(start, e)
    BY <2>1 DEF Accepted, Categories
  <2> QED BY <1>3, <2>1, AnsweredVerdict
<1> QED BY <1>1, <1>2, <1>3, EarliestIsAnEnd DEF TypeOK

-----------------------------------------------------------------------------
(* The theorems.                                                           *)

\* The scheduler never hands out more than there is, and what the reader is told
\* of a queue is of the nodes that were read (core/fit.py evaluate).
THEOREM TypeCorrect ==
  Spec => []TypeOK
<1>1. Inv => TypeOK
  BY Typed
<1> QED BY <1>1, Inductive, PTL

\* While the cluster is as it was read, RUN NOW is true of the nodes and of the
\* ceilings: there are enough nodes on which the scheduler would start the job,
\* and no ceiling that binds it is exceeded (core/fit.py, core/capacity.py).
THEOREM FitsNowIsTrue ==
  Spec => []FitsNowIsAFact
<1>1. Inv => FitsNowIsAFact
  BY FitsNow
<1> QED BY <1>1, Inductive, PTL

\* A job whose queue was told to have the wrong hardware, or too few nodes of the
\* right kind, is never started there, however the cluster goes on.
THEOREM WrongHardwareStays ==
  Spec => []WrongHardwareIsForever
<1>1. Inv => WrongHardwareIsForever
  BY WrongHardware
<1> QED BY <1>1, Inductive, PTL

\* A dry-run is withheld on account of the hardware only where the job is never
\* started (core/fit.py evaluate).
THEOREM WithheldIsHopeless ==
  Spec => []WithheldOnlyWhereHopeless
<1>1. Inv => WithheldOnlyWhereHopeless
  BY Withheld
<1> QED BY <1>1, Inductive, PTL

\* If nobody else comes and no node leaves, the job fits when the estimate said it
\* would at the earliest (core/capacity.py assess_capacity).
THEOREM EarliestHolds ==
  Spec => []EarliestIsReached
<1>1. Inv => EarliestIsReached
  BY RoomAtTheEarliest
<1> QED BY <1>1, Inductive, PTL

\* A caller whom the queue takes is not told otherwise, and one who is told that
\* the queue takes them is taken (core/fit.py evaluate, core/model.py Verdict).
THEOREM TakersAreHeard ==
  Spec => []TakersAreReachable
<1>1. Inv => TakersAreReachable
  BY TakersAreTold
<1> QED BY <1>1, Inductive, PTL
=============================================================================
