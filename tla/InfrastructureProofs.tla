-------------------------- MODULE InfrastructureProofs ---------------------------
(*****************************************************************************)
(* What holds of Infrastructure for all scenes, requests and failures.       *)
(*                                                                           *)
(* A request only moves itself (StepMoves), so that what is said of one is   *)
(* checked against its own steps.  Merging contexts by their weights gives   *)
(* each setting that of the heaviest one, by induction over the order of the *)
(* merge (MergedIs, OneMore).  A comparison of two configurations says what  *)
(* their sections say: the walk over the lines keeps what stands under the   *)
(* head that is open (WalkIs, SectionIs, CompareIs).  A replacement shows    *)
(* what it has done, which stays done while others write the same, and what  *)
(* it has read is still there (DoneKept, StillRead).  As the library has no  *)
(* induction that can be instantiated here, both go through the least place  *)
(* where a claim would fail (Least, UpToAll).                                *)
(*****************************************************************************)
EXTENDS Infrastructure, TLAPS, SequenceTheorems, FiniteSetTheorems, WellFoundedInduction

\* A set of natural numbers has a least element: of the intervals that end in
\* its members, one has no other as a proper subset.
LEMMA Least ==
  ASSUME NEW T, T \subseteq Nat, T # {}
  PROVE  \E x \in T : \A y \in T : x <= y
<1> DEFINE Intervals == {0..k : k \in T}
<1>1. Intervals \subseteq FiniteSubsetsOf(Nat) /\ Intervals # {}
  <2>1. \A k \in T : IsFiniteSet(0..k) /\ 0..k \subseteq Nat
    BY FS_Interval
  <2> QED  BY <2>1 DEF FiniteSubsetsOf
<1> HIDE DEF Intervals
<1>2. PICK X \in Intervals : \A Y \in Intervals : ~(<<Y, X>> \in StrictSubsetOrdering(Nat))
  BY <1>1, WFMin, FS_StrictSubsetOrderingWellFounded
<1>3. PICK x \in T : X = 0..x
  BY DEF Intervals
<1>4. ASSUME NEW y \in T, y < x  PROVE FALSE
  <2>1. 0..y \in Intervals /\ 0..y \subseteq 0..x /\ 0..y # 0..x
    BY <1>4 DEF Intervals
  <2> QED  BY <1>1, <1>2, <1>3, <2>1 DEF StrictSubsetOrdering, FiniteSubsetsOf
<1> QED  BY <1>4

\* A set that has zero, and with a number below n the next one, has all up to n.
LEMMA UpToAll ==
  ASSUME NEW n \in Nat, NEW K, 0 \in K, \A k \in 0..(n - 1) : k \in K => k + 1 \in K
  PROVE  \A k \in 0..n : k \in K
<1> DEFINE Out == {k \in 0..n : k \notin K}
<1>1. CASE Out = {}
  BY <1>1
<1>2. CASE Out # {}
  <2>1. Out \subseteq Nat
    OBVIOUS
  <2>2. PICK x \in Out : \A y \in Out : x <= y
    BY <1>2, <2>1, Least
  <2>3. x \in 1..n /\ x - 1 \notin Out
    BY <2>2
  <2>4. x - 1 \in 0..(n - 1) /\ x - 1 \in K
    BY <2>3
  <2> QED  BY <2>2, <2>4
<1> QED  BY <1>1, <1>2


-----------------------------------------------------------------------------
(* Places in a sequence *)

\* Counting some places up to each of them numbers them in their order.
LEMMA PlacesAreNumbered ==
  ASSUME NEW n \in Nat, NEW T, T \subseteq 1..n
  PROVE  /\ IsFiniteSet(T) /\ Cardinality(T) \in Nat
         /\ \A i \in T : UpTo(T, i) \in 1..Cardinality(T)
         /\ \A i, j \in T : i < j => UpTo(T, i) < UpTo(T, j)
         /\ \A k \in 1..Cardinality(T) : \E i \in T : UpTo(T, i) = k
<1> DEFINE Below(i) == {j \in T : j <= i}
<1>1. IsFiniteSet(T) /\ Cardinality(T) \in Nat
  BY FS_Interval, FS_Subset, FS_CardinalityType, 1 \in Int, n \in Int
<1>2. \A i \in T : IsFiniteSet(Below(i)) /\ Cardinality(Below(i)) \in 1..Cardinality(T)
  <2> TAKE i \in T
  <2>1. Below(i) \in SUBSET T /\ i \in Below(i)
    OBVIOUS
  <2> HIDE DEF Below
  <2>2. IsFiniteSet(Below(i)) /\ Cardinality(Below(i)) <= Cardinality(T)
    BY <1>1, <2>1, FS_Subset
  <2>3. Cardinality(Below(i)) \in Nat /\ Cardinality(Below(i)) # 0
    BY <2>1, <2>2, FS_CardinalityType, FS_EmptySet
  <2> QED  BY <1>1, <2>2, <2>3
<1>3. \A i, j \in T : i < j => Cardinality(Below(i)) < Cardinality(Below(j))
  <2> SUFFICES ASSUME NEW i \in T, NEW j \in T, i < j
               PROVE  Cardinality(Below(i)) < Cardinality(Below(j))
    OBVIOUS
  <2>1. Below(i) \in SUBSET Below(j) /\ j \in Below(j) /\ j \notin Below(i)
    <3>1. i \in Int /\ j \in Int /\ \A x \in T : x \in Int
      OBVIOUS
    <3>2. \A x \in T : x <= i => x <= j
      BY <3>1
    <3>3. j <= j /\ ~(j <= i)
      BY <3>1
    <3> QED  BY <3>2, <3>3
  <2>2. Below(i) # Below(j)
    BY <2>1
  <2> HIDE DEF Below
  <2>3. Cardinality(Below(i)) <= Cardinality(Below(j)) /\ Cardinality(Below(i)) # Cardinality(Below(j))
    BY <1>2, <2>1, <2>2, FS_Subset
  <2> QED  BY <1>2, <2>3
<1>4. \A k \in 1..Cardinality(T) : \E i \in T : Cardinality(Below(i)) = k
  <2> HIDE DEF Below
  <2> DEFINE count == [i \in T |-> Cardinality(Below(i))]
  <2>1. count \in Injection(T, 1..Cardinality(T))
    <3>1. count \in [T -> 1..Cardinality(T)]
      BY <1>2
    <3>2. \A i, j \in T : i # j => i < j \/ j < i
      OBVIOUS
    <3>3. \A i, j \in T : count[i] = count[j] => i = j
      BY <1>2, <1>3, <3>2
    <3> QED  BY <3>1, <3>3 DEF Injection, IsInjective
  <2>2. IsFiniteSet(1..Cardinality(T)) /\ Cardinality(1..Cardinality(T)) = Cardinality(T)
    BY <1>1, FS_Interval
  <2>3. count \in Surjection(T, 1..Cardinality(T))
    BY <2>1, <2>2, FS_Injection
  <2> QED  BY <2>3 DEF Surjection
<1> QED  BY <1>1, <1>2, <1>3, <1>4 DEF UpTo

\* Chosen has the elements at those places, each at its number.
LEMMA ChosenFacts ==
  ASSUME NEW M, NEW s \in Seq(M), NEW T, T \subseteq DOMAIN s
  PROVE  /\ Chosen(s, T) \in Seq(M)
         /\ \A i \in T : UpTo(T, i) \in DOMAIN Chosen(s, T) /\ Chosen(s, T)[UpTo(T, i)] = s[i]
         /\ \A i, j \in T : i < j => UpTo(T, i) < UpTo(T, j)
         /\ \A k \in DOMAIN Chosen(s, T) : \E i \in T : k = UpTo(T, i)
<1> DEFINE n == Cardinality(T)
           pick(k) == CHOOSE i \in T : UpTo(T, i) = k
<1>1. Len(s) \in Nat /\ DOMAIN s = 1..Len(s) /\ T \subseteq 1..Len(s)
  OBVIOUS
<1>2. /\ n \in Nat
      /\ \A i \in T : UpTo(T, i) \in 1..n
      /\ \A i, j \in T : i < j => UpTo(T, i) < UpTo(T, j)
      /\ \A k \in 1..n : \E i \in T : UpTo(T, i) = k
  BY <1>1, PlacesAreNumbered
<1>3. \A i, j \in T : UpTo(T, i) = UpTo(T, j) => i = j
  BY <1>1, <1>2
<1>4. \A i \in T : pick(UpTo(T, i)) = i
  BY <1>3
<1>5. \A k \in 1..n : pick(k) \in T
  BY <1>2
<1>6. Chosen(s, T) = [k \in 1..n |-> s[pick(k)]]
  BY DEF Chosen
<1>7. Chosen(s, T) \in [1..n -> M]
  BY <1>1, <1>5, <1>6
<1>8. Chosen(s, T) \in Seq(M) /\ DOMAIN Chosen(s, T) = 1..n
  BY <1>2, <1>6, <1>7, SeqDef
<1>9. \A i \in T : Chosen(s, T)[UpTo(T, i)] = s[i]
  BY <1>2, <1>4, <1>6
<1> QED  BY <1>2, <1>8, <1>9
-----------------------------------------------------------------------------
(* Contexts *)

LEMMA MergeFacts ==
  ASSUME NEW base, NEW override, NEW k
  PROVE  LET m == DeepMerge(base, override)
         IN /\ k \in DOMAIN m <=> k \in DOMAIN base \/ k \in DOMAIN override
            /\ k \in DOMAIN override \ DOMAIN base => m[k] = override[k]
            /\ k \in DOMAIN base \ DOMAIN override => m[k] = base[k]
            /\ k \in DOMAIN base \intersect DOMAIN override =>
                 m[k] = IF IsScalar(base[k]) \/ IsScalar(override[k]) THEN override[k] ELSE Over(override[k], base[k])
<1> DEFINE both == [x \in DOMAIN override \intersect DOMAIN base |->
                      IF IsScalar(base[x]) \/ IsScalar(override[x]) THEN override[x] ELSE Over(override[x], base[x])]
           rest == Over(override, base)
           m == DeepMerge(base, override)
<1>1. DOMAIN both = DOMAIN override \intersect DOMAIN base
      /\ \A x \in DOMAIN both : both[x] = IF IsScalar(base[x]) \/ IsScalar(override[x]) THEN override[x]
                                          ELSE Over(override[x], base[x])
  OBVIOUS
<1>2. m = Over(both, rest)
  BY DEF DeepMerge
<1> HIDE DEF both
<1>3. DOMAIN rest = DOMAIN override \union DOMAIN base
      /\ (\A x \in DOMAIN override : rest[x] = override[x])
      /\ (\A x \in DOMAIN base \ DOMAIN override : rest[x] = base[x])
  BY DEF Over
<1> HIDE DEF rest, m
<1>4. DOMAIN m = DOMAIN both \union DOMAIN rest
      /\ (\A x \in DOMAIN both : m[x] = both[x])
      /\ (\A x \in DOMAIN rest \ DOMAIN both : m[x] = rest[x])
  BY <1>2 DEF Over
<1>5. k \in DOMAIN override \ DOMAIN base => m[k] = override[k]
  BY <1>1, <1>3, <1>4
<1>6. k \in DOMAIN base \ DOMAIN override => m[k] = base[k]
  BY <1>1, <1>3, <1>4
<1>7. k \in DOMAIN m <=> k \in DOMAIN base \/ k \in DOMAIN override
  BY <1>1, <1>3, <1>4
<1>8. k \in DOMAIN base \intersect DOMAIN override => k \in DOMAIN both /\ m[k] = both[k]
  BY <1>1, <1>4
<1> QED  BY <1>1, <1>5, <1>6, <1>7, <1>8 DEF m

Applies(cc, data) == ContextMatches(cc, data) /\ cc.garbled # "data"

\* The merge of contexts is that of all but the last, and the last.
LEMMA MergedIs ==
  ASSUME NEW S, NEW order \in Seq(S), NEW data
  PROVE  \E f : /\ f[0] = <<>>
                /\ \A i \in 1..Len(order) :
                     f[i] = IF Applies(order[i], data) THEN DeepMerge(f[i - 1], order[i].data) ELSE f[i - 1]
                /\ MergedContexts(order, data) = f[Len(order)]
<1> DEFINE n == Len(order)
           Next1(i, x) == IF ContextMatches(order[i], data) /\ order[i].garbled # "data"
                          THEN DeepMerge(x, order[i].data) ELSE x
           Body(f, k) == [i \in 0..k |-> IF i = 0 THEN <<>> ELSE Next1(i, f[i - 1])]
           K == {k \in 0..n : \E f : f = Body(f, k)}
<1>1. n \in Nat
  OBVIOUS
<1> HIDE DEF Next1
<1>2. 0 \in K
  <2> DEFINE e == [i \in 0..0 |-> <<>>]
  <2>1. e = Body(e, 0)
    OBVIOUS
  <2> HIDE DEF e
  <2>2. 0 \in 0..n
    BY <1>1
  <2> QED  BY <2>1, <2>2
<1>3. ASSUME NEW k \in 0..(n - 1), k \in K  PROVE k + 1 \in K
  <2>1. PICK f : f = Body(f, k)
    BY <1>3
  <2>2. \A i \in 0..k : f[i] = IF i = 0 THEN <<>> ELSE Next1(i, f[i - 1])
    BY <2>1
  <2> DEFINE g == [i \in 0..(k + 1) |-> IF i <= k THEN f[i] ELSE Next1(i, f[i - 1])]
  <2>3. ASSUME NEW i \in 0..(k + 1)  PROVE g[i] = IF i = 0 THEN <<>> ELSE Next1(i, g[i - 1])
    <3>1. CASE i = 0
      BY <2>2, <3>1
    <3>2. CASE i \in 1..k
      <4>1. i \in 0..k /\ i <= k /\ i - 1 \in 0..(k + 1) /\ i - 1 <= k /\ i # 0
        BY <3>2
      <4>2. g[i] = f[i] /\ g[i - 1] = f[i - 1]
        BY <4>1
      <4> QED  BY <2>2, <4>1, <4>2
    <3>3. CASE i = k + 1
      <4>1. ~(i <= k) /\ i # 0 /\ i - 1 \in 0..(k + 1) /\ i - 1 <= k
        BY <3>3
      <4> QED  BY <4>1
    <3> QED  BY <3>1, <3>2, <3>3
  <2>4. g = Body(g, k + 1)
    <3>1. DOMAIN g = 0..(k + 1) /\ g = [i \in 0..(k + 1) |-> g[i]]
      OBVIOUS
    <3> HIDE DEF g
    <3> QED  BY <2>3, <3>1
  <2>5. k + 1 \in 0..n
    BY <1>1
  <2> HIDE DEF g
  <2> QED  BY <2>4, <2>5
<1>4. n \in K
  <2> HIDE DEF K
  <2>1. n \in 0..n
    BY <1>1
  <2> QED  BY <1>1, <1>2, <1>3, <2>1, UpToAll
<1> DEFINE m == CHOOSE f : f = Body(f, n)
<1>5. m = Body(m, n)
  BY <1>4
<1>6. MergedContexts(order, data) = m[n]
  BY DEF MergedContexts, Next1
<1> HIDE DEF m
<1>7. m[0] = <<>> /\ \A i \in 1..n : m[i] = Next1(i, m[i - 1])
  <2>1. DOMAIN m = 0..n /\ \A i \in 0..n : m[i] = IF i = 0 THEN <<>> ELSE Next1(i, m[i - 1])
    BY <1>5
  <2> QED  BY <1>1, <2>1
<1> QED  BY <1>6, <1>7 DEF Next1, Applies

\* The places up to i whose contexts apply and set a leaf.
Setters(order, data, i, k, p) ==
  {j \in 1..i : Applies(order[j], data) /\ k \in DOMAIN order[j].data /\ p \in DOMAIN order[j].data[k]}
Latest(order, data, i, v, k, p) ==
  Setters(order, data, i, k, p) # {} =>
    /\ k \in DOMAIN v /\ p \in DOMAIN v[k]
    /\ \E j \in Setters(order, data, i, k, p) :
         (\A h \in Setters(order, data, i, k, p) : h <= j) /\ v[k][p] = order[j].data[k][p]
SameKind(order, i, v, k) ==
  k \in DOMAIN v => \E j \in 1..i : k \in DOMAIN order[j].data /\ (IsScalar(v[k]) <=> IsScalar(order[j].data[k]))

LEMMA OneMore ==
  ASSUME NEW C, NEW order \in Seq(C), NEW data, NEW i \in 0..(Len(order) - 1), NEW v, NEW w, NEW k,
         \A cc \in C : WellFormed(cc), Uniform(C, data, k), SameKind(order, i, v, k),
         \A p : Latest(order, data, i, v, k, p),
         w = IF Applies(order[i + 1], data) THEN DeepMerge(v, order[i + 1].data) ELSE v
  PROVE  SameKind(order, i + 1, w, k) /\ \A p : Latest(order, data, i + 1, w, k, p)
<1> DEFINE last == order[i + 1]
           over == last.data
           Old(p) == Setters(order, data, i, k, p)
           New(p) == Setters(order, data, i + 1, k, p)
<1>1. Len(order) \in Nat /\ i + 1 \in 1..Len(order) /\ 1..i \subseteq 1..(i + 1) /\ 1..(i + 1) = 1..i \union {i + 1}
      /\ \A j \in 1..(i + 1) : order[j] \in C
  OBVIOUS
<1>2. \A p : New(p) = Old(p) \union (IF Applies(last, data) /\ k \in DOMAIN over /\ p \in DOMAIN over[k] THEN {i + 1} ELSE {})
  BY <1>1 DEF Setters
<1>3. \A p : Old(p) \subseteq 1..i
  BY DEF Setters
<1> HIDE DEF Old, New
<1>4. CASE ~(Applies(last, data) /\ k \in DOMAIN over)
  <2>1. (k \in DOMAIN w <=> k \in DOMAIN v) /\ (k \in DOMAIN v => w[k] = v[k])
    BY <1>4, MergeFacts
  <2>2. \A p : New(p) = Old(p)
    BY <1>2, <1>4
  <2>3. SameKind(order, i + 1, w, k)
    BY <1>1, <2>1 DEF SameKind
  <2>4. ASSUME NEW p  PROVE Latest(order, data, i + 1, w, k, p)
    <3>1. Latest(order, data, i, v, k, p) /\ New(p) = Old(p)
      BY <2>2
    <3>2. New(p) # {} => k \in DOMAIN v /\ p \in DOMAIN v[k]
             /\ \E j \in New(p) : (\A h \in New(p) : h <= j) /\ v[k][p] = order[j].data[k][p]
      BY <3>1 DEF Latest, Old
    <3>3. New(p) # {} => k \in DOMAIN w /\ p \in DOMAIN w[k]
             /\ \E j \in New(p) : (\A h \in New(p) : h <= j) /\ w[k][p] = order[j].data[k][p]
      BY <2>1, <3>2
    <3> QED  BY <3>3 DEF Latest, New
  <2> QED  BY <2>3, <2>4
<1>5. CASE Applies(last, data) /\ k \in DOMAIN over
  <2>1. w = DeepMerge(v, over)
    BY <1>5
  <2>2. /\ k \in DOMAIN w
        /\ k \notin DOMAIN v => w[k] = over[k]
        /\ k \in DOMAIN v => w[k] = IF IsScalar(v[k]) \/ IsScalar(over[k]) THEN over[k] ELSE Over(over[k], v[k])
    BY <1>5, <2>1, MergeFacts
  <2>3. last \in C /\ WellFormed(last)
    BY <1>1
  <2>4. \A j \in 1..(i + 1) : k \in DOMAIN order[j].data => (IsScalar(order[j].data[k]) <=> IsScalar(over[k]))
    BY <1>1, <1>5, <2>3 DEF Uniform
  <2>5. k \in DOMAIN v => (IsScalar(v[k]) <=> IsScalar(over[k]))
    BY <1>1, <2>4 DEF SameKind
  <2>6. IsScalar(w[k]) <=> IsScalar(over[k])
    <3>1. CASE k \in DOMAIN v /\ ~IsScalar(over[k])
      <4>1. w[k] = Over(over[k], v[k]) /\ ~IsScalar(v[k])
        BY <2>2, <2>5, <3>1
      <4>2. DOMAIN w[k] = DOMAIN over[k] \union DOMAIN v[k]
        BY <4>1 DEF Over
      <4> QED  BY <3>1, <4>1, <4>2 DEF IsScalar
    <3>2. CASE ~(k \in DOMAIN v /\ ~IsScalar(over[k]))
      BY <2>2, <3>2
    <3> QED  BY <3>1, <3>2
  <2>7. SameKind(order, i + 1, w, k)
    BY <1>1, <1>5, <2>6 DEF SameKind
  <2>8. \A p \in DOMAIN over[k] : p \in DOMAIN w[k] /\ w[k][p] = over[k][p]
    <3>1. CASE w[k] = over[k]
      BY <3>1
    <3>2. CASE w[k] = Over(over[k], v[k])
      BY <3>2 DEF Over
    <3> QED  BY <2>2, <3>1, <3>2
  <2>9. ASSUME NEW p  PROVE Latest(order, data, i + 1, w, k, p)
    <3>1. CASE p \in DOMAIN over[k]
      <4>1. i + 1 \in New(p) /\ \A h \in New(p) : h <= i + 1
        BY <1>1, <1>2, <1>3, <1>5, <3>1
      <4> QED  BY <2>2, <2>8, <3>1, <4>1 DEF Latest, New
    <3>2. CASE p \notin DOMAIN over[k]
      <4>1. New(p) = Old(p)
        BY <1>2, <3>2
      <4>2. ASSUME New(p) # {}  PROVE k \in DOMAIN v /\ p \in DOMAIN v[k] /\ w[k] = Over(over[k], v[k])
        <5>1. k \in DOMAIN v /\ p \in DOMAIN v[k]
          BY <4>1, <4>2 DEF Latest, Old
        <5>2. PICK j \in 1..i : k \in DOMAIN order[j].data /\ p \in DOMAIN order[j].data[k]
          BY <4>1, <4>2 DEF Old, Setters
        <5>3. IsScalar(over[k]) => p = "."
          <6>1. WellFormed(order[j]) /\ (IsScalar(order[j].data[k]) <=> IsScalar(over[k]))
            BY <1>1, <2>4, <5>2
          <6>2. IsScalar(over[k]) => DOMAIN order[j].data[k] = {"."}
            BY <5>2, <6>1 DEF WellFormed
          <6> QED  BY <5>2, <6>2
        <5>4. ~IsScalar(over[k])
          BY <3>2, <5>3 DEF IsScalar
        <5> QED  BY <2>2, <2>5, <5>1, <5>4
      <4>3. New(p) # {} => k \in DOMAIN w /\ p \in DOMAIN w[k] /\ w[k][p] = v[k][p]
        BY <2>2, <3>2, <4>2 DEF Over
      <4>4. New(p) # {} => \E j \in New(p) : (\A h \in New(p) : h <= j) /\ v[k][p] = order[j].data[k][p]
        BY <4>1 DEF Latest, Old
      <4>5. New(p) # {} => /\ k \in DOMAIN w /\ p \in DOMAIN w[k]
              /\ \E j \in New(p) : (\A h \in New(p) : h <= j) /\ w[k][p] = order[j].data[k][p]
        BY <4>3, <4>4
      <4> QED  BY <4>5 DEF Latest, New
    <3> QED  BY <3>1, <3>2
  <2> QED  BY <2>7, <2>9
<1> QED  BY <1>4, <1>5

LEMMA OrderFacts ==
  ASSUME NEW contexts, IsFiniteSet(contexts), NEW order \in ByWeight(contexts)
  PROVE  /\ order \in Seq(contexts) /\ Len(order) = Cardinality(contexts)
         /\ \A i, j \in 1..Len(order) : i < j => order[i].weight <= order[j].weight
         /\ \A cc \in contexts : \E i \in 1..Len(order) : order[i] = cc
<1> DEFINE n == Cardinality(contexts)
<1>1. n \in Nat
  BY FS_CardinalityType
<1>2. order \in [1..n -> contexts] /\ \A i, j \in 1..n : i < j => order[i] # order[j] /\ order[i].weight <= order[j].weight
  BY DEF ByWeight
<1>3. order \in Seq(contexts) /\ Len(order) = n
  BY <1>1, <1>2
<1>4. order \in Injection(1..n, contexts)
  <2>1. \A i, j \in 1..n : order[i] = order[j] => i = j
    <3> TAKE i, j \in 1..n
    <3>1. i < j \/ j < i \/ i = j
      BY <1>1
    <3> QED  BY <1>2, <3>1
  <2> QED  BY <1>2, <2>1 DEF Injection, IsInjective
<1>5. IsFiniteSet(1..n) /\ Cardinality(1..n) = n
  BY <1>1, FS_Interval
<1>6. order \in Surjection(1..n, contexts)
  BY <1>4, <1>5, FS_Injection
<1>7. \A cc \in contexts : \E i \in 1..n : order[i] = cc
  BY <1>6 DEF Surjection
<1> QED  BY <1>2, <1>3, <1>7

\* Contexts merged by weight give each leaf that of the heaviest one.
LEMMA MergedWins ==
  ASSUME NEW contexts, IsFiniteSet(contexts), \A cc \in contexts : WellFormed(cc), ~ScopeRaises(contexts),
         NEW order \in ByWeight(contexts), NEW data
  PROVE  HeaviestWins(MergedContexts(order, data), contexts, data)
<1> DEFINE n == Len(order)
<1>1. order \in Seq(contexts) /\ n \in Nat
  BY OrderFacts
<1>2. PICK f : /\ f[0] = <<>>
               /\ \A i \in 1..n : f[i] = IF Applies(order[i], data) THEN DeepMerge(f[i - 1], order[i].data) ELSE f[i - 1]
               /\ MergedContexts(order, data) = f[n]
  BY <1>1, MergedIs
<1> SUFFICES ASSUME NEW cc \in contexts, NEW k \in DOMAIN cc.data, NEW p \in DOMAIN cc.data[k],
                    Uniform(contexts, data, k), Setting(contexts, data, k, p) # {}
             PROVE  /\ k \in DOMAIN f[n] /\ p \in DOMAIN f[n][k]
                    /\ \E top \in Heaviest(Setting(contexts, data, k, p)) : f[n][k][p] = top.data[k][p]
  BY <1>2 DEF HeaviestWins
<1> DEFINE Good(i) == SameKind(order, i, f[i], k) /\ \A q : Latest(order, data, i, f[i], k, q)
           K == {i \in 0..n : Good(i)}
<1>3. 0 \in K
  <2>1. DOMAIN f[0] = {}
    BY <1>2
  <2>2. SameKind(order, 0, f[0], k)
    BY <2>1 DEF SameKind
  <2>3. ASSUME NEW q  PROVE Latest(order, data, 0, f[0], k, q)
    <3>1. Setters(order, data, 0, k, q) = {}
      BY DEF Setters
    <3> QED  BY <3>1 DEF Latest
  <2> QED  BY <1>1, <2>2, <2>3
<1>4. ASSUME NEW i \in 0..(n - 1), i \in K  PROVE i + 1 \in K
  <2>1. i + 1 \in 1..n /\ (i + 1) - 1 = i
    BY <1>1
  <2>2. f[i + 1] = IF Applies(order[i + 1], data) THEN DeepMerge(f[i], order[i + 1].data) ELSE f[i]
    BY <1>2, <2>1
  <2>3. SameKind(order, i, f[i], k) /\ \A q : Latest(order, data, i, f[i], k, q)
    BY <1>4
  <2>4. SameKind(order, i + 1, f[i + 1], k) /\ \A q : Latest(order, data, i + 1, f[i + 1], k, q)
    BY <1>1, <2>2, <2>3, OneMore
  <2> QED  BY <1>1, <2>1, <2>4
<1>5. n \in K
  <2> HIDE DEF K
  <2>1. n \in 0..n
    BY <1>1
  <2> QED  BY <1>1, <1>3, <1>4, <2>1, UpToAll
<1>6. Latest(order, data, n, f[n], k, p)
  BY <1>5
<1> DEFINE all == Setters(order, data, n, k, p)
           some == Setting(contexts, data, k, p)
<1>7. \A c \in contexts : c.garbled # "data" <=> c.garbled = ""
  BY DEF WellFormed, ScopeRaises
<1>8. \A c \in contexts : c \in some <=> Applies(c, data) /\ k \in DOMAIN c.data /\ p \in DOMAIN c.data[k]
  BY <1>7 DEF Setting, Applies, ContextMatches
<1>9. \A i \in 1..n : order[i] \in contexts /\ (i \in all <=> order[i] \in some)
  BY <1>1, <1>8 DEF Setters
<1>10. \A c \in some : \E i \in all : order[i] = c
  <2>1. some \subseteq contexts
    BY DEF Setting
  <2>2. \A c \in contexts : \E i \in 1..n : order[i] = c
    BY OrderFacts
  <2> HIDE DEF all, some
  <2> QED  BY <1>9, <2>1, <2>2
<1>11. all # {} /\ all \subseteq 1..n
  <2>1. all \subseteq 1..n
    BY DEF Setters
  <2> HIDE DEF all
  <2> QED  BY <1>10, <2>1
<1> HIDE DEF all, some
<1>12. PICK j \in all : (\A h \in all : h <= j) /\ f[n][k][p] = order[j].data[k][p]
  BY <1>6, <1>11 DEF Latest, all
<1>13. order[j] \in Heaviest(some)
  <2>1. order[j] \in some
    BY <1>9, <1>11
  <2>2. ASSUME NEW c \in some  PROVE c.weight <= order[j].weight
    <3>1. PICK h \in all : order[h] = c
      BY <1>10
    <3>2. h <= j /\ h \in 1..n /\ j \in 1..n
      BY <1>11, <1>12
    <3>3. CASE h = j
      <4>1. c \in contexts /\ c.weight \in Int
        BY <1>9, <3>1, <3>2 DEF WellFormed
      <4> QED  BY <3>1, <3>3, <4>1
    <3>4. CASE h # j
      <4>1. h < j
        BY <1>1, <3>2, <3>4
      <4> QED  BY <3>1, <3>2, <4>1, OrderFacts
    <3> QED  BY <3>3, <3>4
  <2> QED  BY <2>1, <2>2 DEF Heaviest
<1> QED  BY <1>6, <1>11, <1>12, <1>13 DEF Latest, all, some

-----------------------------------------------------------------------------
(* Steps of requests *)

Fields == {"context", "data", "before", "actual", "intended", "rules", "features",
           "device", "platform", "ifaces", "links", "rels", "mapping"}
Answer == {"status", "outcomes", "success", "shown"}
IsSequence(s) == \E S : s \in Seq(S)

\* What each request has, whatever it is.
Shape(r) == DOMAIN work[r] = Fields /\ DOMAIN report[r] = Answer /\ IsSequence(report[r].outcomes)
Frame ==
  /\ scene \in Scenes
  /\ DOMAIN pc = Requests /\ DOMAIN todo = Requests /\ DOMAIN work = Requests /\ DOMAIN report = Requests
  /\ \A r \in Requests : Shape(r)

\* A step of one request leaves the others where they are.
Moves(r) ==
  /\ DOMAIN pc' = Requests /\ DOMAIN todo' = Requests /\ DOMAIN work' = Requests /\ DOMAIN report' = Requests
  /\ \A q \in Requests \ {r} : pc'[q] = pc[q] /\ todo'[q] = todo[q] /\ work'[q] = work[q] /\ report'[q] = report[q]
  /\ Shape(r)'

LEMMA AppendFacts ==
  ASSUME NEW s, IsSequence(s), NEW x, NEW t, t = Append(s, x)
  PROVE  /\ IsSequence(t) /\ Len(s) \in Nat /\ DOMAIN s = 1..Len(s) /\ DOMAIN t = 1..(Len(s) + 1)
         /\ t[Len(s) + 1] = x /\ \A i \in 1..Len(s) : t[i] = s[i]
<1>1. PICK S : s \in Seq(S)
  BY DEF IsSequence
<1> DEFINE T == S \union {x}
<1>2. s \in Seq(T) /\ x \in T
  <2>1. Len(s) \in Nat /\ s \in [1..Len(s) -> S]
    BY <1>1
  <2>2. s \in [1..Len(s) -> T]
    BY <2>1
  <2> QED  BY <2>1, <2>2
<1> HIDE DEF T
<1>3. t \in Seq(T) /\ Len(t) = Len(s) + 1 /\ t[Len(s) + 1] = x /\ \A i \in 1..Len(s) : t[i] = s[i]
  BY <1>2
<1> QED  BY <1>2, <1>3 DEF IsSequence

LEMMA OutcomeMoves ==
  ASSUME Frame, NEW r \in Requests, NEW o, Outcome(r, o)
  PROVE  /\ Moves(r) /\ pc'[r] \in {"end", "device"} /\ work'[r] = Blank /\ report'[r].status = report[r].status
         /\ todo'[r] = Tail(todo[r]) /\ (pc'[r] = "end" <=> Len(todo[r]) = 1)
         /\ report'[r].outcomes = Append(report[r].outcomes, [o EXCEPT !.device = Device(r)])
<1> DEFINE x == [o EXCEPT !.device = Device(r)]
<1>1. /\ pc' = [pc EXCEPT ![r] = IF Len(todo[r]) = 1 THEN "end" ELSE "device"]
      /\ todo' = [todo EXCEPT ![r] = Tail(@)] /\ work' = [work EXCEPT ![r] = Blank]
      /\ report' = [report EXCEPT ![r].outcomes = Append(@, x)]
  BY DEF Outcome, Go, Learn
<1> HIDE DEF x
<1>2. DOMAIN Blank = Fields
  BY DEF Blank, Fields
<1>3. DOMAIN report[r] = Answer /\ IsSequence(report[r].outcomes)
  BY DEF Frame, Shape
<1>4. IsSequence(Append(report[r].outcomes, x))
  BY <1>3, AppendFacts
<1>5. DOMAIN report'[r] = Answer /\ report'[r].outcomes = Append(report[r].outcomes, x) /\ report'[r].status = report[r].status
  BY <1>1, <1>3 DEF Frame, Answer
<1> QED  BY <1>1, <1>2, <1>4, <1>5 DEF Frame, Moves, Shape, x

LEMMA ContinueMoves ==
  ASSUME Frame, NEW r \in Requests, NEW what, NEW next, DOMAIN what = Fields, Continue(r, what, next)
  PROVE  Moves(r) /\ pc'[r] = next /\ work'[r] = what /\ todo'[r] = todo[r] /\ report'[r] = report[r]
  BY DEF Continue, Go, Learn, Frame, Moves, Shape

LEMMA BeginMoves ==
  ASSUME Frame, NEW r \in Requests, Begin(r)
  PROVE  /\ Moves(r) /\ pc'[r] \in {"create", "source", "end", "device"} /\ work'[r] = work[r]
         /\ report'[r].outcomes = report[r].outcomes
<1>1. CASE ~Allowed(r)
  BY <1>1 DEF Begin, Go, Frame, Moves, Shape, Answer
<1>2. CASE Allowed(r)
  <2>1. FirstStep(r, Targets(r)) \in {"create", "source", "end", "device"}
    BY DEF FirstStep
  <2>2. pc' = [pc EXCEPT ![r] = FirstStep(r, Targets(r))] /\ todo' = [todo EXCEPT ![r] = Targets(r)]
        /\ report' = [report EXCEPT ![r].status = "ok"] /\ work' = work
    BY <1>2 DEF Begin, Go
  <2> QED  BY <2>1, <2>2 DEF Frame, Moves, Shape, Answer
<1> QED  BY <1>1, <1>2

LEMMA EndsMoves ==
  ASSUME Frame, NEW r \in Requests, NEW status, Ends(r, status)
  PROVE  /\ Moves(r) /\ pc'[r] = "end" /\ work'[r] = work[r] /\ report'[r].outcomes = report[r].outcomes
         /\ report'[r].status = status
  BY DEF Ends, Go, Frame, Moves, Shape, Answer

LEMMA GiveUpMoves ==
  ASSUME Frame, NEW r \in Requests, GiveUp(r)
  PROVE  Moves(r) /\ pc'[r] = "end" /\ work'[r] = work[r] /\ report'[r] = report[r]
  BY DEF GiveUp, Go, Frame, Moves, Shape

\* A call fails: the request ends, or a run goes on with its next device.
LEMMA FaultMoves ==
  ASSUME Frame, NEW r \in Requests, Fault(r)
  PROVE  \/ Outcome(r, Failed)
         \/ /\ Moves(r) /\ pc'[r] = "end" /\ work'[r] = work[r] /\ report'[r].outcomes = report[r].outcomes
            /\ report'[r].status \in {report[r].status, "error"}
<1>1. Outcome(r, Failed) \/ GiveUp(r) \/ Ends(r, "error")
  BY DEF Fault
<1> QED  BY <1>1, GiveUpMoves, EndsMoves

LEMMA WorkIs ==
  ASSUME Frame, NEW r \in Requests
  PROVE  DOMAIN work[r] = Fields
  BY DEF Frame, Shape

LEMMA CommandMoves ==
  ASSUME Frame, NEW r \in Requests, Create(r) \/ LinkRule(r)
  PROVE  Moves(r) /\ pc'[r] \in {"link", "end"}
  BY DEF Create, LinkRule, Go, Frame, Moves, Shape

LEMMA CheckMoves ==
  ASSUME Frame, NEW r \in Requests, CheckStep(r)
  PROVE  Moves(r)
<1>1. CASE CheckDevice(r)
  BY <1>1, OutcomeMoves, ContinueMoves, WorkIs DEF CheckDevice, Read
<1>2. CASE CheckBackup(r)
  <2>1. DOMAIN [work[r] EXCEPT !.actual = TextOf(backups, Device(r))] = Fields
    BY WorkIs
  <2> QED  BY <1>2, <2>1, ContinueMoves DEF CheckBackup
<1>3. CASE CheckIntended(r)
  <2> DEFINE text == TextOf(intended, Device(r))
             w == [work[r] EXCEPT !.intended = text]
  <2>1. DOMAIN w = Fields
    BY WorkIs
  <2>2. Continue(r, w, "rules") \/ Outcome(r, Failed)
    BY <1>3 DEF CheckIntended, Read
  <2> HIDE DEF w
  <2> QED  BY <2>1, <2>2, ContinueMoves, OutcomeMoves
<1>4. CASE CheckRules(r)
  <2>1. PICK q : Continue(r, [work[r] EXCEPT !.rules = q], "check") \/ Outcome(r, Failed)
    BY <1>4 DEF CheckRules, Read
  <2> DEFINE w == [work[r] EXCEPT !.rules = q]
  <2>2. DOMAIN w = Fields
    BY WorkIs
  <2> HIDE DEF w
  <2> QED  BY <2>1, <2>2, ContinueMoves, OutcomeMoves DEF w
<1>5. CASE CheckRule(r)
  <2>1. CASE \E o : Outcome(r, o)
    BY <2>1, OutcomeMoves
  <2>2. CASE \E rest, all : Learn(r, [work[r] EXCEPT !.rules = rest, !.features = all]) /\ UNCHANGED <<pc, todo, report>>
    <3>1. PICK rest, all : Learn(r, [work[r] EXCEPT !.rules = rest, !.features = all]) /\ UNCHANGED <<pc, todo, report>>
      BY <2>2
    <3> DEFINE w == [work[r] EXCEPT !.rules = rest, !.features = all]
    <3>2. DOMAIN w = Fields
      BY WorkIs
    <3>3. Learn(r, w)
      BY <3>1
    <3> HIDE DEF w
    <3> QED  BY <3>1, <3>2, <3>3 DEF Learn, Frame, Moves, Shape
  <2> QED  BY <1>5, <2>1, <2>2 DEF CheckRule
<1> QED  BY <1>1, <1>2, <1>3, <1>4, <1>5 DEF CheckStep

LEMMA SourceMoves ==
  ASSUME Frame, NEW r \in Requests, SourceStep(r)
  PROVE  Moves(r)
<1>1. CASE ReadSource(r)
  <2> DEFINE w == [work[r] EXCEPT !.device = devices[cmd(r).source], !.platform = PlatformOf(cmd(r).source)]
  <2>1. DOMAIN w = Fields
    BY WorkIs
  <2>2. GiveUp(r) \/ Continue(r, w, "ifaces")
    BY <1>1 DEF ReadSource
  <2> HIDE DEF w
  <2> QED  BY <2>1, <2>2, GiveUpMoves, ContinueMoves
<1>2. CASE ReadInterfaces(r)
  <2> DEFINE own == SetToSeq(InterfacesOf(cmd(r).source))
             w == [work[r] EXCEPT !.ifaces = [i \in DOMAIN own |-> ifaces[own[i]]]]
  <2>1. DOMAIN w = Fields
    BY WorkIs
  <2>2. Continue(r, w, "links")
    BY <1>2 DEF ReadInterfaces
  <2> HIDE DEF w
  <2> QED  BY <2>1, <2>2, ContinueMoves
<1>3. CASE ReadLinks(r)
  <2> DEFINE w == [work[r] EXCEPT !.links = SetToSeq(LinksOf(cmd(r).source))]
  <2>1. DOMAIN w = Fields
    BY WorkIs
  <2>2. Continue(r, w, "rels")
    BY <1>3 DEF ReadLinks
  <2> HIDE DEF w
  <2> QED  BY <2>1, <2>2, ContinueMoves
<1>4. CASE ReadRelations(r)
  <2> DEFINE w == [work[r] EXCEPT !.rels = SetToSeq(RelationsOf(cmd(r).source))]
  <2>1. DOMAIN w = Fields
    BY WorkIs
  <2>2. Continue(r, w, "destination")
    BY <1>4 DEF ReadRelations
  <2> HIDE DEF w
  <2> QED  BY <2>1, <2>2, ContinueMoves
<1> QED  BY <1>1, <1>2, <1>3, <1>4 DEF SourceStep

LEMMA ShownMoves ==
  ASSUME NEW r \in Requests, NEW x, NEW y, DOMAIN report = Requests, DOMAIN report[r] = Answer,
         report' = [report EXCEPT ![r].success = x, ![r].shown = y]
  PROVE  /\ DOMAIN report' = Requests /\ DOMAIN report'[r] = Answer /\ report'[r].outcomes = report[r].outcomes
         /\ \A q \in Requests \ {r} : report'[q] = report[q]
  BY DEF Answer

LEMMA WriteMoves ==
  ASSUME Frame, NEW r \in Requests, WriteStep(r)
  PROVE  Moves(r)
<1>1. CASE ReadDestination(r)
  BY <1>1, GiveUpMoves, ContinueMoves, WorkIs DEF ReadDestination
<1>2. CASE ReadMapping(r)
  <2>1. CASE GiveUp(r)
    BY <2>1, GiveUpMoves
  <2>2. CASE ~GiveUp(r)
    <3>1. PICK m : /\ Learn(r, [work[r] EXCEPT !.mapping = m])
                   /\ \/ /\ report' = [report EXCEPT ![r].success = TRUE, ![r].shown = Items(work[r], m)]
                         /\ Go(r, "end") /\ UNCHANGED todo
                      \/ todo' = [todo EXCEPT ![r] = Items(work[r], m)] /\ Go(r, "write") /\ UNCHANGED report
      BY <1>2, <2>2 DEF ReadMapping
    <3> DEFINE w == [work[r] EXCEPT !.mapping = m]
               its == Items(work[r], m)
    <3>2. DOMAIN w = Fields
      BY WorkIs
    <3>3. work' = [work EXCEPT ![r] = w]
      BY <3>1 DEF Learn
    <3>4. \/ report' = [report EXCEPT ![r].success = TRUE, ![r].shown = its] /\ Go(r, "end") /\ UNCHANGED todo
          \/ todo' = [todo EXCEPT ![r] = its] /\ Go(r, "write") /\ UNCHANGED report
      BY <3>1
    <3> HIDE DEF w, its
    <3>5. /\ DOMAIN report' = Requests /\ DOMAIN report'[r] = Answer /\ report'[r].outcomes = report[r].outcomes
          /\ \A q \in Requests \ {r} : report'[q] = report[q]
      BY <3>4, ShownMoves DEF Frame, Shape
    <3> QED  BY <3>2, <3>3, <3>4, <3>5 DEF Go, Frame, Moves, Shape
  <2> QED  BY <2>1, <2>2
<1>3. CASE Write(r)
  <2> DEFINE last == Len(todo[r]) = 1
             more == Append(report[r].shown, Head(todo[r]))
  <2>1. /\ todo' = [todo EXCEPT ![r] = Tail(@)]
        /\ pc' = [pc EXCEPT ![r] = IF last THEN "end" ELSE "write"]
        /\ work' = work
    BY <1>3 DEF Write, Go
  <2>2. report' = [report EXCEPT ![r].success = last, ![r].shown = Append(@, Head(todo[r]))]
    BY <1>3 DEF Write
  <2>3. \E x : report' = [report EXCEPT ![r].success = last, ![r].shown = x]
    <3> HIDE DEF last
    <3> QED  BY <2>2 DEF Frame, Shape, Answer
  <2> HIDE DEF last, more
  <2>4. /\ DOMAIN report' = Requests /\ DOMAIN report'[r] = Answer /\ report'[r].outcomes = report[r].outcomes
        /\ \A q \in Requests \ {r} : report'[q] = report[q]
    BY <2>3, ShownMoves DEF Frame, Shape
  <2> QED  BY <2>1, <2>4 DEF Frame, Moves, Shape
<1> QED  BY <1>1, <1>2, <1>3 DEF WriteStep

LEMMA ContextMoves ==
  ASSUME Frame, NEW r \in Requests, ContextStep(r) \/ RunRaises(r)
  PROVE  Moves(r)
<1>1. CASE \E status : Ends(r, status)
  BY <1>1, EndsMoves
<1>2. CASE ~\E status : Ends(r, status)
  <2>1. \/ \E x, y, next : Continue(r, [work[r] EXCEPT !.data = x, !.before = y], next)
        \/ \E x, next : Continue(r, [work[r] EXCEPT !.context = x], next)
    BY <1>2 DEF ContextStep, ContextDevice, ContextMerge, RunRaises
  <2> QED  BY <2>1, ContinueMoves, WorkIs
<1> QED  BY <1>1, <1>2

LEMMA StepMoves ==
  ASSUME Frame, NEW r \in Requests,
         \/ Begin(r) \/ RunRaises(r) \/ ContextStep(r) \/ CheckStep(r)
         \/ SourceStep(r) \/ WriteStep(r) \/ Create(r) \/ LinkRule(r) \/ Fault(r)
  PROVE  Moves(r)
  BY BeginMoves, ContextMoves, CheckMoves, SourceMoves, WriteMoves, CommandMoves, FaultMoves, OutcomeMoves

-----------------------------------------------------------------------------
(* The contexts of a device *)

\* What a request does in one step.
Step(r) ==
  \/ Begin(r) \/ RunRaises(r) \/ ContextStep(r) \/ CheckStep(r)
  \/ SourceStep(r) \/ WriteStep(r) \/ Create(r) \/ LinkRule(r) \/ Fault(r)

CatalogOK ==
  /\ DOMAIN catalog = Tables
  /\ IsFiniteSet(catalog.contexts) /\ \A cc \in catalog.contexts : WellFormed(cc)

\* Scopes are compared with these parts of a device only.
Alike(a, b) == a.props = b.props /\ a.platform = b.platform /\ a.location = b.location

\* What was read of a device that nobody writes to is what it is.
Current(r) == LeftAlone(cmd(r).device) => Alike(work[r].data, SotData(cmd(r).device))

\* The contexts that were active are, and what is merged is right for some in between.
Ready(r) ==
  cmd(r).op = "context" =>
    /\ pc[r] = "contexts" => work[r].before \subseteq ActiveContexts /\ Current(r)
    /\ pc[r] = "end" /\ report[r].status = "ok" =>
         /\ Current(r)
         /\ \E seen \in SUBSET ActiveContexts :
              work[r].before \subseteq seen /\ HeaviestWins(work[r].context, seen, work[r].data)

\* Only a replacement that is no preview writes.
MayWrite(r) == pc[r] = "write" => cmd(r).op = "transform"

ContextInv == Frame /\ CatalogOK /\ \A r \in Requests : Ready(r) /\ MayWrite(r)

LEMMA ApplyFacts ==
  ASSUME NEW r, NEW item, Apply(r, item)
  PROVE  DOMAIN devices' = DOMAIN devices /\ \A d \in DOMAIN devices \ {cmd(r).destination} : devices'[d] = devices[d]
<1>1. CASE devices' = devices
  BY <1>1
<1>2. CASE devices' # devices
  <2>1. devices' = [devices EXCEPT ![cmd(r).destination] = Over(item.props, @)]
    BY <1>2 DEF Apply, MergeInterface
  <2> QED  BY <2>1
<1> QED  BY <1>1, <1>2

\* What the steps of requests leave alone, and the one that changes the catalogue.
LEMMA StepFacts ==
  ASSUME NEW r \in Requests, Step(r)
  PROVE  /\ scene' = scene /\ DOMAIN devices' = DOMAIN devices
         /\ devices' = devices \/ Write(r)
         /\ backups' = backups /\ intended' = intended /\ held' = held
         /\ catalog' = catalog \/ Create(r)
<1>1. CASE Begin(r) \/ Create(r) \/ LinkRule(r) \/ Fault(r)
  BY <1>1 DEF Begin, Create, LinkRule, Fault, graphVars
<1>2. CASE RunRaises(r) \/ ContextStep(r)
  BY <1>2 DEF RunRaises, ContextStep, ContextDevice, ContextMerge, ReadOnly, graphVars
<1>4. CASE CheckStep(r)
  BY <1>4 DEF CheckStep, CheckDevice, CheckBackup, CheckIntended, CheckRules, CheckRule, ReadOnly, graphVars
<1>5. CASE SourceStep(r)
  BY <1>5 DEF SourceStep, ReadSource, ReadInterfaces, ReadLinks, ReadRelations, ReadOnly, graphVars
<1>6. CASE WriteStep(r)
  BY <1>6, ApplyFacts DEF WriteStep, ReadDestination, ReadMapping, Write, ReadOnly, graphVars
<1> QED  BY <1>1, <1>2, <1>4, <1>5, <1>6 DEF Step

\* The steps of a request for the contexts of a device.
LEMMA OfContext ==
  ASSUME NEW r \in Requests, Step(r), cmd(r).op = "context"
  PROVE  Begin(r) \/ ContextStep(r) \/ Fault(r)
  BY DEF Step, RunRaises, CheckStep, CheckDevice, CheckBackup, CheckIntended,
     CheckRules, CheckRule, SourceStep, ReadSource, ReadInterfaces, ReadLinks, ReadRelations, WriteStep,
     ReadDestination, ReadMapping, Write, ReplacementStep, IsReplacement, Create, LinkRule

LEMMA CatalogStep ==
  ASSUME CatalogOK, scene \in Scenes, NEW r \in Requests, Create(r)
  PROVE  CatalogOK'
<1> DEFINE object == cmd(r).object
           into == cmd(r).into
<1>1. catalog' = [catalog EXCEPT ![into] = @ \union {object}] /\ cmd(r).op = "create"
  BY DEF Create
<1>2. into \in Tables
  BY <1>1, SceneAssumption DEF cmd, CatalogFits, Added
<1>3. into = "contexts" => WellFormed(object)
  BY <1>1, SceneAssumption DEF cmd, CatalogFits, Added
<1> HIDE DEF object, into
<1>4. DOMAIN catalog' = Tables /\ "contexts" \in Tables
  BY <1>1 DEF CatalogOK, Tables
<1>5. CASE into # "contexts"
  <2>1. catalog'.contexts = catalog.contexts
    BY <1>1, <1>4, <1>5 DEF CatalogOK
  <2> QED  BY <1>4, <2>1 DEF CatalogOK
<1>6. CASE into = "contexts"
  <2>1. catalog'.contexts = catalog.contexts \union {object}
    BY <1>1, <1>2, <1>6 DEF CatalogOK
  <2>2. IsFiniteSet(catalog'.contexts)
    BY <2>1, FS_AddElement DEF CatalogOK
  <2> QED  BY <1>3, <1>4, <1>6, <2>1, <2>2 DEF CatalogOK
<1> QED  BY <1>5, <1>6

LEMMA MayWriteStep ==
  ASSUME Frame, NEW r \in Requests, MayWrite(r), Step(r)
  PROVE  MayWrite(r)'
<1>1. cmd(r)' = cmd(r) /\ DOMAIN pc = Requests
  BY StepFacts DEF cmd, Frame
<1>2. CASE Begin(r)
  BY <1>2, BeginMoves DEF MayWrite
<1>3. CASE RunRaises(r) \/ ContextStep(r)
  <2>1. pc'[r] \in {"contexts", "end"}
    BY <1>1, <1>3 DEF RunRaises, ContextStep, ContextDevice, ContextMerge, Ends, Continue, Go
  <2> QED  BY <2>1 DEF MayWrite
<1>4. CASE CheckStep(r)
  <2>1. pc'[r] \in {"backup", "intended", "rules", "check", "end", "device"}
    BY <1>1, <1>4 DEF CheckStep, CheckDevice, CheckBackup, CheckIntended, CheckRules, CheckRule, Read, Outcome, Continue, Go
  <2> QED  BY <2>1 DEF MayWrite
<1>5. CASE SourceStep(r)
  <2>1. pc'[r] \in {"ifaces", "links", "rels", "destination", "end"}
    BY <1>1, <1>5 DEF SourceStep, ReadSource, ReadInterfaces, ReadLinks, ReadRelations, GiveUp, Continue, Go
  <2> QED  BY <2>1 DEF MayWrite
<1>6. CASE WriteStep(r)
  <2>1. CASE ReadDestination(r)
    BY <1>1, <2>1 DEF ReadDestination, GiveUp, Continue, Go, MayWrite
  <2>2. CASE ReadMapping(r)
    <3>1. pc'[r] = "end" \/ cmd(r).op # "preview"
      BY <1>1, <2>2 DEF ReadMapping, GiveUp, Go
    <3>2. IsReplacement(r)
      BY <2>2 DEF ReadMapping, ReplacementStep
    <3> QED  BY <1>1, <3>1, <3>2 DEF MayWrite, IsReplacement
  <2>3. CASE Write(r)
    BY <1>1, <2>3 DEF Write, ReplacementStep, MayWrite
  <2> QED  BY <1>6, <2>1, <2>2, <2>3 DEF WriteStep
<1>7. CASE Create(r) \/ LinkRule(r)
  BY <1>7, CommandMoves DEF MayWrite
<1>8. CASE Fault(r)
  BY <1>8, FaultMoves, OutcomeMoves DEF MayWrite
<1> QED  BY <1>2, <1>3, <1>4, <1>5, <1>6, <1>7, <1>8 DEF Step

\* Whatever happens, a device that is settled was, and is as it was.
LEMMA CurrentStays ==
  ASSUME ContextInv, NEW r \in Requests, Current(r), [Next]_vars, work'[r] = work[r]
  PROVE  Current(r)'
<1> DEFINE d == cmd(r).device
<1>1. scene' = scene /\ cmd(r)' = cmd(r)
  <2>1. scene' = scene
    BY StepFacts DEF Next, Step, DeleteDevice, StoreBackup, StoreIntended, vars
  <2> QED  BY <2>1 DEF cmd
<1>2. SUFFICES ASSUME LeftAlone(d)'  PROVE Alike(work[r].data, SotData(d)')
  BY <1>1 DEF Current
<1>3. d \in DOMAIN devices' /\ \A q \in Requests : cmd(q).op = "transform" => cmd(q).destination # d
  BY <1>1, <1>2 DEF LeftAlone, cmd
<1>4. d \in DOMAIN devices /\ devices'[d] = devices[d]
  <2>1. CASE devices' = devices
    BY <1>3, <2>1
  <2>2. ASSUME NEW q \in Requests, Write(q)  PROVE d \in DOMAIN devices /\ devices'[d] = devices[d]
    <3>1. cmd(q).op = "transform"
      BY <2>2 DEF ContextInv, MayWrite, Write, ReplacementStep
    <3>2. Apply(q, Head(todo[q]))
      BY <2>2 DEF Write
    <3> QED  BY <1>3, <3>1, <3>2, ApplyFacts
  <2>3. ASSUME NEW e, DeleteDevice(e)  PROVE d \in DOMAIN devices /\ devices'[d] = devices[d]
    BY <1>3, <2>3 DEF DeleteDevice, Restrict
  <2> QED  BY <2>1, <2>2, <2>3, StepFacts DEF Next, Step, StoreBackup, StoreIntended, vars, graphVars
<1>5. LeftAlone(d)
  BY <1>3, <1>4 DEF LeftAlone
<1>6. Alike(work[r].data, SotData(d))
  BY <1>5 DEF Current
<1> QED  BY <1>1, <1>4, <1>6 DEF Alike, SotData, PlatformOf, LocationOf

\* Contexts are added, never taken away.
LEMMA ActiveGrow ==
  ASSUME CatalogOK, scene \in Scenes, [Next]_vars
  PROVE  ActiveContexts \subseteq ActiveContexts'
<1>1. CASE catalog' = catalog
  BY <1>1 DEF ActiveContexts
<1>2. ASSUME NEW r \in Requests, Create(r)  PROVE ActiveContexts \subseteq ActiveContexts'
  <2> DEFINE into == cmd(r).into
             object == cmd(r).object
  <2>1. catalog' = [catalog EXCEPT ![into] = @ \union {object}]
    BY <1>2 DEF Create
  <2> HIDE DEF into, object
  <2>2. catalog.contexts \subseteq catalog'.contexts
    BY <2>1 DEF CatalogOK, Tables
  <2> QED  BY <2>2 DEF ActiveContexts
<1> QED  BY <1>1, <1>2, StepFacts DEF Next, Step, DeleteDevice, StoreBackup, StoreIntended, vars, graphVars

LEMMA ReadyOthers ==
  ASSUME ContextInv, NEW r \in Requests, [Next]_vars, scene' = scene, pc'[r] = pc[r], work'[r] = work[r],
         report'[r] = report[r]
  PROVE  Ready(r)'
<1>1. cmd(r)' = cmd(r)
  BY DEF cmd
<1>2. Current(r) => Current(r)'
  BY CurrentStays
<1>3. ActiveContexts \subseteq ActiveContexts'
  BY ActiveGrow DEF ContextInv, Frame
<1> HIDE DEF ActiveContexts
<1> QED  BY <1>1, <1>2, <1>3 DEF ContextInv, Ready

\* A step of a request for the contexts of a device.
LEMMA ContextSteps ==
  ASSUME ContextInv, NEW r \in Requests, Step(r), cmd(r).op = "context"
  PROVE  Ready(r)'
<1> USE DEF ContextInv
<1>1. scene' = scene /\ cmd(r)' = cmd(r)
  BY StepFacts DEF cmd
<1>2. ASSUME NEW status, status # "ok", Ends(r, status)  PROVE Ready(r)'
  BY <1>2, EndsMoves DEF Ready
<1>3. CASE Begin(r)
  <2>1. DOMAIN pc = Requests /\ DOMAIN report = Requests /\ DOMAIN report[r] = Answer
    BY DEF Frame, Shape
  <2>2. Allowed(r) /\ FirstStep(r, Targets(r)) = "device"
    BY DEF Allowed, FirstStep, IsReplacement, IsRun
  <2>3. pc'[r] = "device"
    BY <1>3, <2>1, <2>2 DEF Begin, Go
  <2> QED  BY <2>3 DEF Ready
<1>4. CASE Fault(r)
  <2>1. Ends(r, "error")
    BY <1>4 DEF Fault, IsRun, IsReplacement
  <2> QED  BY <1>2, <2>1
<1>5. CASE ContextDevice(r)
  <2> DEFINE x == SotData(cmd(r).device)
             w == [work[r] EXCEPT !.data = x, !.before = ActiveContexts]
  <2>1. Ends(r, "absent") \/ Continue(r, w, "contexts")
    BY <1>5 DEF ContextDevice
  <2>2. CASE Continue(r, w, "contexts")
    <3>1. DOMAIN w = Fields /\ w.data = x /\ w.before = ActiveContexts
      BY WorkIs DEF Fields
    <3> HIDE DEF w
    <3>2. pc'[r] = "contexts" /\ work'[r] = w
      BY <2>2, <3>1, ContinueMoves
    <3>3. ActiveContexts' = ActiveContexts /\ devices' = devices
      BY <1>5 DEF ContextDevice, ReadOnly, graphVars, ActiveContexts
    <3>4. x' = x
      BY <1>1, <1>5 DEF ContextDevice, ReadOnly, graphVars, SotData, PlatformOf, LocationOf, InterfacesOf
    <3>5. Current(r)'
      BY <1>1, <3>1, <3>2, <3>4 DEF Current, Alike
    <3> QED  BY <3>1, <3>2, <3>3, <3>5 DEF Ready
  <2> QED  BY <1>2, <2>1, <2>2
<1>6. CASE ContextMerge(r)
  <2>1. CASE Ends(r, "error")
    BY <1>2, <2>1
  <2>2. CASE ~Ends(r, "error")
    <3>1. PICK order \in ByWeight(ActiveContexts) :
            Continue(r, [work[r] EXCEPT !.context = MergedContexts(order, work[r].data)], "end")
      BY <1>6, <2>2 DEF ContextMerge
    <3>2. pc[r] = "contexts" /\ ~ScopeRaises(ActiveContexts)
      BY <1>6, <2>2 DEF ContextMerge
    <3> DEFINE m == MergedContexts(order, work[r].data)
               w == [work[r] EXCEPT !.context = m]
    <3>3. ActiveContexts \subseteq catalog.contexts
      BY DEF ActiveContexts
    <3>4. IsFiniteSet(ActiveContexts) /\ \A cc \in ActiveContexts : WellFormed(cc)
      BY <3>3, FS_Subset DEF CatalogOK
    <3>5. HeaviestWins(m, ActiveContexts, work[r].data)
      BY <3>2, <3>4, MergedWins
    <3>6. Continue(r, w, "end")
      BY <3>1
    <3> HIDE DEF m
    <3>7. DOMAIN w = Fields /\ w.context = m /\ w.data = work[r].data /\ w.before = work[r].before
      BY WorkIs DEF Fields
    <3> HIDE DEF w
    <3>8. pc'[r] = "end" /\ work'[r] = w
      BY <3>6, <3>7, ContinueMoves
    <3>9. ActiveContexts' = ActiveContexts
      BY <1>6 DEF ContextMerge, ReadOnly, graphVars, ActiveContexts
    <3>10. SotData(cmd(r).device)' = SotData(cmd(r).device) /\ devices' = devices
      BY <1>1, <1>6 DEF ContextMerge, ReadOnly, graphVars, SotData, PlatformOf, LocationOf, InterfacesOf
    <3>11. work[r].before \subseteq ActiveContexts /\ Current(r)
      BY <3>2 DEF Ready
    <3>12. LeftAlone(cmd(r).device)' => LeftAlone(cmd(r).device)
      BY <1>1, <3>10 DEF LeftAlone, cmd
    <3>13. Current(r)'
      BY <1>1, <3>7, <3>8, <3>10, <3>11, <3>12 DEF Current, Alike
    <3> QED  BY <3>5, <3>7, <3>8, <3>9, <3>11, <3>13 DEF Ready
  <2> QED  BY <2>1, <2>2
<1> QED  BY <1>3, <1>4, <1>5, <1>6, OfContext DEF ContextStep

\* Steps that keep the invariant apart from those of requests.
LEMMA ContextRest ==
  ASSUME ContextInv, [Next]_vars, UNCHANGED <<scene, catalog, pc, todo, work, report>>
  PROVE  ContextInv'
<1>1. Frame' /\ CatalogOK'
  BY DEF ContextInv, Frame, Shape, CatalogOK
<1>2. ASSUME NEW r \in Requests  PROVE Ready(r)' /\ MayWrite(r)'
  <2>1. Ready(r)'
    BY ReadyOthers
  <2>2. MayWrite(r)'
    BY DEF ContextInv, MayWrite, cmd
  <2> QED  BY <2>1, <2>2
<1> QED  BY <1>1, <1>2 DEF ContextInv

LEMMA ContextInvInit == ASSUME Init PROVE ContextInv
<1>1. Frame
  <2>1. DOMAIN Blank = Fields
    BY DEF Blank, Fields
  <2>2. <<>> \in Seq({})
    OBVIOUS
  <2>3. IsSequence(<<>>)
    BY <2>2 DEF IsSequence
  <2>4. \A r \in Requests : work[r] = Blank /\ report[r] = [status |-> "none", outcomes |-> <<>>, success |-> FALSE, shown |-> <<>>]
    BY DEF Init
  <2>5. \A r \in Requests : DOMAIN report[r] = Answer /\ report[r].outcomes = <<>>
    BY <2>4 DEF Answer
  <2>6. \A r \in Requests : Shape(r)
    BY <2>1, <2>3, <2>4, <2>5 DEF Shape
  <2> QED  BY <2>6 DEF Init, Frame
<1>2. CatalogOK
  BY SceneAssumption DEF Init, CatalogOK, Tables, CatalogFits
<1>3. ASSUME NEW r \in Requests  PROVE Ready(r) /\ MayWrite(r)
  <2>1. pc[r] = "idle"
    BY DEF Init
  <2> QED  BY <2>1 DEF Ready, MayWrite
<1> QED  BY <1>1, <1>2, <1>3 DEF ContextInv

LEMMA ContextInvStep == ASSUME ContextInv, [Next]_vars PROVE ContextInv'
<1>1. ASSUME NEW r \in Requests, Step(r)  PROVE ContextInv'
  <2>1. Moves(r) /\ scene' = scene
    BY <1>1, StepMoves, StepFacts DEF Step, ContextInv
  <2>2. Frame'
    <3>1. \A q \in Requests : Shape(q)'
      <4>1. \A q \in Requests \ {r} : Shape(q)'
        BY <2>1 DEF Moves, ContextInv, Frame, Shape
      <4> QED  BY <2>1, <4>1 DEF Moves
    <3> QED  BY <2>1, <3>1 DEF Moves, ContextInv, Frame
  <2>3. CatalogOK'
    <3>1. CASE Create(r)
      BY <3>1, CatalogStep DEF ContextInv, Frame
    <3>2. CASE catalog' = catalog
      BY <3>2 DEF ContextInv, CatalogOK
    <3> QED  BY <1>1, <3>1, <3>2, StepFacts
  <2>4. Ready(r)' /\ MayWrite(r)'
    <3>1. MayWrite(r)'
      BY <1>1, MayWriteStep DEF ContextInv
    <3>2. cmd(r)' = cmd(r)
      BY <2>1 DEF cmd
    <3>3. CASE cmd(r).op # "context"
      BY <3>1, <3>2, <3>3 DEF Ready
    <3> QED  BY <1>1, <3>1, <3>3, ContextSteps
  <2>5. ASSUME NEW q \in Requests \ {r}  PROVE Ready(q)' /\ MayWrite(q)'
    <3>1. pc'[q] = pc[q] /\ work'[q] = work[q] /\ report'[q] = report[q]
      BY <2>1 DEF Moves
    <3>2. MayWrite(q)'
      BY <2>1, <3>1 DEF ContextInv, MayWrite, cmd
    <3> QED  BY <2>1, <3>1, <3>2, ReadyOthers
  <2> QED  BY <2>2, <2>3, <2>4, <2>5 DEF ContextInv
<1>2. ASSUME NEW d, DeleteDevice(d)  PROVE ContextInv'
  BY <1>2, ContextRest DEF DeleteDevice
<1>3. ASSUME NEW d, NEW text, StoreBackup(d, text) \/ StoreIntended(d, text)  PROVE ContextInv'
  BY <1>3, ContextRest DEF StoreBackup, StoreIntended
<1>4. CASE UNCHANGED vars
  BY <1>4, ContextRest DEF vars, graphVars
<1> QED  BY <1>1, <1>2, <1>3, <1>4 DEF Next, Step

\* Contexts that win for a device win for one that is alike.
LEMMA WinsAlike ==
  ASSUME NEW a, NEW b, Alike(a, b), NEW context, NEW contexts, HeaviestWins(context, contexts, a)
  PROVE  HeaviestWins(context, contexts, b)
<1>1. \A s : ScopeValue(a, s) = ScopeValue(b, s)
  BY DEF Alike, ScopeValue, Prop
<1>2. ASSUME NEW k, NEW p  PROVE Setting(contexts, a, k, p) = Setting(contexts, b, k, p)
  <2>1. \A cc : (\A s \in DOMAIN cc.scope : ScopeValue(a, s) \in cc.scope[s])
                  <=> (\A s \in DOMAIN cc.scope : ScopeValue(b, s) \in cc.scope[s])
    BY <1>1
  <2> QED  BY <2>1 DEF Setting
<1>3. \A k : Uniform(contexts, a, k) = Uniform(contexts, b, k)
  BY DEF Uniform
<1> QED  BY <1>2, <1>3 DEF HeaviestWins

\* The context that is shown for a device holds, for every setting, the value of
\* the heaviest context that applies to it as it is (resolve_device_contexts):
\* whatever contexts are added, devices deleted and calls fail meanwhile.
THEOREM ContextIsTrue == Spec => []ContextTrue
<1>1. Init => ContextInv
  BY ContextInvInit
<1>2. ContextInv /\ [Next]_vars => ContextInv'
  BY ContextInvStep
<1>3. ASSUME ContextInv  PROVE ContextTrue
  <2> SUFFICES ASSUME NEW r \in Requests, cmd(r).op = "context", pc[r] = "end", report[r].status = "ok",
                      LeftAlone(cmd(r).device)
               PROVE  \E seen \in SUBSET ActiveContexts :
                        /\ work[r].before \subseteq seen
                        /\ HeaviestWins(work[r].context, seen, SotData(cmd(r).device))
    BY DEF ContextTrue
  <2>1. Alike(work[r].data, SotData(cmd(r).device))
    BY <1>3 DEF ContextInv, Ready, Current
  <2>2. PICK seen \in SUBSET ActiveContexts :
          work[r].before \subseteq seen /\ HeaviestWins(work[r].context, seen, work[r].data)
    BY <1>3 DEF ContextInv, Ready
  <2> QED  BY <2>1, <2>2, WinsAlike
<1> QED  BY <1>1, <1>2, <1>3, PTL DEF Spec

\* Two sequences that agree at some places have the same elements there.
LEMMA ChosenOf ==
  ASSUME NEW n \in Nat, NEW T, T \subseteq 1..n, NEW s, NEW t, \A i \in T : s[i] = t[i]
  PROVE  Chosen(s, T) = Chosen(t, T)
<1>1. \A k \in 1..Cardinality(T) : \E i \in T : UpTo(T, i) = k
  BY PlacesAreNumbered
<1>2. \A k \in 1..Cardinality(T) : s[CHOOSE i \in T : UpTo(T, i) = k] = t[CHOOSE i \in T : UpTo(T, i) = k]
  BY <1>1
<1> QED  BY <1>2 DEF Chosen

\* A place after the others adds its element at the end.
LEMMA ChosenAdd ==
  ASSUME NEW M, NEW s \in Seq(M), NEW n \in Nat, n + 1 \in DOMAIN s, NEW T, T \subseteq 1..n
  PROVE  Chosen(s, T \union {n + 1}) = Append(Chosen(s, T), s[n + 1])
<1> DEFINE U == T \union {n + 1}
           a == Chosen(s, T)
           b == Chosen(s, U)
           m == Cardinality(T)
<1>1. T \subseteq DOMAIN s /\ U \subseteq DOMAIN s /\ U \subseteq 1..(n + 1) /\ n + 1 \notin T /\ n + 1 \in U
  <2>1. DOMAIN s = 1..Len(s) /\ Len(s) \in Nat /\ n + 1 <= Len(s)
    OBVIOUS
  <2>2. \A i \in T : i \in 1..Len(s)
    BY <2>1
  <2> QED  BY <2>1, <2>2
<1>2. IsFiniteSet(T) /\ m \in Nat /\ \A k \in 1..m : \E i \in T : UpTo(T, i) = k
  BY PlacesAreNumbered
<1>3. Cardinality(U) = m + 1
  BY <1>1, <1>2, FS_AddElement
<1>4. \A i \in T : UpTo(U, i) = UpTo(T, i)
  <2> TAKE i \in T
  <2>1. {j \in U : j <= i} = {j \in T : j <= i}
    <3>1. i \in Int /\ i < n + 1
      OBVIOUS
    <3>2. ~(n + 1 <= i)
      BY <3>1
    <3> QED  BY <3>2
  <2> QED  BY <2>1 DEF UpTo
<1>5. UpTo(U, n + 1) = m + 1
  <2>1. {j \in U : j <= n + 1} = U
    <3>1. \A j \in U : j \in 1..(n + 1)
      BY <1>1
    <3>2. \A j \in U : j <= n + 1
      BY <3>1
    <3> QED  BY <3>2
  <2> QED  BY <1>3, <2>1 DEF UpTo
<1>6. a \in Seq(M) /\ b \in Seq(M) /\ s[n + 1] \in M
  <2>1. a \in Seq(M)
    BY <1>1, ChosenFacts
  <2> HIDE DEF U
  <2>2. b \in Seq(M)
    BY <1>1, ChosenFacts
  <2> QED  BY <2>1, <2>2
<1>7. /\ \A i \in T : a[UpTo(T, i)] = s[i]
      /\ \A i \in U : b[UpTo(U, i)] = s[i]
  <2>1. \A i \in T : a[UpTo(T, i)] = s[i]
    BY <1>1, ChosenFacts
  <2> HIDE DEF U
  <2>2. \A i \in U : b[UpTo(U, i)] = s[i]
    BY <1>1, ChosenFacts
  <2> QED  BY <2>1, <2>2
<1>8. DOMAIN a = 1..m /\ DOMAIN b = 1..(m + 1)
  BY <1>3 DEF Chosen
<1> HIDE DEF a, b, m
<1>9. \A k \in 1..m : b[k] = a[k]
  <2> TAKE k \in 1..m
  <2>1. PICK i \in T : UpTo(T, i) = k
    BY <1>2
  <2>2. i \in U /\ UpTo(U, i) = k
    BY <1>4, <2>1
  <2> HIDE DEF U
  <2> QED  BY <1>7, <2>1, <2>2
<1> HIDE DEF U
<1>10. b[m + 1] = s[n + 1]
  BY <1>1, <1>5, <1>7
<1> DEFINE x == s[n + 1]
<1>11. x \in M
  BY <1>6
<1> HIDE DEF a, b, m, U, x
<1>12. b = Append(a, x)
  <2> DEFINE c == Append(a, x)
  <2>1. Len(a) = m /\ Len(b) = m + 1
    BY <1>2, <1>6, <1>8
  <2>2. c \in Seq(M) /\ Len(c) = m + 1 /\ c[m + 1] = x /\ \A k \in 1..m : c[k] = a[k]
    BY <1>6, <1>11, <2>1
  <2> HIDE DEF c
  <2>3. \A k \in 1..(m + 1) : k \in 1..m \/ k = m + 1
    BY <1>2
  <2>4. \A k \in 1..(m + 1) : b[k] = c[k]
    BY <1>9, <1>10, <2>2, <2>3 DEF x
  <2>5. b = c
    BY <1>6, <2>1, <2>2, <2>4, SeqEqual
  <2> QED  BY <2>5 DEF c
<1> QED  BY <1>12 DEF a, b, U, x

-----------------------------------------------------------------------------
(* Sections of a configuration *)

\* A line that joins others joins their content unless it is a filler.
LEMMA ContentAppend ==
  ASSUME NEW M, NEW t \in Seq(M), NEW x \in M
  PROVE  Content(Append(t, x)) = IF Filler(x) THEN Content(t) ELSE Append(Content(t), x)
<1> DEFINE u == Append(t, x)
           n == Len(t)
           T == {i \in DOMAIN t : ~Filler(t[i])}
<1>1. /\ u \in Seq(M) /\ n \in Nat /\ DOMAIN t = 1..n /\ DOMAIN u = 1..(n + 1) /\ u[n + 1] = x
      /\ \A i \in 1..n : u[i] = t[i]
  OBVIOUS
<1> HIDE DEF u, n
<1>2. T \subseteq 1..n
  BY <1>1
<1>3. Chosen(u, T) = Chosen(t, T)
  <2>1. \A i \in T : u[i] = t[i]
    BY <1>1
  <2> HIDE DEF T
  <2> QED  BY <1>1, <1>2, <2>1, ChosenOf
<1>4. \A i \in 1..(n + 1) : i \in 1..n \/ i = n + 1
  BY <1>1
<1>5. CASE Filler(x)
  <2>1. {i \in DOMAIN u : ~Filler(u[i])} = T
    BY <1>1, <1>4, <1>5
  <2> QED  BY <1>3, <1>5, <2>1 DEF Content, u
<1>6. CASE ~Filler(x)
  <2>1. {i \in DOMAIN u : ~Filler(u[i])} = T \union {n + 1}
    BY <1>1, <1>4, <1>6
  <2> HIDE DEF T
  <2>2. Chosen(u, T \union {n + 1}) = Append(Chosen(u, T), x)
    <3>1. n + 1 \in DOMAIN u
      BY <1>1
    <3> QED  BY <1>1, <1>2, <3>1, ChosenAdd
  <2> QED  BY <1>3, <1>6, <2>1, <2>2 DEF Content, u, T
<1> QED  BY <1>5, <1>6

\* The walk over the lines, one after another.
LEMMA WalkIs ==
  ASSUME NEW S, NEW lines \in Seq(S), NEW words
  PROVE  \E f : /\ f[0] = [open |-> -1, out |-> <<>>]
                /\ \A i \in 1..Len(lines) :
                     /\ f[i].open = SectionAfter(lines[i], words, f[i - 1].open)
                     /\ f[i].out = IF f[i].open >= 0 THEN Append(f[i - 1].out, lines[i]) ELSE f[i - 1].out
                /\ CliFeature(lines, words) = f[Len(lines)].out
<1> DEFINE n == Len(lines)
           Next1(i, x) == LET open == SectionAfter(lines[i], words, x.open) IN
                          [open |-> open, out |-> IF open >= 0 THEN Append(x.out, lines[i]) ELSE x.out]
           none == [open |-> -1, out |-> <<>>]
           Body(f, k) == [i \in 0..k |-> IF i = 0 THEN none ELSE Next1(i, f[i - 1])]
           K == {k \in 0..n : \E f : f = Body(f, k)}
<1>1. n \in Nat
  OBVIOUS
<1> HIDE DEF Next1, none
<1>2. 0 \in K
  <2> DEFINE e == [i \in 0..0 |-> none]
  <2>1. e = Body(e, 0)
    OBVIOUS
  <2> HIDE DEF e
  <2>2. 0 \in 0..n
    BY <1>1
  <2> QED  BY <2>1, <2>2
<1>3. ASSUME NEW k \in 0..(n - 1), k \in K  PROVE k + 1 \in K
  <2>1. PICK f : f = Body(f, k)
    BY <1>3
  <2>2. \A i \in 0..k : f[i] = IF i = 0 THEN none ELSE Next1(i, f[i - 1])
    BY <2>1
  <2> DEFINE g == [i \in 0..(k + 1) |-> IF i <= k THEN f[i] ELSE Next1(i, f[i - 1])]
  <2>3. ASSUME NEW i \in 0..(k + 1)  PROVE g[i] = IF i = 0 THEN none ELSE Next1(i, g[i - 1])
    <3>1. CASE i = 0
      BY <2>2, <3>1
    <3>2. CASE i \in 1..k
      <4>1. i \in 0..k /\ i <= k /\ i - 1 \in 0..(k + 1) /\ i - 1 <= k /\ i # 0
        BY <3>2
      <4>2. g[i] = f[i] /\ g[i - 1] = f[i - 1]
        BY <4>1
      <4> QED  BY <2>2, <4>1, <4>2
    <3>3. CASE i = k + 1
      <4>1. ~(i <= k) /\ i # 0 /\ i - 1 \in 0..(k + 1) /\ i - 1 <= k
        BY <3>3
      <4> QED  BY <4>1
    <3> QED  BY <3>1, <3>2, <3>3
  <2>4. g = Body(g, k + 1)
    <3>1. DOMAIN g = 0..(k + 1) /\ g = [i \in 0..(k + 1) |-> g[i]]
      OBVIOUS
    <3> HIDE DEF g
    <3> QED  BY <2>3, <3>1
  <2>5. k + 1 \in 0..n
    BY <1>1
  <2> HIDE DEF g
  <2> QED  BY <2>4, <2>5
<1>4. n \in K
  <2> HIDE DEF K
  <2>1. n \in 0..n
    BY <1>1
  <2> QED  BY <1>1, <1>2, <1>3, <2>1, UpToAll
<1> DEFINE m == CHOOSE f : f = Body(f, n)
<1>5. m = Body(m, n)
  BY <1>4
<1>6. CliFeature(lines, words) = m[n].out
  BY DEF CliFeature, Next1, none
<1> HIDE DEF m
<1>7. m[0] = none /\ \A i \in 1..n : m[i] = Next1(i, m[i - 1])
  <2>1. DOMAIN m = 0..n /\ \A i \in 0..n : m[i] = IF i = 0 THEN none ELSE Next1(i, m[i - 1])
    BY <1>5
  <2> QED  BY <1>1, <2>1
<1>8. ASSUME NEW i \in 1..n
      PROVE  /\ m[i].open = SectionAfter(lines[i], words, m[i - 1].open)
             /\ m[i].out = IF m[i].open >= 0 THEN Append(m[i - 1].out, lines[i]) ELSE m[i - 1].out
  <2> DEFINE x == m[i - 1]
             open == SectionAfter(lines[i], words, x.open)
             out == IF open >= 0 THEN Append(x.out, lines[i]) ELSE x.out
  <2>1. m[i] = [open |-> open, out |-> out]
    BY <1>7 DEF Next1
  <2> QED  BY <2>1
<1> QED  BY <1>6, <1>7, <1>8 DEF none

\* Line j opens a section that is still open after line i.
Opens(lines, words, j, i) ==
  lines[j].word \in words /\ \A k \in (j + 1)..i : Filler(lines[k]) \/ lines[k].indent > lines[j].indent
Indented(S) == \A x \in S : x.indent \in Nat

\* In a flat configuration it is one line.
LEMMA OneHead ==
  ASSUME NEW S, NEW lines \in Seq(S), Indented(S), NEW words, Flat(lines, words),
         NEW i \in 1..Len(lines), NEW j \in 1..i, NEW h \in 1..i, Opens(lines, words, j, i), Opens(lines, words, h, i)
  PROVE  j = h
<1>1. Len(lines) \in Nat /\ DOMAIN lines = 1..Len(lines) /\ \A k \in 1..Len(lines) : lines[k].indent \in Nat
  BY DEF Indented
<1>2. ASSUME NEW a \in 1..i, NEW b \in 1..i, a < b, Opens(lines, words, a, i), Opens(lines, words, b, i)  PROVE FALSE
  <2>1. a \in 1..(b - 1) /\ b \in DOMAIN lines /\ lines[a].word \in words /\ lines[b].word \in words
    BY <1>1, <1>2 DEF Opens
  <2>2. PICK k \in (a + 1)..b : ~Filler(lines[k]) /\ lines[k].indent <= lines[a].indent
    BY <2>1 DEF Flat
  <2>3. k \in (a + 1)..i /\ k \in 1..Len(lines) /\ a \in 1..Len(lines)
    BY <1>1
  <2>4. lines[k].indent > lines[a].indent
    BY <1>2, <2>2, <2>3 DEF Opens
  <2> QED  BY <1>1, <2>2, <2>3, <2>4
<1>3. j < h \/ h < j \/ j = h
  BY <1>1
<1> QED  BY <1>2, <1>3

LEMMA UnderIs ==
  ASSUME NEW lines, NEW words, NEW i
  PROVE  Under(lines, words, i) <=> \E j \in 1..i : Opens(lines, words, j, i)
  BY DEF Under, Opens

\* What is open after some lines is the indent of the line they are under.
OpenIs(lines, words, i, open) ==
  IF Under(lines, words, i) THEN \E j \in 1..i : Opens(lines, words, j, i) /\ open = lines[j].indent ELSE open = -1

LEMMA OpenNext ==
  ASSUME NEW S, NEW lines \in Seq(S), Indented(S), NEW words, Flat(lines, words),
         NEW i \in 0..(Len(lines) - 1), NEW open, OpenIs(lines, words, i, open),
         NEW next, next = SectionAfter(lines[i + 1], words, open)
  PROVE  OpenIs(lines, words, i + 1, next) /\ (Under(lines, words, i + 1) <=> next >= 0)
<1> DEFINE n == Len(lines)
           l == lines[i + 1]
<1>1. n \in Nat /\ i + 1 \in 1..n /\ \A k \in 1..n : lines[k].indent \in Nat
  BY DEF Indented
<1>2. \A j \in 1..(i + 1) : j = i + 1 \/ j \in 1..i
  BY <1>1
<1>3. \A j \in 1..i : Opens(lines, words, j, i + 1) <=> Opens(lines, words, j, i) /\ (Filler(l) \/ l.indent > lines[j].indent)
  <2> TAKE j \in 1..i
  <2>1. i + 1 \in (j + 1)..(i + 1) /\ \A k \in (j + 1)..(i + 1) : k = i + 1 \/ k \in (j + 1)..i
    BY <1>1
  <2>2. \A k \in (j + 1)..i : k \in (j + 1)..(i + 1)
    BY <1>1
  <2> QED  BY <2>1, <2>2 DEF Opens
<1>4. Opens(lines, words, i + 1, i + 1) <=> l.word \in words
  <2>1. ((i + 1) + 1)..(i + 1) = {}
    BY <1>1
  <2> QED  BY <2>1 DEF Opens
<1>5. CASE l.word \in words
  <2>1. next = l.indent /\ next >= 0 /\ i + 1 \in 1..(i + 1)
    BY <1>1, <1>5 DEF SectionAfter
  <2>2. Under(lines, words, i + 1)
    BY <1>4, <1>5, <2>1, UnderIs
  <2> QED  BY <1>4, <1>5, <2>1, <2>2 DEF OpenIs
<1>6. CASE l.word \notin words /\ open >= 0 /\ (Filler(l) \/ l.indent > open)
  <2>1. Under(lines, words, i)
    BY <1>6 DEF OpenIs
  <2>2. PICK j \in 1..i : Opens(lines, words, j, i) /\ open = lines[j].indent
    BY <2>1 DEF OpenIs
  <2>3. Opens(lines, words, j, i + 1) /\ j \in 1..(i + 1)
    BY <1>1, <1>3, <1>6, <2>2
  <2>4. next = open
    BY <1>6 DEF SectionAfter
  <2>5. Under(lines, words, i + 1)
    BY <2>3, UnderIs
  <2> QED  BY <1>6, <2>2, <2>3, <2>4, <2>5 DEF OpenIs
<1>7. CASE l.word \notin words /\ ~(open >= 0 /\ (Filler(l) \/ l.indent > open))
  <2>1. next = -1
    BY <1>7 DEF SectionAfter
  <2>2. ASSUME NEW h \in 1..(i + 1), Opens(lines, words, h, i + 1)  PROVE FALSE
    <3>1. h \in 1..i /\ Opens(lines, words, h, i) /\ (Filler(l) \/ l.indent > lines[h].indent)
      BY <1>2, <1>3, <1>4, <1>7, <2>2
    <3>2. Under(lines, words, i)
      BY <3>1, UnderIs
    <3>3. PICK j \in 1..i : Opens(lines, words, j, i) /\ open = lines[j].indent
      BY <3>2 DEF OpenIs
    <3>4. i \in 1..n
      BY <1>1, <3>1
    <3>5. j = h
      BY <3>1, <3>3, <3>4, OneHead
    <3>6. open \in Nat
      BY <1>1, <3>3
    <3> QED  BY <1>7, <3>1, <3>3, <3>5, <3>6
  <2>3. ~Under(lines, words, i + 1)
    BY <2>2, UnderIs
  <2> QED  BY <2>1, <2>3 DEF OpenIs
<1> QED  BY <1>5, <1>6, <1>7

\* What the engine extracts and compares of a flat configuration are the lines
\* that lie under a line that matches, or match.
LEMMA SectionIs ==
  ASSUME NEW S, NEW lines \in Seq(S), Indented(S), NEW words, Flat(lines, words)
  PROVE  Content(CliFeature(lines, words)) = SectionMeant(lines, words)
<1> DEFINE n == Len(lines)
           About(i) == {k \in 1..i : Under(lines, words, k) /\ ~Filler(lines[k])}
<1>1. n \in Nat /\ DOMAIN lines = 1..n
  OBVIOUS
<1>2. PICK f : /\ f[0] = [open |-> -1, out |-> <<>>]
               /\ \A i \in 1..n :
                    /\ f[i].open = SectionAfter(lines[i], words, f[i - 1].open)
                    /\ f[i].out = IF f[i].open >= 0 THEN Append(f[i - 1].out, lines[i]) ELSE f[i - 1].out
               /\ CliFeature(lines, words) = f[n].out
  BY WalkIs
<1> DEFINE Good(i) == /\ OpenIs(lines, words, i, f[i].open) /\ f[i].out \in Seq(S)
                      /\ Content(f[i].out) = Chosen(lines, About(i))
           K == {i \in 0..n : Good(i)}
<1>3. 0 \in K
  <2>1. f[0].open = -1 /\ f[0].out = <<>>
    BY <1>2
  <2>2. 1..0 = {} /\ DOMAIN <<>> = {} /\ <<>> \in Seq(S) /\ 0 \in 0..n
    BY <1>1
  <2>3. ~Under(lines, words, 0)
    BY <2>2, UnderIs
  <2>4. Content(<<>>) = Chosen(<<>>, {})
    <3>1. {i \in DOMAIN <<>> : ~Filler(<<>>[i])} = {}
      BY <2>2
    <3> QED  BY <3>1 DEF Content
  <2>5. Chosen(<<>>, {}) = Chosen(lines, {})
    BY ChosenOf, 0 \in Nat
  <2>6. About(0) = {}
    BY <2>2
  <2>7. OpenIs(lines, words, 0, -1)
    BY <2>3 DEF OpenIs
  <2> QED  BY <2>1, <2>2, <2>4, <2>5, <2>6, <2>7
<1>4. ASSUME NEW i \in 0..(n - 1), i \in K  PROVE i + 1 \in K
  <2>1. i + 1 \in 1..n /\ (i + 1) - 1 = i /\ i + 1 \in 0..n /\ i \in Nat /\ lines[i + 1] \in S
    BY <1>1
  <2> DEFINE l == lines[i + 1]
             a == f[i + 1]
             b == f[i]
  <2>2. a.open = SectionAfter(l, words, b.open) /\ a.out = IF a.open >= 0 THEN Append(b.out, l) ELSE b.out
    BY <1>2, <2>1
  <2>3. OpenIs(lines, words, i, b.open) /\ b.out \in Seq(S) /\ Content(b.out) = Chosen(lines, About(i))
    BY <1>4
  <2>4. OpenIs(lines, words, i + 1, a.open) /\ (Under(lines, words, i + 1) <=> a.open >= 0)
    BY <2>1, <2>2, <2>3, OpenNext
  <2>5. \A k \in 1..(i + 1) : k \in 1..i \/ k = i + 1
    BY <2>1
  <2>6. \A k \in 1..i : k \in 1..(i + 1)
    BY <2>1
  <2>7. About(i) \subseteq 1..i
    OBVIOUS
  <2>8. a.out \in Seq(S)
    BY <2>1, <2>2, <2>3
  <2>9. CASE Under(lines, words, i + 1) /\ ~Filler(l)
    <3>1. About(i + 1) = About(i) \union {i + 1}
      BY <2>1, <2>5, <2>6, <2>9
    <3> HIDE DEF About
    <3>2. Chosen(lines, About(i) \union {i + 1}) = Append(Chosen(lines, About(i)), l)
      BY <1>1, <2>1, <2>7, ChosenAdd
    <3>3. Content(a.out) = Append(Content(b.out), l)
      BY <2>1, <2>2, <2>3, <2>4, <2>9, ContentAppend
    <3> QED  BY <2>1, <2>3, <2>4, <2>8, <3>1, <3>2, <3>3
  <2>10. CASE ~(Under(lines, words, i + 1) /\ ~Filler(l))
    <3>1. About(i + 1) = About(i)
      BY <2>5, <2>6, <2>10
    <3> HIDE DEF About
    <3>2. Content(a.out) = Content(b.out)
      BY <2>1, <2>2, <2>3, <2>4, <2>10, ContentAppend
    <3> QED  BY <2>1, <2>3, <2>4, <2>8, <3>1, <3>2
  <2> QED  BY <2>9, <2>10
<1>5. n \in K
  <2> HIDE DEF K
  <2>1. n \in 0..n
    BY <1>1
  <2> QED  BY <1>1, <1>3, <1>4, <2>1, UpToAll
<1>6. SectionMeant(lines, words) = Chosen(lines, About(n))
  BY <1>1 DEF SectionMeant
<1> QED  BY <1>2, <1>5, <1>6

\* An object without values that count as false.
Plain(A) ==
  \A k \in DOMAIN A : /\ DOMAIN A[k] # {} /\ A[k] \in [DOMAIN A[k] -> STRING]
                      /\ \A p \in DOMAIN A[k] : A[k][p] \notin Falsy

\* Objects lack nothing of each other when they are the same.
LEMMA LackingNone ==
  ASSUME NEW A, NEW B, Plain(A), Plain(B)
  PROVE  Lacking(A, B) = {} /\ Lacking(B, A) = {} <=> DOMAIN A = DOMAIN B /\ \A k \in DOMAIN A : A[k] = B[k]
<1> USE DEF Plain
<1>1. ASSUME NEW X, NEW Y, \A k \in DOMAIN X : \A p \in DOMAIN X[k] : X[k][p] \notin Falsy
      PROVE  Lacking(X, Y) = {} <=>
               \A k \in DOMAIN X : \A p \in DOMAIN X[k] : k \in DOMAIN Y /\ p \in DOMAIN Y[k] /\ Y[k][p] = X[k][p]
  <2> DEFINE Bad(k, p) == k \notin DOMAIN Y \/ p \notin DOMAIN Y[k] \/ (Y[k][p] # X[k][p] /\ X[k][p] \notin Falsy)
             Of(k) == {<<k, p>> : p \in {q \in DOMAIN X[k] : Bad(k, q)}}
  <2>1. Lacking(X, Y) = UNION {Of(k) : k \in DOMAIN X}
    BY DEF Lacking
  <2>2. \A k, p : k \in DOMAIN X /\ p \in DOMAIN X[k] /\ Bad(k, p) => <<k, p>> \in Of(k)
    OBVIOUS
  <2>3. \A k : Of(k) # {} => \E p \in DOMAIN X[k] : Bad(k, p)
    OBVIOUS
  <2> HIDE DEF Of, Bad
  <2>5. ASSUME Lacking(X, Y) = {}, NEW k \in DOMAIN X, NEW p \in DOMAIN X[k], Bad(k, p)  PROVE FALSE
    <3>1. <<k, p>> \in Of(k)
      BY <2>2, <2>5
    <3> QED  BY <2>1, <2>5, <3>1
  <2>6. ASSUME Lacking(X, Y) # {}  PROVE \E k \in DOMAIN X : \E p \in DOMAIN X[k] : Bad(k, p)
    <3>1. PICK k \in DOMAIN X : Of(k) # {}
      BY <2>1, <2>6
    <3> QED  BY <2>3, <3>1
  <2>4. Lacking(X, Y) = {} <=> \A k \in DOMAIN X : \A p \in DOMAIN X[k] : ~Bad(k, p)
    BY <2>5, <2>6
  <2> USE DEF Bad
  <2> QED  BY <1>1, <2>4
<1>2. /\ Lacking(A, B) = {} <=>
           \A k \in DOMAIN A : \A p \in DOMAIN A[k] : k \in DOMAIN B /\ p \in DOMAIN B[k] /\ B[k][p] = A[k][p]
      /\ Lacking(B, A) = {} <=>
           \A k \in DOMAIN B : \A p \in DOMAIN B[k] : k \in DOMAIN A /\ p \in DOMAIN A[k] /\ A[k][p] = B[k][p]
  BY <1>1
<1>3. ASSUME Lacking(A, B) = {}, Lacking(B, A) = {}  PROVE DOMAIN A = DOMAIN B /\ \A k \in DOMAIN A : A[k] = B[k]
  <2>1. DOMAIN A = DOMAIN B
    BY <1>2, <1>3
  <2>2. ASSUME NEW k \in DOMAIN A  PROVE A[k] = B[k]
    <3> DEFINE a == A[k]
               b == B[k]
    <3>1. a \in [DOMAIN a -> STRING] /\ b \in [DOMAIN b -> STRING]
      BY <2>1
    <3>2. DOMAIN a = DOMAIN b /\ \A p \in DOMAIN a : a[p] = b[p]
      BY <1>2, <1>3, <2>1
    <3> HIDE DEF a, b
    <3>3. a = b
      BY <3>1, <3>2
    <3> QED  BY <3>3 DEF a, b
  <2> QED  BY <2>1, <2>2
<1>4. ASSUME DOMAIN A = DOMAIN B, \A k \in DOMAIN A : A[k] = B[k]  PROVE Lacking(A, B) = {} /\ Lacking(B, A) = {}
  BY <1>2, <1>4
<1> QED  BY <1>3, <1>4

\* What a comparison says of two sections is whether the texts agree on them.
LEMMA CompareIs ==
  ASSUME NEW actual, NEW meant, NEW rule, IsText(actual), IsText(meant), Exact(actual, rule), Exact(meant, rule)
  PROVE  Compare(Feature(actual, rule), Feature(meant, rule), rule).compliant <=> Agree(actual, meant, rule)
<1>1. CASE rule.type = "json"
  <2>1. ASSUME NEW text, IsText(text), Exact(text, rule)
        PROVE  /\ Feature(text, rule).json = text.json
               /\ text.json =>
                    /\ \A k : k \in DOMAIN Feature(text, rule).data <=> k \in DOMAIN ObjectMeant(text.data, rule.words)
                    /\ \A k \in DOMAIN Feature(text, rule).data :
                         /\ Feature(text, rule).data[k] = ObjectMeant(text.data, rule.words)[k]
                         /\ Feature(text, rule).data[k] = text.data[k] /\ k \in DOMAIN text.data
    <3>1. CASE text.json /\ rule.words # {}
      <4>1. Feature(text, rule) = Json([k \in DOMAIN text.data \intersect rule.words |-> text.data[k]])
        BY <1>1, <3>1 DEF Feature
      <4>2. /\ Feature(text, rule).json = TRUE
            /\ Feature(text, rule).data = [k \in DOMAIN text.data \intersect rule.words |-> text.data[k]]
        BY <4>1 DEF Json
      <4> QED  BY <2>1, <3>1, <4>2 DEF ObjectMeant, IsText
    <3>2. CASE ~text.json \/ rule.words = {}
      <4>1. Feature(text, rule) = text
        BY <1>1, <2>1, <3>2 DEF Feature, IsText
      <4> QED  BY <3>2, <4>1 DEF ObjectMeant
    <3> QED  BY <3>1, <3>2
  <2> DEFINE a == Feature(actual, rule)
             i == Feature(meant, rule)
             am == ObjectMeant(actual.data, rule.words)
             im == ObjectMeant(meant.data, rule.words)
  <2>2. /\ a.json = actual.json /\ i.json = meant.json
        /\ actual.json =>
             /\ DOMAIN a.data = DOMAIN am
             /\ \A k \in DOMAIN a.data : a.data[k] = am[k] /\ a.data[k] = actual.data[k] /\ k \in DOMAIN actual.data
        /\ meant.json =>
             /\ DOMAIN i.data = DOMAIN im
             /\ \A k \in DOMAIN i.data : i.data[k] = im[k] /\ i.data[k] = meant.data[k] /\ k \in DOMAIN meant.data
    BY <2>1
  <2>3. CASE ~actual.json \/ ~meant.json
    <3>1. Compare(a, i, rule).compliant = FALSE
      BY <1>1, <2>2, <2>3 DEF Compare, CompareJson, Verdict
    <3> QED  BY <1>1, <2>3, <3>1 DEF Agree
  <2>4. CASE actual.json /\ meant.json
    <3>1. Compare(a, i, rule).compliant <=> Lacking(i.data, a.data) = {} /\ Lacking(a.data, i.data) = {}
      <4> HIDE DEF a, i
      <4> QED  BY <1>1, <2>2, <2>4 DEF Compare, CompareJson, Verdict
    <3>2. /\ \A k \in DOMAIN actual.data : /\ DOMAIN actual.data[k] # {} /\ actual.data[k] \in [DOMAIN actual.data[k] -> STRING]
                                           /\ \A p \in DOMAIN actual.data[k] : actual.data[k][p] \notin Falsy
          /\ \A k \in DOMAIN meant.data : /\ DOMAIN meant.data[k] # {} /\ meant.data[k] \in [DOMAIN meant.data[k] -> STRING]
                                          /\ \A p \in DOMAIN meant.data[k] : meant.data[k][p] \notin Falsy
      BY <1>1 DEF IsText, Exact
    <3>3. Agree(actual, meant, rule) <=> am = im
      <4> HIDE DEF am, im
      <4> QED  BY <1>1, <2>4 DEF Agree, am, im
    <3>4. am = im <=> DOMAIN am = DOMAIN im /\ \A k \in DOMAIN am : am[k] = im[k]
      BY DEF ObjectMeant
    <3> HIDE DEF a, i, am, im
    <3>5. Plain(a.data) /\ Plain(i.data)
      BY <2>2, <2>4, <3>2 DEF Plain
    <3>6. Lacking(a.data, i.data) = {} /\ Lacking(i.data, a.data) = {}
            <=> DOMAIN a.data = DOMAIN i.data /\ \A k \in DOMAIN a.data : a.data[k] = i.data[k]
      BY <3>5, LackingNone
    <3>7. Compare(a, i, rule).compliant <=> Agree(actual, meant, rule)
      BY <2>2, <2>4, <3>1, <3>3, <3>4, <3>6
    <3> QED  BY <3>7 DEF a, i
  <2> QED  BY <2>3, <2>4
<1>2. CASE rule.type # "json"
  <2>1. ASSUME NEW text, IsText(text), Exact(text, rule)
        PROVE  Content(Feature(text, rule).lines) = SectionMeant(text.lines, rule.words)
    <3>1. text.lines \in Seq(ToSet(text.lines)) /\ Indented(ToSet(text.lines)) /\ Flat(text.lines, rule.words)
      BY <1>2, <2>1 DEF IsText, Indented, Exact
    <3>2. Content(CliFeature(text.lines, rule.words)) = SectionMeant(text.lines, rule.words)
      BY <3>1, SectionIs
    <3>3. Feature(text, rule).lines = CliFeature(text.lines, rule.words)
      BY <1>2 DEF Feature, Cli
    <3> QED  BY <3>2, <3>3
  <2> DEFINE a == SectionMeant(actual.lines, rule.words)
             i == SectionMeant(meant.lines, rule.words)
  <2>2. Content(Feature(actual, rule).lines) = a /\ Content(Feature(meant, rule).lines) = i
    BY <2>1
  <2>3. Agree(actual, meant, rule) <=> ToSet(a) = ToSet(i) /\ (rule.ordered => a = i)
    BY <1>2 DEF Agree
  <2> DEFINE v == CompareCli(Feature(actual, rule), Feature(meant, rule), rule.ordered)
  <2>4. v.compliant <=> ToSet(i) \ ToSet(a) = {} /\ ToSet(a) \ ToSet(i) = {} /\ (rule.ordered => a = i)
    <3> HIDE DEF a, i
    <3> QED  BY <2>2 DEF CompareCli, Verdict
  <2>5. Compare(Feature(actual, rule), Feature(meant, rule), rule) = v
    BY <1>2 DEF Compare
  <2> HIDE DEF a, i, v
  <2> QED  BY <2>3, <2>4, <2>5
<1> QED  BY <1>1, <1>2

\* The elements of a finite set as a sequence.
LEMMA ListOfSet ==
  ASSUME NEW S, NEW T, T \subseteq S, IsFiniteSet(T)
  PROVE  SetToSeq(T) \in Seq(S)
<1> DEFINE n == Cardinality(T)
<1>1. n \in Nat /\ ExistsBijection(1..n, T)
  BY FS_CardinalityType
<1>2. PICK f : f \in [1..Cardinality(T) -> T] /\ IsInjective(f)
  BY <1>1 DEF ExistsBijection, Bijection, Injection
<1>3. SetToSeq(T) \in [1..Cardinality(T) -> T]
  BY <1>2 DEF SetToSeq
<1>4. SetToSeq(T) \in [1..n -> S]
  BY <1>1, <1>3
<1> DEFINE q == SetToSeq(T)
<1> HIDE DEF n, q
<1>5. q \in [1..n -> S] /\ n \in Nat
  BY <1>1, <1>4 DEF q
<1>6. q \in Seq(S)
  BY <1>5
<1> QED  BY <1>6 DEF q

LEMMA LargerSeq ==
  ASSUME NEW A, NEW B, A \subseteq B, NEW s \in Seq(A)
  PROVE  s \in Seq(B)
<1>1. Len(s) \in Nat /\ s \in [1..Len(s) -> A]
  OBVIOUS
<1>2. s \in [1..Len(s) -> B]
  BY <1>1
<1> QED  BY <1>1, <1>2

-----------------------------------------------------------------------------
(* The texts of devices *)

\* Every text a device has is in the history, and is one.
TextsOK ==
  /\ \A h \in held : IsText(h[3])
  /\ \A d \in DOMAIN backups : <<"backup", d, backups[d].text>> \in held
  /\ \A d \in DOMAIN intended : <<"intended", d, intended[d].text>> \in held

\* What a check compares are texts the device has had, with rules there are.
Reading(r) ==
  cmd(r).op = "compliance" =>
    /\ pc[r] = "intended" => work[r].actual = NoText \/ <<"backup", Device(r), work[r].actual>> \in held
    /\ pc[r] \in {"rules", "check"} =>
         /\ <<"backup", Device(r), work[r].actual>> \in held /\ work[r].actual # NoText
         /\ <<"intended", Device(r), work[r].intended>> \in held /\ work[r].intended # NoText
    /\ pc[r] = "check" => work[r].rules \in Seq(catalog.rules)

\* A verdict that is true of some texts and rules.
VerdictIn(result, texts, rules) ==
  \E actual, meant \in texts, rule \in rules :
    /\ actual[1] = "backup" /\ meant[1] = "intended"
    /\ actual[2] = result.device /\ meant[2] = result.device
    /\ rule.name = result.rule /\ rule.feature = result.feature
    /\ actual[3] # NoText /\ meant[3] # NoText
    /\ result.actual = Feature(actual[3], rule) /\ result.intended = Feature(meant[3], rule)
    /\ Exact(actual[3], rule) /\ Exact(meant[3], rule) =>
         (result.compliant <=> Agree(actual[3], meant[3], rule))

ResultsOK ==
  \A k \in DOMAIN results :
    k = Key(results[k]) /\ (results[k].run \in Requests => VerdictIn(results[k], held, catalog.rules))

RulesOK == DOMAIN catalog = Tables /\ IsFiniteSet(catalog.rules)

VerdictInv ==
  /\ Frame /\ RulesOK /\ TextsOK /\ ResultsOK
  /\ \A r \in Requests : Reading(r)

LEMMA VerdictStays ==
  ASSUME NEW x, NEW texts, NEW rules, NEW more, NEW other, texts \subseteq more, rules \subseteq other, VerdictIn(x, texts, rules)
  PROVE  VerdictIn(x, more, other)
  BY DEF VerdictIn

LEMMA CreateRules ==
  ASSUME RulesOK, scene \in Scenes, NEW r \in Requests, Create(r)
  PROVE  RulesOK' /\ catalog.rules \subseteq catalog'.rules
<1> DEFINE object == cmd(r).object
           into == cmd(r).into
<1>1. catalog' = [catalog EXCEPT ![into] = @ \union {object}]
  BY DEF Create
<1> HIDE DEF object, into
<1>2. DOMAIN catalog' = Tables /\ "rules" \in Tables
  BY <1>1 DEF RulesOK, Tables
<1>3. catalog'.rules = catalog.rules \/ catalog'.rules = catalog.rules \union {object}
  BY <1>1, <1>2 DEF RulesOK
<1>4. IsFiniteSet(catalog.rules \union {object})
  BY FS_AddElement DEF RulesOK
<1> QED  BY <1>2, <1>3, <1>4 DEF RulesOK

\* What the steps of a request change of all this.
LEMMA StepTexts ==
  ASSUME NEW r \in Requests, Step(r)
  PROVE  /\ results' = results \/ CheckRule(r)
         /\ ifaces' = ifaces \/ \E item : Apply(r, item)
         /\ alone' = alone \/ Begin(r)
<1>1. CASE Begin(r) \/ Create(r) \/ LinkRule(r) \/ Fault(r)
  BY <1>1 DEF Begin, Create, LinkRule, Fault, graphVars
<1>2. CASE RunRaises(r) \/ ContextStep(r)
  BY <1>2 DEF RunRaises, ContextStep, ContextDevice, ContextMerge, ReadOnly, graphVars
<1>4. CASE CheckStep(r)
  BY <1>4 DEF CheckStep, CheckDevice, CheckBackup, CheckIntended, CheckRules, CheckRule, ReadOnly, graphVars
<1>5. CASE SourceStep(r)
  BY <1>5 DEF SourceStep, ReadSource, ReadInterfaces, ReadLinks, ReadRelations, ReadOnly, graphVars
<1>6. CASE WriteStep(r)
  BY <1>6 DEF WriteStep, ReadDestination, ReadMapping, Write, ReadOnly, graphVars
<1> QED  BY <1>1, <1>2, <1>4, <1>5, <1>6 DEF Step

LEMMA OfChecks ==
  ASSUME NEW r \in Requests, Step(r), cmd(r).op = "compliance"
  PROVE  Begin(r) \/ CheckStep(r) \/ Fault(r)
  BY DEF Step, RunRaises, ContextStep, ContextDevice, ContextMerge, SourceStep, ReadSource, ReadInterfaces, ReadLinks, ReadRelations,
     WriteStep, ReadDestination, ReadMapping, Write, ReplacementStep, IsReplacement, Create, LinkRule

LEMMA TextsStep ==
  ASSUME VerdictInv, NEW r \in Requests, Step(r)
  PROVE  TextsOK' /\ held' = held
  BY StepFacts DEF VerdictInv, TextsOK

LEMMA TailIs ==
  ASSUME NEW S, NEW s \in Seq(S), s # <<>>
  PROVE  Tail(s) \in Seq(S)
  OBVIOUS

LEMMA ReadingOthers ==
  ASSUME NEW r \in Requests, Reading(r), scene' = scene, pc'[r] = pc[r], work'[r] = work[r], todo'[r] = todo[r],
         held \subseteq held', catalog.rules \subseteq catalog'.rules
  PROVE  Reading(r)'
<1>1. cmd(r)' = cmd(r) /\ Device(r)' = Device(r)
  BY DEF cmd, Device
<1>2. work[r].rules \in Seq(catalog.rules) => work[r].rules \in Seq(catalog'.rules)
  BY LargerSeq
<1> QED  BY <1>1, <1>2 DEF Reading

\* The text of a device is one it has.
LEMMA TextIsHeld ==
  ASSUME TextsOK, NEW d
  PROVE  /\ TextOf(backups, d) # NoText => <<"backup", d, TextOf(backups, d)>> \in held
         /\ TextOf(intended, d) # NoText => <<"intended", d, TextOf(intended, d)>> \in held
  BY DEF TextsOK, TextOf

LEMMA RuleOrderIs ==
  ASSUME RulesOK, NEW platform, NEW q \in RuleOrders(platform)
  PROVE  q \in Seq(catalog.rules)
<1> DEFINE rules == {x \in catalog.rules : x.platform = platform}
<1>1. rules \subseteq catalog.rules /\ IsFiniteSet(rules)
  <2>1. rules \subseteq catalog.rules
    OBVIOUS
  <2> QED  BY <2>1, FS_Subset DEF RulesOK
<1>2. q \in [1..Cardinality(rules) -> rules]
  BY DEF RuleOrders
<1> HIDE DEF rules
<1>3. Cardinality(rules) \in Nat
  BY <1>1, FS_CardinalityType
<1>4. q \in Seq(rules)
  BY <1>2, <1>3
<1> QED  BY <1>1, <1>4, LargerSeq

\* What a step of a check does with the rules it has read.
LEMMA CheckRuleIs ==
  ASSUME Frame, NEW r \in Requests, CheckRule(r)
  PROVE  LET rules == work[r].rules
             rule == Head(rules)
             found == ResultOf(r, rule)
         IN /\ pc[r] = "check" /\ cmd(r).op = "compliance"
            /\ \/ rules = <<>> /\ Outcome(r, Checked(r)) /\ results' = results
               \/ rules # <<>> /\ Outcome(r, Failed) /\ results' = results
               \/ /\ rules # <<>> /\ results' = Put(results, Key(found), found)
                  /\ DOMAIN work'[r] = Fields /\ work'[r].rules = Tail(rules)
                  /\ work'[r].features = Append(work[r].features, found)
                  /\ work'[r].actual = work[r].actual /\ work'[r].intended = work[r].intended
                  /\ pc' = pc /\ todo' = todo /\ report' = report
<1> DEFINE rules == work[r].rules
           rule == Head(rules)
           found == ResultOf(r, rule)
           all == Append(work[r].features, found)
           rest == Tail(rules)
           w == [work[r] EXCEPT !.rules = rest, !.features = all]
<1>1. pc[r] = "check" /\ cmd(r).op = "compliance"
  BY DEF CheckRule
<1>2. CASE rules = <<>>
  BY <1>1, <1>2 DEF CheckRule
<1>3. CASE rules # <<>> /\ (Raises(work[r].actual, rule) \/ Raises(work[r].intended, rule))
  BY <1>1, <1>3 DEF CheckRule
<1>4. CASE rules # <<>> /\ ~(Raises(work[r].actual, rule) \/ Raises(work[r].intended, rule))
  <2>1. /\ results' = Put(results, Key(found), found) /\ pc' = pc /\ todo' = todo /\ report' = report
    BY <1>4 DEF CheckRule
  <2>2. work' = [work EXCEPT ![r] = w]
    BY <1>4 DEF CheckRule, Learn
  <2> HIDE DEF all, rest, found
  <2>3. /\ DOMAIN w = Fields /\ w.rules = rest /\ w.features = all
        /\ w.actual = work[r].actual /\ w.intended = work[r].intended
    BY WorkIs DEF Fields
  <2> HIDE DEF w
  <2>4. work'[r] = w
    BY <2>2 DEF Frame
  <2> QED  BY <1>1, <1>4, <2>1, <2>3, <2>4 DEF all, rest, found
<1> QED  BY <1>2, <1>3, <1>4

LEMMA ReadingStep ==
  ASSUME VerdictInv, NEW r \in Requests, Step(r), held \subseteq held', catalog.rules \subseteq catalog'.rules
  PROVE  Reading(r)'
<1> USE DEF VerdictInv
<1>1. scene' = scene /\ cmd(r)' = cmd(r)
  BY StepFacts DEF cmd
<1>2. SUFFICES ASSUME cmd(r).op = "compliance"  PROVE Reading(r)'
  BY <1>1 DEF Reading
<1>3. ASSUME NEW o, Outcome(r, o)  PROVE Reading(r)'
  <2>1. pc'[r] \in {"end", "device"}
    BY <1>3, OutcomeMoves
  <2> QED  BY <2>1 DEF Reading
<1>4. ASSUME NEW w, NEW next, Continue(r, w, next), DOMAIN w = Fields,
             next = "intended" => w.actual = NoText \/ <<"backup", Device(r), w.actual>> \in held,
             next \in {"rules", "check"} =>
               /\ <<"backup", Device(r), w.actual>> \in held /\ w.actual # NoText
               /\ <<"intended", Device(r), w.intended>> \in held /\ w.intended # NoText,
             next = "check" => w.rules \in Seq(catalog.rules)
      PROVE  Reading(r)'
  <2>1. pc'[r] = next /\ work'[r] = w /\ Device(r)' = Device(r)
    BY <1>4, ContinueMoves DEF Device
  <2>2. next = "check" => w.rules \in Seq(catalog'.rules)
    BY <1>4, LargerSeq
  <2> QED  BY <1>4, <2>1, <2>2 DEF Reading
<1>5. CASE Begin(r)
  <2>1. pc'[r] \in {"create", "source", "end", "device"}
    BY <1>5, BeginMoves
  <2> QED  BY <2>1 DEF Reading
<1>6. CASE Fault(r)
  <2>1. CASE pc'[r] = "end"
    BY <2>1 DEF Reading
  <2> QED  BY <1>3, <1>6, <2>1, FaultMoves
<1>7. CASE CheckDevice(r)
  BY <1>3, <1>4, <1>7, WorkIs DEF CheckDevice, Read
<1>8. CASE CheckBackup(r)
  <2> DEFINE t == TextOf(backups, Device(r))
             w == [work[r] EXCEPT !.actual = t]
  <2>1. Continue(r, w, "intended")
    BY <1>8 DEF CheckBackup
  <2>2. t = NoText \/ <<"backup", Device(r), t>> \in held
    BY TextIsHeld
  <2> HIDE DEF t
  <2>3. DOMAIN w = Fields /\ w.actual = t
    BY WorkIs DEF Fields
  <2> HIDE DEF w
  <2> QED  BY <1>4, <2>1, <2>2, <2>3
<1>9. CASE CheckIntended(r)
  <2> DEFINE t == TextOf(intended, Device(r))
             w == [work[r] EXCEPT !.intended = t]
  <2>1. \/ Outcome(r, Failed)
        \/ work[r].actual # NoText /\ t # NoText /\ Continue(r, w, "rules")
    BY <1>9 DEF CheckIntended, Read
  <2>2. t # NoText => <<"intended", Device(r), t>> \in held
    BY TextIsHeld
  <2>3. work[r].actual # NoText => <<"backup", Device(r), work[r].actual>> \in held
    BY <1>2, <1>9 DEF CheckIntended, Reading
  <2> HIDE DEF t
  <2>4. DOMAIN w = Fields /\ w.actual = work[r].actual /\ w.intended = t
    BY WorkIs DEF Fields
  <2> HIDE DEF w
  <2> QED  BY <1>3, <1>4, <2>1, <2>2, <2>3, <2>4
<1>10. CASE CheckRules(r)
  <2>1. PICK q \in RuleOrders(PlatformOf(Device(r))) :
          Outcome(r, Failed) \/ Continue(r, [work[r] EXCEPT !.rules = q], "check")
    BY <1>10 DEF CheckRules, Read
  <2>2. q \in Seq(catalog.rules)
    BY RuleOrderIs
  <2>3. /\ <<"backup", Device(r), work[r].actual>> \in held /\ work[r].actual # NoText
        /\ <<"intended", Device(r), work[r].intended>> \in held /\ work[r].intended # NoText
    BY <1>2, <1>10 DEF CheckRules, Reading
  <2> DEFINE w == [work[r] EXCEPT !.rules = q]
  <2>4. Outcome(r, Failed) \/ Continue(r, w, "check")
    BY <2>1
  <2>5. DOMAIN w = Fields /\ w.actual = work[r].actual /\ w.intended = work[r].intended /\ w.rules = q
    BY WorkIs DEF Fields
  <2> HIDE DEF w
  <2> QED  BY <1>3, <1>4, <2>2, <2>3, <2>4, <2>5
<1>11. CASE CheckRule(r)
  <2>1. CASE \E o : Outcome(r, o)
    BY <1>3, <2>1
  <2>2. CASE ~\E o : Outcome(r, o)
    <3>1. /\ work[r].rules # <<>> /\ work'[r].rules = Tail(work[r].rules)
          /\ work'[r].actual = work[r].actual /\ work'[r].intended = work[r].intended
          /\ pc' = pc /\ todo' = todo /\ pc[r] = "check"
      BY <1>11, <2>2, CheckRuleIs
    <3>2. work[r].rules \in Seq(catalog.rules)
      BY <1>2, <3>1 DEF Reading
    <3>3. Tail(work[r].rules) \in Seq(catalog.rules)
      BY <3>1, <3>2, TailIs
    <3>4. Tail(work[r].rules) \in Seq(catalog'.rules)
      BY <3>3, LargerSeq
    <3>5. Device(r)' = Device(r)
      BY <3>1 DEF Device
    <3> QED  BY <1>2, <3>1, <3>4, <3>5 DEF Reading
  <2> QED  BY <2>1, <2>2
<1> QED  BY <1>2, <1>5, <1>6, <1>7, <1>8, <1>9, <1>10, <1>11, OfChecks DEF CheckStep

\* A result is true of the texts that were read.
LEMMA FoundIsTrue ==
  ASSUME VerdictInv, NEW r \in Requests, pc[r] = "check", cmd(r).op = "compliance", work[r].rules # <<>>,
         NEW found, found = ResultOf(r, Head(work[r].rules))
  PROVE  VerdictIn(found, held, catalog.rules) /\ Key(found) = <<Device(r), found.feature>>
<1> DEFINE rule == Head(work[r].rules)
           d == Device(r)
           a == work[r].actual
           m == work[r].intended
           ha == <<"backup", d, a>>
           hm == <<"intended", d, m>>
<1>1. /\ ha \in held /\ a # NoText /\ hm \in held /\ m # NoText /\ work[r].rules \in Seq(catalog.rules)
  BY DEF VerdictInv, Reading
<1>2. rule \in catalog.rules
  BY <1>1
<1>3. IsText(a) /\ IsText(m)
  BY <1>1 DEF VerdictInv, TextsOK
<1> DEFINE v == Compare(Feature(a, rule), Feature(m, rule), rule)
<1>4. /\ found.device = d /\ found.feature = rule.feature /\ found.rule = rule.name /\ found.compliant = v.compliant
      /\ found.actual = Feature(a, rule) /\ found.intended = Feature(m, rule)
  BY DEF ResultOf
<1>5. Exact(a, rule) /\ Exact(m, rule) => (v.compliant <=> Agree(a, m, rule))
  BY <1>3, CompareIs
<1>6. /\ ha[1] = "backup" /\ ha[2] = d /\ ha[3] = a /\ hm[1] = "intended" /\ hm[2] = d /\ hm[3] = m
  OBVIOUS
<1>7. Key(found) = <<d, found.feature>>
  BY <1>4 DEF Key
<1> HIDE DEF v, rule, d, a, m, ha, hm
<1>8. VerdictIn(found, held, catalog.rules)
  BY <1>1, <1>2, <1>4, <1>5, <1>6 DEF VerdictIn
<1> QED  BY <1>7, <1>8 DEF d

LEMMA ResultsStep ==
  ASSUME VerdictInv, NEW r \in Requests, Step(r), held \subseteq held', catalog.rules \subseteq catalog'.rules
  PROVE  ResultsOK'
<1>1. ASSUME results' = results  PROVE ResultsOK'
  BY <1>1, VerdictStays DEF VerdictInv, ResultsOK
<1>2. CASE CheckRule(r) /\ results' # results
  <2> DEFINE found == ResultOf(r, Head(work[r].rules))
  <2>1. results' = Put(results, Key(found), found) /\ pc[r] = "check" /\ cmd(r).op = "compliance" /\ work[r].rules # <<>>
    BY <1>2, CheckRuleIs DEF VerdictInv
  <2>2. VerdictIn(found, held, catalog.rules)
    BY <2>1, FoundIsTrue
  <2> HIDE DEF found
  <2>3. \A k \in DOMAIN results' :
          (k = Key(found) /\ results'[k] = found) \/ (k \in DOMAIN results /\ results'[k] = results[k])
    BY <2>1 DEF Put
  <2> QED  BY <2>2, <2>3, VerdictStays DEF VerdictInv, ResultsOK
<1> QED  BY <1>1, <1>2, StepTexts

LEMMA VerdictRest ==
  ASSUME VerdictInv, UNCHANGED <<scene, results, catalog, pc, todo, work, report>>, TextsOK', held \subseteq held'
  PROVE  VerdictInv'
<1>1. Frame' /\ RulesOK'
  BY DEF VerdictInv, Frame, Shape, RulesOK
<1>2. ResultsOK'
  BY VerdictStays DEF VerdictInv, ResultsOK
<1>3. ASSUME NEW r \in Requests  PROVE Reading(r)'
  BY ReadingOthers DEF VerdictInv
<1> QED  BY <1>1, <1>2, <1>3 DEF VerdictInv

LEMMA FrameStep ==
  ASSUME Frame, NEW r \in Requests, Step(r)
  PROVE  Frame' /\ Moves(r)
<1>1. Moves(r) /\ scene' = scene
  BY StepMoves, StepFacts DEF Step
<1>2. \A q \in Requests : Shape(q)'
  <2>1. \A q \in Requests \ {r} : Shape(q)'
    BY <1>1 DEF Moves, Frame, Shape
  <2> QED  BY <1>1, <2>1 DEF Moves
<1> QED  BY <1>1, <1>2 DEF Moves, Frame

LEMMA VerdictInvInit == ASSUME Init PROVE VerdictInv
<1>1. Frame
  BY ContextInvInit DEF ContextInv
<1>2. RulesOK
  BY SceneAssumption DEF Init, RulesOK, CatalogFits, Tables
<1>3. TextsOK
  <2>1. \A h \in held : IsText(h[3])
    <3>1. /\ \A d \in DOMAIN backups : IsText(<<"backup", d, backups[d].text>>[3])
          /\ \A d \in DOMAIN intended : IsText(<<"intended", d, intended[d].text>>[3])
      BY SceneAssumption DEF Init, RecordsFit
    <3> QED  BY <3>1 DEF Init
  <2> QED  BY <2>1 DEF Init, TextsOK
<1>4. ResultsOK
  BY SceneAssumption DEF Init, RecordsFit, ResultsOK
<1>5. ASSUME NEW r \in Requests  PROVE Reading(r)
  <2>1. pc[r] = "idle"
    BY DEF Init
  <2> QED  BY <2>1 DEF Reading
<1> QED  BY <1>1, <1>2, <1>3, <1>4, <1>5 DEF VerdictInv

LEMMA VerdictInvStep == ASSUME VerdictInv, [Next]_vars PROVE VerdictInv'
<1>1. ASSUME NEW r \in Requests, Step(r)  PROVE VerdictInv'
  <2>1. Frame' /\ Moves(r) /\ scene' = scene
    BY <1>1, FrameStep, StepFacts DEF VerdictInv
  <2>2. TextsOK' /\ held' = held
    BY <1>1, TextsStep
  <2>3. RulesOK' /\ catalog.rules \subseteq catalog'.rules
    <3>1. CASE catalog' = catalog
      BY <3>1 DEF VerdictInv, RulesOK
    <3>2. CASE Create(r)
      BY <3>2, CreateRules DEF VerdictInv, Frame
    <3> QED  BY <1>1, <3>1, <3>2, StepFacts
  <2>5. ResultsOK'
    BY <1>1, <2>2, <2>3, ResultsStep
  <2>6. Reading(r)'
    BY <1>1, <2>2, <2>3, ReadingStep
  <2>7. ASSUME NEW q \in Requests \ {r}  PROVE Reading(q)'
    <3>1. pc'[q] = pc[q] /\ work'[q] = work[q] /\ todo'[q] = todo[q]
      BY <2>1 DEF Moves
    <3> QED  BY <2>1, <2>2, <2>3, <3>1, ReadingOthers DEF VerdictInv
  <2> QED  BY <2>1, <2>2, <2>3, <2>5, <2>6, <2>7 DEF VerdictInv
<1>2. ASSUME NEW d, DeleteDevice(d)  PROVE VerdictInv'
  BY <1>2, VerdictRest DEF DeleteDevice, VerdictInv, TextsOK
<1>3. ASSUME NEW x \in scene.collected, StoreBackup(x.device, x.text) \/ StoreIntended(x.device, x.text)
      PROVE  VerdictInv'
  <2> DEFINE d == x.device
             t == x.text
             new == [text |-> t]
  <2>1. IsText(t)
    BY SceneAssumption DEF VerdictInv, Frame, RecordsFit
  <2>2. /\ UNCHANGED <<scene, results, catalog, pc, todo, work, report>>
        /\ \/ /\ backups' = Put(backups, d, new) /\ held' = held \union {<<"backup", d, t>>}
              /\ intended' = intended
           \/ /\ intended' = Put(intended, d, new) /\ held' = held \union {<<"intended", d, t>>}
              /\ backups' = backups
    BY <1>3 DEF StoreBackup, StoreIntended
  <2>3. new.text = t /\ \A kind : <<kind, d, t>>[3] = t
    OBVIOUS
  <2> HIDE DEF d, t, new
  <2>4. (\A h \in held' : IsText(h[3])) /\ held \subseteq held'
    BY <2>1, <2>2, <2>3 DEF VerdictInv, TextsOK
  <2>5. \A texts : \A e \in DOMAIN Put(texts, d, new) :
          IF e = d THEN Put(texts, d, new)[e].text = t ELSE e \in DOMAIN texts /\ Put(texts, d, new)[e] = texts[e]
    BY <2>3 DEF Put
  <2>6. TextsOK'
    <3>1. \A e \in DOMAIN backups' : <<"backup", e, backups'[e].text>> \in held'
      BY <2>2, <2>5 DEF VerdictInv, TextsOK
    <3>2. \A e \in DOMAIN intended' : <<"intended", e, intended'[e].text>> \in held'
      BY <2>2, <2>5 DEF VerdictInv, TextsOK
    <3> QED  BY <2>4, <3>1, <3>2 DEF TextsOK
  <2> QED  BY <2>2, <2>4, <2>6, VerdictRest
<1>4. CASE UNCHANGED vars
  BY <1>4, VerdictRest DEF vars, graphVars, VerdictInv, TextsOK
<1> QED  BY <1>1, <1>2, <1>3, <1>4 DEF Next, Step

LEMMA VerdictsHold == VerdictInv => VerdictsTrue
  BY DEF VerdictInv, ResultsOK, VerdictIn, VerdictsTrue, VerdictTrue

-----------------------------------------------------------------------------
(* What a check reports *)

Distinct(fs) == \A i, j \in DOMAIN fs : fs[i].feature = fs[j].feature => i = j

\* The results of the rules that a check has done for its device.
InHand(r) ==
  pc[r] = "check" =>
    LET fs == work[r].features IN
    Distinct(fs) => \A i \in DOMAIN fs : /\ <<Device(r), fs[i].feature>> \in DOMAIN results
                                         /\ results[<<Device(r), fs[i].feature>>] = fs[i]

\* An outcome agrees with the results of its features.
Agrees(o, stored) ==
  Cardinality(o.features) = o.rules =>
    /\ o.features # {}
    /\ \A f \in o.features : <<o.device, f>> \in DOMAIN stored
    /\ o.compliant <=> \A f \in o.features : stored[<<o.device, f>>].compliant

\* The outcome is not overtaken by another one of its device, nor about to be.
Latest_Outcome(r, i) ==
  /\ \A j \in DOMAIN report[r].outcomes : report[r].outcomes[j].device = report[r].outcomes[i].device => j <= i
  /\ ~(pc[r] = "check" /\ Device(r) = report[r].outcomes[i].device)

ReportedOK(r) ==
  \A i \in DOMAIN report[r].outcomes :
    report[r].outcomes[i].success /\ Latest_Outcome(r, i) => Agrees(report[r].outcomes[i], results)

\* The rules done so far are there as a sequence, and at least one is done at the end.
HandShape(r) ==
  /\ IsSequence(work[r].features)
  /\ pc[r] # "check" => work[r].features = <<>>
  /\ pc[r] = "check" => work[r].features # <<>> \/ work[r].rules # <<>>
  /\ pc[r] = "idle" => report[r].outcomes = <<>>

\* While a check that is alone runs, and when it has reported, no other one runs.
Running(r) == pc[r] \notin {"idle", "end"} \/ report[r].outcomes # <<>>
AloneOK ==
  /\ DOMAIN alone = Requests
  /\ \A r \in Checks : alone[r] /\ Running(r) => \A o \in Checks \ {r} : pc[o] \in {"idle", "end"}

ReportInv ==
  /\ VerdictInv /\ AloneOK
  /\ \A r \in Checks : HandShape(r) /\ (alone[r] => InHand(r) /\ ReportedOK(r))

LEMMA EmptyIs == IsSequence(<<>>)
<1>1. <<>> \in Seq({})
  OBVIOUS
<1> QED  BY <1>1 DEF IsSequence

\* A check that starts knows whether it is alone, and no other one stays alone.
LEMMA AloneStep ==
  ASSUME AloneOK, Frame, \A q \in Checks : HandShape(q), NEW r \in Requests, Step(r)
  PROVE  AloneOK' /\ \A q \in Requests : alone'[q] => alone[q] \/ (q = r /\ Begin(r))
<1>1. Moves(r) /\ scene' = scene /\ Checks' = Checks
  BY FrameStep, StepFacts DEF Checks, cmd
<1>2. /\ \A q \in Requests \ {r} : pc'[q] = pc[q] /\ report'[q] = report[q]
      /\ Checks \subseteq Requests
  BY <1>1 DEF Moves, Checks
<1>3. CASE Begin(r) /\ r \in Checks
  <2>1. alone' = [q \in Requests |-> IF q = r THEN \A o \in Checks \ {r} : pc[o] \in {"idle", "end"}
                                     ELSE alone[q] /\ pc[q] = "idle"]
    BY <1>3 DEF Begin
  <2>2. \A q \in Checks : pc[q] = "idle" => report[q].outcomes = <<>>
    BY DEF HandShape
  <2>3. ASSUME NEW q \in Checks, alone'[q], Running(q)', NEW o \in Checks \ {q}  PROVE pc'[o] \in {"idle", "end"}
    <3>1. CASE q = r
      BY <1>2, <2>1, <2>3, <3>1
    <3>2. CASE q # r
      <4>1. pc'[q] = "idle" /\ report'[q].outcomes = <<>>
        BY <1>2, <2>1, <2>2, <2>3, <3>2
      <4> QED  BY <2>3, <4>1 DEF Running
    <3> QED  BY <3>1, <3>2
  <2>4. DOMAIN alone' = Requests /\ \A q \in Requests : alone'[q] => alone[q] \/ (q = r /\ Begin(r))
    BY <1>3, <2>1
  <2> QED  BY <1>1, <2>3, <2>4 DEF AloneOK
<1>4. CASE ~(Begin(r) /\ r \in Checks)
  <2>1. alone' = alone
    BY <1>4, StepTexts DEF Begin
  <2>2. ASSUME r \in Checks
        PROVE  pc[r] # "end" /\ (pc[r] = "idle" => pc'[r] = "end" /\ report'[r].outcomes = <<>>)
    <3>1. cmd(r).op = "compliance"
      BY <2>2 DEF Checks
    <3>2. CheckStep(r) \/ Fault(r)
      BY <1>4, <2>2, <3>1, OfChecks
    <3>3. CASE CheckStep(r)
      BY <3>3 DEF CheckStep, CheckDevice, CheckBackup, CheckIntended, CheckRules, CheckRule
    <3>4. CASE Fault(r)
      <4>1. pc[r] # "end"
        BY <3>4 DEF Fault
      <4>2. ASSUME pc[r] = "idle"  PROVE pc'[r] = "end" /\ report'[r].outcomes = <<>>
        <5>1. report' = [report EXCEPT ![r].status = "error"] /\ Go(r, "end")
          BY <3>1, <3>4, <4>2 DEF Fault, IsReplacement, Ends
        <5>2. report[r].outcomes = <<>>
          BY <2>2, <4>2 DEF HandShape
        <5> QED  BY <5>1, <5>2 DEF Go, Frame, Shape, Answer
      <4> QED  BY <4>1, <4>2
    <3> QED  BY <3>2, <3>3, <3>4
  <2>3. ASSUME NEW q \in Checks, alone'[q], Running(q)', NEW o \in Checks \ {q}  PROVE pc'[o] \in {"idle", "end"}
    <3>1. Running(q)
      <4>1. CASE q = r
        BY <2>2, <2>3, <4>1 DEF Running
      <4>2. CASE q # r
        BY <1>2, <2>3, <4>2 DEF Running
      <4> QED  BY <4>1, <4>2
    <3>2. pc[o] \in {"idle", "end"}
      BY <2>1, <2>3, <3>1 DEF AloneOK
    <3>3. CASE o = r
      BY <2>2, <3>2, <3>3
    <3>4. CASE o # r
      BY <1>2, <3>2, <3>4
    <3> QED  BY <3>3, <3>4
  <2> QED  BY <1>1, <2>1, <2>3 DEF AloneOK
<1> QED  BY <1>3, <1>4

Present(fs, d, stored) ==
  \A i \in DOMAIN fs : <<d, fs[i].feature>> \in DOMAIN stored /\ stored[<<d, fs[i].feature>>] = fs[i]

LEMMA AppendNonempty ==
  ASSUME NEW s, IsSequence(s), NEW x, NEW t, t = Append(s, x)
  PROVE  t # <<>>
<1>1. Len(s) \in Nat /\ DOMAIN t = 1..(Len(s) + 1)
  BY AppendFacts
<1>2. \A n \in Nat : n + 1 \in 1..(n + 1)
  OBVIOUS
<1>3. DOMAIN <<>> = {}
  OBVIOUS
<1> QED  BY <1>1, <1>2, <1>3

LEMMA PlacesAre ==
  ASSUME NEW n \in Nat
  PROVE  IsFiniteSet(1..n) /\ Cardinality(1..n) = n
<1>1. 1 \in Int /\ n \in Int
  OBVIOUS
<1>2. IsFiniteSet(1..n) /\ Cardinality(1..n) = IF 1 > n THEN 0 ELSE n - 1 + 1
  BY <1>1, FS_Interval
<1> QED  BY <1>2

\* As many features as rules: no two rules share one.
LEMMA AsManyFeatures ==
  ASSUME NEW fs, IsSequence(fs), NEW names, names = {fs[i].feature : i \in DOMAIN fs}, Cardinality(names) = Len(fs)
  PROVE  Distinct(fs)
<1> DEFINE n == Len(fs)
<1>1. n \in Nat /\ DOMAIN fs = 1..n
  <2>1. PICK S : fs \in Seq(S)
    BY DEF IsSequence
  <2> QED  BY <2>1
<1> HIDE DEF n
<1>2. IsFiniteSet(1..n) /\ Cardinality(1..n) = n
  BY <1>1, PlacesAre
<1> DEFINE f == [i \in 1..n |-> fs[i].feature]
<1>3. f \in Surjection(1..n, names)
  BY <1>1 DEF Surjection
<1>4. f \in Injection(1..n, names)
  <2>1. Cardinality(names) = Cardinality(1..n)
    BY <1>2 DEF n
  <2> QED  BY <1>2, <1>3, <2>1, FS_Surjection
<1>5. \A i, j \in 1..n : f[i] = f[j] => i = j
  BY <1>4 DEF Injection, IsInjective
<1> QED  BY <1>1, <1>5 DEF Distinct

\* What a check reports of a device agrees with the results it has stored.
LEMMA CheckedAgrees ==
  ASSUME NEW fs, IsSequence(fs), fs # <<>>, NEW stored, NEW o,
         Distinct(fs) => Present(fs, o.device, stored),
         o.features = {fs[i].feature : i \in DOMAIN fs}, o.rules = Len(fs),
         o.compliant <=> \A i \in DOMAIN fs : fs[i].compliant
  PROVE  Agrees(o, stored)
<1>1. SUFFICES ASSUME Cardinality(o.features) = o.rules
               PROVE  /\ o.features # {}
                      /\ \A f \in o.features : <<o.device, f>> \in DOMAIN stored
                      /\ o.compliant <=> \A f \in o.features : stored[<<o.device, f>>].compliant
  BY DEF Agrees
<1>2. Present(fs, o.device, stored)
  BY <1>1, AsManyFeatures
<1>3. DOMAIN fs # {}
  <2>1. PICK S : fs \in Seq(S)
    BY DEF IsSequence
  <2> QED  BY <2>1
<1>4. o.features # {}
  BY <1>3
<1>5. \A i \in DOMAIN fs : <<o.device, fs[i].feature>> \in DOMAIN stored
                           /\ stored[<<o.device, fs[i].feature>>].compliant = fs[i].compliant
  BY <1>2 DEF Present
<1> DEFINE name(i) == fs[i].feature
           good(i) == fs[i].compliant
           is(f) == <<o.device, f>> \in DOMAIN stored
           ok(f) == stored[<<o.device, f>>].compliant
<1>6. /\ \A i \in DOMAIN fs : is(name(i)) /\ ok(name(i)) = good(i)
      /\ o.features = {name(i) : i \in DOMAIN fs} /\ (o.compliant <=> \A i \in DOMAIN fs : good(i))
  BY <1>5
<1> HIDE DEF name, good, is, ok
<1>7. (\A f \in o.features : is(f)) /\ (o.compliant <=> \A f \in o.features : ok(f))
  BY <1>6
<1> QED  BY <1>4, <1>7 DEF is, ok

\* The ways in which a request that checks moves.
CheckCase(r) ==
  LET found == ResultOf(r, Head(work[r].rules)) IN
  \/ /\ results' = results /\ pc[r] # "check" /\ work'[r].features = work[r].features
     /\ report'[r].outcomes = report[r].outcomes
     /\ pc'[r] = "check" => work'[r].rules # <<>>
  \/ results' = results /\ Outcome(r, Failed)
  \/ results' = results /\ pc[r] = "check" /\ work[r].rules = <<>> /\ Outcome(r, Checked(r))
  \/ /\ results' = Put(results, Key(found), found) /\ Key(found) = <<Device(r), found.feature>>
     /\ pc[r] = "check" /\ pc' = pc /\ todo' = todo /\ report' = report
     /\ work'[r].features = Append(work[r].features, found)

LEMMA CheckCases ==
  ASSUME VerdictInv, NEW r \in Checks, HandShape(r), Step(r)
  PROVE  CheckCase(r) /\ pc'[r] # "idle"
<1> DEFINE Quiet == /\ results' = results /\ pc[r] # "check" /\ work'[r].features = work[r].features
                    /\ report'[r].outcomes = report[r].outcomes
                    /\ pc'[r] = "check" => work'[r].rules # <<>>
                    /\ pc'[r] # "idle"
<1>1. r \in Requests /\ cmd(r).op = "compliance" /\ Frame
  BY DEF Checks, VerdictInv
<1>2. ASSUME Quiet  PROVE CheckCase(r) /\ pc'[r] # "idle"
  BY <1>2 DEF CheckCase
<1>3. ASSUME Outcome(r, Failed), results' = results  PROVE CheckCase(r) /\ pc'[r] # "idle"
  <2>1. pc'[r] \in {"end", "device"}
    BY <1>1, <1>3, OutcomeMoves
  <2> QED  BY <1>3, <2>1 DEF CheckCase
<1>4. ASSUME NEW w, NEW next, Continue(r, w, next), DOMAIN w = Fields, results' = results, pc[r] # "check",
             w.features = work[r].features, next = "check" => w.rules # <<>>, next # "idle"
      PROVE  Quiet
  <2>1. pc'[r] = next /\ work'[r] = w /\ report'[r] = report[r]
    BY <1>1, <1>4, ContinueMoves
  <2> QED  BY <1>4, <2>1
<1>5. CASE Begin(r)
  <2>1. /\ pc'[r] \in {"create", "source", "end", "device"} /\ work'[r] = work[r]
        /\ report'[r].outcomes = report[r].outcomes
    BY <1>1, <1>5, BeginMoves
  <2>2. results' = results /\ pc[r] = "idle"
    BY <1>5 DEF Begin, graphVars
  <2>3. Quiet
    BY <2>1, <2>2
  <2> QED  BY <1>2, <2>3
<1>6. CASE Fault(r)
  <2>1. results' = results
    BY <1>6 DEF Fault, graphVars
  <2>2. CASE pc[r] # "idle"
    <3>1. IsRun(r) /\ ~IsReplacement(r)
      BY <1>1 DEF IsRun, IsReplacement
    <3>2. Outcome(r, Failed)
      BY <1>6, <2>2, <3>1 DEF Fault
    <3> QED  BY <1>3, <2>1, <3>2
  <2>3. CASE pc[r] = "idle"
    <3>1. \/ Outcome(r, Failed)
          \/ pc'[r] = "end" /\ work'[r] = work[r] /\ report'[r].outcomes = report[r].outcomes
      BY <1>1, <1>6, FaultMoves
    <3>2. CASE Outcome(r, Failed)
      BY <1>3, <2>1, <3>2
    <3>3. CASE pc'[r] = "end" /\ work'[r] = work[r] /\ report'[r].outcomes = report[r].outcomes
      <4>1. Quiet
        BY <2>1, <2>3, <3>3
      <4> QED  BY <1>2, <4>1
    <3> QED  BY <3>1, <3>2, <3>3
  <2> QED  BY <2>2, <2>3
<1>7. CASE CheckDevice(r)
  <2>1. /\ results' = results /\ pc[r] = "device"
        /\ Outcome(r, Failed) \/ Continue(r, work[r], "backup")
    BY <1>7 DEF CheckDevice, Read, ReadOnly, graphVars
  <2> HIDE DEF Quiet
  <2> QED  BY <1>1, <1>2, <1>3, <1>4, <2>1, WorkIs
<1>8. CASE CheckBackup(r)
  <2> DEFINE t == TextOf(backups, Device(r))
             w == [work[r] EXCEPT !.actual = t]
  <2>1. results' = results /\ pc[r] = "backup" /\ Continue(r, w, "intended")
    BY <1>8 DEF CheckBackup, ReadOnly, graphVars
  <2> HIDE DEF t
  <2>2. DOMAIN w = Fields /\ w.features = work[r].features
    BY <1>1, WorkIs DEF Fields
  <2> HIDE DEF w, Quiet
  <2> QED  BY <1>2, <1>4, <2>1, <2>2
<1>9. CASE CheckIntended(r)
  <2> DEFINE t == TextOf(intended, Device(r))
             w == [work[r] EXCEPT !.intended = t]
  <2>1. /\ results' = results /\ pc[r] = "intended"
        /\ Outcome(r, Failed) \/ Continue(r, w, "rules")
    BY <1>9 DEF CheckIntended, Read, ReadOnly, graphVars
  <2> HIDE DEF t
  <2>2. DOMAIN w = Fields /\ w.features = work[r].features
    BY <1>1, WorkIs DEF Fields
  <2> HIDE DEF w, Quiet
  <2> QED  BY <1>2, <1>3, <1>4, <2>1, <2>2
<1>10. CASE CheckRules(r)
  <2>1. /\ results' = results /\ pc[r] = "rules"
    BY <1>10 DEF CheckRules, ReadOnly, graphVars
  <2>2. PICK q : Outcome(r, Failed) \/ (q # <<>> /\ Continue(r, [work[r] EXCEPT !.rules = q], "check"))
    BY <1>10 DEF CheckRules, Read
  <2> DEFINE w == [work[r] EXCEPT !.rules = q]
  <2>3. Outcome(r, Failed) \/ (q # <<>> /\ Continue(r, w, "check"))
    BY <2>2
  <2>4. DOMAIN w = Fields /\ w.features = work[r].features /\ w.rules = q
    BY <1>1, WorkIs DEF Fields
  <2> HIDE DEF w, Quiet
  <2> QED  BY <1>2, <1>3, <1>4, <2>1, <2>3, <2>4
<1>11. CASE CheckRule(r)
  <2> DEFINE found == ResultOf(r, Head(work[r].rules))
  <2>1. /\ pc[r] = "check"
        /\ \/ work[r].rules = <<>> /\ Outcome(r, Checked(r)) /\ results' = results
           \/ Outcome(r, Failed) /\ results' = results
           \/ /\ work[r].rules # <<>> /\ results' = Put(results, Key(found), found)
              /\ work'[r].features = Append(work[r].features, found)
              /\ pc' = pc /\ todo' = todo /\ report' = report
    BY <1>1, <1>11, CheckRuleIs
  <2>2. CASE work[r].rules = <<>> /\ Outcome(r, Checked(r)) /\ results' = results
    <3>1. pc'[r] \in {"end", "device"}
      BY <1>1, <2>2, OutcomeMoves
    <3> QED  BY <2>1, <2>2, <3>1 DEF CheckCase
  <2>3. CASE Outcome(r, Failed) /\ results' = results
    BY <1>3, <2>3
  <2>4. CASE /\ work[r].rules # <<>> /\ results' = Put(results, Key(found), found)
             /\ work'[r].features = Append(work[r].features, found)
             /\ pc' = pc /\ todo' = todo /\ report' = report
    <3>1. Key(found) = <<Device(r), found.feature>>
      BY <1>1, <2>1, <2>4, FoundIsTrue
    <3> QED  BY <2>1, <2>4, <3>1 DEF CheckCase
  <2> QED  BY <2>1, <2>2, <2>3, <2>4
<1> QED  BY <1>1, <1>5, <1>6, <1>7, <1>8, <1>9, <1>10, <1>11, OfChecks DEF CheckStep

\* A check that goes on keeps the shape of what it has in hand.
LEMMA HandShapeStep ==
  ASSUME VerdictInv, NEW r \in Checks, HandShape(r), Step(r)
  PROVE  HandShape(r)'
<1>1. r \in Requests /\ Frame /\ pc'[r] # "idle" /\ CheckCase(r)
  BY CheckCases DEF Checks, VerdictInv
<1>2. CASE work'[r].features = work[r].features /\ pc[r] # "check" /\ (pc'[r] = "check" => work'[r].rules # <<>>)
  BY <1>1, <1>2 DEF HandShape
<1>3. ASSUME NEW o, Outcome(r, o)  PROVE HandShape(r)'
  <2>1. pc'[r] \in {"end", "device"} /\ work'[r] = Blank
    BY <1>1, <1>3, OutcomeMoves
  <2>2. Blank.features = <<>>
    BY DEF Blank
  <2> QED  BY <1>1, <2>1, <2>2, EmptyIs DEF HandShape
<1>4. ASSUME NEW found, pc[r] = "check", pc' = pc, work'[r].features = Append(work[r].features, found)
      PROVE  HandShape(r)'
  <2> DEFINE old == work[r].features
             new == work'[r].features
  <2>1. IsSequence(old) /\ new = Append(old, found)
    BY <1>4 DEF HandShape
  <2> HIDE DEF old, new
  <2>2. IsSequence(new) /\ new # <<>>
    BY <2>1, AppendFacts, AppendNonempty
  <2> QED  BY <1>1, <1>4, <2>2 DEF HandShape, new
<1> QED  BY <1>1, <1>2, <1>3, <1>4 DEF CheckCase

\* One more outcome: the earlier ones of its device are overtaken.
LEMMA OneMoreOutcome ==
  ASSUME VerdictInv, NEW r \in Requests, NEW o, Outcome(r, o), ReportedOK(r), results' = results,
         NEW x, x = [o EXCEPT !.device = Device(r)], x.device = Device(r), x.success => Agrees(x, results)
  PROVE  ReportedOK(r)'
<1> DEFINE old == report[r].outcomes
           n == Len(old)
<1>1. /\ pc'[r] \in {"end", "device"} /\ report'[r].outcomes = Append(old, x)
  BY OutcomeMoves DEF VerdictInv
<1>2. IsSequence(old)
  BY DEF VerdictInv, Frame, Shape
<1> DEFINE new == report'[r].outcomes
<1> HIDE DEF new
<1>3. /\ n \in Nat /\ DOMAIN old = 1..n /\ DOMAIN new = 1..(n + 1)
      /\ new[n + 1] = x /\ \A i \in 1..n : new[i] = old[i]
  BY <1>1, <1>2, AppendFacts DEF new
<1> HIDE DEF n, old
<1>4. ASSUME NEW i \in DOMAIN new, new[i].success, Latest_Outcome(r, i)'  PROVE Agrees(new[i], results)
  <2>1. \A j \in DOMAIN new : new[j].device = new[i].device => j <= i
    BY <1>4 DEF Latest_Outcome, new
  <2>2. CASE i = n + 1
    BY <1>3, <1>4, <2>2
  <2>3. CASE i # n + 1
    <3>1. i \in 1..n /\ 1..n \subseteq 1..(n + 1) /\ n + 1 \in 1..(n + 1) /\ ~(n + 1 <= i)
      BY <1>3, <2>3
    <3>2. new[i] = old[i] /\ new[i].device # Device(r)
      BY <1>3, <2>1, <3>1
    <3>3. \A j \in DOMAIN old : old[j].device = old[i].device => j <= i
      BY <1>3, <2>1, <3>1, <3>2
    <3>4. Latest_Outcome(r, i)
      BY <3>2, <3>3 DEF Latest_Outcome, old
    <3> QED  BY <1>3, <1>4, <3>1, <3>2, <3>4 DEF ReportedOK, old
  <2> QED  BY <2>2, <2>3
<1> QED  BY <1>4 DEF ReportedOK, new

\* A step of a check keeps what it says of its own results.
LEMMA OwnStep ==
  ASSUME VerdictInv, NEW r \in Checks, HandShape(r), InHand(r), ReportedOK(r), Step(r)
  PROVE  InHand(r)' /\ ReportedOK(r)'
<1>1. r \in Requests /\ Frame /\ CheckCase(r) /\ HandShape(r)'
  BY CheckCases, HandShapeStep DEF Checks, VerdictInv
<1> DEFINE fs == work[r].features
           found == ResultOf(r, Head(work[r].rules))
<1>2. CASE /\ results' = results /\ pc[r] # "check" /\ work'[r].features = work[r].features
           /\ report'[r].outcomes = report[r].outcomes
  <2>1. work'[r].features = <<>>
    BY <1>1, <1>2 DEF HandShape
  <2>2. InHand(r)'
    BY <2>1 DEF InHand
  <2>3. \A i : Latest_Outcome(r, i)' => Latest_Outcome(r, i)
    BY <1>2 DEF Latest_Outcome
  <2>4. ReportedOK(r)'
    BY <1>2, <2>3 DEF ReportedOK, Agrees
  <2> QED  BY <2>2, <2>4
<1>3. ASSUME NEW o, Outcome(r, o), results' = results, NEW x, x = [o EXCEPT !.device = Device(r)],
             x.device = Device(r), x.success => Agrees(x, results)
      PROVE  InHand(r)' /\ ReportedOK(r)'
  <2>1. pc'[r] \in {"end", "device"}
    BY <1>1, <1>3, OutcomeMoves
  <2>2. InHand(r)'
    BY <2>1 DEF InHand
  <2> QED  BY <1>1, <1>3, <2>2, OneMoreOutcome
<1>4. CASE results' = results /\ Outcome(r, Failed)
  <2> DEFINE x == [Failed EXCEPT !.device = Device(r)]
  <2>1. x.device = Device(r) /\ x.success = FALSE
    BY DEF Failed
  <2> HIDE DEF x
  <2> QED  BY <1>3, <1>4, <2>1 DEF x
<1>5. CASE results' = results /\ pc[r] = "check" /\ work[r].rules = <<>> /\ Outcome(r, Checked(r))
  <2> DEFINE x == [Checked(r) EXCEPT !.device = Device(r)]
             names == {fs[i].feature : i \in DOMAIN fs}
             n == Len(fs)
             good == \A i \in DOMAIN fs : fs[i].compliant
  <2>1. Checked(r) = [Succeeded EXCEPT !.compliant = good, !.features = names, !.rules = n]
    BY DEF Checked
  <2>2. /\ IsSequence(fs) /\ fs # <<>> /\ (Distinct(fs) => Present(fs, Device(r), results))
    BY <1>5 DEF HandShape, InHand, Present
  <2>3. DOMAIN Succeeded = {"device", "success", "compliant", "features", "rules"}
    BY DEF Succeeded, Failed
  <2> HIDE DEF names, n, good
  <2>4. /\ DOMAIN Checked(r) = {"device", "success", "compliant", "features", "rules"}
        /\ Checked(r).features = names /\ Checked(r).rules = n /\ Checked(r).compliant = good
    BY <2>1, <2>3
  <2>5. x.device = Device(r) /\ x.features = names /\ x.rules = n /\ x.compliant = good
    BY <2>4
  <2> HIDE DEF x
  <2>6. Agrees(x, results)
    BY <2>2, <2>5, CheckedAgrees DEF names, n, good
  <2> QED  BY <1>3, <1>5, <2>5, <2>6 DEF x
<1>6. CASE /\ results' = Put(results, Key(found), found) /\ Key(found) = <<Device(r), found.feature>>
           /\ pc[r] = "check" /\ pc' = pc /\ todo' = todo /\ report' = report
           /\ work'[r].features = Append(fs, found)
  <2> DEFINE d == Device(r)
             new == work'[r].features
             n == Len(fs)
  <2>1. d' = d /\ pc'[r] = "check"
    BY <1>6 DEF Device
  <2>2. IsSequence(fs) /\ IsSequence(new)
    BY <1>1 DEF HandShape
  <2> HIDE DEF found
  <2>3. /\ DOMAIN results' = DOMAIN results \union {<<d, found.feature>>} /\ results'[<<d, found.feature>>] = found
        /\ \A k \in DOMAIN results \ {<<d, found.feature>>} : results'[k] = results[k]
    BY <1>6 DEF Put
  <2>4. n \in Nat /\ DOMAIN fs = 1..n /\ DOMAIN new = 1..(n + 1) /\ new[n + 1] = found /\ \A i \in 1..n : new[i] = fs[i]
    BY <1>6, <2>2, AppendFacts
  <2> HIDE DEF d, new, fs, n
  <2>5. ASSUME Distinct(new)  PROVE Present(new, d, results')
    <3>1. ASSUME NEW i \in 1..n  PROVE i \in DOMAIN new /\ n + 1 \in DOMAIN new /\ i # n + 1 /\ new[i] = fs[i]
      BY <2>4
    <3>2. Distinct(fs)
      BY <2>4, <2>5, <3>1 DEF Distinct
    <3>3. Present(fs, d, results)
      BY <1>6, <3>2 DEF InHand, Present, fs, d
    <3>4. ASSUME NEW i \in 1..n
          PROVE  /\ <<d, new[i].feature>> \in DOMAIN results'
                 /\ results'[<<d, new[i].feature>>] = new[i]
      <4>1. fs[i].feature # found.feature
        BY <2>4, <2>5, <3>1 DEF Distinct
      <4>2. <<d, fs[i].feature>> \in DOMAIN results /\ results[<<d, fs[i].feature>>] = fs[i]
        BY <2>4, <3>3 DEF Present
      <4>3. <<d, fs[i].feature>> # <<d, found.feature>>
        BY <4>1
      <4> QED  BY <2>3, <3>1, <4>2, <4>3
    <3>5. ASSUME NEW i \in DOMAIN new, i \notin 1..n  PROVE new[i] = found
      BY <2>4, <3>5
    <3> QED  BY <2>3, <3>4, <3>5 DEF Present
  <2>6. InHand(r)'
    BY <2>1, <2>5 DEF InHand, Present, new, d
  <2>7. ASSUME NEW i \in DOMAIN report[r].outcomes, report[r].outcomes[i].success, Latest_Outcome(r, i)'
        PROVE  Agrees(report[r].outcomes[i], results')
    <3> DEFINE o == report[r].outcomes[i]
    <3>1. Latest_Outcome(r, i) /\ o.device # d
      BY <1>6, <2>1, <2>7 DEF Latest_Outcome, d
    <3>2. Agrees(o, results)
      BY <2>7, <3>1 DEF ReportedOK
    <3> HIDE DEF o
    <3>3. \A f : <<o.device, f>> # <<d, found.feature>>
      BY <3>1
    <3>4. \A f : <<o.device, f>> \in DOMAIN results =>
                   /\ <<o.device, f>> \in DOMAIN results' /\ results'[<<o.device, f>>] = results[<<o.device, f>>]
      BY <2>3, <3>3
    <3>5. Agrees(o, results')
      BY <3>2, <3>4 DEF Agrees
    <3> QED  BY <3>5 DEF o
  <2>8. ReportedOK(r)'
    BY <1>6, <2>7 DEF ReportedOK
  <2> QED  BY <2>6, <2>8
<1> QED  BY <1>1, <1>2, <1>4, <1>5, <1>6 DEF CheckCase

\* A check that is alone is not touched by the steps of others.
LEMMA OthersStep ==
  ASSUME ReportInv, NEW r \in Requests, Step(r), NEW q \in Checks, q # r, alone[q]
  PROVE  InHand(q)' /\ ReportedOK(q)'
<1> USE DEF ReportInv
<1>1. /\ q \in Requests /\ pc'[q] = pc[q] /\ todo'[q] = todo[q] /\ work'[q] = work[q] /\ report'[q] = report[q]
  BY FrameStep DEF VerdictInv, Moves, Checks
<1>2. Device(q)' = Device(q) /\ \A i : Latest_Outcome(q, i)' <=> Latest_Outcome(q, i)
  BY <1>1 DEF Device, Latest_Outcome
<1>3. InHand(q) /\ ReportedOK(q) /\ HandShape(q)
  OBVIOUS
<1>4. CASE results' = results
  BY <1>1, <1>2, <1>3, <1>4 DEF InHand, ReportedOK, Agrees
<1>5. CASE CheckRule(r)
  <2>1. r \in Checks /\ pc[r] = "check"
    BY <1>5 DEF CheckRule, Checks
  <2>2. ~Running(q)
    BY <2>1 DEF AloneOK
  <2>3. pc'[q] # "check" /\ report'[q].outcomes = <<>>
    BY <1>1, <2>2 DEF Running
  <2>4. DOMAIN report'[q].outcomes = {}
    BY <2>3
  <2> QED  BY <2>3, <2>4 DEF InHand, ReportedOK
<1> QED  BY <1>4, <1>5, StepTexts

LEMMA ReportRest ==
  ASSUME ReportInv, VerdictInv', UNCHANGED <<scene, results, pc, todo, work, report, alone>>
  PROVE  ReportInv'
<1>1. AloneOK' /\ Checks' = Checks
  BY DEF ReportInv, AloneOK, Running, Checks, cmd
<1>2. ASSUME NEW r \in Checks  PROVE HandShape(r)' /\ (InHand(r) => InHand(r)') /\ (ReportedOK(r) => ReportedOK(r)')
  <2>1. HandShape(r)'
    BY DEF ReportInv, HandShape
  <2>2. Device(r)' = Device(r)
    BY DEF Device
  <2>3. InHand(r) => InHand(r)'
    BY <2>2 DEF InHand
  <2>4. \A i : Latest_Outcome(r, i)' <=> Latest_Outcome(r, i)
    BY <2>2 DEF Latest_Outcome
  <2>5. ReportedOK(r) => ReportedOK(r)'
    BY <2>4 DEF ReportedOK, Agrees
  <2> QED  BY <2>1, <2>3, <2>5
<1> QED  BY <1>1, <1>2 DEF ReportInv

LEMMA ReportInvInit == ASSUME Init PROVE ReportInv
<1>1. VerdictInv
  BY VerdictInvInit
<1>2. \A r \in Requests : pc[r] = "idle" /\ report[r].outcomes = <<>> /\ work[r].features = <<>>
  BY DEF Init, Blank
<1>3. AloneOK
  BY <1>2 DEF Init, AloneOK, Running, Checks
<1>4. ASSUME NEW r \in Checks  PROVE HandShape(r) /\ InHand(r) /\ ReportedOK(r)
  <2>1. r \in Requests
    BY DEF Checks
  <2>2. DOMAIN report[r].outcomes = {}
    BY <1>2, <2>1
  <2> QED  BY <1>2, <2>1, <2>2, EmptyIs DEF HandShape, InHand, ReportedOK
<1> QED  BY <1>1, <1>3, <1>4 DEF ReportInv

LEMMA ReportInvStep == ASSUME ReportInv, [Next]_vars PROVE ReportInv'
<1>1. VerdictInv'
  BY VerdictInvStep DEF ReportInv
<1>2. ASSUME NEW r \in Requests, Step(r)  PROVE ReportInv'
  <2>1. AloneOK' /\ Checks' = Checks /\ \A q \in Requests : alone'[q] => alone[q] \/ (q = r /\ Begin(r))
    BY <1>2, AloneStep, StepFacts DEF ReportInv, VerdictInv, Checks, cmd
  <2>2. ASSUME NEW q \in Checks, q # r  PROVE HandShape(q)' /\ (alone'[q] => InHand(q)' /\ ReportedOK(q)')
    <3>1. q \in Requests /\ pc'[q] = pc[q] /\ work'[q] = work[q] /\ report'[q] = report[q]
      BY <1>2, <2>2, FrameStep DEF ReportInv, VerdictInv, Moves, Checks
    <3>2. HandShape(q)'
      BY <3>1 DEF ReportInv, HandShape
    <3>3. alone'[q] => alone[q]
      BY <2>1, <2>2, <3>1
    <3> QED  BY <1>2, <2>2, <3>2, <3>3, OthersStep
  <2>3. ASSUME r \in Checks  PROVE HandShape(r)' /\ (alone'[r] => InHand(r)' /\ ReportedOK(r)')
    <3>1. HandShape(r) /\ VerdictInv
      BY <2>3 DEF ReportInv
    <3>2. HandShape(r)'
      BY <1>2, <2>3, <3>1, HandShapeStep
    <3>3. ASSUME alone[r] \/ Begin(r)  PROVE InHand(r) /\ ReportedOK(r)
      <4>1. CASE alone[r]
        BY <2>3, <4>1 DEF ReportInv
      <4>2. CASE Begin(r)
        <5>1. pc[r] = "idle" /\ report[r].outcomes = <<>>
          BY <3>1, <4>2 DEF Begin, HandShape
        <5>2. DOMAIN report[r].outcomes = {}
          BY <5>1
        <5> QED  BY <5>1, <5>2 DEF InHand, ReportedOK
      <4> QED  BY <3>3, <4>1, <4>2
    <3>4. alone'[r] => InHand(r) /\ ReportedOK(r)
      BY <2>1, <3>3
    <3> QED  BY <1>2, <2>3, <3>1, <3>2, <3>4, OwnStep
  <2> QED  BY <1>1, <2>1, <2>2, <2>3 DEF ReportInv
<1>3. ASSUME NEW d, DeleteDevice(d)  PROVE ReportInv'
  BY <1>1, <1>3, ReportRest DEF DeleteDevice
<1>4. ASSUME NEW d, NEW text, StoreBackup(d, text) \/ StoreIntended(d, text)  PROVE ReportInv'
  BY <1>1, <1>4, ReportRest DEF StoreBackup, StoreIntended
<1>5. CASE UNCHANGED vars
  BY <1>1, <1>5, ReportRest DEF vars, graphVars
<1> QED  BY <1>2, <1>3, <1>4, <1>5 DEF Next, Step

\* The page of a device shows what the check says that was alone to write it.
LEMMA ReportsHold == ASSUME ReportInv PROVE OverallAsReported
<1>1. SUFFICES ASSUME NEW r \in Checks, pc[r] = "end", alone[r], NEW i \in DOMAIN report[r].outcomes,
                      NEW o, o = report[r].outcomes[i], o.success,
                      \A j \in DOMAIN report[r].outcomes : report[r].outcomes[j].device = o.device => j <= i,
                      Cardinality(o.features) = o.rules,
                      \A k \in DOMAIN results : k[1] = o.device => results[k].feature \in o.features
               PROVE  Overall(o.device) <=> o.compliant
  BY DEF OverallAsReported
<1> DEFINE d == o.device
           own == {k \in DOMAIN results : k[1] = d}
<1>2. Latest_Outcome(r, i)
  BY <1>1 DEF Latest_Outcome
<1>3. Agrees(o, results)
  BY <1>1, <1>2 DEF ReportInv, ReportedOK
<1>4. /\ o.features # {} /\ \A f \in o.features : <<d, f>> \in DOMAIN results
      /\ o.compliant <=> \A f \in o.features : results[<<d, f>>].compliant
  BY <1>1, <1>3 DEF Agrees
<1> HIDE DEF d
<1>5. \A f \in o.features : <<d, f>> \in own
  BY <1>4
<1>6. ASSUME NEW k \in own  PROVE \E f \in o.features : k = <<d, f>>
  <2>1. k = <<results[k].device, results[k].feature>> /\ k[1] = d
    BY DEF ReportInv, VerdictInv, ResultsOK, Key
  <2>2. results[k].device = d
    <3>1. \A a, b : <<a, b>>[1] = a
      OBVIOUS
    <3> QED  BY <2>1, <3>1
  <2>3. results[k].feature \in o.features
    BY <1>1 DEF d
  <2> QED  BY <2>1, <2>2, <2>3
<1>7. Overall(d) <=> own # {} /\ \A k \in own : results[k].compliant
  BY DEF Overall
<1> HIDE DEF own
<1>8. Overall(d) <=> o.compliant
  BY <1>4, <1>5, <1>6, <1>7
<1> QED  BY <1>8 DEF d

\* Each verdict that a check stores is what a comparison of the sections of two
\* texts of its device would say (compare_configs and the parsers of sections),
\* and a device complies when the check that was alone to write its results says
\* so (get_device_compliance): whatever the texts, rules, requests and failures.
THEOREM ComplianceIsTrue == Spec => []ComplianceTrue
<1>1. Init => ReportInv
  BY ReportInvInit
<1>2. ReportInv /\ [Next]_vars => ReportInv'
  BY ReportInvStep
<1>3. ReportInv => ComplianceTrue
  BY VerdictsHold, ReportsHold DEF ReportInv, ComplianceTrue
<1> QED  BY <1>1, <1>2, <1>3, PTL DEF Spec

-----------------------------------------------------------------------------
(* A replacement: what it has read, what it has to write, what is done *)

Has(s, x) == \E i \in DOMAIN s : s[i] = x
Named(d, name) == \E e \in Touching(d) : ifaces[e].name = name

\* What may be written.
ItemFits(item) ==
  /\ item.kind = "iface" => "name" \in DOMAIN item.props /\ item.props["name"] = item.name
  /\ item.kind = "rel" => item.type \notin Excluded
  /\ item.kind = "props" => DOMAIN item.props \intersect Identity = {}

\* The graph is finite and its nodes are apart; an interface belongs to one
\* device, and a device has one interface of a name.
GraphOK ==
  /\ DOMAIN devices \subseteq DOMAIN scene.devices
  /\ IsFiniteSet(DOMAIN devices) /\ IsFiniteSet(DOMAIN ifaces) /\ IsFiniteSet(edges)
  /\ DOMAIN scene.devices \intersect (DOMAIN ifaces \union Elements \union scene.others) = {}
  /\ \A x \in edges :
       /\ x[2] = "HAS_INTERFACE" =>
            (x[1] \in DOMAIN devices /\ x[3] \in DOMAIN ifaces) \/ (x[1] \in DOMAIN ifaces /\ x[3] \in DOMAIN devices)
       /\ x[2] = "CONNECTED_TO" => x[1] \in DOMAIN devices \/ {x[1], x[3]} \subseteq DOMAIN ifaces
  /\ \A c, d \in DOMAIN devices : Touching(c) \intersect Touching(d) # {} => c = d
  /\ NamesOnce

\* What is created is what it should be.
CreatedOK ==
  /\ DOMAIN catalog = Tables /\ IsFiniteSet(catalog.features)
  /\ \A f \in catalog.features : f.name \notin DOMAIN scene.devices
  /\ \A m \in catalog.mappings : IsMapping(m)

IdentityOK ==
  \A d \in DOMAIN devices : \A k \in Identity \intersect DOMAIN scene.devices[d] :
    k \in DOMAIN devices[d] /\ devices[d][k] = scene.devices[d][k]

Transforms == {r \in Requests : cmd(r).op = "transform"}
Destined(d) == \E q \in Transforms : cmd(q).destination = d

\* Nobody writes to the source of r, which is there.
Settled(r) == cmd(r).source \in DOMAIN devices /\ ~Destined(cmd(r).source)

Writing(r) == pc[r] = "write" \/ report[r].success
HasIfaces(r) == pc[r] \in {"links", "rels", "destination", "mapping"} \/ Writing(r)
HasLinks(r) == pc[r] \in {"rels", "destination", "mapping"} \/ Writing(r)
HasRels(r) == pc[r] \in {"destination", "mapping"} \/ Writing(r)

\* What r has read of its source is what is still there, while nobody writes to it.
IfacesRead(r) ==
  /\ \A e \in InterfacesOf(cmd(r).source) : Has(work[r].ifaces, ifaces[e])
  /\ \A i \in DOMAIN work[r].ifaces : \E e \in InterfacesOf(cmd(r).source) : work[r].ifaces[i] = ifaces[e]
LinksRead(r) ==
  /\ \A l \in LinksOf(cmd(r).source) : Has(work[r].links, l)
  /\ \A i \in DOMAIN work[r].links : \E j \in DOMAIN work[r].ifaces : work[r].ifaces[j].name = work[r].links[i].local
RemotesNamed(r) ==
  \A i \in DOMAIN work[r].links : LET l == work[r].links[i] IN
    l.device \in DOMAIN devices => Named(l.device, l.remote)
RelsRead(r) == \A x \in RelationsOf(cmd(r).source) : Has(work[r].rels, x)

ReadOK(r) ==
  /\ IsSequence(work[r].ifaces) /\ IsSequence(work[r].links) /\ IsSequence(work[r].rels)
  /\ \A i \in DOMAIN work[r].rels : work[r].rels[i].type \notin Excluded
  /\ HasIfaces(r) /\ Settled(r) => IfacesRead(r)
  /\ HasLinks(r) /\ Settled(r) => LinksRead(r)
  /\ HasLinks(r) => RemotesNamed(r)
  /\ HasRels(r) /\ Settled(r) => RelsRead(r)

\* What is written and what is to be written are the items of the plan.
PlanOK(r) ==
  /\ ~Writing(r) /\ pc[r] # "end" => work[r].mapping = Blank.mapping /\ report[r].shown = <<>>
  /\ Writing(r) => /\ IsMapping(work[r].mapping)
                   /\ IsSequence(report[r].shown) /\ IsSequence(todo[r])
                   /\ report[r].shown \o todo[r] = Items(work[r], work[r].mapping)
  /\ pc[r] = "write" => todo[r] # <<>>
  /\ report[r].success => todo[r] = <<>> /\ pc[r] = "end"

\* No other interface of the source gets the name of an item.
Sole(r, item) ==
  \A i \in DOMAIN work[r].ifaces : LET other == InterfaceItem(work[r].ifaces[i], work[r].mapping) IN
    other.name = item.name => other = item

HasProps(e, props) == \A k \in DOMAIN props : k \in DOMAIN ifaces[e] /\ ifaces[e][k] = props[k]

\* An item is done, and stays so.
IfaceDone(r, item) ==
  /\ Named(cmd(r).destination, item.name)
  /\ Sole(r, item) =>
       \E e \in Touching(cmd(r).destination) : ifaces[e].name = item.name /\ HasProps(e, item.props)
LinkDone(r, item) ==
  /\ Named(cmd(r).destination, item.local)
  /\ item.device \in DOMAIN devices => Named(item.device, item.remote)
  /\ \A e \in InterfacesOf(cmd(r).destination), f \in InterfacesOf(item.device) :
       ifaces[e].name = item.local /\ ifaces[f].name = item.remote => <<e, "CONNECTED_TO", f>> \in edges
Done(r, item) ==
  /\ item.kind = "iface" => IfaceDone(r, item)
  /\ item.kind = "link" => LinkDone(r, item)
  /\ item.kind = "rel" => (Exists(item.target) => <<cmd(r).destination, item.type, item.target>> \in edges)
  /\ item.kind = "record" => <<cmd(r).destination, "REPLACES_DEVICE", cmd(r).source>> \in edges
DoneOK(r) ==
  Writing(r) /\ Undisturbed(r) => \A i \in DOMAIN report[r].shown : Done(r, report[r].shown[i])

ReplacementInv ==
  /\ Frame /\ CreatedOK /\ GraphOK /\ IdentityOK
  /\ \A r \in Requests : pc[r] = "write" => r \in Transforms
  /\ \A r \in Transforms : ReadOK(r) /\ PlanOK(r) /\ DoneOK(r)

\* The elements of two sequences, one after the other.
LEMMA ConcatFacts ==
  ASSUME NEW s, NEW t, IsSequence(s), IsSequence(t), NEW u, u = s \o t
  PROVE  /\ IsSequence(u) /\ DOMAIN s \subseteq DOMAIN u /\ (u = <<>> <=> s = <<>> /\ t = <<>>)
         /\ \A i \in DOMAIN s : u[i] = s[i]
         /\ \A x : Has(u, x) <=> Has(s, x) \/ Has(t, x)
         /\ \A i \in DOMAIN u : i \in DOMAIN s \/ Has(t, u[i])
<1>1. PICK S : s \in Seq(S)
  BY DEF IsSequence
<1>2. PICK T : t \in Seq(T)
  BY DEF IsSequence
<1>3. s \in Seq(S \union T) /\ t \in Seq(S \union T)
  BY <1>1, <1>2, LargerSeq, S \subseteq S \union T, T \subseteq S \union T
<1>4. u \in Seq(S \union T)
  BY <1>3
<1>5. /\ Len(s) \in Nat /\ Len(t) \in Nat /\ DOMAIN s = 1..Len(s) /\ DOMAIN t = 1..Len(t)
      /\ DOMAIN u = 1..(Len(s) + Len(t))
      /\ \A i \in 1..Len(s) : u[i] = s[i]
      /\ \A j \in 1..Len(t) : u[Len(s) + j] = t[j]
  BY <1>1, <1>2
<1>6. \A i \in DOMAIN u : i \in DOMAIN s \/ \E j \in DOMAIN t : i = Len(s) + j
  <2>1. ASSUME NEW i \in DOMAIN u, i \notin DOMAIN s  PROVE i - Len(s) \in DOMAIN t /\ i = Len(s) + (i - Len(s))
    BY <1>5, <2>1
  <2> QED  BY <2>1
<1>7. DOMAIN s \subseteq DOMAIN u /\ \A j \in DOMAIN t : Len(s) + j \in DOMAIN u
  BY <1>5
<1>8. u = <<>> <=> s = <<>> /\ t = <<>>
  BY <1>1, <1>2, <1>4, <1>5
<1> QED  BY <1>4, <1>5, <1>6, <1>7, <1>8 DEF Has, IsSequence

\* What corresponds to the members of a finite set is finite.
LEMMA ImageIsFinite ==
  ASSUME NEW S, IsFiniteSet(S), NEW f, DOMAIN f = S, NEW T, \A t \in T : \E s \in S : f[s] = t
  PROVE  IsFiniteSet(T)
<1> DEFINE R == {s \in S : f[s] \in T}
           g == [s \in R |-> f[s]]
<1>1. IsFiniteSet(R)
  BY FS_Subset
<1>2. g \in Surjection(R, T)
  BY DEF Surjection
<1> QED  BY <1>1, <1>2, FS_Surjection

\* The elements of a finite set, listed.
LEMMA Listed ==
  ASSUME NEW T, IsFiniteSet(T), NEW q, q = SetToSeq(T)
  PROVE  IsSequence(q) /\ (\A x \in T : Has(q, x)) /\ \A i \in DOMAIN q : q[i] \in T
<1> DEFINE n == Cardinality(T)
<1>1. n \in Nat /\ ExistsBijection(1..n, T)
  BY FS_CardinalityType
<1>2. PICK f : f \in [1..Cardinality(T) -> T] /\ IsInjective(f)
  BY <1>1 DEF ExistsBijection, Bijection, Injection
<1>3. q \in [1..Cardinality(T) -> T] /\ IsInjective(q)
  BY <1>2 DEF SetToSeq
<1>4. q \in Seq(T)
  BY ListOfSet
<1> HIDE DEF n
<1>5. q \in Injection(1..n, T) /\ n = Cardinality(T)
  BY <1>3 DEF n, Injection, IsInjective
<1>6. IsFiniteSet(1..n) /\ Cardinality(1..n) = n
  BY <1>1, PlacesAre
<1>7. q \in Surjection(1..n, T)
  BY <1>5, <1>6, FS_Injection
<1> QED  BY <1>4, <1>7 DEF Surjection, IsSequence, Has

\* A sequence with one element for each of another.
LEMMA MappedFacts ==
  ASSUME NEW s, IsSequence(s), NEW t, DOMAIN t = DOMAIN s, t = [i \in DOMAIN t |-> t[i]]
  PROVE  IsSequence(t)
<1>1. PICK S : s \in Seq(S)
  BY DEF IsSequence
<1>2. Len(s) \in Nat /\ DOMAIN s = 1..Len(s)
  BY <1>1
<1> DEFINE n == Len(s)
           T == {t[i] : i \in 1..n}
<1>3. t = [i \in 1..n |-> t[i]] /\ n \in Nat
  BY <1>2
<1> HIDE DEF n
<1>4. t \in [1..n -> T]
  BY <1>3
<1> HIDE DEF T
<1>5. t \in Seq(T)
  BY <1>3, <1>4
<1> QED  BY <1>5 DEF IsSequence

LEMMA SingletonFacts ==
  ASSUME NEW x
  PROVE  IsSequence(<<x>>) /\ <<x>> # <<>> /\ \A y : Has(<<x>>, y) <=> y = x
<1>1. <<x>> \in Seq({x}) /\ DOMAIN <<x>> = 1..1 /\ <<x>>[1] = x /\ <<x>> # <<>>
  OBVIOUS
<1>2. DOMAIN <<x>> = {1}
  BY <1>1
<1> DEFINE q == <<x>>
<1> HIDE DEF q
<1>3. q \in Seq({x}) /\ DOMAIN q = {1} /\ q[1] = x /\ q # <<>>
  BY <1>1, <1>2 DEF q
<1>4. IsSequence(q) /\ \A y : Has(q, y) <=> y = x
  BY <1>3 DEF IsSequence, Has
<1> QED  BY <1>3, <1>4 DEF q

LEMMA EmptyHas == DOMAIN <<>> = {} /\ \A x : ~Has(<<>>, x)
<1>1. DOMAIN <<>> = {}
  OBVIOUS
<1> QED  BY <1>1 DEF Has

\* The items of a plan: an interface each and first, then links and relations,
\* and the record of it all.
LEMMA ItemsAre ==
  ASSUME NEW w, NEW m, IsSequence(w.ifaces), IsSequence(w.links), IsSequence(w.rels),
         \A i \in DOMAIN w.rels : w.rels[i].type \notin Excluded, NEW its, its = Items(w, m)
  PROVE  /\ IsSequence(its) /\ its # <<>>
         /\ \A i \in DOMAIN w.ifaces : i \in DOMAIN its /\ its[i] = InterfaceItem(w.ifaces[i], m)
         /\ \A i \in DOMAIN its : ItemFits(its[i])
         /\ \A i \in DOMAIN its : its[i].kind = "iface" => i \in DOMAIN w.ifaces
         /\ \A i \in DOMAIN its : its[i].kind = "link" => \E l \in DOMAIN w.links : its[i] = LinkItem(w.links[l], m)
         /\ TransfersLinks(m) => \A l \in DOMAIN w.links : Has(its, LinkItem(w.links[l], m))
         /\ \A l \in DOMAIN w.rels : Transfers(m, w.rels[l].type) =>
              Has(its, [kind |-> "rel", type |-> w.rels[l].type, target |-> w.rels[l].target])
         /\ Has(its, [kind |-> "record"])
<1> DEFINE a == [i \in DOMAIN w.ifaces |-> InterfaceItem(w.ifaces[i], m)]
           b == IF TransfersLinks(m) THEN [i \in DOMAIN w.links |-> LinkItem(w.links[i], m)] ELSE <<>>
           T == {i \in DOMAIN w.rels : Transfers(m, w.rels[i].type)}
           rels == Chosen(w.rels, T)
           c == [i \in DOMAIN rels |-> [kind |-> "rel", type |-> rels[i].type, target |-> rels[i].target]]
           props == TransformProperties(w.device, m.rules)
           kept == Restrict(props, DOMAIN props \ Identity)
           d == IF DOMAIN kept = {} THEN <<>> ELSE <<[kind |-> "props", props |-> kept]>>
           e == <<[kind |-> "record"]>>
<1>1. its = a \o b \o c \o d \o e
  BY DEF Items
<1>2. IsSequence(a) /\ \A i \in DOMAIN a : i \in DOMAIN w.ifaces /\ a[i] = InterfaceItem(w.ifaces[i], m)
  <2>1. DOMAIN a = DOMAIN w.ifaces /\ a = [i \in DOMAIN a |-> a[i]]
    OBVIOUS
  <2> QED  BY <2>1, MappedFacts
<1>3. IsSequence(b) /\ \A i \in DOMAIN b : TransfersLinks(m) /\ i \in DOMAIN w.links /\ b[i] = LinkItem(w.links[i], m)
  <2>1. CASE TransfersLinks(m)
    <3>1. DOMAIN b = DOMAIN w.links /\ b = [i \in DOMAIN b |-> b[i]]
      BY <2>1
    <3> QED  BY <2>1, <3>1, MappedFacts
  <2>2. CASE ~TransfersLinks(m)
    <3>1. b = <<>>
      BY <2>2
    <3>2. IsSequence(b) /\ DOMAIN b = {}
      BY <3>1, EmptyIs, EmptyHas
    <3> HIDE DEF b
    <3> QED  BY <3>2
  <2> QED  BY <2>1, <2>2
<1>4. TransfersLinks(m) => \A l \in DOMAIN w.links : Has(b, LinkItem(w.links[l], m))
  BY DEF Has
<1>5. /\ IsSequence(rels)
      /\ \A i \in DOMAIN rels : \E l \in T : rels[i] = w.rels[l]
      /\ \A l \in T : \E i \in DOMAIN rels : rels[i] = w.rels[l]
  <2>1. PICK S : w.rels \in Seq(S)
    BY DEF IsSequence
  <2>2. T \subseteq DOMAIN w.rels
    OBVIOUS
  <2> HIDE DEF T
  <2>3. /\ rels \in Seq(S)
        /\ \A i \in T : UpTo(T, i) \in DOMAIN rels /\ rels[UpTo(T, i)] = w.rels[i]
        /\ \A k \in DOMAIN rels : \E i \in T : k = UpTo(T, i)
    BY <2>1, <2>2, ChosenFacts
  <2> HIDE DEF rels
  <2>4. IsSequence(rels)
    BY <2>3 DEF IsSequence
  <2>5. \A k \in DOMAIN rels : \E l \in T : rels[k] = w.rels[l]
    BY <2>3
  <2>6. \A l \in T : \E k \in DOMAIN rels : rels[k] = w.rels[l]
    BY <2>3
  <2> QED  BY <2>4, <2>5, <2>6
<1>6. IsSequence(c) /\ DOMAIN c = DOMAIN rels
  <2>1. DOMAIN c = DOMAIN rels /\ c = [i \in DOMAIN c |-> c[i]]
    OBVIOUS
  <2> HIDE DEF rels, c
  <2> QED  BY <1>5, <2>1, MappedFacts
<1>7. \A i \in DOMAIN c : c[i].kind = "rel" /\ c[i].type \notin Excluded
  <2>1. \A i \in DOMAIN c : c[i].kind = "rel" /\ c[i].type = rels[i].type
    OBVIOUS
  <2>2. \A i \in DOMAIN rels : rels[i].type \notin Excluded
    <3> HIDE DEF rels
    <3> QED  BY <1>5
  <2> QED  BY <1>6, <2>1, <2>2
<1>8. \A l \in T : Has(c, [kind |-> "rel", type |-> w.rels[l].type, target |-> w.rels[l].target])
  <2>1. \A i \in DOMAIN rels : c[i] = [kind |-> "rel", type |-> rels[i].type, target |-> rels[i].target]
    OBVIOUS
  <2> HIDE DEF c, rels, T
  <2> QED  BY <1>5, <1>6, <2>1 DEF Has
<1>9. IsSequence(d) /\ \A x : Has(d, x) => x.kind = "props" /\ DOMAIN x.props \intersect Identity = {}
  <2>1. CASE DOMAIN kept = {}
    <3>1. d = <<>>
      BY <2>1
    <3>2. IsSequence(d) /\ \A x : ~Has(d, x)
      BY <3>1, EmptyIs, EmptyHas
    <3> HIDE DEF d, kept
    <3> QED  BY <3>2
  <2>2. CASE DOMAIN kept # {}
    <3>1. d = <<[kind |-> "props", props |-> kept]>>
      BY <2>2
    <3>2. DOMAIN kept \intersect Identity = {}
      BY DEF Restrict
    <3> HIDE DEF d, kept
    <3>3. \A x : Has(d, x) => x = [kind |-> "props", props |-> kept]
      BY <3>1, SingletonFacts
    <3> QED  BY <3>1, <3>2, <3>3, SingletonFacts
  <2> QED  BY <2>1, <2>2
<1>10. IsSequence(e) /\ e # <<>> /\ \A x : Has(e, x) <=> x = [kind |-> "record"]
  BY SingletonFacts
<1>22. IsSequence(e) /\ e # <<>>
  BY SingletonFacts
<1>11. \A x : /\ ~(InterfaceItem(x, m).kind # "iface") /\ ~(LinkItem(x, m).kind # "link")
              /\ "name" \in DOMAIN InterfaceItem(x, m).props
              /\ InterfaceItem(x, m).props["name"] = InterfaceItem(x, m).name
  BY DEF InterfaceItem, LinkItem, Put
<1> DEFINE bc == a \o b
           cd == bc \o c
           de == cd \o d
<1>12. its = de \o e
  BY <1>1
<1> HIDE DEF a, b, c, d, e, T, rels
<1>13. IsSequence(bc) /\ IsSequence(cd) /\ IsSequence(de) /\ IsSequence(its) /\ its # <<>>
  <2>1. IsSequence(bc)
    BY <1>2, <1>3, ConcatFacts
  <2> HIDE DEF bc
  <2>2. IsSequence(cd)
    BY <1>6, <2>1, ConcatFacts
  <2> HIDE DEF cd
  <2>3. IsSequence(de)
    BY <1>9, <2>2, ConcatFacts
  <2> HIDE DEF de
  <2>4. IsSequence(its) /\ (its = <<>> <=> de = <<>> /\ e = <<>>)
    <3>1. IsSequence(de \o e) /\ (de \o e = <<>> <=> de = <<>> /\ e = <<>>)
      BY <1>22, <2>3, ConcatFacts
    <3> QED  BY <1>12, <3>1
  <2>5. its # <<>>
    BY <1>22, <2>4
  <2> QED  BY <2>1, <2>2, <2>3, <2>4, <2>5
<1>14. \A x : Has(its, x) <=> Has(a, x) \/ Has(b, x) \/ Has(c, x) \/ Has(d, x) \/ Has(e, x)
  <2>1. \A x : Has(bc, x) <=> Has(a, x) \/ Has(b, x)
    BY <1>2, <1>3, ConcatFacts
  <2> HIDE DEF bc
  <2>2. \A x : Has(cd, x) <=> Has(bc, x) \/ Has(c, x)
    BY <1>6, <1>13, ConcatFacts
  <2> HIDE DEF cd
  <2>3. \A x : Has(de, x) <=> Has(cd, x) \/ Has(d, x)
    BY <1>9, <1>13, ConcatFacts
  <2> HIDE DEF de
  <2>4. \A x : Has(its, x) <=> Has(de, x) \/ Has(e, x)
    <3>1. \A x : Has(de \o e, x) <=> Has(de, x) \/ Has(e, x)
      BY <1>22, <1>13, ConcatFacts
    <3> QED  BY <1>12, <3>1
  <2> QED  BY <2>1, <2>2, <2>3, <2>4
<1>15. \A i \in DOMAIN a : i \in DOMAIN its /\ its[i] = a[i]
  <2>1. \A i \in DOMAIN a : i \in DOMAIN bc /\ bc[i] = a[i]
    BY <1>2, <1>3, ConcatFacts
  <2> HIDE DEF bc
  <2>2. \A i \in DOMAIN a : i \in DOMAIN cd /\ cd[i] = a[i]
    BY <1>6, <1>13, <2>1, ConcatFacts
  <2> HIDE DEF cd
  <2>3. \A i \in DOMAIN a : i \in DOMAIN de /\ de[i] = a[i]
    BY <1>9, <1>13, <2>2, ConcatFacts
  <2> HIDE DEF de
  <2> QED  BY <1>22, <1>12, <1>13, <2>3, ConcatFacts
<1>16. \A i \in DOMAIN its : i \in DOMAIN a \/ Has(b, its[i]) \/ Has(c, its[i]) \/ Has(d, its[i]) \/ Has(e, its[i])
  <2>1. \A i \in DOMAIN bc : i \in DOMAIN a \/ Has(b, bc[i])
    BY <1>2, <1>3, ConcatFacts
  <2>2. \A i \in DOMAIN bc : i \in DOMAIN cd /\ cd[i] = bc[i]
    <3> HIDE DEF bc
    <3> QED  BY <1>6, <1>13, ConcatFacts
  <2> HIDE DEF bc
  <2>3. \A i \in DOMAIN cd : i \in DOMAIN bc \/ Has(c, cd[i])
    BY <1>6, <1>13, ConcatFacts
  <2>4. \A i \in DOMAIN cd : i \in DOMAIN de /\ de[i] = cd[i]
    <3> HIDE DEF cd
    <3> QED  BY <1>9, <1>13, ConcatFacts
  <2> HIDE DEF cd
  <2>5. \A i \in DOMAIN de : i \in DOMAIN cd \/ Has(d, de[i])
    BY <1>9, <1>13, ConcatFacts
  <2> HIDE DEF de
  <2>6. \A i \in DOMAIN its : i \in DOMAIN de \/ Has(e, its[i])
    BY <1>22, <1>12, <1>13, ConcatFacts
  <2>7. \A i \in DOMAIN de : i \in DOMAIN its /\ its[i] = de[i]
    BY <1>22, <1>12, <1>13, ConcatFacts
  <2> QED  BY <2>1, <2>2, <2>3, <2>4, <2>5, <2>6, <2>7
<1> HIDE DEF bc, cd, de
<1>17. \A x : /\ Has(a, x) => x.kind = "iface" /\ ItemFits(x)
              /\ Has(b, x) => x.kind = "link" /\ ItemFits(x)
              /\ Has(c, x) => x.kind = "rel" /\ ItemFits(x)
              /\ Has(d, x) => x.kind = "props" /\ ItemFits(x)
              /\ Has(e, x) => x.kind = "record" /\ ItemFits(x)
  <2>1. \A x : Has(a, x) => x.kind = "iface" /\ "name" \in DOMAIN x.props /\ x.props["name"] = x.name
    BY <1>2, <1>11 DEF Has
  <2>2. \A x : Has(b, x) => x.kind = "link"
    BY <1>3, <1>11 DEF Has
  <2>3. \A x : Has(c, x) => x.kind = "rel" /\ x.type \notin Excluded
    BY <1>7 DEF Has
  <2>4. \A x : Has(e, x) => x.kind = "record"
    BY <1>10
  <2> QED  BY <1>9, <2>1, <2>2, <2>3, <2>4 DEF ItemFits
<1>18. \A i \in DOMAIN its : Has(its, its[i])
  BY DEF Has
<1>19. \A i \in DOMAIN its : ItemFits(its[i]) /\ (its[i].kind = "iface" => i \in DOMAIN a) /\ (its[i].kind = "link" => Has(b, its[i]))
  <2>1. \A i \in DOMAIN its : ItemFits(its[i]) /\ (its[i].kind = "link" => Has(b, its[i]))
    BY <1>14, <1>17, <1>18
  <2>2. \A i \in DOMAIN its : its[i].kind = "iface" => i \in DOMAIN a
    BY <1>16, <1>17
  <2> QED  BY <2>1, <2>2
<1>20. \A x : Has(b, x) => \E l \in DOMAIN w.links : x = LinkItem(w.links[l], m)
  BY <1>3 DEF Has
<1>21. DOMAIN a = DOMAIN w.ifaces
  BY DEF a
<1> QED  BY <1>2, <1>4, <1>8, <1>10, <1>13, <1>14, <1>15, <1>19, <1>20, <1>21 DEF T

\* The write of q that changes the properties of an interface.
Rewrites(q, e) ==
  LET item == Head(todo[q]) IN
  /\ pc[q] = "write" /\ item.kind = "iface" /\ cmd(q).destination \in DOMAIN devices
  /\ e \in Attached(cmd(q).destination, item.name) /\ ifaces'[e] = Over(item.props, ifaces[e])

\* What any step does to the graph: devices are only deleted, with their
\* relationships; interfaces keep their devices and their names, and a new one
\* has a name that its device has not; only destinations are written to.
Evolves ==
  /\ scene' = scene
  /\ DOMAIN devices' \subseteq DOMAIN devices /\ DOMAIN ifaces \subseteq DOMAIN ifaces'
  /\ \A e \in DOMAIN ifaces : ifaces'[e].name = ifaces[e].name
  /\ \A d \in DOMAIN devices', e \in DOMAIN ifaces :
       /\ <<d, "HAS_INTERFACE", e>> \in edges' <=> <<d, "HAS_INTERFACE", e>> \in edges
       /\ <<e, "HAS_INTERFACE", d>> \in edges' <=> <<e, "HAS_INTERFACE", d>> \in edges
  /\ \A d \in DOMAIN devices', e \in DOMAIN ifaces' \ DOMAIN ifaces :
       <<d, "HAS_INTERFACE", e>> \in edges' \/ <<e, "HAS_INTERFACE", d>> \in edges' =>
         ~Named(d, ifaces'[e].name) /\ Destined(d)
  /\ \A x \in edges \ edges' : \E d \in DOMAIN devices \ DOMAIN devices' : d = x[1] \/ d = x[3]
  /\ \A x \in edges' \ edges :
       /\ x[1] \in DOMAIN devices => x[2] \in Excluded \/ Destined(x[1])
       /\ x[1] \in DOMAIN ifaces /\ x[2] = "CONNECTED_TO" =>
            \E d \in DOMAIN devices : Destined(d) /\ x[1] \in InterfacesOf(d)
  /\ \A e \in DOMAIN ifaces : ifaces'[e] # ifaces[e] => \E q \in Transforms : Rewrites(q, e)

\* Relationships that are not about the interfaces of a device may be added.
LEMMA EdgesGrow ==
  ASSUME GraphOK, scene' = scene, DOMAIN devices' = DOMAIN devices, ifaces' = ifaces,
         NEW S, IsFiniteSet(S), edges' = edges \union S,
         \A x \in S :
           /\ x[2] # "HAS_INTERFACE"
           /\ x[2] = "CONNECTED_TO" => x[1] \in DOMAIN devices \/ {x[1], x[3]} \subseteq DOMAIN ifaces
           /\ x[1] \in DOMAIN devices => x[2] \in Excluded \/ Destined(x[1])
           /\ x[1] \in DOMAIN ifaces /\ x[2] = "CONNECTED_TO" =>
                \E d \in DOMAIN devices : Destined(d) /\ x[1] \in InterfacesOf(d)
  PROVE  GraphOK' /\ Evolves
<1>1. \A d, e : <<d, "HAS_INTERFACE", e>> \in edges' <=> <<d, "HAS_INTERFACE", e>> \in edges
  <2>1. \A d, e : <<d, "HAS_INTERFACE", e>>[2] = "HAS_INTERFACE"
    OBVIOUS
  <2> QED  BY <2>1
<1>2. \A d : Touching(d)' = Touching(d)
  BY <1>1 DEF Touching
<1>3. IsFiniteSet(edges')
  BY FS_Union DEF GraphOK
<1>4. NamesOnce'
  BY <1>2 DEF GraphOK, NamesOnce
<1>5. \A x \in edges' :
       /\ x[2] = "HAS_INTERFACE" =>
            (x[1] \in DOMAIN devices /\ x[3] \in DOMAIN ifaces) \/ (x[1] \in DOMAIN ifaces /\ x[3] \in DOMAIN devices)
       /\ x[2] = "CONNECTED_TO" => x[1] \in DOMAIN devices \/ {x[1], x[3]} \subseteq DOMAIN ifaces
  BY DEF GraphOK
<1>6. GraphOK'
  BY <1>2, <1>3, <1>4, <1>5 DEF GraphOK
<1>7. Evolves
  BY <1>1 DEF Evolves
<1> QED  BY <1>6, <1>7

\* A device is deleted with its relationships.
LEMMA DeviceLeaves ==
  ASSUME GraphOK, IdentityOK, NEW d, DeleteDevice(d)
  PROVE  GraphOK' /\ IdentityOK' /\ Evolves
<1>1. /\ scene' = scene /\ ifaces' = ifaces /\ d \in DOMAIN devices
      /\ DOMAIN devices' = DOMAIN devices \ {d} /\ \A c \in DOMAIN devices' : devices'[c] = devices[c]
      /\ edges' = {x \in edges : d \notin {x[1], x[3]}}
  BY DEF DeleteDevice, Restrict
<1>2. \A c \in DOMAIN devices', e \in DOMAIN ifaces :
        /\ <<c, "HAS_INTERFACE", e>> \in edges' <=> <<c, "HAS_INTERFACE", e>> \in edges
        /\ <<e, "HAS_INTERFACE", c>> \in edges' <=> <<e, "HAS_INTERFACE", c>> \in edges
  <2>1. \A a, b : <<a, "HAS_INTERFACE", b>>[1] = a /\ <<a, "HAS_INTERFACE", b>>[3] = b
    OBVIOUS
  <2>2. d \notin DOMAIN ifaces /\ d \notin DOMAIN devices'
    BY <1>1 DEF GraphOK
  <2> QED  BY <1>1, <2>1, <2>2
<1>3. \A c \in DOMAIN devices' : Touching(c)' = Touching(c)
  BY <1>1, <1>2 DEF Touching
<1>4. IsFiniteSet(edges') /\ IsFiniteSet(DOMAIN devices')
  BY <1>1, FS_Subset DEF GraphOK
<1>5. NamesOnce'
  BY <1>1, <1>3 DEF GraphOK, NamesOnce
<1>6. \A x \in edges' :
       /\ x[2] = "HAS_INTERFACE" =>
            (x[1] \in DOMAIN devices' /\ x[3] \in DOMAIN ifaces) \/ (x[1] \in DOMAIN ifaces /\ x[3] \in DOMAIN devices')
       /\ x[2] = "CONNECTED_TO" => x[1] \in DOMAIN devices' \/ {x[1], x[3]} \subseteq DOMAIN ifaces
  BY <1>1 DEF GraphOK
<1>7. GraphOK'
  BY <1>1, <1>3, <1>4, <1>5, <1>6 DEF GraphOK
<1>8. IdentityOK'
  BY <1>1 DEF IdentityOK
<1>9. Evolves
  BY <1>1, <1>2 DEF Evolves
<1> QED  BY <1>7, <1>8, <1>9

\* The properties of the interfaces of a name are written.
LEMMA IfacesUpdated ==
  ASSUME GraphOK, scene' = scene, devices' = devices, edges' = edges, NEW r \in Transforms, pc[r] = "write",
         NEW item, item = Head(todo[r]), item.kind = "iface", ItemFits(item),
         NEW d \in DOMAIN devices, d = cmd(r).destination, NEW own, own = Attached(d, item.name),
         ifaces' = Over([e \in own |-> Over(item.props, ifaces[e])], ifaces)
  PROVE  GraphOK' /\ Evolves
<1>1. own \subseteq DOMAIN ifaces /\ \A e \in own : ifaces[e].name = item.name
  BY DEF Attached, Touching
<1>2. DOMAIN ifaces' = DOMAIN ifaces /\ \A e \in DOMAIN ifaces :
        ifaces'[e] = IF e \in own THEN Over(item.props, ifaces[e]) ELSE ifaces[e]
  BY <1>1 DEF Over
<1>3. \A f : Over(item.props, f).name = item.name
  BY DEF Over, ItemFits
<1>4. \A e \in DOMAIN ifaces : ifaces'[e].name = ifaces[e].name
  BY <1>1, <1>2, <1>3
<1>5. \A c : Touching(c)' = Touching(c)
  BY <1>2 DEF Touching
<1>6. \A c : Touching(c) \subseteq DOMAIN ifaces
  BY DEF Touching
<1>7. NamesOnce'
  BY <1>4, <1>5, <1>6 DEF GraphOK, NamesOnce
<1>8. GraphOK'
  BY <1>2, <1>5, <1>7 DEF GraphOK
<1>9. \A e \in DOMAIN ifaces : ifaces'[e] # ifaces[e] => Rewrites(r, e)
  BY <1>2 DEF Rewrites
<1>10. Evolves
  BY <1>2, <1>4, <1>9 DEF Evolves
<1> QED  BY <1>8, <1>10

\* An interface of a new name is added.
LEMMA IfaceAdded ==
  ASSUME GraphOK, scene' = scene, devices' = devices, NEW r \in Transforms,
         NEW item, item.kind = "iface", ItemFits(item),
         NEW d \in DOMAIN devices, d = cmd(r).destination, Attached(d, item.name) = {},
         NEW e \in Elements \ DOMAIN ifaces, ifaces' = Put(ifaces, e, item.props),
         NEW edge \in {<<d, "HAS_INTERFACE", e>>, <<e, "HAS_INTERFACE", d>>}, edges' = edges \union {edge}
  PROVE  GraphOK' /\ Evolves /\ e \in Touching(d)'
<1>1. /\ DOMAIN ifaces' = DOMAIN ifaces \union {e} /\ ifaces'[e] = item.props
      /\ \A f \in DOMAIN ifaces : ifaces'[f] = ifaces[f]
  BY DEF Put
<1>2. ifaces'[e].name = item.name
  BY <1>1 DEF ItemFits
<1>3. ~Named(d, item.name) /\ Destined(d)
  BY DEF Named, Attached, Destined
<1>4. \A a, b : <<a, "HAS_INTERFACE", b>>[1] = a /\ <<a, "HAS_INTERFACE", b>>[2] = "HAS_INTERFACE" /\ <<a, "HAS_INTERFACE", b>>[3] = b
  OBVIOUS
<1>5. d \notin DOMAIN ifaces' /\ e \notin DOMAIN devices /\ e \notin DOMAIN ifaces
  BY <1>1 DEF GraphOK
<1>6. \A a, b : <<a, "HAS_INTERFACE", b>> \in edges \/ <<b, "HAS_INTERFACE", a>> \in edges => e \notin {a, b}
  BY <1>4, <1>5 DEF GraphOK
<1>7. \A c \in DOMAIN devices, f \in DOMAIN ifaces :
        /\ <<c, "HAS_INTERFACE", f>> \in edges' <=> <<c, "HAS_INTERFACE", f>> \in edges
        /\ <<f, "HAS_INTERFACE", c>> \in edges' <=> <<f, "HAS_INTERFACE", c>> \in edges
  <2>1. ASSUME NEW c \in DOMAIN devices, NEW f \in DOMAIN ifaces
        PROVE  <<c, "HAS_INTERFACE", f>> # edge /\ <<f, "HAS_INTERFACE", c>> # edge
    <3>1. e \notin {c, f}
      BY <1>5
    <3>2. edge[1] = e \/ edge[3] = e
      BY <1>4
    <3> QED  BY <1>4, <3>1, <3>2
  <2> QED  BY <2>1
<1>8. \A c \in DOMAIN devices : (<<c, "HAS_INTERFACE", e>> \in edges' \/ <<e, "HAS_INTERFACE", c>> \in edges') <=> c = d
  <2>1. ASSUME NEW c \in DOMAIN devices  PROVE <<c, "HAS_INTERFACE", e>> \notin edges /\ <<e, "HAS_INTERFACE", c>> \notin edges
    BY <1>6
  <2>2. ASSUME NEW c \in DOMAIN devices, edge = <<c, "HAS_INTERFACE", e>> \/ edge = <<e, "HAS_INTERFACE", c>>  PROVE c = d
    <3>1. {edge[1], edge[3]} = {c, e} /\ {edge[1], edge[3]} = {d, e}
      BY <1>4, <2>2
    <3> QED  BY <1>5, <3>1
  <2> QED  BY <2>1, <2>2
<1>9. \A c \in DOMAIN devices : Touching(c)' = IF c = d THEN Touching(c) \union {e} ELSE Touching(c)
  BY <1>1, <1>5, <1>7, <1>8 DEF Touching
<1>10. \A c : Touching(c) \subseteq DOMAIN ifaces
  BY DEF Touching
<1>11. NamesOnce'
  <2>1. ASSUME NEW c \in DOMAIN devices, NEW f \in Touching(c)', NEW g \in Touching(c)', ifaces'[f].name = ifaces'[g].name
        PROVE  f = g
    <3>1. CASE f \in Touching(c) /\ g \in Touching(c)
      BY <1>1, <1>10, <2>1, <3>1 DEF GraphOK, NamesOnce
    <3>2. CASE f = e /\ g # e
      <4>1. c = d /\ g \in Touching(d)
        BY <1>5, <1>9, <1>10, <2>1, <3>2
      <4>2. ifaces[g].name = item.name
        BY <1>1, <1>2, <1>10, <2>1, <3>2, <4>1
      <4> QED  BY <1>3, <4>1, <4>2 DEF Named
    <3>3. CASE g = e /\ f # e
      <4>1. c = d /\ f \in Touching(d)
        BY <1>5, <1>9, <1>10, <2>1, <3>3
      <4>2. ifaces[f].name = item.name
        BY <1>1, <1>2, <1>10, <2>1, <3>3, <4>1
      <4> QED  BY <1>3, <4>1, <4>2 DEF Named
    <3> QED  BY <1>9, <2>1, <3>1, <3>2, <3>3
  <2> QED  BY <2>1 DEF NamesOnce
<1>12. \A b, c \in DOMAIN devices : Touching(b)' \intersect Touching(c)' # {} => b = c
  BY <1>5, <1>9, <1>10 DEF GraphOK
<1>13. \A x \in edges' :
        /\ x[2] = "HAS_INTERFACE" =>
             (x[1] \in DOMAIN devices /\ x[3] \in DOMAIN ifaces') \/ (x[1] \in DOMAIN ifaces' /\ x[3] \in DOMAIN devices)
        /\ x[2] = "CONNECTED_TO" => x[1] \in DOMAIN devices \/ {x[1], x[3]} \subseteq DOMAIN ifaces'
  <2>1. edge[2] = "HAS_INTERFACE" /\ ((edge[1] = d /\ edge[3] = e) \/ (edge[1] = e /\ edge[3] = d))
    BY <1>4
  <2>2. ASSUME NEW x \in edges  PROVE
        /\ x[2] = "HAS_INTERFACE" =>
             (x[1] \in DOMAIN devices /\ x[3] \in DOMAIN ifaces') \/ (x[1] \in DOMAIN ifaces' /\ x[3] \in DOMAIN devices)
        /\ x[2] = "CONNECTED_TO" => x[1] \in DOMAIN devices \/ {x[1], x[3]} \subseteq DOMAIN ifaces'
    BY <1>1 DEF GraphOK
  <2> QED  BY <1>1, <2>1, <2>2
<1>14. IsFiniteSet(edges') /\ IsFiniteSet(DOMAIN ifaces')
  BY <1>1, FS_AddElement DEF GraphOK
<1>15. DOMAIN scene.devices \intersect (DOMAIN ifaces' \union Elements \union scene.others) = {}
  BY <1>1 DEF GraphOK
<1>16. GraphOK'
  BY <1>11, <1>12, <1>13, <1>14, <1>15 DEF GraphOK
<1>17. \A x \in edges' \ edges : x[2] = "HAS_INTERFACE" /\ x[2] # "CONNECTED_TO"
  BY <1>4
<1>18. "HAS_INTERFACE" \in Excluded
  BY DEF Excluded
<1>19. \A c \in DOMAIN devices, f \in DOMAIN ifaces' \ DOMAIN ifaces :
         <<c, "HAS_INTERFACE", f>> \in edges' \/ <<f, "HAS_INTERFACE", c>> \in edges' =>
           ~Named(c, ifaces'[f].name) /\ Destined(c)
  BY <1>1, <1>2, <1>3, <1>8
<1>20. Evolves
  BY <1>1, <1>7, <1>17, <1>18, <1>19 DEF Evolves
<1>21. e \in Touching(d)'
  BY <1>9
<1> QED  BY <1>16, <1>20, <1>21

\* The links of a write, and what they join.
LEMMA LinksAdded ==
  ASSUME GraphOK, scene' = scene, devices' = devices, ifaces' = ifaces, NEW r \in Transforms,
         NEW d \in DOMAIN devices, d = cmd(r).destination, NEW item, MergeLink(d, item)
  PROVE  GraphOK' /\ Evolves
<1> DEFINE A == {x \in InterfacesOf(d) : ifaces[x].name = item.local}
           B == {x \in InterfacesOf(item.device) : ifaces[x].name = item.remote}
           S == {<<e, "CONNECTED_TO", f>> : e \in A, f \in B}
           P == A \X B
           g == [p \in P |-> <<p[1], "CONNECTED_TO", p[2]>>]
<1>1. A \subseteq InterfacesOf(d) /\ A \subseteq DOMAIN ifaces /\ B \subseteq DOMAIN ifaces
  BY DEF InterfacesOf
<1>2. IsFiniteSet(A) /\ IsFiniteSet(B)
  BY <1>1, FS_Subset DEF GraphOK
<1>3. edges' = edges \union S
  BY DEF MergeLink
<1> HIDE DEF A, B
<1>4. IsFiniteSet(S)
  <2>1. IsFiniteSet(P)
    BY <1>2, FS_Product
  <2>2. \A t \in S : \E p \in P : g[p] = t
    <3>1. SUFFICES ASSUME NEW t \in S  PROVE \E p \in P : g[p] = t
      OBVIOUS
    <3>2. PICK e \in A, f \in B : t = <<e, "CONNECTED_TO", f>>
      OBVIOUS
    <3> DEFINE p == <<e, f>>
    <3>4. p \in P /\ g[p] = t
      BY <3>2
    <3> HIDE DEF p
    <3> QED  BY <3>4
  <2>3. DOMAIN g = P
    OBVIOUS
  <2> HIDE DEF g, S, P
  <2> QED  BY <2>1, <2>2, <2>3, ImageIsFinite
<1>5. \A x \in S : x[1] \in A /\ x[2] = "CONNECTED_TO" /\ x[3] \in B
  OBVIOUS
<1> HIDE DEF S
<1>6. Destined(d)
  BY DEF Destined
<1>7. \A x \in S :
        /\ x[2] # "HAS_INTERFACE"
        /\ x[1] \in DOMAIN ifaces /\ x[3] \in DOMAIN ifaces /\ x[1] \notin DOMAIN devices
        /\ x[1] \in InterfacesOf(d)
  BY <1>1, <1>5 DEF GraphOK
<1> QED  BY <1>3, <1>4, <1>6, <1>7, EdgesGrow

\* A relationship of the destination is added, or none.
LEMMA RelationAdded ==
  ASSUME GraphOK, scene' = scene, DOMAIN devices' = DOMAIN devices, ifaces' = ifaces, NEW r \in Transforms,
         NEW d \in DOMAIN devices, d = cmd(r).destination, NEW type, type # "HAS_INTERFACE", NEW target,
         edges' = edges \/ edges' = edges \union {<<d, type, target>>}
  PROVE  GraphOK' /\ Evolves
<1> DEFINE S == IF edges' = edges THEN {} ELSE {<<d, type, target>>}
<1>1. IsFiniteSet(S) /\ edges' = edges \union S
  <2>1. IsFiniteSet({}) /\ IsFiniteSet({} \union {<<d, type, target>>})
    BY FS_EmptySet, FS_AddElement
  <2> QED  BY <2>1
<1>2. \A x \in S : x[1] = d /\ x[2] = type
  OBVIOUS
<1> HIDE DEF S
<1>3. Destined(d) /\ d \notin DOMAIN ifaces
  BY DEF Destined, GraphOK
<1> QED  BY <1>1, <1>2, <1>3, EdgesGrow

\* Any write of a replacement.
LEMMA WriteGraph ==
  ASSUME GraphOK, IdentityOK, NEW r \in Transforms, pc[r] = "write", scene' = scene,
         NEW item, item = Head(todo[r]), ItemFits(item), Apply(r, item)
  PROVE  GraphOK' /\ IdentityOK' /\ Evolves
<1> DEFINE d == cmd(r).destination
<1>1. CASE UNCHANGED <<devices, ifaces, edges>>
  <2>1. IsFiniteSet({}) /\ edges' = edges \union {}
    BY <1>1, FS_EmptySet
  <2>2. GraphOK' /\ Evolves
    BY <1>1, <2>1, EdgesGrow
  <2> QED  BY <1>1, <2>2 DEF IdentityOK
<1>2. CASE d \in DOMAIN devices /\ item.kind = "iface" /\ MergeInterface(d, item) /\ UNCHANGED devices
  <2> DEFINE own == Attached(d, item.name)
             e == CHOOSE x \in Elements : x \notin DOMAIN ifaces
  <2>1. CASE own # {}
    <3>1. ifaces' = Over([x \in own |-> Over(item.props, ifaces[x])], ifaces) /\ edges' = edges
      BY <1>2, <2>1 DEF MergeInterface
    <3> QED  BY <1>2, <3>1, IfacesUpdated DEF IdentityOK
  <2>2. CASE own = {}
    <3>1. /\ ifaces' = Put(ifaces, e, item.props)
          /\ \E edge \in {<<d, "HAS_INTERFACE", e>>, <<e, "HAS_INTERFACE", d>>} : edges' = edges \union {edge}
          /\ Elements \ DOMAIN ifaces # {}
      BY <1>2, <2>2 DEF MergeInterface
    <3>2. e \in Elements \ DOMAIN ifaces
      BY <3>1
    <3> HIDE DEF e
    <3> QED  BY <1>2, <2>2, <3>1, <3>2, IfaceAdded DEF IdentityOK
  <2> QED  BY <2>1, <2>2
<1>3. CASE d \in DOMAIN devices /\ MergeLink(d, item) /\ UNCHANGED <<devices, ifaces>>
  BY <1>3, LinksAdded DEF IdentityOK
<1>4. CASE /\ d \in DOMAIN devices /\ item.kind = "rel" /\ UNCHANGED <<devices, ifaces>>
           /\ edges' = edges \union (IF Exists(item.target) THEN {<<d, item.type, item.target>>} ELSE {})
  <2>1. item.type # "HAS_INTERFACE"
    BY <1>4 DEF ItemFits, Excluded
  <2>2. edges' = edges \/ edges' = edges \union {<<d, item.type, item.target>>}
    BY <1>4
  <2> QED  BY <1>4, <2>1, <2>2, RelationAdded DEF IdentityOK
<1>5. CASE d \in DOMAIN devices /\ item.kind = "props" /\ devices' = [devices EXCEPT ![d] = Over(item.props, @)] /\ UNCHANGED <<ifaces, edges>>
  <2>1. DOMAIN devices' = DOMAIN devices
    BY <1>5
  <2>2. GraphOK' /\ Evolves
    <3>1. "REPLACES_DEVICE" # "HAS_INTERFACE"
      OBVIOUS
    <3> QED  BY <1>5, <2>1, <3>1, RelationAdded
  <2>3. IdentityOK'
    <3>1. \A c \in DOMAIN devices : devices'[c] = IF c = d THEN Over(item.props, devices[c]) ELSE devices[c]
      BY <1>5
    <3>2. \A f, k : k \in DOMAIN f /\ k \in Identity => k \in DOMAIN Over(item.props, f) /\ Over(item.props, f)[k] = f[k]
      BY <1>5 DEF Over, ItemFits
    <3> QED  BY <2>1, <3>1, <3>2 DEF IdentityOK
  <2> QED  BY <2>2, <2>3
<1>6. CASE /\ d \in DOMAIN devices /\ item.kind = "record" /\ UNCHANGED <<devices, ifaces>>
           /\ edges' = edges \union (IF Exists(cmd(r).source) THEN {<<d, "REPLACES_DEVICE", cmd(r).source>>} ELSE {})
  <2>1. edges' = edges \/ edges' = edges \union {<<d, "REPLACES_DEVICE", cmd(r).source>>}
    BY <1>6
  <2>2. "REPLACES_DEVICE" # "HAS_INTERFACE"
    OBVIOUS
  <2> QED  BY <1>6, <2>1, <2>2, RelationAdded DEF IdentityOK
<1> QED  BY <1>1, <1>2, <1>3, <1>4, <1>5, <1>6 DEF Apply

\* Of two sequences, the head of the second goes to the end of the first.
LEMMA HeadMoves ==
  ASSUME NEW s, NEW t, IsSequence(s), IsSequence(t), t # <<>>, NEW u, u = s \o t
  PROVE  /\ Len(s) \in Nat /\ DOMAIN s = 1..Len(s)
         /\ Len(s) + 1 \in DOMAIN u /\ u[Len(s) + 1] = Head(t)
         /\ Append(s, Head(t)) \o Tail(t) = u
         /\ IsSequence(Append(s, Head(t))) /\ IsSequence(Tail(t)) /\ (Tail(t) = <<>> <=> Len(t) = 1)
<1>1. PICK S : s \in Seq(S)
  BY DEF IsSequence
<1>2. PICK T : t \in Seq(T)
  BY DEF IsSequence
<1>3. s \in Seq(S \union T) /\ t \in Seq(S \union T)
  BY <1>1, <1>2, LargerSeq, S \subseteq S \union T, T \subseteq S \union T
<1>4. /\ Append(s, Head(t)) \in Seq(S \union T) /\ Tail(t) \in Seq(S \union T)
      /\ Len(s) \in Nat /\ DOMAIN s = 1..Len(s) /\ Len(s) + 1 \in DOMAIN u /\ u[Len(s) + 1] = Head(t)
      /\ (Tail(t) = <<>> <=> Len(t) = 1)
  <2>4. Tail(t) \in Seq(S \union T) /\ Len(t) \in Nat /\ Len(Tail(t)) = Len(t) - 1 /\ Head(t) \in S \union T
    BY <1>3
  <2>5. Append(s, Head(t)) \in Seq(S \union T)
    BY <1>3, <2>4
  <2>6. \A q \in Seq(S \union T) : q = <<>> <=> Len(q) = 0
    OBVIOUS
  <2>7. Len(Tail(t)) = 0 <=> Len(t) = 1
    BY <2>4
  <2>1. Append(s, Head(t)) \in Seq(S \union T) /\ Tail(t) \in Seq(S \union T) /\ (Tail(t) = <<>> <=> Len(t) = 1)
    BY <2>4, <2>5, <2>6, <2>7
  <2>2. Len(s) \in Nat /\ DOMAIN s = 1..Len(s)
    BY <1>1
  <2>3. Len(t) \in Nat /\ Len(t) >= 1 /\ Head(t) = t[1] /\ DOMAIN u = 1..(Len(s) + Len(t)) /\ u[Len(s) + 1] = t[1]
    BY <1>3
  <2> QED  BY <2>1, <2>2, <2>3
<1>5. Append(s, Head(t)) \o Tail(t) = u
  <2> DEFINE v == Append(s, Head(t)) \o Tail(t)
  <2>1. u \in Seq(S \union T) /\ v \in Seq(S \union T)
    BY <1>3, <1>4
  <2>2. Len(u) = Len(v) /\ \A i \in 1..Len(u) : u[i] = v[i]
    BY <1>3
  <2> HIDE DEF v
  <2>3. u = v
    BY <2>1, <2>2, SeqEqual
  <2> QED  BY <2>3 DEF v
<1> QED  BY <1>4, <1>5 DEF IsSequence

LEMMA EmptyConcat ==
  ASSUME NEW s, IsSequence(s)
  PROVE  s \o <<>> = s /\ <<>> \o s = s
  BY DEF IsSequence

LEMMA KindsAre == \A x, m : InterfaceItem(x, m).kind = "iface" /\ LinkItem(x, m).kind = "link"
  BY DEF InterfaceItem, LinkItem

\* What is shown are the first items of the plan, and the head is the next.
LEMMA PlanFacts ==
  ASSUME NEW r \in Transforms, ReadOK(r), PlanOK(r), Writing(r), NEW its, its = Items(work[r], work[r].mapping)
  PROVE  /\ \A i \in DOMAIN report[r].shown : i \in DOMAIN its /\ report[r].shown[i] = its[i]
         /\ pc[r] = "write" =>
              /\ Has(its, Head(todo[r])) /\ ItemFits(Head(todo[r]))
              /\ Head(todo[r]).kind = "link" => \A i \in DOMAIN work[r].ifaces : i \in DOMAIN report[r].shown
         /\ report[r].success => report[r].shown = its
<1> DEFINE s == report[r].shown
           t == todo[r]
           w == work[r]
<1>1. IsSequence(s) /\ IsSequence(t) /\ s \o t = its
  BY DEF PlanOK
<1>2. \A i \in DOMAIN s : i \in DOMAIN its /\ s[i] = its[i]
  <2> HIDE DEF s, t
  <2>1. DOMAIN s \subseteq DOMAIN (s \o t) /\ \A i \in DOMAIN s : (s \o t)[i] = s[i]
    BY <1>1, ConcatFacts
  <2> QED  BY <1>1, <2>1
<1>3. /\ \A i \in DOMAIN its : ItemFits(its[i])
      /\ \A i \in DOMAIN w.ifaces : its[i] = InterfaceItem(w.ifaces[i], w.mapping)
      /\ IsSequence(w.ifaces)
  <2>1. /\ IsSequence(w.ifaces) /\ IsSequence(w.links) /\ IsSequence(w.rels)
        /\ \A i \in DOMAIN w.rels : w.rels[i].type \notin Excluded
    BY DEF ReadOK
  <2> HIDE DEF w
  <2>2. its = Items(w, w.mapping)
    BY DEF w
  <2> QED  BY <2>1, <2>2, ItemsAre
<1>4. ASSUME pc[r] = "write"
      PROVE  /\ Has(its, Head(t)) /\ ItemFits(Head(t))
             /\ Head(t).kind = "link" => \A i \in DOMAIN w.ifaces : i \in DOMAIN s
  <2>1. t # <<>>
    BY <1>4 DEF PlanOK
  <2> HIDE DEF s, t, w
  <2>2. Len(s) \in Nat /\ DOMAIN s = 1..Len(s) /\ Len(s) + 1 \in DOMAIN its /\ its[Len(s) + 1] = Head(t)
    BY <1>1, <2>1, HeadMoves
  <2>3. ASSUME Head(t).kind = "link", NEW i \in DOMAIN w.ifaces  PROVE i \in DOMAIN s
    <3>1. PICK S : w.ifaces \in Seq(S)
      BY <1>3 DEF IsSequence
    <3>2. Len(w.ifaces) \in Nat /\ DOMAIN w.ifaces = 1..Len(w.ifaces)
      BY <3>1
    <3>3. \A j \in DOMAIN w.ifaces : its[j].kind = "iface"
      BY <1>3, KindsAre
    <3>4. Len(s) + 1 \notin DOMAIN w.ifaces
      BY <2>2, <2>3, <3>3
    <3> QED  BY <2>2, <2>3, <3>2, <3>4
  <2> QED  BY <1>3, <2>2, <2>3 DEF Has
<1>5. report[r].success => s = its
  <2>1. report[r].success => t = <<>>
    BY DEF PlanOK
  <2> HIDE DEF s, t
  <2> QED  BY <1>1, <2>1, EmptyConcat
<1> QED  BY <1>2, <1>4, <1>5

LEMMA GraphSame ==
  ASSUME GraphOK, IdentityOK, UNCHANGED <<scene, devices, ifaces, edges>>
  PROVE  GraphOK' /\ IdentityOK' /\ Evolves
<1>1. IsFiniteSet({}) /\ edges' = edges \union {}
  BY FS_EmptySet
<1>2. GraphOK' /\ Evolves
  BY <1>1, EdgesGrow
<1> QED  BY <1>2 DEF IdentityOK

\* What is created joins its table, whatever the request.
LEMMA CreatedStep ==
  ASSUME CreatedOK, scene \in Scenes, scene' = scene, NEW r \in Requests, Create(r)
  PROVE  CreatedOK'
<1> DEFINE object == cmd(r).object
           into == cmd(r).into
<1>1. catalog' = [catalog EXCEPT ![into] = @ \union {object}] /\ cmd(r).op = "create"
  BY DEF Create
<1>2. CatalogFits(scene) /\ GraphFits(scene)
  BY SceneAssumption
<1>3. into = "mappings" => IsMapping(object)
  BY <1>1, <1>2 DEF cmd, CatalogFits, Added
<1>4. into = "features" => object.name \notin DOMAIN scene.devices
  BY <1>1, <1>2 DEF cmd, GraphFits, Added
<1> HIDE DEF object, into
<1>5. DOMAIN catalog' = Tables /\ {"features", "mappings"} \subseteq Tables
  BY <1>1 DEF CreatedOK, Tables
<1>6. /\ catalog'.features = catalog.features \/ (into = "features" /\ catalog'.features = catalog.features \union {object})
      /\ catalog'.mappings = catalog.mappings \/ (into = "mappings" /\ catalog'.mappings = catalog.mappings \union {object})
  BY <1>1, <1>5 DEF CreatedOK
<1>7. IsFiniteSet(catalog.features \union {object})
  BY FS_AddElement DEF CreatedOK
<1>8. IsFiniteSet(catalog'.features) /\ \A f \in catalog'.features : f.name \notin DOMAIN scene.devices
  BY <1>4, <1>6, <1>7 DEF CreatedOK
<1>9. \A m \in catalog'.mappings : IsMapping(m)
  BY <1>3, <1>6 DEF CreatedOK
<1> QED  BY <1>5, <1>8, <1>9 DEF CreatedOK

\* A rule is linked to its features.
LEMMA RuleLinked ==
  ASSUME CreatedOK, GraphOK, IdentityOK, NEW r \in Requests, LinkRule(r)
  PROVE  GraphOK' /\ IdentityOK' /\ Evolves
<1> DEFINE rule == cmd(r).object
           F == {x \in catalog.features : x.name = rule.feature}
           S == {<<f.name, "HAS_COMPLIANCE_RULE", rule.name>> : f \in F}
           g == [f \in F |-> <<f.name, "HAS_COMPLIANCE_RULE", rule.name>>]
<1>1. edges' = edges \union S /\ UNCHANGED <<scene, devices, ifaces>>
  BY DEF LinkRule
<1>2. IsFiniteSet(F)
  BY FS_Subset DEF CreatedOK
<1>3. DOMAIN g = F /\ \A t \in S : \E f \in F : g[f] = t
  OBVIOUS
<1>4. \A x \in S : x[2] = "HAS_COMPLIANCE_RULE" /\ \E f \in F : x[1] = f.name
  OBVIOUS
<1>5. \A f \in F : f.name \notin DOMAIN devices
  BY DEF CreatedOK, GraphOK
<1> HIDE DEF g, S, F
<1>6. IsFiniteSet(S)
  BY <1>2, <1>3, ImageIsFinite
<1>7. \A x \in S : x[2] # "HAS_INTERFACE" /\ x[2] # "CONNECTED_TO" /\ x[1] \notin DOMAIN devices
  BY <1>4, <1>5
<1>8. GraphOK' /\ Evolves
  BY <1>1, <1>6, <1>7, EdgesGrow
<1> QED  BY <1>1, <1>8 DEF IdentityOK

\* Which steps of a request change the graph.
LEMMA StepGraph ==
  ASSUME NEW r \in Requests, Step(r)
  PROVE  scene' = scene /\ (UNCHANGED <<devices, ifaces, edges>> \/ Write(r) \/ LinkRule(r))
<1>1. CASE Begin(r) \/ Create(r) \/ LinkRule(r) \/ Fault(r)
  BY <1>1 DEF Begin, Create, LinkRule, Fault, graphVars
<1>2. CASE RunRaises(r)
  BY <1>2 DEF RunRaises, ReadOnly, graphVars
<1>3. CASE ContextStep(r)
  BY <1>3 DEF ContextStep, ContextDevice, ContextMerge, ReadOnly, graphVars
<1>4. CASE CheckStep(r)
  BY <1>4 DEF CheckStep, CheckDevice, CheckBackup, CheckIntended, CheckRules, CheckRule, ReadOnly, graphVars
<1>5. CASE SourceStep(r)
  BY <1>5 DEF SourceStep, ReadSource, ReadInterfaces, ReadLinks, ReadRelations, ReadOnly, graphVars
<1>6. CASE WriteStep(r)
  BY <1>6 DEF WriteStep, ReadDestination, ReadMapping, Write, ReadOnly, graphVars
<1> QED  BY <1>1, <1>2, <1>3, <1>4, <1>5, <1>6 DEF Step

LEMMA GraphStep ==
  ASSUME CreatedOK, GraphOK, IdentityOK, scene \in Scenes, NEW r \in Requests, Step(r),
         pc[r] = "write" => r \in Transforms, r \in Transforms => ReadOK(r) /\ PlanOK(r)
  PROVE  GraphOK' /\ IdentityOK' /\ Evolves /\ CreatedOK'
<1>1. scene' = scene /\ (UNCHANGED <<devices, ifaces, edges>> \/ Write(r) \/ LinkRule(r))
  BY StepGraph
<1>2. GraphOK' /\ IdentityOK' /\ Evolves
  <2>1. CASE UNCHANGED <<devices, ifaces, edges>>
    BY <1>1, <2>1, GraphSame
  <2>2. CASE LinkRule(r)
    BY <2>2, RuleLinked
  <2>3. CASE Write(r)
    <3>1. pc[r] = "write" /\ Apply(r, Head(todo[r])) /\ scene' = scene
      BY <2>3 DEF Write, ReplacementStep
    <3>2. ItemFits(Head(todo[r])) /\ r \in Transforms
      BY <3>1, PlanFacts DEF Writing
    <3> QED  BY <3>1, <3>2, WriteGraph
  <2> QED  BY <1>1, <2>1, <2>2, <2>3
<1>3. CreatedOK'
  <2>1. catalog' = catalog \/ Create(r)
    BY StepFacts
  <2> QED  BY <1>1, <2>1, CreatedStep DEF CreatedOK
<1> QED  BY <1>2, <1>3

\* A device keeps the interfaces it has, by their names.
LEMMA NamedKept ==
  ASSUME Evolves, NEW d \in DOMAIN devices', NEW name, Named(d, name)
  PROVE  Named(d, name)'
<1>1. PICK e \in Touching(d) : ifaces[e].name = name
  BY DEF Named
<1>2. e \in DOMAIN ifaces
  BY DEF Touching
<1>3. e \in Touching(d)' /\ ifaces'[e].name = name
  BY <1>1, <1>2 DEF Evolves, Touching
<1> QED  BY <1>3 DEF Named

LEMMA DestinedKept ==
  ASSUME Evolves
  PROVE  Transforms' = Transforms /\ \A d : Destined(d)' <=> Destined(d)
  BY DEF Evolves, Destined, Transforms, cmd

LEMMA LinksAre ==
  ASSUME NEW d, NEW l
  PROVE  l \in LinksOf(d) <=> \E e \in InterfacesOf(d), f \in DOMAIN ifaces, o \in DOMAIN devices :
           /\ <<e, "CONNECTED_TO", f>> \in edges /\ f \in InterfacesOf(o)
           /\ l = [local |-> ifaces[e].name, remote |-> ifaces[f].name, device |-> o]
<1> DEFINE A == InterfacesOf(d) \X (DOMAIN ifaces) \X (DOMAIN devices)
           Link(p) == [local |-> ifaces[p[1]].name, remote |-> ifaces[p[2]].name, device |-> p[3]]
           On(p) == <<p[1], "CONNECTED_TO", p[2]>> \in edges /\ p[2] \in InterfacesOf(p[3])
<1>1. l \in LinksOf(d) <=> \E p \in A : On(p) /\ l = Link(p)
  BY DEF LinksOf
<1>2. ASSUME NEW e \in InterfacesOf(d), NEW f \in DOMAIN ifaces, NEW o \in DOMAIN devices
      PROVE  \E p \in A : p[1] = e /\ p[2] = f /\ p[3] = o
  <2>1. <<e, f, o>> \in A /\ <<e, f, o>>[1] = e /\ <<e, f, o>>[2] = f /\ <<e, f, o>>[3] = o
    OBVIOUS
  <2> HIDE DEF A
  <2> QED  BY <2>1
<1>3. \A p \in A : p[1] \in InterfacesOf(d) /\ p[2] \in DOMAIN ifaces /\ p[3] \in DOMAIN devices
  OBVIOUS
<1> HIDE DEF A
<1>4. \A p \in A : On(p) /\ l = Link(p) => \E e \in InterfacesOf(d), f \in DOMAIN ifaces, o \in DOMAIN devices :
           /\ <<e, "CONNECTED_TO", f>> \in edges /\ f \in InterfacesOf(o)
           /\ l = [local |-> ifaces[e].name, remote |-> ifaces[f].name, device |-> o]
  BY <1>3
<1>5. ASSUME NEW e \in InterfacesOf(d), NEW f \in DOMAIN ifaces, NEW o \in DOMAIN devices,
             <<e, "CONNECTED_TO", f>> \in edges, f \in InterfacesOf(o),
             l = [local |-> ifaces[e].name, remote |-> ifaces[f].name, device |-> o]
      PROVE  \E p \in A : On(p) /\ l = Link(p)
  <2>1. PICK p \in A : p[1] = e /\ p[2] = f /\ p[3] = o
    BY <1>2
  <2>2. On(p) /\ l = Link(p)
    BY <1>5, <2>1
  <2> HIDE DEF On, Link
  <2> QED  BY <2>2
<1> QED  BY <1>1, <1>4, <1>5

LEMMA LinksWillBe ==
  ASSUME NEW d, NEW l
  PROVE  (l \in LinksOf(d))' <=> \E e \in InterfacesOf(d)', f \in DOMAIN ifaces', o \in DOMAIN devices' :
           /\ <<e, "CONNECTED_TO", f>> \in edges' /\ f \in InterfacesOf(o)'
           /\ l = [local |-> ifaces'[e].name, remote |-> ifaces'[f].name, device |-> o]
<1>1. (l \in LinksOf(d) <=> \E e \in InterfacesOf(d), f \in DOMAIN ifaces, o \in DOMAIN devices :
           /\ <<e, "CONNECTED_TO", f>> \in edges /\ f \in InterfacesOf(o)
           /\ l = [local |-> ifaces[e].name, remote |-> ifaces[f].name, device |-> o])'
  BY LinksAre, PTL
<1> QED  BY <1>1

\* What there is to read of a device that nobody writes to becomes no more,
\* and its interfaces stay what they are.
LEMMA SourceKept ==
  ASSUME GraphOK, GraphOK', Evolves, NEW s \in DOMAIN devices', ~Destined(s)
  PROVE  /\ InterfacesOf(s)' = InterfacesOf(s) /\ \A e \in InterfacesOf(s) : ifaces'[e] = ifaces[e]
         /\ LinksOf(s)' \subseteq LinksOf(s) /\ RelationsOf(s)' \subseteq RelationsOf(s)
<1>1. s \in DOMAIN devices /\ \A d : InterfacesOf(d) \subseteq Touching(d)
  BY DEF Evolves, InterfacesOf, Touching
<1>2. InterfacesOf(s)' = InterfacesOf(s)
  BY DEF Evolves, InterfacesOf
<1>3. ASSUME NEW d \in DOMAIN devices, Destined(d), NEW e \in Touching(s)  PROVE e \notin Touching(d)
  BY <1>1, <1>3 DEF GraphOK
<1>4. ASSUME NEW e \in InterfacesOf(s)  PROVE ifaces'[e] = ifaces[e]
  <2>1. SUFFICES ASSUME NEW q \in Transforms, Rewrites(q, e)  PROVE FALSE
    BY DEF Evolves, InterfacesOf
  <2>2. /\ cmd(q).destination \in DOMAIN devices /\ Destined(cmd(q).destination)
        /\ e \in Touching(cmd(q).destination)
    BY <2>1 DEF Rewrites, Attached, Destined
  <2> QED  BY <1>1, <1>3, <2>2
<1>5. LinksOf(s)' \subseteq LinksOf(s)
  <2>9. SUFFICES ASSUME NEW l, (l \in LinksOf(s))'  PROVE l \in LinksOf(s)
    OBVIOUS
  <2>1. PICK e \in InterfacesOf(s), f \in DOMAIN ifaces', o \in DOMAIN devices' :
          /\ <<e, "CONNECTED_TO", f>> \in edges' /\ f \in InterfacesOf(o)'
          /\ l = [local |-> ifaces'[e].name, remote |-> ifaces'[f].name, device |-> o]
    <3>1. \E e \in InterfacesOf(s)', f \in DOMAIN ifaces', o \in DOMAIN devices' :
            /\ <<e, "CONNECTED_TO", f>> \in edges' /\ f \in InterfacesOf(o)'
            /\ l = [local |-> ifaces'[e].name, remote |-> ifaces'[f].name, device |-> o]
      BY <2>9, LinksWillBe
    <3> QED  BY <1>2, <3>1
  <2>2. e \in DOMAIN ifaces /\ e \notin DOMAIN devices
    BY DEF InterfacesOf, GraphOK
  <2>3. \A a, b : <<a, "CONNECTED_TO", b>>[1] = a /\ <<a, "CONNECTED_TO", b>>[2] = "CONNECTED_TO" /\ <<a, "CONNECTED_TO", b>>[3] = b
    OBVIOUS
  <2>4. <<e, "CONNECTED_TO", f>> \in edges
    <3>1. SUFFICES ASSUME <<e, "CONNECTED_TO", f>> \in edges' \ edges  PROVE FALSE
      BY <2>1
    <3>2. PICK d \in DOMAIN devices : Destined(d) /\ e \in InterfacesOf(d)
      BY <2>2, <2>3, <3>1 DEF Evolves
    <3> QED  BY <1>1, <1>3, <3>2
  <2>5. f \in DOMAIN ifaces
    BY <2>2, <2>3, <2>4 DEF GraphOK
  <2>6. f \in InterfacesOf(o) /\ o \in DOMAIN devices
    BY <2>1, <2>5 DEF Evolves, InterfacesOf
  <2>7. ifaces'[e].name = ifaces[e].name /\ ifaces'[f].name = ifaces[f].name
    BY <2>2, <2>5 DEF Evolves
  <2> QED  BY <2>1, <2>4, <2>5, <2>6, <2>7, LinksAre
<1>6. RelationsOf(s)' \subseteq RelationsOf(s)
  <2>1. \A x \in edges' : x[1] = s /\ x[2] \notin Excluded => x \in edges
    BY <1>1 DEF Evolves
  <2> QED  BY <2>1 DEF RelationsOf
<1> QED  BY <1>2, <1>4, <1>5, <1>6

\* What a request has read stays what is there of its source.
LEMMA StillRead ==
  ASSUME GraphOK, GraphOK', Evolves, NEW r \in Transforms
  PROVE  /\ Settled(r)' => Settled(r)
         /\ Settled(r)' /\ IfacesRead(r) /\ work'[r].ifaces = work[r].ifaces => IfacesRead(r)'
         /\ Settled(r)' /\ LinksRead(r) /\ work'[r].ifaces = work[r].ifaces /\ work'[r].links = work[r].links => LinksRead(r)'
         /\ RemotesNamed(r) /\ work'[r].links = work[r].links => RemotesNamed(r)'
         /\ Settled(r)' /\ RelsRead(r) /\ work'[r].rels = work[r].rels => RelsRead(r)'
<1>0. PICK s : s = cmd(r).source
  OBVIOUS
<1>1. cmd(r)' = cmd(r) /\ s = cmd(r)'.source /\ DOMAIN devices' \subseteq DOMAIN devices
  BY <1>0 DEF Evolves, cmd
<1>2. Settled(r)' => s \in DOMAIN devices' /\ ~Destined(s) /\ Settled(r)
  BY <1>0, <1>1, DestinedKept DEF Settled
<1>3. Settled(r)' => /\ InterfacesOf(s)' = InterfacesOf(s) /\ \A e \in InterfacesOf(s) : ifaces'[e] = ifaces[e]
                     /\ LinksOf(s)' \subseteq LinksOf(s) /\ RelationsOf(s)' \subseteq RelationsOf(s)
  BY <1>2, SourceKept
<1>4. RemotesNamed(r) /\ work'[r].links = work[r].links => RemotesNamed(r)'
  BY <1>1, NamedKept DEF RemotesNamed
<1>5. Settled(r)' /\ IfacesRead(r) /\ work'[r].ifaces = work[r].ifaces => IfacesRead(r)'
  BY <1>0, <1>1, <1>3 DEF IfacesRead, Has
<1>6. Settled(r)' /\ LinksRead(r) /\ work'[r].ifaces = work[r].ifaces /\ work'[r].links = work[r].links => LinksRead(r)'
  BY <1>0, <1>1, <1>3 DEF LinksRead, Has
<1>7. Settled(r)' /\ RelsRead(r) /\ work'[r].rels = work[r].rels => RelsRead(r)'
  BY <1>0, <1>1, <1>3 DEF RelsRead, Has
<1> QED  BY <1>2, <1>4, <1>5, <1>6, <1>7

\* Two requests that replace one device by another with one mapping write the
\* same to an interface, if no other one gets its name.
LEMMA WritersAgree ==
  ASSUME NEW r \in Transforms, NEW q \in Transforms, ReadOK(r), ReadOK(q), PlanOK(r), PlanOK(q),
         Writing(r), pc[q] = "write", Settled(r), cmd(q).source = cmd(r).source,
         work[q].mapping = work[r].mapping, NEW item, Sole(r, item),
         Head(todo[q]).kind = "iface", Head(todo[q]).name = item.name
  PROVE  Head(todo[q]) = item
<1> DEFINE m == work[r].mapping
           its == Items(work[q], work[q].mapping)
           head == Head(todo[q])
<1>1. Writing(q) /\ Settled(q)
  BY DEF Writing, Settled
<1>2. Has(its, head)
  BY <1>1, PlanFacts
<1>3. PICK i \in DOMAIN work[q].ifaces : head = InterfaceItem(work[q].ifaces[i], m)
  <2> DEFINE w == work[q]
  <2>1. /\ IsSequence(w.ifaces) /\ IsSequence(w.links) /\ IsSequence(w.rels)
        /\ \A j \in DOMAIN w.rels : w.rels[j].type \notin Excluded /\ w.mapping = m
    BY DEF ReadOK
  <2>2. its = Items(w, w.mapping) /\ w.mapping = m
    OBVIOUS
  <2> HIDE DEF w, its, m
  <2>3. /\ \A j \in DOMAIN w.ifaces : its[j] = InterfaceItem(w.ifaces[j], m)
        /\ \A j \in DOMAIN its : its[j].kind = "iface" => j \in DOMAIN w.ifaces
    BY <2>1, <2>2, ItemsAre
  <2>4. PICK j \in DOMAIN its : its[j] = head
    BY <1>2 DEF Has
  <2>5. j \in DOMAIN w.ifaces /\ head = InterfaceItem(w.ifaces[j], m)
    BY <2>3, <2>4
  <2> QED  BY <2>5 DEF w
<1>4. PICK e \in InterfacesOf(cmd(r).source) : work[q].ifaces[i] = ifaces[e]
  BY <1>1 DEF ReadOK, HasIfaces, IfacesRead
<1>5. PICK j \in DOMAIN work[r].ifaces : work[r].ifaces[j] = ifaces[e]
  BY DEF ReadOK, HasIfaces, IfacesRead, Has
<1>6. head = InterfaceItem(work[r].ifaces[j], m) /\ head.name = item.name
  BY <1>3, <1>4, <1>5
<1> HIDE DEF head, m
<1> QED  BY <1>6 DEF Sole, head, m

\* What is done stays done, if what others write to the destination is the same.
LEMMA DoneKept ==
  ASSUME GraphOK, GraphOK', Evolves, NEW r \in Transforms, NEW item, Done(r, item),
         work'[r] = work[r], {cmd(r).source, cmd(r).destination} \subseteq DOMAIN devices',
         \A q \in Transforms : /\ pc[q] = "write" /\ cmd(q).destination = cmd(r).destination
                               /\ Head(todo[q]).kind = "iface" /\ Head(todo[q]).name = item.name
                               /\ item.kind = "iface" /\ Sole(r, item)
                               => Head(todo[q]) = item
  PROVE  Done(r, item)'
<1>0. PICK d, s : d = cmd(r).destination /\ s = cmd(r).source
  OBVIOUS
<1>1. /\ cmd(r)' = cmd(r) /\ cmd(r)'.destination = d /\ cmd(r)'.source = s
      /\ {s, d} \subseteq DOMAIN devices' /\ {s, d} \subseteq DOMAIN devices /\ scene'.others = scene.others
      /\ DOMAIN scene.devices \intersect scene.others = {} /\ DOMAIN scene'.devices = DOMAIN scene.devices
  BY <1>0 DEF Evolves, cmd, GraphOK
<1>2. Sole(r, item)' <=> Sole(r, item)
  BY DEF Sole
<1>3. ASSUME NEW x \in edges, x[1] \in DOMAIN devices' \union DOMAIN ifaces \union scene.others,
             x[3] \in DOMAIN devices' \union DOMAIN ifaces \union scene.others
      PROVE  x \in edges'
  BY <1>3 DEF Evolves, GraphOK
<1>4. \A a, t, b : <<a, t, b>>[1] = a /\ <<a, t, b>>[2] = t /\ <<a, t, b>>[3] = b
  OBVIOUS
<1>5. ASSUME IfaceDone(r, item), item.kind = "iface"  PROVE IfaceDone(r, item)'
  <2>1. Named(d, item.name)'
    BY <1>0, <1>1, <1>5, NamedKept DEF IfaceDone
  <2>2. ASSUME Sole(r, item), NEW e \in Touching(d), ifaces[e].name = item.name, HasProps(e, item.props)
        PROVE  e \in Touching(d)' /\ ifaces'[e].name = item.name /\ HasProps(e, item.props)'
    <3>1. e \in DOMAIN ifaces /\ e \in Touching(d)' /\ ifaces'[e].name = item.name
      BY <1>1, <2>2 DEF Evolves, Touching
    <3>2. CASE ifaces'[e] = ifaces[e]
      <4>1. \A k \in DOMAIN item.props : k \in DOMAIN ifaces[e] /\ ifaces[e][k] = item.props[k]
        BY <2>2 DEF HasProps
      <4>2. HasProps(e, item.props)'
        BY <3>2, <4>1 DEF HasProps
      <4> QED  BY <3>1, <4>2
    <3>3. CASE ifaces'[e] # ifaces[e]
      <4>1. PICK q \in Transforms : Rewrites(q, e)
        BY <3>1, <3>3 DEF Evolves
      <4>2. /\ pc[q] = "write" /\ Head(todo[q]).kind = "iface" /\ cmd(q).destination \in DOMAIN devices
            /\ e \in Touching(cmd(q).destination) /\ ifaces[e].name = Head(todo[q]).name
            /\ ifaces'[e] = Over(Head(todo[q]).props, ifaces[e])
        BY <4>1 DEF Rewrites, Attached
      <4>3. cmd(q).destination = d
        BY <1>1, <2>2, <4>2 DEF GraphOK
      <4>4. Head(todo[q]) = item
        BY <1>0, <1>5, <2>2, <4>2, <4>3
      <4>5. ifaces'[e] = Over(item.props, ifaces[e])
        BY <4>2, <4>4
      <4>6. \A f, k : k \in DOMAIN item.props =>
              k \in DOMAIN Over(item.props, f) /\ Over(item.props, f)[k] = item.props[k]
        BY DEF Over
      <4>7. HasProps(e, item.props)'
        BY <4>5, <4>6 DEF HasProps
      <4> QED  BY <3>1, <4>7
    <3> QED  BY <3>1, <3>2, <3>3
  <2>3. Sole(r, item) => \E e \in Touching(d)' : ifaces'[e].name = item.name /\ HasProps(e, item.props)'
    BY <1>0, <1>5, <2>2 DEF IfaceDone
  <2> QED  BY <1>1, <1>2, <2>1, <2>3 DEF IfaceDone
<1>6. ASSUME LinkDone(r, item)  PROVE LinkDone(r, item)'
  <2>1. Named(d, item.local)'
    BY <1>0, <1>1, <1>6, NamedKept DEF LinkDone
  <2>2. item.device \in DOMAIN devices' => Named(item.device, item.remote) /\ Named(item.device, item.remote)'
    BY <1>6, NamedKept DEF LinkDone, Evolves
  <2>3. ASSUME NEW e \in InterfacesOf(d)', NEW f \in InterfacesOf(item.device)',
               ifaces'[e].name = item.local, ifaces'[f].name = item.remote
        PROVE  <<e, "CONNECTED_TO", f>> \in edges'
    <3>1. item.device \in DOMAIN devices'
      <4>1. <<item.device, "HAS_INTERFACE", f>> \in edges' /\ f \in DOMAIN ifaces'
        BY DEF InterfacesOf
      <4>2. f \notin DOMAIN devices'
        BY <4>1 DEF GraphOK
      <4> QED  BY <1>4, <4>1, <4>2 DEF GraphOK
    <3>2. e \in DOMAIN ifaces
      <4>1. SUFFICES ASSUME e \notin DOMAIN ifaces  PROVE FALSE
        OBVIOUS
      <4>2. ~Named(d, ifaces'[e].name)
        BY <1>1, <4>1 DEF Evolves, InterfacesOf
      <4> QED  BY <1>0, <1>6, <2>3, <4>2 DEF LinkDone
    <3>3. f \in DOMAIN ifaces
      <4>1. SUFFICES ASSUME f \notin DOMAIN ifaces  PROVE FALSE
        OBVIOUS
      <4>2. ~Named(item.device, ifaces'[f].name)
        BY <3>1, <4>1 DEF Evolves, InterfacesOf
      <4> QED  BY <2>2, <2>3, <3>1, <4>2
    <3>4. e \in InterfacesOf(d) /\ f \in InterfacesOf(item.device) /\ ifaces[e].name = item.local /\ ifaces[f].name = item.remote
      BY <1>1, <2>3, <3>1, <3>2, <3>3 DEF Evolves, InterfacesOf
    <3>5. <<e, "CONNECTED_TO", f>> \in edges
      BY <1>0, <1>6, <3>4 DEF LinkDone
    <3> QED  BY <1>3, <1>4, <3>2, <3>3, <3>5
  <2> QED  BY <1>1, <2>1, <2>2, <2>3 DEF LinkDone
<1>7. ASSUME item.kind = "rel", Exists(item.target) => <<d, item.type, item.target>> \in edges, Exists(item.target)'
      PROVE  <<d, item.type, item.target>> \in edges'
  <2>1. item.target \in DOMAIN devices' \union scene.others
    BY <1>1, <1>7 DEF Exists
  <2>2. Exists(item.target)
    BY <2>1 DEF Exists, Evolves
  <2> QED  BY <1>1, <1>3, <1>4, <1>7, <2>1, <2>2
<1>8. ASSUME <<d, "REPLACES_DEVICE", s>> \in edges  PROVE <<d, "REPLACES_DEVICE", s>> \in edges'
  BY <1>1, <1>3, <1>4, <1>8
<1> QED  BY <1>0, <1>1, <1>5, <1>6, <1>7, <1>8 DEF Done

LEMMA LinksAreFinite ==
  ASSUME GraphOK, NEW d
  PROVE  IsFiniteSet(LinksOf(d)) /\ IsFiniteSet(RelationsOf(d)) /\ IsFiniteSet(InterfacesOf(d))
<1>1. IsFiniteSet(InterfacesOf(d))
  BY FS_Subset DEF GraphOK, InterfacesOf
<1>2. IsFiniteSet(RelationsOf(d))
  <2> DEFINE R == RelationsOf(d)
             g == [x \in edges |-> [type |-> x[2], target |-> x[3]]]
  <2>1. DOMAIN g = edges /\ \A t \in R : \E x \in edges : g[x] = t
    BY DEF RelationsOf
  <2> HIDE DEF g, R
  <2>2. IsFiniteSet(R)
    BY <2>1, ImageIsFinite DEF GraphOK
  <2> QED  BY <2>2 DEF R
<1>3. IsFiniteSet(LinksOf(d))
  <2> DEFINE L == LinksOf(d)
             A == DOMAIN ifaces
             B == DOMAIN devices
             P == (A \X A) \X B
             g == [p \in P |-> [local |-> ifaces[p[1][1]].name, remote |-> ifaces[p[1][2]].name, device |-> p[2]]]
  <2>1. ASSUME NEW t \in L  PROVE \E p \in P : g[p] = t
    <3>5. t \in LinksOf(d)
      OBVIOUS
    <3> HIDE DEF L
    <3>1. PICK e \in InterfacesOf(d), f \in DOMAIN ifaces, o \in DOMAIN devices :
             /\ <<e, "CONNECTED_TO", f>> \in edges /\ f \in InterfacesOf(o)
             /\ t = [local |-> ifaces[e].name, remote |-> ifaces[f].name, device |-> o]
      BY <3>5, LinksAre
    <3> DEFINE p == <<<<e, f>>, o>>
    <3>2. e \in A /\ f \in A /\ o \in B
      BY DEF InterfacesOf
    <3> HIDE DEF A, B
    <3>3. p \in P /\ p[1][1] = e /\ p[1][2] = f /\ p[2] = o
      BY <3>2
    <3> HIDE DEF P, p
    <3>4. g[p] = t
      BY <3>1, <3>3
    <3> HIDE DEF g
    <3> QED  BY <3>3, <3>4
  <2>2. IsFiniteSet(P)
    <3>1. IsFiniteSet(A) /\ IsFiniteSet(B)
      BY DEF GraphOK
    <3> HIDE DEF A, B
    <3>2. IsFiniteSet(A \X A)
      BY <3>1, FS_Product
    <3> QED  BY <3>1, <3>2, FS_Product
  <2>3. DOMAIN g = P
    OBVIOUS
  <2> HIDE DEF g, L, P
  <2>4. IsFiniteSet(L)
    BY <2>1, <2>2, <2>3, ImageIsFinite
  <2> QED  BY <2>4 DEF L
<1> QED  BY <1>1, <1>2, <1>3

\* The steps of a replacement.
LEMMA OfTransforms ==
  ASSUME NEW r \in Transforms, Step(r)
  PROVE  Begin(r) \/ SourceStep(r) \/ WriteStep(r) \/ (Fault(r) /\ pc[r] # "end" /\ GiveUp(r))
<1>1. cmd(r).op = "transform" /\ IsReplacement(r) /\ ~IsRun(r) /\ r \in Requests
  BY DEF Transforms, IsReplacement, IsRun
<1>2. ~RunRaises(r) /\ ~ContextStep(r) /\ ~CheckStep(r) /\ ~Create(r) /\ ~LinkRule(r)
  BY <1>1 DEF RunRaises, ContextStep, ContextDevice, ContextMerge, CheckStep, CheckDevice, CheckBackup, CheckIntended,
     CheckRules, CheckRule, Create, LinkRule
<1>3. Fault(r) => pc[r] # "end" /\ GiveUp(r)
  BY <1>1 DEF Fault
<1> QED  BY <1>2, <1>3 DEF Step

\* A step that neither writes nor has a plan yet.
LEMMA NotYetWriting ==
  ASSUME NEW r \in Transforms, PlanOK(r), pc[r] # "end", pc'[r] # "write", Transforms' = Transforms,
         report'[r].success = report[r].success, report'[r].shown = report[r].shown, work'[r].mapping = work[r].mapping,
         pc'[r] # "end" => pc[r] # "write"
  PROVE  PlanOK(r)' /\ DoneOK(r)' /\ ~Writing(r)'
<1>1. ~report[r].success
  BY DEF PlanOK
<1>2. ~report'[r].success /\ ~Writing(r)'
  BY <1>1 DEF Writing
<1>3. pc'[r] # "end" => work'[r].mapping = Blank.mapping /\ report'[r].shown = <<>>
  BY <1>1 DEF PlanOK, Writing
<1>4. Blank' = Blank
  BY DEF Blank
<1> QED  BY <1>2, <1>3, <1>4 DEF PlanOK, DoneOK

\* What has been read before the step is kept, and nothing more is read.
LEMMA ReadsKept ==
  ASSUME GraphOK, GraphOK', Evolves, NEW r \in Transforms, ReadOK(r),
         work'[r].ifaces = work[r].ifaces, work'[r].links = work[r].links, work'[r].rels = work[r].rels,
         HasIfaces(r)' => HasIfaces(r), HasLinks(r)' => HasLinks(r), HasRels(r)' => HasRels(r)
  PROVE  ReadOK(r)'
<1>1. Settled(r)' => Settled(r)
  BY StillRead
<1>2. IsSequence(work'[r].ifaces) /\ IsSequence(work'[r].links) /\ IsSequence(work'[r].rels)
      /\ \A i \in DOMAIN work'[r].rels : work'[r].rels[i].type \notin Excluded
  BY DEF ReadOK
<1>3. HasIfaces(r)' /\ Settled(r)' => IfacesRead(r)'
  BY <1>1, StillRead DEF ReadOK
<1>4. HasLinks(r)' /\ Settled(r)' => LinksRead(r)'
  BY <1>1, StillRead DEF ReadOK
<1>5. HasLinks(r)' => RemotesNamed(r)'
  BY StillRead DEF ReadOK
<1>6. HasRels(r)' /\ Settled(r)' => RelsRead(r)'
  BY <1>1, StillRead DEF ReadOK
<1> QED  BY <1>2, <1>3, <1>4, <1>5, <1>6 DEF ReadOK, Excluded

\* Steps that add nothing to what is read of the source but the device itself.
LEMMA EarlySteps ==
  ASSUME Frame, GraphOK, GraphOK', Evolves, NEW r \in Transforms, ReadOK(r), PlanOK(r),
         Begin(r) \/ (GiveUp(r) /\ pc[r] # "end") \/ ReadSource(r) \/ ReadDestination(r)
  PROVE  ReadOK(r)' /\ PlanOK(r)' /\ DoneOK(r)'
<1>1. /\ r \in Requests /\ DOMAIN work[r] = Fields /\ DOMAIN report[r] = Answer /\ r \in DOMAIN pc
      /\ r \in DOMAIN work /\ r \in DOMAIN report /\ pc[r] # "end"
  BY DEF Transforms, Frame, Shape, Begin, ReadSource, ReadDestination, ReplacementStep
<1>2. Transforms' = Transforms
  BY DestinedKept
<1>3. ~report[r].success
  BY <1>1 DEF PlanOK
<1>4. CASE Begin(r)
  <2>1. pc[r] = "idle" /\ pc'[r] \in {"create", "source", "end", "device"} /\ work'[r] = work[r]
    BY <1>1, <1>4, BeginMoves DEF Begin
  <2>2. report'[r].success = report[r].success /\ report'[r].shown = report[r].shown
    BY <1>1, <1>4 DEF Begin, Answer
  <2>3. PlanOK(r)' /\ DoneOK(r)' /\ ~Writing(r)'
    BY <1>1, <1>2, <2>1, <2>2, NotYetWriting
  <2>4. ReadOK(r)'
    BY <2>1, <2>3, ReadsKept DEF HasIfaces, HasLinks, HasRels
  <2> QED  BY <2>3, <2>4
<1>5. CASE GiveUp(r)
  <2>1. pc'[r] = "end" /\ work'[r] = work[r] /\ report'[r] = report[r]
    BY <1>1, <1>5, GiveUpMoves
  <2>2. PlanOK(r)' /\ DoneOK(r)' /\ ~Writing(r)'
    BY <1>1, <1>2, <2>1, NotYetWriting
  <2>3. ReadOK(r)'
    BY <2>1, <2>2, ReadsKept DEF HasIfaces, HasLinks, HasRels
  <2> QED  BY <2>2, <2>3
<1>6. CASE ReadSource(r) /\ ~GiveUp(r)
  <2> DEFINE w == [work[r] EXCEPT !.device = devices[cmd(r).source], !.platform = PlatformOf(cmd(r).source)]
  <2>1. Continue(r, w, "ifaces") /\ pc[r] = "source"
    BY <1>6 DEF ReadSource, ReplacementStep
  <2>2. /\ DOMAIN w = Fields /\ w.ifaces = work[r].ifaces /\ w.links = work[r].links /\ w.rels = work[r].rels
        /\ w.mapping = work[r].mapping
    BY <1>1 DEF Fields
  <2> HIDE DEF w
  <2>3. pc'[r] = "ifaces" /\ work'[r] = w /\ report'[r] = report[r]
    BY <1>1, <2>1, <2>2, ContinueMoves
  <2>4. PlanOK(r)' /\ DoneOK(r)' /\ ~Writing(r)'
    BY <1>1, <1>2, <2>1, <2>2, <2>3, NotYetWriting
  <2>5. ReadOK(r)'
    BY <2>2, <2>3, <2>4, ReadsKept DEF HasIfaces, HasLinks, HasRels
  <2> QED  BY <2>4, <2>5
<1>7. CASE ReadDestination(r) /\ ~GiveUp(r)
  <2>1. Continue(r, work[r], "mapping") /\ pc[r] = "destination"
    BY <1>7 DEF ReadDestination, ReplacementStep
  <2>2. pc'[r] = "mapping" /\ work'[r] = work[r] /\ report'[r] = report[r]
    BY <1>1, <2>1, ContinueMoves
  <2>3. PlanOK(r)' /\ DoneOK(r)' /\ ~Writing(r)'
    BY <1>1, <1>2, <2>1, <2>2, NotYetWriting
  <2>4. ReadOK(r)'
    BY <2>1, <2>2, <2>3, ReadsKept DEF HasIfaces, HasLinks, HasRels
  <2> QED  BY <2>3, <2>4
<1> QED  BY <1>4, <1>5, <1>6, <1>7

\* A read of the source: its interfaces, its links, its relations.
LEMMA SourceReads ==
  ASSUME Frame, GraphOK, GraphOK', Evolves, NEW r \in Transforms, ReadOK(r), PlanOK(r),
         ReadInterfaces(r) \/ ReadLinks(r) \/ ReadRelations(r)
  PROVE  ReadOK(r)' /\ PlanOK(r)' /\ DoneOK(r)'
<1>0. PICK s : s = cmd(r).source
  OBVIOUS
<1>1. /\ r \in Requests /\ DOMAIN work[r] = Fields /\ DOMAIN report[r] = Answer /\ r \in DOMAIN pc
      /\ r \in DOMAIN work /\ r \in DOMAIN report /\ pc[r] \in {"ifaces", "links", "rels"}
      /\ UNCHANGED <<scene, devices, ifaces, edges>>
  BY DEF Transforms, Frame, Shape, ReadInterfaces, ReadLinks, ReadRelations, ReplacementStep, ReadOnly, graphVars
<1>2. Transforms' = Transforms
  BY DestinedKept
<1>3. ~report[r].success /\ ~Writing(r)
  BY <1>1 DEF PlanOK, Writing
<1>4. cmd(r)' = cmd(r) /\ (Settled(r)' => Settled(r)) /\ s = cmd(r)'.source
  BY <1>0, <1>1, StillRead DEF cmd
<1>5. CASE ReadInterfaces(r)
  <2> DEFINE own == SetToSeq(InterfacesOf(s))
             t == [i \in DOMAIN own |-> ifaces[own[i]]]
             w == [work[r] EXCEPT !.ifaces = t]
  <2>1. Continue(r, w, "links") /\ pc[r] = "ifaces"
    BY <1>0, <1>5 DEF ReadInterfaces, ReplacementStep
  <2>2. /\ DOMAIN w = Fields /\ w.ifaces = t /\ w.links = work[r].links /\ w.rels = work[r].rels
        /\ w.mapping = work[r].mapping
    BY <1>1 DEF Fields
  <2>3. IsSequence(own) /\ (\A x \in InterfacesOf(s) : Has(own, x)) /\ \A i \in DOMAIN own : own[i] \in InterfacesOf(s)
    BY LinksAreFinite, Listed
  <2>4. DOMAIN t = DOMAIN own /\ t = [i \in DOMAIN t |-> t[i]] /\ \A i \in DOMAIN own : t[i] = ifaces[own[i]]
    OBVIOUS
  <2> HIDE DEF w, t, own
  <2>5. IsSequence(t)
    BY <2>3, <2>4, MappedFacts
  <2>6. /\ \A e \in InterfacesOf(s) : Has(t, ifaces[e])
        /\ \A i \in DOMAIN t : \E e \in InterfacesOf(s) : t[i] = ifaces[e]
    BY <2>3, <2>4 DEF Has
  <2>7. pc'[r] = "links" /\ work'[r] = w /\ report'[r] = report[r]
    BY <1>1, <2>1, <2>2, ContinueMoves
  <2>8. PlanOK(r)' /\ DoneOK(r)' /\ ~Writing(r)'
    BY <1>1, <1>2, <2>1, <2>2, <2>7, NotYetWriting
  <2>9. IfacesRead(r)'
    <3>1. InterfacesOf(s)' = InterfacesOf(s)
      BY <1>1 DEF InterfacesOf
    <3>2. work'[r].ifaces = t /\ ifaces' = ifaces
      BY <1>1, <2>2, <2>7
    <3> QED  BY <1>4, <2>6, <3>1, <3>2 DEF IfacesRead, Has
  <2>10. IsSequence(work'[r].ifaces) /\ IsSequence(work'[r].links) /\ IsSequence(work'[r].rels)
         /\ \A i \in DOMAIN work'[r].rels : work'[r].rels[i].type \notin Excluded
    BY <2>2, <2>5, <2>7 DEF ReadOK
  <2>11. ~HasLinks(r)' /\ ~HasRels(r)'
    BY <2>7, <2>8 DEF HasLinks, HasRels
  <2> QED  BY <2>8, <2>9, <2>10, <2>11 DEF ReadOK, Excluded
<1>6. CASE ReadLinks(r)
  <2> DEFINE t == SetToSeq(LinksOf(s))
             w == [work[r] EXCEPT !.links = t]
  <2>1. Continue(r, w, "rels") /\ pc[r] = "links"
    BY <1>0, <1>6 DEF ReadLinks, ReplacementStep
  <2>2. /\ DOMAIN w = Fields /\ w.ifaces = work[r].ifaces /\ w.links = t /\ w.rels = work[r].rels
        /\ w.mapping = work[r].mapping
    BY <1>1 DEF Fields
  <2>3. IsSequence(t) /\ (\A x \in LinksOf(s) : Has(t, x)) /\ \A i \in DOMAIN t : t[i] \in LinksOf(s)
    BY LinksAreFinite, Listed
  <2> HIDE DEF w, t
  <2>4. pc'[r] = "rels" /\ work'[r] = w /\ report'[r] = report[r]
    BY <1>1, <2>1, <2>2, ContinueMoves
  <2>5. PlanOK(r)' /\ DoneOK(r)' /\ ~Writing(r)'
    BY <1>1, <1>2, <2>1, <2>2, <2>4, NotYetWriting
  <2>6. HasIfaces(r) /\ (Settled(r)' => IfacesRead(r) /\ IfacesRead(r)')
    <3>1. HasIfaces(r)
      BY <2>1 DEF HasIfaces
    <3> QED  BY <1>4, <2>2, <2>4, <3>1, StillRead DEF ReadOK
  <2>7. \A i \in DOMAIN t : \E e \in InterfacesOf(s), f \in DOMAIN ifaces, o \in DOMAIN devices :
           /\ <<e, "CONNECTED_TO", f>> \in edges /\ f \in InterfacesOf(o)
           /\ t[i] = [local |-> ifaces[e].name, remote |-> ifaces[f].name, device |-> o]
    BY <2>3, LinksAre
  <2>8. Settled(r)' => \A i \in DOMAIN t : \E j \in DOMAIN work[r].ifaces : work[r].ifaces[j].name = t[i].local
    <3>1. SUFFICES ASSUME Settled(r)', NEW i \in DOMAIN t  PROVE \E j \in DOMAIN work[r].ifaces : work[r].ifaces[j].name = t[i].local
      OBVIOUS
    <3>4. PICK e \in InterfacesOf(s), f \in DOMAIN ifaces, o \in DOMAIN devices :
             /\ <<e, "CONNECTED_TO", f>> \in edges /\ f \in InterfacesOf(o)
             /\ t[i] = [local |-> ifaces[e].name, remote |-> ifaces[f].name, device |-> o]
      BY <2>7, <3>1
    <3>2. t[i].local = ifaces[e].name
      BY <3>4
    <3>3. Has(work[r].ifaces, ifaces[e])
      BY <1>0, <2>6, <3>1, <3>2 DEF IfacesRead
    <3> QED  BY <3>2, <3>3 DEF Has
  <2>9. \A i \in DOMAIN t : Named(t[i].device, t[i].remote)
    <3>1. SUFFICES ASSUME NEW i \in DOMAIN t  PROVE Named(t[i].device, t[i].remote)
      OBVIOUS
    <3>3. PICK e \in InterfacesOf(s), f \in DOMAIN ifaces, o \in DOMAIN devices :
             /\ <<e, "CONNECTED_TO", f>> \in edges /\ f \in InterfacesOf(o)
             /\ t[i] = [local |-> ifaces[e].name, remote |-> ifaces[f].name, device |-> o]
      BY <2>7
    <3>2. f \in InterfacesOf(o) /\ t[i].remote = ifaces[f].name /\ t[i].device = o
      BY <3>3
    <3> QED  BY <3>2 DEF Named, InterfacesOf, Touching
  <2>10. work'[r].links = t /\ work'[r].ifaces = work[r].ifaces
    BY <2>2, <2>4
  <2>11. Settled(r)' => LinksRead(r)'
    <3>1. \A l : (l \in LinksOf(s))' => l \in LinksOf(s)
      BY <1>1 DEF LinksOf, InterfacesOf
    <3>2. Settled(r)' => \A l : (l \in LinksOf(s))' => Has(work'[r].links, l)
      BY <2>3, <2>10, <3>1
    <3> QED  BY <1>4, <2>8, <2>10, <3>2 DEF LinksRead, Has
  <2>12. RemotesNamed(r)'
    <3>1. \A d, name : Named(d, name) => Named(d, name)'
      BY <1>1 DEF Named, Touching
    <3> QED  BY <2>9, <2>10, <3>1 DEF RemotesNamed
  <2>13. IsSequence(work'[r].ifaces) /\ IsSequence(work'[r].links) /\ IsSequence(work'[r].rels)
         /\ \A i \in DOMAIN work'[r].rels : work'[r].rels[i].type \notin Excluded
    BY <2>2, <2>3, <2>4 DEF ReadOK
  <2>14. ~HasRels(r)'
    BY <2>4, <2>5 DEF HasRels
  <2> QED  BY <2>5, <2>6, <2>11, <2>12, <2>13, <2>14 DEF ReadOK, Excluded
<1>7. CASE ReadRelations(r)
  <2> DEFINE t == SetToSeq(RelationsOf(s))
             w == [work[r] EXCEPT !.rels = t]
  <2>1. Continue(r, w, "destination") /\ pc[r] = "rels"
    BY <1>0, <1>7 DEF ReadRelations, ReplacementStep
  <2>2. /\ DOMAIN w = Fields /\ w.ifaces = work[r].ifaces /\ w.links = work[r].links /\ w.rels = t
        /\ w.mapping = work[r].mapping
    BY <1>1 DEF Fields
  <2>3. IsSequence(t) /\ (\A x \in RelationsOf(s) : Has(t, x)) /\ \A i \in DOMAIN t : t[i] \in RelationsOf(s)
    BY LinksAreFinite, Listed
  <2> HIDE DEF w, t
  <2>4. pc'[r] = "destination" /\ work'[r] = w /\ report'[r] = report[r]
    BY <1>1, <2>1, <2>2, ContinueMoves
  <2>5. PlanOK(r)' /\ DoneOK(r)' /\ ~Writing(r)'
    BY <1>1, <1>2, <2>1, <2>2, <2>4, NotYetWriting
  <2>6. HasIfaces(r) /\ HasLinks(r)
    BY <2>1 DEF HasIfaces, HasLinks
  <2>7. work'[r].ifaces = work[r].ifaces /\ work'[r].links = work[r].links /\ work'[r].rels = t
    BY <2>2, <2>4
  <2>8. RemotesNamed(r)' /\ (Settled(r)' => IfacesRead(r)' /\ LinksRead(r)')
    BY <1>4, <2>6, <2>7, StillRead DEF ReadOK
  <2>9. RelsRead(r)'
    <3>1. \A x : (x \in RelationsOf(s))' => x \in RelationsOf(s)
      BY <1>1 DEF RelationsOf
    <3> QED  BY <1>4, <2>3, <2>7, <3>1 DEF RelsRead, Has
  <2>10. \A i \in DOMAIN t : t[i].type \notin Excluded
    <3>1. \A x \in RelationsOf(s) : x.type \notin Excluded
      BY DEF RelationsOf
    <3> QED  BY <2>3, <3>1
  <2>11. IsSequence(work'[r].ifaces) /\ IsSequence(work'[r].links) /\ IsSequence(work'[r].rels)
         /\ \A i \in DOMAIN work'[r].rels : work'[r].rels[i].type \notin Excluded
    BY <2>3, <2>7, <2>10 DEF ReadOK
  <2> QED  BY <2>5, <2>8, <2>9, <2>11 DEF ReadOK, Excluded
<1> QED  BY <1>5, <1>6, <1>7

LEMMA ItemsSame ==
  ASSUME NEW w, NEW v, NEW m, w.ifaces = v.ifaces, w.links = v.links, w.rels = v.rels, w.device = v.device
  PROVE  Items(w, m) = Items(v, m)
  BY DEF Items

\* With the mapping a replacement has its plan.
LEMMA MappingRead ==
  ASSUME Frame, CreatedOK, GraphOK, GraphOK', Evolves, NEW r \in Transforms, ReadOK(r), PlanOK(r), ReadMapping(r)
  PROVE  ReadOK(r)' /\ PlanOK(r)' /\ DoneOK(r)'
<1>1. /\ r \in Requests /\ DOMAIN work[r] = Fields /\ DOMAIN report[r] = Answer /\ r \in DOMAIN pc
      /\ r \in DOMAIN work /\ r \in DOMAIN report /\ r \in DOMAIN todo /\ pc[r] = "mapping" /\ cmd(r).op = "transform"
  BY DEF Transforms, Frame, Shape, ReadMapping, ReplacementStep
<1>2. Transforms' = Transforms
  BY DestinedKept
<1>3. ~report[r].success /\ ~Writing(r) /\ report[r].shown = <<>>
  BY <1>1 DEF PlanOK, Writing
<1>4. CASE GiveUp(r)
  BY <1>1, <1>4, EarlySteps
<1>5. CASE ~GiveUp(r)
  <2>1. PICK m \in Candidates(r) :
          /\ Learn(r, [work[r] EXCEPT !.mapping = m])
          /\ todo' = [todo EXCEPT ![r] = Items(work[r], m)]
          /\ Go(r, "write") /\ UNCHANGED report
    BY <1>1, <1>5 DEF ReadMapping
  <2>2. IsMapping(m)
    <3>1. m \in catalog.mappings
      BY DEF Candidates, MappingsFor
    <3> QED  BY <3>1 DEF CreatedOK
  <2> DEFINE w == [work[r] EXCEPT !.mapping = m]
             its == Items(work[r], m)
  <2>3. /\ w.ifaces = work[r].ifaces /\ w.links = work[r].links /\ w.rels = work[r].rels
        /\ w.device = work[r].device /\ w.mapping = m
    BY <1>1 DEF Fields
  <2>4. work'[r] = w /\ todo'[r] = its /\ pc'[r] = "write" /\ report'[r] = report[r]
    BY <1>1, <2>1 DEF Learn, Go
  <2> HIDE DEF w, its
  <2>5. its = Items(w, m)
    BY <2>3, ItemsSame DEF its
  <2>6. IsSequence(its) /\ its # <<>>
    <3>1. /\ IsSequence(w.ifaces) /\ IsSequence(w.links) /\ IsSequence(w.rels)
          /\ \A i \in DOMAIN w.rels : w.rels[i].type \notin Excluded
      BY <2>3 DEF ReadOK
    <3> QED  BY <2>5, <3>1, ItemsAre
  <2>7. <<>> \o its = its /\ IsSequence(<<>>)
    BY <2>6, EmptyConcat, EmptyIs
  <2>8. PlanOK(r)'
    <3>1. report'[r].shown = <<>> /\ ~report'[r].success
      BY <1>3, <2>4
    <3>2. report'[r].shown \o todo'[r] = Items(work'[r], work'[r].mapping)
      BY <2>3, <2>4, <2>5, <2>7, <3>1
    <3>3. IsMapping(work'[r].mapping)
      BY <2>2, <2>3, <2>4
    <3>4. IsSequence(report'[r].shown) /\ IsSequence(todo'[r]) /\ todo'[r] # <<>>
      BY <2>4, <2>6, <2>7, <3>1
    <3> QED  BY <2>4, <3>1, <3>2, <3>3, <3>4 DEF PlanOK, Writing, IsMapping
  <2>9. DoneOK(r)'
    <3>1. DOMAIN report'[r].shown = {}
      BY <1>3, <2>4, EmptyHas
    <3> QED  BY <3>1 DEF DoneOK
  <2>10. HasIfaces(r) /\ HasLinks(r) /\ HasRels(r)
    BY <1>1 DEF HasIfaces, HasLinks, HasRels
  <2>11. ReadOK(r)'
    BY <2>3, <2>4, <2>10, ReadsKept
  <2> QED  BY <2>8, <2>9, <2>11
<1> QED  BY <1>4, <1>5

\* A mapping that has been read is not changed.
LEMMA MappingKept ==
  ASSUME Frame, NEW p \in Requests, Step(p), NEW q \in Transforms, PlanOK(q)
  PROVE  work'[q].mapping = work[q].mapping \/ work[q].mapping = Blank.mapping
<1>1. CASE p # q
  <2>1. work'[q] = work[q]
    BY <1>1, StepMoves DEF Step, Moves, Transforms
  <2> QED  BY <2>1
<1>2. CASE p = q
  <2>1. Begin(q) \/ SourceStep(q) \/ WriteStep(q) \/ (Fault(q) /\ pc[q] # "end" /\ GiveUp(q))
    BY <1>2, OfTransforms
  <2>2. pc[q] # "end"
    BY <2>1 DEF Begin, SourceStep, WriteStep, ReadSource, ReadInterfaces, ReadLinks, ReadRelations, ReadDestination,
       ReadMapping, Write, ReplacementStep
  <2>3. CASE pc[q] = "write"
    <3>1. Write(q) \/ GiveUp(q)
      BY <2>1, <2>3 DEF Begin, SourceStep, WriteStep, ReadSource, ReadInterfaces, ReadLinks, ReadRelations,
         ReadDestination, ReadMapping, ReplacementStep
    <3>2. work' = work
      BY <3>1 DEF Write, GiveUp
    <3> QED  BY <3>2
  <2>4. CASE pc[q] # "write"
    BY <2>2, <2>4 DEF PlanOK, Writing
  <2> QED  BY <2>3, <2>4
<1> QED  BY <1>1, <1>2

\* What is undisturbed after a step was so before.
LEMMA UndisturbedBefore ==
  ASSUME Evolves, NEW r \in Transforms, work'[r].mapping = work[r].mapping,
         \A q \in Transforms : work'[q].mapping = work[q].mapping \/ work[q].mapping = Blank.mapping,
         Undisturbed(r)'
  PROVE  Undisturbed(r) /\ Settled(r) /\ {cmd(r).source, cmd(r).destination} \subseteq DOMAIN devices'
<1>1. \A q : cmd(q)' = cmd(q)
  BY DEF Evolves, cmd
<1>2. {cmd(r).source, cmd(r).destination} \subseteq DOMAIN devices' /\ DOMAIN devices' \subseteq DOMAIN devices
  BY <1>1 DEF Undisturbed, Evolves
<1>3. \A q \in Transforms :
        /\ cmd(q).destination # cmd(r).source
        /\ cmd(q).destination = cmd(r).destination =>
             cmd(q).source = cmd(r).source /\ work'[q].mapping \in {Blank.mapping, work'[r].mapping}
  BY <1>1 DEF Undisturbed, Transforms, Blank
<1>4. \A q \in Transforms : cmd(q).destination = cmd(r).destination =>
        cmd(q).source = cmd(r).source /\ work[q].mapping \in {Blank.mapping, work[r].mapping}
  BY <1>3
<1>5. Undisturbed(r)
  BY <1>2, <1>3, <1>4 DEF Undisturbed, Transforms
<1>6. Settled(r)
  BY <1>2, <1>3 DEF Settled, Destined
<1> QED  BY <1>2, <1>5, <1>6

\* While r is undisturbed, others write to its interfaces what it does.
LEMMA OthersWrite ==
  ASSUME \A q \in Transforms : ReadOK(q) /\ PlanOK(q), NEW r \in Transforms, Writing(r), Undisturbed(r), Settled(r),
         NEW item, NEW q \in Transforms, pc[q] = "write", cmd(q).destination = cmd(r).destination,
         Head(todo[q]).kind = "iface", Head(todo[q]).name = item.name, Sole(r, item)
  PROVE  Head(todo[q]) = item
<1>1. IsMapping(work[q].mapping)
  BY DEF PlanOK, Writing
<1>2. ~IsMapping(Blank.mapping)
  <2>1. Blank.mapping = <<>>
    BY DEF Blank
  <2>2. DOMAIN <<>> = {}
    BY EmptyHas
  <2> QED  BY <2>1, <2>2 DEF IsMapping
<1>3. cmd(q).source = cmd(r).source /\ work[q].mapping = work[r].mapping
  BY <1>1, <1>2 DEF Undisturbed, Transforms
<1> QED  BY <1>3, WritersAgree

\* What is shown as done stays done.
LEMMA ShownKept ==
  ASSUME GraphOK, GraphOK', Evolves, \A q \in Transforms : ReadOK(q) /\ PlanOK(q), NEW r \in Transforms, DoneOK(r),
         Writing(r), work'[r] = work[r], Undisturbed(r)',
         \A q \in Transforms : work'[q].mapping = work[q].mapping \/ work[q].mapping = Blank.mapping
  PROVE  \A item : Has(report[r].shown, item) => Done(r, item)'
<1>1. Undisturbed(r) /\ Settled(r) /\ {cmd(r).source, cmd(r).destination} \subseteq DOMAIN devices'
  BY UndisturbedBefore
<1>2. SUFFICES ASSUME NEW item, Has(report[r].shown, item)  PROVE Done(r, item)'
  OBVIOUS
<1>4. Done(r, item)
  BY <1>1, <1>2 DEF DoneOK, Has
<1>5. \A q \in Transforms : /\ pc[q] = "write" /\ cmd(q).destination = cmd(r).destination
                            /\ Head(todo[q]).kind = "iface" /\ Head(todo[q]).name = item.name
                            /\ item.kind = "iface" /\ Sole(r, item)
                            => Head(todo[q]) = item
  BY <1>1, OthersWrite
<1> QED  BY <1>1, <1>4, <1>5, DoneKept

\* A request is left alone by the steps of others.
LEMMA OthersKept ==
  ASSUME GraphOK, GraphOK', Evolves, \A q \in Transforms : ReadOK(q) /\ PlanOK(q), NEW r \in Transforms, DoneOK(r),
         pc'[r] = pc[r], work'[r] = work[r], todo'[r] = todo[r], report'[r] = report[r],
         \A q \in Transforms : work'[q].mapping = work[q].mapping \/ work[q].mapping = Blank.mapping
  PROVE  ReadOK(r)' /\ PlanOK(r)' /\ DoneOK(r)'
<1>1. (Writing(r)' <=> Writing(r)) /\ (HasIfaces(r)' <=> HasIfaces(r)) /\ (HasLinks(r)' <=> HasLinks(r)) /\ (HasRels(r)' <=> HasRels(r))
  BY DEF Writing, HasIfaces, HasLinks, HasRels
<1>2. ReadOK(r)'
  BY <1>1, ReadsKept
<1>3. PlanOK(r)'
  BY <1>1 DEF PlanOK, IsMapping, Blank
<1>4. DoneOK(r)'
  <2>1. SUFFICES ASSUME Writing(r)', Undisturbed(r)', NEW i \in DOMAIN report'[r].shown  PROVE Done(r, report[r].shown[i])'
    BY DEF DoneOK
  <2>2. PICK item : item = report'[r].shown[i]
    OBVIOUS
  <2>3. Done(r, item)'
    BY <1>1, <2>1, <2>2, ShownKept DEF Has
  <2> QED  BY <2>2, <2>3
<1> QED  BY <1>2, <1>3, <1>4

\* What is written is done.
LEMMA ItemWritten ==
  ASSUME Frame, GraphOK, GraphOK', Evolves, \A q \in Transforms : ReadOK(q) /\ PlanOK(q), NEW r \in Transforms, DoneOK(r),
         Write(r), Undisturbed(r)', NEW item, item = Head(todo[r]),
         \A q \in Transforms : work'[q].mapping = work[q].mapping \/ work[q].mapping = Blank.mapping
  PROVE  Done(r, item)'
<1>0. PICK d, s : d = cmd(r).destination /\ s = cmd(r).source
  OBVIOUS
<1>1. /\ pc[r] = "write" /\ Writing(r) /\ HasIfaces(r) /\ HasLinks(r) /\ Apply(r, item) /\ work' = work /\ scene' = scene
      /\ scene'.others = scene.others
  BY DEF Write, ReplacementStep, Writing, HasIfaces, HasLinks
<1>2. Undisturbed(r) /\ Settled(r) /\ {s, d} \subseteq DOMAIN devices'
  BY <1>0, <1>1, UndisturbedBefore
<1>3. {s, d} \subseteq DOMAIN devices /\ cmd(r)' = cmd(r) /\ cmd(r)'.destination = d /\ cmd(r)'.source = s
  BY <1>0, <1>1, <1>2 DEF Evolves, cmd
<1>4. ItemFits(item)
  BY <1>1, PlanFacts
<1>5. CASE item.kind = "iface"
  <2>1. MergeInterface(d, item) /\ devices' = devices
    BY <1>0, <1>1, <1>3, <1>5 DEF Apply
  <2>2. \E e \in Touching(d)' : ifaces'[e].name = item.name /\ HasProps(e, item.props)'
    <3> DEFINE own == Attached(d, item.name)
    <3>0. PICK new : new = CHOOSE x \in Elements : x \notin DOMAIN ifaces
      OBVIOUS
    <3>1. CASE own # {}
      <4>1. ifaces' = Over([x \in own |-> Over(item.props, ifaces[x])], ifaces) /\ edges' = edges
        BY <2>1, <3>1 DEF MergeInterface
      <4>2. PICK e \in own : TRUE
        BY <3>1
      <4>3. e \in DOMAIN ifaces /\ e \in Touching(d) /\ ifaces[e].name = item.name
        BY DEF Attached, Touching
      <4>4. ifaces'[e] = Over(item.props, ifaces[e])
        BY <4>1, <4>2, <4>3 DEF Over
      <4>5. ifaces'[e].name = item.name /\ e \in Touching(d)'
        BY <1>2, <4>3 DEF Evolves, Touching
      <4>6. \A f, k : k \in DOMAIN item.props =>
              k \in DOMAIN Over(item.props, f) /\ Over(item.props, f)[k] = item.props[k]
        BY DEF Over
      <4>7. HasProps(e, item.props)'
        BY <4>4, <4>6 DEF HasProps
      <4> QED  BY <4>5, <4>7
    <3>2. CASE own = {}
      <4>1. /\ ifaces' = Put(ifaces, new, item.props)
            /\ \E edge \in {<<d, "HAS_INTERFACE", new>>, <<new, "HAS_INTERFACE", d>>} : edges' = edges \union {edge}
            /\ Elements \ DOMAIN ifaces # {}
        BY <2>1, <3>0, <3>2 DEF MergeInterface
      <4>2. new \in Elements \ DOMAIN ifaces
        BY <3>0, <4>1
      <4>3. PICK edge \in {<<d, "HAS_INTERFACE", new>>, <<new, "HAS_INTERFACE", d>>} : edges' = edges \union {edge}
        BY <4>1
      <4>4. new \in Touching(d)'
        BY <1>0, <1>1, <1>3, <1>4, <1>5, <2>1, <3>2, <4>1, <4>2, <4>3, IfaceAdded
      <4>5. ifaces'[new] = item.props
        BY <4>1 DEF Put
      <4>6. ifaces'[new].name = item.name
        BY <1>4, <1>5, <4>5 DEF ItemFits
      <4>7. HasProps(new, item.props)'
        BY <4>5 DEF HasProps
      <4> QED  BY <4>4, <4>6, <4>7
    <3> QED  BY <3>1, <3>2
  <2>3. Named(d, item.name)'
    BY <2>2 DEF Named
  <2>4. IfaceDone(r, item)'
    BY <1>3, <2>2, <2>3 DEF IfaceDone
  <2> QED  BY <1>5, <2>4 DEF Done
<1>6. CASE item.kind = "link"
  <2>1. MergeLink(d, item) /\ devices' = devices /\ ifaces' = ifaces
    BY <1>0, <1>1, <1>3, <1>6 DEF Apply
  <2>2. PICK l \in DOMAIN work[r].links, j \in DOMAIN work[r].ifaces :
          /\ item = LinkItem(work[r].links[l], work[r].mapping)
          /\ work[r].ifaces[j].name = work[r].links[l].local
          /\ j \in DOMAIN report[r].shown /\ report[r].shown[j] = InterfaceItem(work[r].ifaces[j], work[r].mapping)
    <3> DEFINE w == work[r]
               its == Items(work[r], work[r].mapping)
               m == work[r].mapping
               shown == report[r].shown
    <3>1. /\ IsSequence(w.ifaces) /\ IsSequence(w.links) /\ IsSequence(w.rels)
          /\ \A i \in DOMAIN w.rels : w.rels[i].type \notin Excluded
          /\ \A i \in DOMAIN w.links : \E j \in DOMAIN w.ifaces : w.ifaces[j].name = w.links[i].local
      BY <1>1, <1>2 DEF ReadOK, LinksRead
    <3>2. /\ Has(its, item) /\ \A i \in DOMAIN w.ifaces : i \in DOMAIN shown
          /\ \A i \in DOMAIN shown : shown[i] = its[i]
      BY <1>1, <1>6, PlanFacts
    <3>3. its = Items(w, m)
      OBVIOUS
    <3> HIDE DEF w, its, m, shown
    <3>4. /\ \A i \in DOMAIN its : its[i].kind = "link" => \E l \in DOMAIN w.links : its[i] = LinkItem(w.links[l], m)
          /\ \A i \in DOMAIN w.ifaces : its[i] = InterfaceItem(w.ifaces[i], m)
      BY <3>1, <3>3, ItemsAre
    <3>5. PICK l \in DOMAIN w.links : item = LinkItem(w.links[l], m)
      BY <1>6, <3>2, <3>4 DEF Has
    <3>6. PICK j \in DOMAIN w.ifaces : w.ifaces[j].name = w.links[l].local
      BY <3>1
    <3>7. j \in DOMAIN shown /\ shown[j] = InterfaceItem(w.ifaces[j], m)
      BY <3>2, <3>4
    <3> QED  BY <3>5, <3>6, <3>7 DEF w, m, shown
  <2>3. Named(d, item.local)'
    <3>1. PICK x : x = report[r].shown[j]
      OBVIOUS
    <3>2. Done(r, x) /\ x.kind = "iface" /\ x.name = item.local
      <4>1. Done(r, x)
        BY <1>1, <1>2, <2>2, <3>1 DEF DoneOK
      <4>2. x.kind = "iface" /\ x.name = item.local
        BY <2>2, <3>1 DEF InterfaceItem, LinkItem
      <4> QED  BY <4>1, <4>2
    <3>3. Named(d, item.local)
      BY <1>0, <3>2 DEF Done, IfaceDone
    <3> QED  BY <1>2, <3>3, NamedKept
  <2>4. item.device \in DOMAIN devices' => Named(item.device, item.remote)'
    <3>1. RemotesNamed(r)
      BY <1>1 DEF ReadOK
    <3>2. item.device = work[r].links[l].device /\ item.remote = work[r].links[l].remote
      BY <2>2 DEF LinkItem
    <3>3. item.device \in DOMAIN devices' => item.device \in DOMAIN devices'  /\ Named(item.device, item.remote)
      BY <2>1, <3>1, <3>2 DEF RemotesNamed
    <3> QED  BY <3>3, NamedKept
  <2>5. \A e \in InterfacesOf(d)', f \in InterfacesOf(item.device)' :
          ifaces'[e].name = item.local /\ ifaces'[f].name = item.remote => <<e, "CONNECTED_TO", f>> \in edges'
    <3>1. \A c : InterfacesOf(c)' = InterfacesOf(c)
      <4>1. \A a, e, b, f : <<a, "HAS_INTERFACE", e>> # <<b, "CONNECTED_TO", f>>
        OBVIOUS
      <4>2. \A a, e : <<a, "HAS_INTERFACE", e>> \in edges' <=> <<a, "HAS_INTERFACE", e>> \in edges
        BY <2>1, <4>1 DEF MergeLink
      <4> QED  BY <2>1, <4>2 DEF InterfacesOf
    <3>2. \A e \in InterfacesOf(d), f \in InterfacesOf(item.device) :
            ifaces[e].name = item.local /\ ifaces[f].name = item.remote => <<e, "CONNECTED_TO", f>> \in edges'
      BY <2>1 DEF MergeLink
    <3> QED  BY <2>1, <3>1, <3>2
  <2>6. LinkDone(r, item)'
    BY <1>3, <2>3, <2>4, <2>5 DEF LinkDone
  <2> QED  BY <1>6, <2>6 DEF Done
<1>7. CASE item.kind = "rel"
  <2>1. edges' = edges \union (IF Exists(item.target) THEN {<<d, item.type, item.target>>} ELSE {}) /\ devices' = devices
    BY <1>0, <1>1, <1>3, <1>7 DEF Apply
  <2>2. Exists(item.target)' => Exists(item.target)
    BY <1>1, <2>1 DEF Exists
  <2>3. Exists(item.target)' => <<d, item.type, item.target>> \in edges'
    BY <2>1, <2>2
  <2> QED  BY <1>3, <1>7, <2>3 DEF Done
<1>8. CASE item.kind = "record"
  <2>1. edges' = edges \union (IF Exists(s) THEN {<<d, "REPLACES_DEVICE", s>>} ELSE {})
    BY <1>0, <1>1, <1>3, <1>8 DEF Apply
  <2>2. Exists(s)
    BY <1>3 DEF Exists
  <2>3. <<d, "REPLACES_DEVICE", s>> \in edges'
    BY <2>1, <2>2
  <2> QED  BY <1>3, <1>8, <2>3 DEF Done
<1>9. CASE item.kind \notin {"iface", "link", "rel", "record"}
  BY <1>9 DEF Done
<1> QED  BY <1>5, <1>6, <1>7, <1>8, <1>9

\* A write of a replacement: its item goes from what is to do to what is shown.
LEMMA WriteKept ==
  ASSUME Frame, GraphOK, GraphOK', Evolves, \A q \in Transforms : ReadOK(q) /\ PlanOK(q), NEW r \in Transforms, DoneOK(r),
         Write(r), \A q \in Transforms : work'[q].mapping = work[q].mapping \/ work[q].mapping = Blank.mapping
  PROVE  ReadOK(r)' /\ PlanOK(r)' /\ DoneOK(r)'
<1> DEFINE shown == report[r].shown
           list == todo[r]
<1>0. PICK item : item = Head(list)
  OBVIOUS
<1>1. /\ r \in Requests /\ DOMAIN report[r] = Answer /\ r \in DOMAIN pc /\ r \in DOMAIN todo /\ r \in DOMAIN report
      /\ pc[r] = "write" /\ Writing(r) /\ HasIfaces(r) /\ HasLinks(r) /\ HasRels(r)
  BY DEF Transforms, Frame, Shape, Write, ReplacementStep, Writing, HasIfaces, HasLinks, HasRels
<1>2. /\ work' = work /\ todo'[r] = Tail(list)
      /\ pc'[r] = IF Len(list) = 1 THEN "end" ELSE "write"
  BY <1>1 DEF Write, Go
<1>3. report'[r].success = (Len(list) = 1) /\ report'[r].shown = Append(shown, item)
  <2> DEFINE last == Len(list) = 1
             head == Head(list)
  <2>1. report' = [report EXCEPT ![r].success = last, ![r].shown = Append(@, head)]
    BY DEF Write
  <2> HIDE DEF last, head
  <2>2. report'[r].success = last /\ report'[r].shown = Append(report[r].shown, head)
    BY <1>1, <2>1 DEF Answer
  <2> QED  BY <1>0, <2>2 DEF last, head
<1>4. /\ IsMapping(work[r].mapping) /\ IsSequence(shown) /\ IsSequence(list) /\ list # <<>>
      /\ shown \o list = Items(work[r], work[r].mapping)
  BY <1>1 DEF PlanOK
<1> DEFINE all == shown \o list
<1> HIDE DEF shown, list
<1>5. /\ Append(shown, item) \o Tail(list) = all /\ IsSequence(Append(shown, item)) /\ IsSequence(Tail(list))
      /\ (Tail(list) = <<>> <=> Len(list) = 1)
  BY <1>0, <1>4, HeadMoves
<1> HIDE DEF all
<1>6. PlanOK(r)'
  <2>1. /\ IsMapping(work'[r].mapping) /\ IsSequence(report'[r].shown) /\ IsSequence(todo'[r])
        /\ report'[r].shown \o todo'[r] = Items(work'[r], work'[r].mapping)
    BY <1>2, <1>3, <1>4, <1>5 DEF all
  <2>2. /\ pc'[r] = "write" => todo'[r] # <<>>
        /\ report'[r].success => todo'[r] = <<>> /\ pc'[r] = "end"
        /\ pc'[r] = "write" \/ report'[r].success
    BY <1>2, <1>3, <1>5
  <2> QED  BY <2>1, <2>2 DEF PlanOK, IsMapping, Writing
<1>7. DoneOK(r)'
  <2>1. SUFFICES ASSUME Undisturbed(r)', NEW i \in DOMAIN report'[r].shown  PROVE Done(r, report[r].shown[i])'
    BY DEF DoneOK
  <2>2. PICK x : x = report'[r].shown[i]
    OBVIOUS
  <2>3. Has(shown, x) \/ x = item
    <3>1. PICK t : t = Append(shown, item)
      OBVIOUS
    <3>2. /\ Len(shown) \in Nat /\ DOMAIN shown = 1..Len(shown) /\ DOMAIN t = 1..(Len(shown) + 1)
          /\ t[Len(shown) + 1] = item /\ \A j \in 1..Len(shown) : t[j] = shown[j]
      BY <1>4, <3>1, AppendFacts
    <3>3. i \in DOMAIN t /\ x = t[i]
      BY <1>3, <2>1, <2>2, <3>1
    <3>4. CASE i \in 1..Len(shown)
      BY <3>2, <3>3, <3>4 DEF Has
    <3>5. CASE i \notin 1..Len(shown)
      <4>1. i = Len(shown) + 1
        BY <3>2, <3>3, <3>5
      <4> QED  BY <3>2, <3>3, <4>1
    <3> QED  BY <3>4, <3>5
  <2>4. Has(shown, x) => Done(r, x)'
    <3>1. work'[r] = work[r]
      BY <1>2
    <3> QED  BY <1>1, <2>1, <3>1, ShownKept DEF shown
  <2>5. Done(r, item)'
    BY <1>0, <2>1, ItemWritten DEF list
  <2>6. Done(r, x)'
    <3>1. CASE Has(shown, x)
      BY <2>4, <3>1
    <3>2. CASE x = item
      BY <2>5, <3>2
    <3> QED  BY <2>3, <3>1, <3>2
  <2> QED  BY <2>2, <2>6
<1>8. ReadOK(r)'
  BY <1>1, <1>2, ReadsKept
<1> QED  BY <1>6, <1>7, <1>8

\* Every step of a replacement.
LEMMA OwnReplacement ==
  ASSUME Frame, CreatedOK, GraphOK, GraphOK', Evolves, \A q \in Transforms : ReadOK(q) /\ PlanOK(q),
         NEW r \in Transforms, DoneOK(r), Step(r),
         \A q \in Transforms : work'[q].mapping = work[q].mapping \/ work[q].mapping = Blank.mapping
  PROVE  ReadOK(r)' /\ PlanOK(r)' /\ DoneOK(r)'
<1>1. \/ Begin(r) \/ ReadSource(r) \/ ReadInterfaces(r) \/ ReadLinks(r) \/ ReadRelations(r) \/ ReadDestination(r)
      \/ ReadMapping(r) \/ Write(r) \/ (GiveUp(r) /\ pc[r] # "end")
  BY OfTransforms DEF SourceStep, WriteStep
<1>2. CASE Begin(r) \/ (GiveUp(r) /\ pc[r] # "end") \/ ReadSource(r) \/ ReadDestination(r)
  BY <1>2, EarlySteps
<1>3. CASE ReadInterfaces(r) \/ ReadLinks(r) \/ ReadRelations(r)
  BY <1>3, SourceReads
<1>4. CASE ReadMapping(r)
  BY <1>4, MappingRead
<1>5. CASE Write(r)
  BY <1>5, WriteKept
<1> QED  BY <1>1, <1>2, <1>3, <1>4, <1>5

\* Only a transformation comes to its writes.
LEMMA WritersAre ==
  ASSUME Frame, NEW p \in Requests, Step(p), pc'[p] = "write", pc[p] # "write"
  PROVE  p \in Transforms
<1>1. CASE Begin(p) \/ Create(p) \/ LinkRule(p)
  BY <1>1, BeginMoves, CommandMoves
<1>2. CASE Fault(p)
  BY <1>2, FaultMoves, OutcomeMoves
<1>3. CASE \E o : Outcome(p, o)
  BY <1>3, OutcomeMoves
<1>4. CASE /\ RunRaises(p) \/ ContextStep(p) \/ CheckStep(p) \/ SourceStep(p) \/ ReadDestination(p)
           /\ ~\E o : Outcome(p, o)
  <2>1. pc' = pc \/ \E next \in {"contexts", "backup", "intended", "rules", "check",
                        "ifaces", "links", "rels", "destination", "mapping", "end"} : Go(p, next)
    BY <1>4 DEF RunRaises, Ends, ContextStep, ContextDevice, ContextMerge, CheckStep, CheckDevice, CheckBackup, CheckIntended,
       CheckRules, CheckRule, SourceStep, ReadSource, ReadInterfaces, ReadLinks, ReadRelations, ReadDestination,
       Read, Continue, GiveUp
  <2> QED  BY <2>1 DEF Go, Frame
<1>5. CASE ReadMapping(p)
  <2>1. Go(p, "end") \/ (IsReplacement(p) /\ cmd(p).op # "preview")
    BY <1>5 DEF ReadMapping, GiveUp, ReplacementStep
  <2> QED  BY <2>1 DEF Go, Frame, IsReplacement, Transforms
<1>6. CASE Write(p)
  BY <1>6 DEF Write, ReplacementStep
<1> QED  BY <1>1, <1>2, <1>3, <1>4, <1>5, <1>6 DEF Step, WriteStep

\* At first the graph is that of the scene, and nothing has been read.
LEMMA ReplacementInvInit == ASSUME Init PROVE ReplacementInv
<1>1. Frame
  BY ContextInvInit DEF ContextInv
<1>2. CatalogFits(scene) /\ GraphFits(scene)
  BY SceneAssumption DEF Init
<1>3. /\ devices = scene.devices /\ ifaces = scene.ifaces /\ edges = scene.edges /\ catalog = scene.catalog
      /\ \A r \in Requests : /\ pc[r] = "idle" /\ todo[r] = <<>> /\ work[r] = Blank
                             /\ ~report[r].success /\ report[r].shown = <<>>
  BY DEF Init
<1>4. CreatedOK
  BY <1>2, <1>3 DEF CatalogFits, GraphFits, CreatedOK, Tables
<1>5. GraphOK
  <2>1. \A d : Touching(d) = {e \in DOMAIN ifaces : <<d, "HAS_INTERFACE", e>> \in edges \/ <<e, "HAS_INTERFACE", d>> \in edges}
    BY DEF Touching
  <2>2. NamesOnce
    <3>1. SUFFICES ASSUME NEW d \in DOMAIN devices, NEW e \in Touching(d), NEW f \in Touching(d), ifaces[e].name = ifaces[f].name
                   PROVE  e = f
      BY DEF NamesOnce
    <3>2. scene.ifaces[e].name = scene.ifaces[f].name /\ d \in DOMAIN scene.devices
      BY <1>3, <3>1
    <3>3. \A x \in Touching(d) : x \in DOMAIN scene.ifaces
             /\ (<<d, "HAS_INTERFACE", x>> \in scene.edges \/ <<x, "HAS_INTERFACE", d>> \in scene.edges)
      BY <1>3, <2>1
    <3> QED  BY <1>2, <3>2, <3>3 DEF GraphFits
  <2>3. \A c, d \in DOMAIN devices : Touching(c) \intersect Touching(d) # {} => c = d
    BY <1>2, <1>3, <2>1 DEF GraphFits
  <2> QED  BY <1>2, <1>3, <2>2, <2>3 DEF GraphFits, GraphOK
<1>6. IdentityOK
  BY <1>3 DEF IdentityOK
<1>7. ASSUME NEW r \in Transforms  PROVE ReadOK(r) /\ PlanOK(r) /\ DoneOK(r)
  <2>1. pc[r] = "idle" /\ work[r] = Blank /\ ~report[r].success /\ report[r].shown = <<>>
    BY <1>3 DEF Transforms
  <2>2. ~Writing(r) /\ ~HasIfaces(r) /\ ~HasLinks(r) /\ ~HasRels(r)
    BY <2>1 DEF Writing, HasIfaces, HasLinks, HasRels
  <2>3. Blank.ifaces = <<>> /\ Blank.links = <<>> /\ Blank.rels = <<>>
    BY DEF Blank
  <2>4. IsSequence(<<>>) /\ DOMAIN <<>> = {}
    BY EmptyIs, EmptyHas
  <2> QED  BY <2>1, <2>2, <2>3, <2>4 DEF ReadOK, PlanOK, DoneOK
<1> QED  BY <1>1, <1>3, <1>4, <1>5, <1>6, <1>7 DEF ReplacementInv

\* Steps of nobody that touch the graph at most.
LEMMA ReplacementRest ==
  ASSUME ReplacementInv, UNCHANGED <<scene, catalog, pc, todo, work, report>>, GraphOK', IdentityOK', Evolves
  PROVE  ReplacementInv'
<1>1. Frame' /\ CreatedOK'
  BY DEF ReplacementInv, Frame, Shape, CreatedOK
<1>2. Transforms' = Transforms
  BY DestinedKept
<1>3. \A r \in Transforms : ReadOK(r)' /\ PlanOK(r)' /\ DoneOK(r)'
  BY OthersKept DEF ReplacementInv
<1> QED  BY <1>1, <1>2, <1>3 DEF ReplacementInv

LEMMA ReplacementInvStep == ASSUME ReplacementInv, [Next]_vars PROVE ReplacementInv'
<1>1. ASSUME NEW p \in Requests, Step(p)  PROVE ReplacementInv'
  <2>1. Frame' /\ Moves(p)
    BY <1>1, FrameStep DEF ReplacementInv
  <2>2. GraphOK' /\ IdentityOK' /\ Evolves /\ CreatedOK'
    BY <1>1, GraphStep DEF ReplacementInv, Frame
  <2>3. Transforms' = Transforms
    BY <2>2, DestinedKept
  <2>4. \A q \in Transforms : work'[q].mapping = work[q].mapping \/ work[q].mapping = Blank.mapping
    BY <1>1, MappingKept DEF ReplacementInv
  <2>5. ASSUME NEW r \in Transforms  PROVE ReadOK(r)' /\ PlanOK(r)' /\ DoneOK(r)'
    <3>1. CASE r = p
      BY <1>1, <2>2, <2>4, <3>1, OwnReplacement DEF ReplacementInv
    <3>2. CASE r # p
      <4>1. pc'[r] = pc[r] /\ work'[r] = work[r] /\ todo'[r] = todo[r] /\ report'[r] = report[r]
        BY <2>1, <3>2 DEF Moves, Transforms
      <4> QED  BY <2>2, <2>4, <4>1, OthersKept DEF ReplacementInv
    <3> QED  BY <3>1, <3>2
  <2>6. \A r \in Requests : pc'[r] = "write" => r \in Transforms
    <3>1. pc'[p] = "write" => p \in Transforms
      BY <1>1, WritersAre DEF ReplacementInv
    <3>2. \A r \in Requests \ {p} : pc'[r] = pc[r]
      BY <2>1 DEF Moves
    <3> QED  BY <3>1, <3>2 DEF ReplacementInv
  <2> QED  BY <2>1, <2>2, <2>3, <2>5, <2>6 DEF ReplacementInv
<1>2. ASSUME NEW d, DeleteDevice(d)  PROVE ReplacementInv'
  <2>1. GraphOK' /\ IdentityOK' /\ Evolves
    BY <1>2, DeviceLeaves DEF ReplacementInv
  <2>2. UNCHANGED <<scene, catalog, pc, todo, work, report>>
    BY <1>2 DEF DeleteDevice
  <2> QED  BY <2>1, <2>2, ReplacementRest
<1>3. ASSUME NEW d, NEW t, StoreBackup(d, t) \/ StoreIntended(d, t)  PROVE ReplacementInv'
  <2>1. UNCHANGED <<scene, catalog, pc, todo, work, report>> /\ UNCHANGED <<devices, ifaces, edges>>
    BY <1>3 DEF StoreBackup, StoreIntended
  <2>2. GraphOK' /\ IdentityOK' /\ Evolves
    BY <2>1, GraphSame DEF ReplacementInv
  <2> QED  BY <2>1, <2>2, ReplacementRest
<1>4. CASE UNCHANGED vars
  <2>1. UNCHANGED <<scene, catalog, pc, todo, work, report>> /\ UNCHANGED <<devices, ifaces, edges>>
    BY <1>4 DEF vars, graphVars
  <2>2. GraphOK' /\ IdentityOK' /\ Evolves
    BY <2>1, GraphSame DEF ReplacementInv
  <2> QED  BY <2>1, <2>2, ReplacementRest
<1> QED  BY <1>1, <1>2, <1>3, <1>4 DEF Next, Step

\* A property without a rule, to whose name none is renamed, stays what it is.
LEMMA Preserved ==
  ASSUME NEW props, NEW rules, NEW k \in DOMAIN props, k # "_source", k \notin DOMAIN rules, k \notin Renamed(rules)
  PROVE  k \in DOMAIN TransformProperties(props, rules) /\ TransformProperties(props, rules)[k] = props[k]
<1> DEFINE kept == {x \in DOMAIN props : ~Internal(x) /\ RuleOf(rules, x).do # "drop"}
           To(x) == IF RuleOf(rules, x).do = "rename" THEN rules[x].to ELSE x
           Value(x) == IF RuleOf(rules, x).do = "translate" /\ props[x] \in DOMAIN rules[x].to
                         THEN rules[x].to[props[x]] ELSE props[x]
           c == CHOOSE x \in kept : To(x) = k
<1>1. RuleOf(rules, k).do = "preserve"
  BY DEF RuleOf
<1>2. k \in kept /\ To(k) = k /\ Value(k) = props[k]
  BY <1>1 DEF Internal
<1>3. \A x \in kept : To(x) = k => x = k
  <2>1. SUFFICES ASSUME NEW x \in kept, To(x) = k, x # k  PROVE FALSE
    OBVIOUS
  <2>2. RuleOf(rules, x).do = "rename" /\ rules[x].to = k
    BY <2>1
  <2>3. x \in DOMAIN rules /\ rules[x].do = "rename"
    BY <2>2 DEF RuleOf
  <2> QED  BY <2>2, <2>3 DEF Renamed
<1>4. TransformProperties(props, rules) = [key \in {To(x) : x \in kept} |-> Value(CHOOSE x \in kept : To(x) = key)]
  BY DEF TransformProperties
<1>5. c = k
  <2> HIDE DEF kept, To
  <2> QED  BY <1>2, <1>3
<1>6. k \in {To(x) : x \in kept}
  <2> HIDE DEF kept, To
  <2> QED  BY <1>2
<1>7. Value(c) = props[k]
  BY <1>2, <1>5
<1> HIDE DEF kept, To, Value
<1> QED  BY <1>4, <1>6, <1>7

\* Of a replacement that has succeeded all items are done.
LEMMA AllDone ==
  ASSUME NEW r \in Transforms, ReadOK(r), PlanOK(r), DoneOK(r), report[r].success, Undisturbed(r)
  PROVE  LET m == work[r].mapping IN
         /\ Settled(r) /\ IfacesRead(r) /\ LinksRead(r) /\ RelsRead(r)
         /\ \A i \in DOMAIN work[r].ifaces : Done(r, InterfaceItem(work[r].ifaces[i], m))
         /\ TransfersLinks(m) => \A l \in DOMAIN work[r].links : Done(r, LinkItem(work[r].links[l], m))
         /\ \A l \in DOMAIN work[r].rels : Transfers(m, work[r].rels[l].type) =>
              Done(r, [kind |-> "rel", type |-> work[r].rels[l].type, target |-> work[r].rels[l].target])
         /\ Done(r, [kind |-> "record"])
<1> DEFINE w == work[r]
           m == work[r].mapping
           its == Items(work[r], work[r].mapping)
<1>1. Writing(r) /\ HasIfaces(r) /\ HasLinks(r) /\ HasRels(r)
  BY DEF Writing, HasIfaces, HasLinks, HasRels
<1>2. Settled(r)
  BY DEF Undisturbed, Settled, Destined, Transforms
<1>3. IfacesRead(r) /\ LinksRead(r) /\ RelsRead(r)
  BY <1>1, <1>2 DEF ReadOK
<1>4. \A x : Has(its, x) => Done(r, x)
  <2>1. report[r].shown = its
    BY <1>1, PlanFacts
  <2> QED  BY <1>1, <2>1 DEF DoneOK, Has
<1>5. /\ IsSequence(w.ifaces) /\ IsSequence(w.links) /\ IsSequence(w.rels)
      /\ \A i \in DOMAIN w.rels : w.rels[i].type \notin Excluded
      /\ its = Items(w, m)
  BY DEF ReadOK
<1> HIDE DEF w, m, its
<1>6. /\ \A i \in DOMAIN w.ifaces : Has(its, InterfaceItem(w.ifaces[i], m))
      /\ TransfersLinks(m) => \A l \in DOMAIN w.links : Has(its, LinkItem(w.links[l], m))
      /\ \A l \in DOMAIN w.rels : Transfers(m, w.rels[l].type) =>
           Has(its, [kind |-> "rel", type |-> w.rels[l].type, target |-> w.rels[l].target])
      /\ Has(its, [kind |-> "record"])
  <2>1. \A i \in DOMAIN w.ifaces : i \in DOMAIN its /\ its[i] = InterfaceItem(w.ifaces[i], m)
    BY <1>5, ItemsAre
  <2>2. \A i \in DOMAIN w.ifaces : Has(its, InterfaceItem(w.ifaces[i], m))
    BY <2>1 DEF Has
  <2> QED  BY <1>5, <2>2, ItemsAre
<1>7. /\ \A i \in DOMAIN w.ifaces : Done(r, InterfaceItem(w.ifaces[i], m))
      /\ TransfersLinks(m) => \A l \in DOMAIN w.links : Done(r, LinkItem(w.links[l], m))
      /\ \A l \in DOMAIN w.rels : Transfers(m, w.rels[l].type) =>
           Done(r, [kind |-> "rel", type |-> w.rels[l].type, target |-> w.rels[l].target])
      /\ Done(r, [kind |-> "record"])
  BY <1>4, <1>6
<1> QED  BY <1>2, <1>3, <1>7 DEF w, m

\* What is done for every item of a replacement is what the property asks for.
LEMMA ReplacementHolds == ASSUME ReplacementInv PROVE ReplacementDone
<1>1. NamesOnce
  BY DEF ReplacementInv, GraphOK
<1>2. \A d \in DOMAIN devices : \A k \in Identity \intersect DOMAIN scene.devices[d] : devices[d][k] = scene.devices[d][k]
  BY DEF ReplacementInv, IdentityOK
<1>3. ASSUME NEW r \in Requests, cmd(r).op = "transform", report[r].success, Undisturbed(r)
      PROVE  InterfacesMoved(r) /\ RelationsMoved(r) /\ LinksMoved(r) /\ Recorded(r)
  <2>0. PICK s, d, m : s = cmd(r).source /\ d = cmd(r).destination /\ m = work[r].mapping
    OBVIOUS
  <2>1. r \in Transforms
    BY <1>3 DEF Transforms
  <2>2. /\ Settled(r) /\ IfacesRead(r) /\ LinksRead(r) /\ RelsRead(r)
        /\ \A i \in DOMAIN work[r].ifaces : Done(r, InterfaceItem(work[r].ifaces[i], m))
        /\ TransfersLinks(m) => \A l \in DOMAIN work[r].links : Done(r, LinkItem(work[r].links[l], m))
        /\ \A l \in DOMAIN work[r].rels : Transfers(m, work[r].rels[l].type) =>
             Done(r, [kind |-> "rel", type |-> work[r].rels[l].type, target |-> work[r].rels[l].target])
        /\ Done(r, [kind |-> "record"])
    BY <1>3, <2>0, <2>1, AllDone DEF ReplacementInv
  <2>3. ASSUME Injective(r), NEW e \in InterfacesOf(s)
        PROVE  \E f \in Touching(d) :
                 /\ ifaces[f].name = InterfaceName(ifaces[e].name, m.names)
                 /\ \A k \in DOMAIN ifaces[e] \ {"name", "_source"} :
                   k \notin DOMAIN m.rules \union Renamed(m.rules) =>
                     k \in DOMAIN ifaces[f] /\ ifaces[f][k] = ifaces[e][k]
    <3>0. PICK item : item = InterfaceItem(ifaces[e], m)
      OBVIOUS
    <3>1. Done(r, item)
      <4>1. PICK i \in DOMAIN work[r].ifaces : work[r].ifaces[i] = ifaces[e]
        BY <2>0, <2>2 DEF IfacesRead, Has
      <4> QED  BY <2>2, <3>0, <4>1
    <3>2. item.kind = "iface" /\ item.name = InterfaceName(ifaces[e].name, m.names)
          /\ item.props = Put(TransformProperties(ifaces[e], m.rules), "name", item.name)
      BY <3>0 DEF InterfaceItem
    <3>3. Sole(r, item)
      <4>1. SUFFICES ASSUME NEW i \in DOMAIN work[r].ifaces, InterfaceItem(work[r].ifaces[i], m).name = item.name
                     PROVE  InterfaceItem(work[r].ifaces[i], m) = item
        BY <2>0 DEF Sole
      <4>2. PICK g \in InterfacesOf(s) : work[r].ifaces[i] = ifaces[g]
        BY <2>0, <2>2 DEF IfacesRead
      <4>3. InterfaceName(ifaces[g].name, m.names) = InterfaceName(ifaces[e].name, m.names)
        BY <3>2, <4>1, <4>2 DEF InterfaceItem
      <4>4. g = e
        BY <2>0, <2>3, <4>3 DEF Injective
      <4> QED  BY <3>0, <4>2, <4>4
    <3>4. PICK f \in Touching(d) : ifaces[f].name = item.name /\ HasProps(f, item.props)
      BY <2>0, <3>1, <3>2, <3>3 DEF Done, IfaceDone
    <3>5. ASSUME NEW k \in DOMAIN ifaces[e] \ {"name", "_source"}, k \notin DOMAIN m.rules \union Renamed(m.rules)
          PROVE  k \in DOMAIN ifaces[f] /\ ifaces[f][k] = ifaces[e][k]
      <4> DEFINE t == TransformProperties(ifaces[e], m.rules)
      <4>1. k \in DOMAIN t /\ t[k] = ifaces[e][k]
        BY <3>5, Preserved
      <4> HIDE DEF t
      <4>2. item.props = Put(t, "name", item.name) /\ k # "name"
        BY <3>2, <3>5 DEF t
      <4>3. k \in DOMAIN item.props /\ item.props[k] = ifaces[e][k]
        BY <4>1, <4>2 DEF Put
      <4> QED  BY <3>4, <4>3 DEF HasProps
    <3> QED  BY <3>2, <3>4, <3>5
  <2>4. ASSUME NEW x \in RelationsOf(s), Transfers(m, x.type), Exists(x.target)
        PROVE  <<d, x.type, x.target>> \in edges
    <3>1. PICK l \in DOMAIN work[r].rels : work[r].rels[l] = x
      BY <2>0, <2>2 DEF RelsRead, Has
    <3>2. PICK item : item = [kind |-> "rel", type |-> x.type, target |-> x.target]
      OBVIOUS
    <3>3. Done(r, item) /\ item.kind = "rel" /\ item.type = x.type /\ item.target = x.target
      BY <2>2, <2>4, <3>1, <3>2
    <3> QED  BY <2>0, <2>4, <3>3 DEF Done
  <2>5. ASSUME TransfersLinks(m), NEW l \in LinksOf(s), NEW e \in Touching(d), NEW f \in InterfacesOf(l.device),
               ifaces[e].name = InterfaceName(l.local, m.names), ifaces[f].name = l.remote,
               <<e, "HAS_INTERFACE", d>> \notin edges
        PROVE  <<e, "CONNECTED_TO", f>> \in edges
    <3>0. e \in InterfacesOf(d)
      BY <2>5 DEF Touching, InterfacesOf
    <3>1. PICK i \in DOMAIN work[r].links : work[r].links[i] = l
      BY <2>0, <2>2 DEF LinksRead, Has
    <3>2. PICK item : item = LinkItem(l, m)
      OBVIOUS
    <3>3. Done(r, item)
      BY <2>2, <2>5, <3>1, <3>2
    <3>4. item.kind = "link" /\ item.local = InterfaceName(l.local, m.names) /\ item.remote = l.remote /\ item.device = l.device
      BY <3>2 DEF LinkItem
    <3> QED  BY <2>0, <2>5, <3>0, <3>3, <3>4 DEF Done, LinkDone
  <2>6. <<d, "REPLACES_DEVICE", s>> \in edges
    <3>1. PICK item : item = [kind |-> "record"]
      OBVIOUS
    <3>2. Done(r, item) /\ item.kind = "record"
      BY <2>2, <3>1
    <3> QED  BY <2>0, <3>2 DEF Done
  <2>7. InterfacesMoved(r)
    BY <2>0, <2>3 DEF InterfacesMoved
  <2>8. LinksMoved(r)
    BY <2>0, <2>5 DEF LinksMoved
  <2> QED  BY <2>0, <2>4, <2>6, <2>7, <2>8 DEF RelationsMoved, Recorded
<1> QED  BY <1>1, <1>2, <1>3 DEF ReplacementDone

\* A replacement that says it has succeeded has done all that it does, be it a
\* retry, next to others of the same, or after failures half way: interfaces, the
\* relations that start at the device, its links as far as the interfaces at the
\* destination are attached along the schema's direction, and the record of it.
\* No device gets two interfaces of one name, and none changes its identity.
THEOREM ReplacementIsDone == Spec => []ReplacementDone
<1>1. Init => ReplacementInv
  BY ReplacementInvInit
<1>2. ReplacementInv /\ [Next]_vars => ReplacementInv'
  BY ReplacementInvStep
<1>3. ReplacementInv => ReplacementDone
  BY ReplacementHolds
<1> QED  BY <1>1, <1>2, <1>3, PTL DEF Spec
================================================================================
