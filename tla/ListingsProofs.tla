---------------------------- MODULE ListingsProofs ----------------------------
(* An ascending listing has every element of its set once, in order. *)
EXTENDS Listings, Sequences, SequencesExt, FunctionTheorems, FiniteSetTheorems, TLAPS

(* What comes before an element is a part of the set without it, and of    *)
(* two elements what comes before the one comes before the other.          *)
IsOrder(S, below) ==
  /\ \A x \in S : below[x] \subseteq S \ {x}
  /\ \A x, y \in S : y \in below[x] => below[y] \subseteq below[x]
  /\ \A x, y \in S : x = y \/ x \in below[y] \/ y \in below[x]

LEMMA FewerBelow ==
  ASSUME NEW S, IsFiniteSet(S), NEW below, IsOrder(S, below)
  PROVE  /\ \A x \in S : Cardinality(below[x]) \in 0..(Cardinality(S) - 1)
         /\ \A x, y \in S : y \in below[x] => Cardinality(below[y]) < Cardinality(below[x])
<1>1. \A x \in S : IsFiniteSet(below[x]) /\ Cardinality(below[x]) \in Nat
  BY FS_Subset, FS_CardinalityType DEF IsOrder
<1>2. Cardinality(S) \in Nat
  BY FS_CardinalityType
<1>3. ASSUME NEW x \in S PROVE Cardinality(below[x]) < Cardinality(S)
  <2>1. below[x] \in SUBSET S /\ below[x] # S
    BY DEF IsOrder
  <2> QED
    BY <1>1, <1>2, <2>1, FS_Subset
<1>4. ASSUME NEW x \in S, NEW y \in S, y \in below[x]
      PROVE  Cardinality(below[y]) < Cardinality(below[x])
  <2>1. below[y] \in SUBSET below[x] /\ below[y] # below[x]
    BY <1>4 DEF IsOrder
  <2> QED
    BY <1>1, <2>1, FS_Subset
<1> QED
  BY <1>1, <1>2, <1>3, <1>4

LEMMA AscendingLists ==
  ASSUME NEW S, IsFiniteSet(S), NEW below, IsOrder(S, below)
  PROVE  LET list == Ascending(S, below) IN
         /\ list \in Seq(S) /\ Len(list) = Cardinality(S)
         /\ ToSet(list) = S
         /\ \A i, j \in DOMAIN list : i < j => list[i] \in below[list[j]]
<1> DEFINE n == Cardinality(S)
           count == [x \in S |-> Cardinality(below[x])]
           list == Ascending(S, below)
<1>1. n \in Nat
  BY FS_CardinalityType
<1>2. /\ count \in [S -> 0..(n - 1)]
      /\ \A x, y \in S : y \in below[x] => count[y] < count[x]
  BY FewerBelow
<1>3. \A x \in S : count[x] = Cardinality(below[x])
  OBVIOUS
<1> HIDE DEF n, count
<1>4. count \in Injection(S, 0..(n - 1))
  <2>1. \A x, y \in S : count[x] = count[y] => x = y
    <3> SUFFICES ASSUME NEW x \in S, NEW y \in S, count[x] = count[y] PROVE x = y
      OBVIOUS
    <3>1. count[x] \in Int /\ count[y] \in Int
      BY <1>1, <1>2
    <3>2. x \notin below[y] /\ y \notin below[x]
      BY <1>2, <3>1
    <3> QED
      BY <3>2 DEF IsOrder
  <2> QED
    BY <1>2, <2>1, Fun_IsInj
<1>5. count \in Surjection(S, 0..(n - 1))
  <2>1. IsFiniteSet(0..(n - 1)) /\ Cardinality(0..(n - 1)) = n
    BY <1>1, FS_Interval
  <2> QED
    BY <1>4, <2>1, FS_Injection DEF n
<1>6. \A k \in 0..(n - 1) : \E x \in S : count[x] = k
  BY <1>5, Fun_SurjectionProperties
<1>7. /\ list = [i \in 1..n |-> CHOOSE x \in S : Cardinality(below[x]) = i - 1]
      /\ DOMAIN list = 1..n
  BY DEF Ascending, n
<1>8. \A i \in 1..n : list[i] \in S /\ count[list[i]] = i - 1
  <2> SUFFICES ASSUME NEW i \in 1..n PROVE list[i] \in S /\ count[list[i]] = i - 1
    OBVIOUS
  <2>1. list[i] = CHOOSE x \in S : Cardinality(below[x]) = i - 1
    BY <1>7
  <2>2. \E x \in S : Cardinality(below[x]) = i - 1
    <3>1. i - 1 \in 0..(n - 1)
      BY <1>1
    <3> QED
      BY <1>3, <1>6, <3>1
  <2>3. list[i] \in S /\ Cardinality(below[list[i]]) = i - 1
    BY <2>1, <2>2
  <2> QED
    BY <1>3, <2>3
<1> HIDE DEF list
<1>9. list \in Seq(S) /\ Len(list) = n
  <2>1. list \in [1..n -> S]
    BY <1>7, <1>8
  <2> QED
    BY <1>1, <2>1
<1>10. ToSet(list) = S
  <2>1. ASSUME NEW x \in S PROVE x \in ToSet(list)
    <3>1. count[x] + 1 \in 1..n /\ count[x] + 1 - 1 = count[x] /\ count[x] \in 0..(n - 1)
      BY <1>1, <1>2
    <3>2. list[count[x] + 1] \in S /\ count[list[count[x] + 1]] = count[x]
      BY <1>8, <3>1
    <3>3. list[count[x] + 1] = x
      BY <1>4, <3>2, Fun_InjectionProperties
    <3> QED
      BY <1>7, <3>1, <3>3 DEF ToSet
  <2> QED
    BY <1>7, <1>8, <2>1 DEF ToSet
<1>11. ASSUME NEW i \in DOMAIN list, NEW j \in DOMAIN list, i < j
       PROVE  list[i] \in below[list[j]]
  <2>1. /\ i \in 1..n /\ j \in 1..n /\ list[i] \in S /\ list[j] \in S
        /\ count[list[i]] = i - 1 /\ count[list[j]] = j - 1
    BY <1>7, <1>8
  <2>2. i \in Int /\ j \in Int
    BY <1>1, <2>1
  <2>3. list[i] # list[j] /\ ~(count[list[j]] < count[list[i]])
    BY <1>11, <2>1, <2>2
  <2> QED
    BY <1>2, <2>1, <2>3 DEF IsOrder
<1> QED
  BY <1>9, <1>10, <1>11 DEF n, list

===============================================================================
