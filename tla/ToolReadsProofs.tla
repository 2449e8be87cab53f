---------------------------- MODULE ToolReadsProofs ----------------------------
(***************************************************************************)
(* Proofs about the tools that read, for every set of arguments, allowlist *)
(* rows, sources, contents and answers of the upstream, and about the      *)
(* wildcard matcher, for every pattern and name.                           *)
(*                                                                         *)
(* The tools share no variables, so that each has an invariant of its own: *)
(* every step of ToolReads is a step of the tool or leaves it alone.       *)
(***************************************************************************)
EXTENDS ToolReads, ListingsProofs, SequenceTheorems, WellFoundedInduction, TLAPS

LEMMA StepsAreLocal ==
  ASSUME [Next]_toolVars
  PROVE  /\ [WildcardNext]_match /\ [RedisNext]_redisVars /\ [KubeNext]_kubeVars
         /\ [SlsNext]_slsVars /\ [AuditNext]_auditVars
<1>1. CASE UNCHANGED toolVars
  BY <1>1 DEF toolVars
<1>7. CASE OthersIdle("decision") /\ DecisionNext
  BY <1>7 DEF OthersIdle
<1>2. CASE OthersIdle("wildcard") /\ WildcardNext
  BY <1>2 DEF OthersIdle
<1>3. CASE OthersIdle("redis") /\ RedisNext
  BY <1>3 DEF OthersIdle
<1>4. CASE OthersIdle("kubernetes") /\ KubeNext
  BY <1>4 DEF OthersIdle
<1>5. CASE OthersIdle("sls") /\ SlsNext
  BY <1>5 DEF OthersIdle
<1>6. CASE OthersIdle("audit") /\ AuditNext
  BY <1>6 DEF OthersIdle
<1> QED
  BY <1>1, <1>2, <1>3, <1>4, <1>5, <1>6, <1>7 DEF Next

(* The least member of a set of numbers. *)
LEMMA LeastIsThere ==
  ASSUME NEW S \in SUBSET Nat, S # {}
  PROVE  Min(S) \in S /\ \A i \in S : Min(S) <= i
<1>1. \E x \in S : \A y \in S : ~(<<y, x>> \in OpToRel(<, Nat))
  BY WFMin, NatLessThanWellFounded
<1>2. PICK x \in S : \A y \in S : ~(<<y, x>> \in OpToRel(<, Nat))
  BY <1>1
<1>3. ASSUME NEW y \in S PROVE x <= y
  <2>1. ~(<<y, x>> \in OpToRel(<, Nat))
    BY <1>2
  <2>2. ~(y < x)
    BY <2>1 DEF OpToRel
  <2>3. x \in Int /\ y \in Int
    OBVIOUS
  <2> QED
    BY ONLY <2>2, <2>3
<1> QED
  BY <1>3 DEF Min

-----------------------------------------------------------------------------
(* wildcard_match *)

Text(s) == s \in Seq(Char)

LEMMA TextsAre == \A s \in Texts : Text(s)
BY DEF Texts, Text

(* The part that begins at start: no star is in it, and one is behind it   *)
(* unless the pattern ends.                                                *)
LEMMA PartIs ==
  ASSUME NEW pattern, Text(pattern), NEW start \in 1..Len(pattern) + 1
  PROVE  LET end == NextStar(pattern, start)
             part == Part(pattern, start)
         IN /\ end \in start..Len(pattern) + 1
            /\ end <= Len(pattern) => pattern[end] = Star
            /\ \A i \in start..end - 1 : pattern[i] # Star
            /\ Len(part) = end - start /\ (part = <<>> <=> end = start)
            /\ \A i \in start..end - 1 : part[i - start + 1] = pattern[i]
<1> DEFINE end == NextStar(pattern, start)
           part == Part(pattern, start)
           stars == {i \in start..Len(pattern) : pattern[i] = Star} \cup {Len(pattern) + 1}
<1>1. Len(pattern) \in Nat /\ DOMAIN pattern = 1..Len(pattern)
  BY LenProperties DEF Text
<1>2. stars \in SUBSET Nat /\ stars # {}
  BY <1>1
<1>3. end \in stars /\ \A i \in stars : end <= i
  BY <1>2, LeastIsThere DEF NextStar
<1>4. end \in start..Len(pattern) + 1 /\ (end <= Len(pattern) => pattern[end] = Star)
  BY <1>1, <1>3
<1>5. ASSUME NEW i \in start..end - 1 PROVE pattern[i] # Star
  BY <1>1, <1>3, <1>4, <1>5
<1> HIDE DEF end
<1>6. part = SubSeq(pattern, start, end - 1)
  BY DEF part, Part, end
<1>7. part \in Seq(Char) /\ Len(part) = end - start
  BY <1>1, <1>4, <1>6, SubSeqProperties DEF Text
<1>8. \A i \in 1..end - start : part[i] = pattern[start + i - 1]
  BY <1>1, <1>4, <1>6, SubSeqProperties DEF Text
<1>9. \A i \in start..end - 1 : part[i - start + 1] = pattern[i]
  <2> SUFFICES ASSUME NEW i \in start..end - 1 PROVE part[i - start + 1] = pattern[i]
    OBVIOUS
  <2>1. i - start + 1 \in 1..end - start /\ start + (i - start + 1) - 1 = i
    BY <1>1, <1>4
  <2> QED
    BY <1>8, <2>1
<1>10. part = <<>> <=> end = start
  BY <1>1, <1>4, <1>7
<1> QED
  BY <1>4, <1>5, <1>7, <1>9, <1>10 DEF end

LEMMA OccursAt ==
  ASSUME NEW pattern, Text(pattern), NEW start \in 1..Len(pattern) + 1,
         NEW name, Text(name), NEW at \in Int
  PROVE  LET end == NextStar(pattern, start)
         IN at \in Occurrences(Part(pattern, start), name) <=>
              /\ at >= 0 /\ at + (end - start) <= Len(name)
              /\ \A i \in start..end - 1 : name[at + (i - start) + 1] = pattern[i]
<1> DEFINE end == NextStar(pattern, start)
           part == Part(pattern, start)
           m == end - start
<1>1. /\ end \in start..Len(pattern) + 1 /\ Len(part) = m
      /\ \A i \in start..end - 1 : part[i - start + 1] = pattern[i]
  BY PartIs
<1>2. Len(pattern) \in Nat /\ Len(name) \in Nat
  BY LenProperties DEF Text
<1>3. part \in Seq(Char)
  BY <1>1, <1>2, SubSeqProperties DEF Text, Part
<1> HIDE DEF end, part
<1>4. m \in Nat
  BY <1>1, <1>2
<1>5. at \in Occurrences(part, name) <=>
        at \in 0..Len(name) - m /\ SubSeq(name, at + 1, at + m) = part
  BY <1>1 DEF Occurrences
<1>6. at \in 0..Len(name) - m <=> at >= 0 /\ at + m <= Len(name)
  BY <1>2, <1>4
<1>7. ASSUME at \in 0..Len(name) - m
      PROVE  SubSeq(name, at + 1, at + m) = part <=>
               \A i \in start..end - 1 : name[at + (i - start) + 1] = pattern[i]
  <2> DEFINE piece == SubSeq(name, at + 1, at + m)
  <2>1. /\ piece \in Seq(Char) /\ Len(piece) = m
        /\ \A k \in 1..m : piece[k] = name[at + k]
    <3> DEFINE low == at + 1
               high == at + m
    <3>1. \A i \in low..high : name[i] \in Char
      BY <1>2, <1>4, <1>7, ElementOfSeq DEF Text
    <3>2. /\ low \in Int /\ high \in Int
          /\ (IF low <= high THEN high - low + 1 ELSE 0) = m /\ high - low + 1 = m
          /\ \A k \in 1..m : low + k - 1 = at + k
      BY <1>4
    <3>3. piece = SubSeq(name, low, high)
      OBVIOUS
    <3> HIDE DEF piece, low, high
    <3>4. /\ piece \in Seq(Char)
          /\ Len(piece) = IF low <= high THEN high - low + 1 ELSE 0
          /\ \A k \in 1..high - low + 1 : piece[k] = name[low + k - 1]
      BY ONLY <3>1, <3>2, <3>3, SubSeqProperties
    <3> QED
      BY <3>2, <3>4
  <2> HIDE DEF piece
  <2>2. piece = part <=> \A k \in 1..m : piece[k] = part[k]
    BY <1>1, <1>3, <1>4, <2>1, SeqEqual
  <2>3. \A k \in 1..m : start + k - 1 \in start..end - 1 /\ (start + k - 1) - start + 1 = k
    BY <1>1, <1>2
  <2>4. \A i \in start..end - 1 :
          /\ i - start + 1 \in 1..m
          /\ at + (i - start) + 1 = at + (i - start + 1)
    BY <1>1, <1>2, <1>7
  <2>5. ASSUME \A k \in 1..m : piece[k] = part[k], NEW i \in start..end - 1
        PROVE  name[at + (i - start) + 1] = pattern[i]
    BY <1>1, <2>1, <2>4, <2>5
  <2>6. ASSUME \A i \in start..end - 1 : name[at + (i - start) + 1] = pattern[i],
               NEW k \in 1..m
        PROVE  piece[k] = part[k]
    <3> DEFINE i == start + k - 1
    <3>1. i \in start..end - 1 /\ i - start + 1 = k /\ at + (i - start) + 1 = at + k
      BY <1>1, <1>2, <1>7, <2>3
    <3> HIDE DEF i
    <3>2. name[at + k] = pattern[i] /\ part[k] = pattern[i]
      BY <1>1, <2>6, <3>1
    <3> QED
      BY <2>1, <3>2
  <2> QED
    BY <2>2, <2>5, <2>6 DEF piece
<1> QED
  BY <1>5, <1>6, <1>7 DEF end, part

(* The pattern before upto is cut off the name as it should be.            *)
Cutting(cut, pattern, name, upto) ==
  /\ cut \in [1..Len(pattern) + 1 -> 0..Len(name)] /\ cut[1] = 0
  /\ \A i \in 1..upto - 1 : Shares(cut, pattern, name, i)

(* The pattern before start may have the first n characters of the name,   *)
(* and whatever the whole pattern has, that is no less.                    *)
Reached(pattern, name, start, n) ==
  \E cut : Cutting(cut, pattern, name, start) /\ cut[start] = n
Least(pattern, name, start, n) ==
  \A cut : /\ Cutting(cut, pattern, name, Len(pattern) + 1)
           /\ cut[Len(pattern) + 1] = Len(name)
           => n <= cut[start]

LEMMA TakenIsReached ==
  ASSUME NEW pattern, Text(pattern), NEW start \in 1..Len(pattern) + 1,
         NEW name, Text(name), NEW n \in Nat, Reached(pattern, name, start, n),
         NEW at \in Int, at \in Occurrences(Part(pattern, start), name), at >= n,
         at = n \/ (start > 1 /\ pattern[start - 1] = Star)
  PROVE  LET end == NextStar(pattern, start)
         IN Reached(pattern, name, end, at + (end - start))
<1> DEFINE end == NextStar(pattern, start)
<1>1. end \in start..Len(pattern) + 1 /\ \A i \in start..end - 1 : pattern[i] # Star
  BY PartIs
<1>2. /\ at >= 0 /\ at + (end - start) <= Len(name)
      /\ \A i \in start..end - 1 : name[at + (i - start) + 1] = pattern[i]
  BY OccursAt
<1>3. Len(pattern) \in Nat /\ Len(name) \in Nat
  BY LenProperties DEF Text
<1> HIDE DEF end
<1>4. PICK cut : Cutting(cut, pattern, name, start) /\ cut[start] = n
  BY DEF Reached
<1> DEFINE longer == [i \in 1..Len(pattern) + 1 |->
                        IF i < start THEN cut[i]
                        ELSE IF i <= end THEN at + (i - start) ELSE 0]
<1>5. /\ cut \in [1..Len(pattern) + 1 -> 0..Len(name)] /\ cut[1] = 0
      /\ \A i \in 1..start - 1 : Shares(cut, pattern, name, i)
  BY <1>4 DEF Cutting
<1>6. /\ \A i \in 1..start - 1 : longer[i] = cut[i]
      /\ \A i \in start..end : longer[i] = at + (i - start)
  BY <1>1, <1>3
<1>7. longer \in [1..Len(pattern) + 1 -> 0..Len(name)]
  <2> SUFFICES ASSUME NEW i \in 1..Len(pattern) + 1 PROVE longer[i] \in 0..Len(name)
    OBVIOUS
  <2>1. CASE i < start
    BY <1>5, <2>1
  <2>2. CASE i >= start /\ i <= end
    BY <1>1, <1>2, <1>3, <2>2
  <2> QED
    BY <1>1, <1>3, <2>1, <2>2
<1> HIDE DEF longer
<1>8. longer[1] = 0
  BY <1>1, <1>3, <1>4, <1>5, <1>6
<1>9. ASSUME NEW i \in 1..end - 1 PROVE Shares(longer, pattern, name, i)
  <2>1. CASE i < start - 1
    <3>1. longer[i] = cut[i] /\ longer[i + 1] = cut[i + 1]
      BY <1>6, <2>1
    <3> QED
      BY <1>5, <2>1, <3>1 DEF Shares
  <2>2. CASE i = start - 1
    <3>1. longer[i] = cut[i] /\ longer[i + 1] = at
      BY <1>1, <1>6, <2>2
    <3>2. cut[i + 1] = n /\ Shares(cut, pattern, name, i)
      BY <1>4, <1>5, <2>2
    <3>3. CASE at = n
      BY <3>1, <3>2, <3>3 DEF Shares
    <3>4. CASE pattern[i] = Star
      <4>1. cut[i] <= n /\ cut[i] \in Nat
        BY <1>1, <1>3, <1>5, <2>2, <3>2, <3>4 DEF Shares
      <4> QED
        BY <3>1, <3>4, <4>1 DEF Shares
    <3> QED
      BY <2>2, <3>3, <3>4
  <2>3. CASE i >= start
    <3>1. /\ longer[i] = at + (i - start) /\ longer[i + 1] = at + (i - start) + 1
          /\ i \in start..end - 1
      BY <1>1, <1>3, <1>6, <2>3
    <3> QED
      BY <1>1, <1>2, <3>1 DEF Shares
  <2> QED
    BY <1>1, <2>1, <2>2, <2>3
<1>10. Cutting(longer, pattern, name, end) /\ longer[end] = at + (end - start)
  BY <1>1, <1>3, <1>6, <1>7, <1>8, <1>9 DEF Cutting
<1> QED
  BY <1>10 DEF Reached, end

(* A star may stand for any text that follows. *)
LEMMA StarTakes ==
  ASSUME NEW pattern, Text(pattern), NEW name, Text(name), NEW at \in 1..Len(pattern),
         pattern[at] = Star, NEW n \in Nat, Reached(pattern, name, at, n),
         NEW k \in n..Len(name)
  PROVE  Reached(pattern, name, at + 1, k)
<1>1. Len(pattern) \in Nat /\ Len(name) \in Nat
  BY LenProperties DEF Text
<1>2. PICK cut : Cutting(cut, pattern, name, at) /\ cut[at] = n
  BY DEF Reached
<1> DEFINE longer == [cut EXCEPT ![at + 1] = k]
<1>3. /\ cut \in [1..Len(pattern) + 1 -> 0..Len(name)] /\ cut[1] = 0
      /\ \A i \in 1..at - 1 : Shares(cut, pattern, name, i)
  BY <1>2 DEF Cutting
<1>4. k \in 0..Len(name) /\ n <= k
  BY <1>1
<1>5. /\ longer \in [1..Len(pattern) + 1 -> 0..Len(name)]
      /\ longer[at + 1] = k /\ \A i \in 1..at : longer[i] = cut[i]
  BY <1>1, <1>3, <1>4
<1> HIDE DEF longer
<1>6. \A i \in 1..at : Shares(longer, pattern, name, i)
  <2> SUFFICES ASSUME NEW i \in 1..at PROVE Shares(longer, pattern, name, i)
    OBVIOUS
  <2>1. CASE i = at
    BY <1>2, <1>4, <1>5, <2>1 DEF Shares
  <2>2. CASE i \in 1..at - 1
    <3>1. longer[i] = cut[i] /\ longer[i + 1] = cut[i + 1]
      BY <1>5, <2>2
    <3> QED
      BY <1>3, <2>2, <3>1 DEF Shares
  <2> QED
    BY <2>1, <2>2
<1>7. Cutting(longer, pattern, name, at + 1)
  BY <1>1, <1>3, <1>5, <1>6 DEF Cutting
<1> QED
  BY <1>5, <1>7 DEF Reached

LEMMA ReachedIsMeant ==
  ASSUME NEW pattern, Text(pattern), NEW name, Text(name),
         Reached(pattern, name, Len(pattern) + 1, Len(name))
  PROVE  Glob(pattern, name)
<1>1. Len(pattern) \in Nat
  BY LenProperties DEF Text
<1>2. Len(pattern) + 1 - 1 = Len(pattern)
  BY <1>1
<1> QED
  BY <1>2 DEF Reached, Cutting, Glob

(* Without a star every character has its share. *)
LEMMA SharesAreStraight ==
  ASSUME NEW pattern, Text(pattern), NEW name, Text(name),
         NEW start \in 1..Len(pattern) + 1, NEW end \in start..Len(pattern) + 1,
         \A i \in start..end - 1 : pattern[i] # Star,
         NEW cut, Cutting(cut, pattern, name, Len(pattern) + 1)
  PROVE  /\ \A i \in start..end : cut[i] = cut[start] + (i - start)
         /\ \A i \in start..end - 1 : name[cut[start] + (i - start) + 1] = pattern[i]
<1>1. Len(pattern) \in Nat /\ Len(name) \in Nat
  BY LenProperties DEF Text
<1>2. /\ cut \in [1..Len(pattern) + 1 -> 0..Len(name)]
      /\ \A i \in 1..Len(pattern) : Shares(cut, pattern, name, i)
  BY <1>1 DEF Cutting
<1>3. \A i \in start..end : cut[i] \in Nat
  BY <1>1, <1>2
<1>4. \A i \in start..end - 1 : cut[i + 1] = cut[i] + 1 /\ name[cut[i + 1]] = pattern[i]
  BY <1>1, <1>2 DEF Shares
<1> DEFINE askew == {i \in start..end : cut[i] # cut[start] + (i - start)}
<1>5. askew = {}
  <2> SUFFICES ASSUME askew # {} PROVE FALSE
    OBVIOUS
  <2>1. askew \in SUBSET Nat /\ askew \subseteq start..end
    BY <1>1
  <2>2. PICK i \in askew : \A j \in askew : i <= j
    BY <2>1, LeastIsThere
  <2>3. i \in start..end /\ cut[i] # cut[start] + (i - start)
    OBVIOUS
  <2>4. \A j \in start..end : j \notin askew => cut[j] = cut[start] + (j - start)
    OBVIOUS
  <2> HIDE DEF askew
  <2>5. i \in Nat /\ i # start /\ start \in Nat /\ end \in Nat
    BY <1>1, <1>3, <2>1, <2>3
  <2>6. i - 1 \in start..end - 1 /\ i - 1 \in start..end /\ (i - 1) + 1 = i
    BY <2>3, <2>5
  <2>7. i - 1 \notin askew
    BY <2>2, <2>5
  <2>8. cut[i - 1] = cut[start] + ((i - 1) - start) /\ cut[i] = cut[i - 1] + 1
    BY <1>4, <2>4, <2>6, <2>7
  <2>9. cut[start] \in Nat
    BY <1>1, <1>3
  <2> QED
    BY <2>3, <2>5, <2>8, <2>9
<1>6. \A i \in start..end : cut[i] = cut[start] + (i - start)
  BY <1>5
<1>7. ASSUME NEW i \in start..end - 1
      PROVE  name[cut[start] + (i - start) + 1] = pattern[i]
  <2>1. i \in start..end /\ i + 1 \in start..end /\ i \in Nat /\ start \in Nat
    BY <1>1
  <2>2. cut[i + 1] = cut[i] + 1 /\ name[cut[i + 1]] = pattern[i]
    BY <1>4
  <2>3. cut[i] = cut[start] + (i - start)
    BY <1>6, <2>1
  <2> QED
    BY <2>2, <2>3
<1> QED
  BY <1>6, <1>7

(* Nothing that the whole pattern may have ends before what the first      *)
(* occurrence leaves over, and if there is none it has nothing.            *)
Found(pattern, start, name, n, anchored) ==
  {at \in Occurrences(Part(pattern, start), name) :
     IF anchored THEN at = n ELSE at >= n}

LEMMA LeastOccurrence ==
  ASSUME NEW pattern, Text(pattern), NEW start \in 1..Len(pattern) + 1,
         NEW name, Text(name), NEW n \in Nat, Least(pattern, name, start, n),
         NEW anchored \in BOOLEAN, anchored => start = 1 /\ n = 0
  PROVE  LET end == NextStar(pattern, start)
             found == Found(pattern, start, name, n, anchored)
         IN /\ Glob(pattern, name) => found # {}
            /\ found # {} => Least(pattern, name, end, Min(found) + (end - start))
<1> DEFINE end == NextStar(pattern, start)
           found == Found(pattern, start, name, n, anchored)
<1>1. end \in start..Len(pattern) + 1 /\ \A i \in start..end - 1 : pattern[i] # Star
  BY PartIs
<1>2. Len(pattern) \in Nat /\ Len(name) \in Nat
  BY LenProperties DEF Text
<1>3. ASSUME NEW cut, Cutting(cut, pattern, name, Len(pattern) + 1),
             cut[Len(pattern) + 1] = Len(name)
      PROVE  cut[start] \in found /\ cut[end] = cut[start] + (end - start)
  <2>1. cut \in [1..Len(pattern) + 1 -> 0..Len(name)] /\ cut[1] = 0
    BY <1>3 DEF Cutting
  <2>2. cut[start] \in Int /\ cut[start] >= 0 /\ cut[end] <= Len(name)
    BY <1>1, <1>2, <2>1
  <2>3. n <= cut[start]
    BY <1>3 DEF Least
  <2>4. /\ cut[end] = cut[start] + (end - start)
        /\ \A i \in start..end - 1 : name[cut[start] + (i - start) + 1] = pattern[i]
    <3>1. end \in start..end
      BY <1>1, <1>2
    <3> QED
      BY <1>1, <1>3, <3>1, SharesAreStraight
  <2>5. cut[start] \in Occurrences(Part(pattern, start), name)
    <3>1. cut[start] + (end - start) <= Len(name)
      BY <2>2, <2>4
    <3> QED
      BY <2>2, <2>4, <3>1, OccursAt
  <2>6. IF anchored THEN cut[start] = n ELSE cut[start] >= n
    BY <2>1, <2>2, <2>3
  <2> QED
    BY <2>4, <2>5, <2>6 DEF Found
<1>4. ASSUME Glob(pattern, name) PROVE found # {}
  <2>1. PICK cut \in [1..Len(pattern) + 1 -> 0..Len(name)] :
          /\ cut[1] = 0 /\ cut[Len(pattern) + 1] = Len(name)
          /\ \A i \in 1..Len(pattern) : Shares(cut, pattern, name, i)
    BY <1>4 DEF Glob
  <2>2. Cutting(cut, pattern, name, Len(pattern) + 1)
    <3>1. Len(pattern) + 1 - 1 = Len(pattern)
      BY <1>2
    <3> QED
      BY <2>1, <3>1 DEF Cutting
  <2> QED
    BY <1>3, <2>1, <2>2
<1>5. ASSUME found # {} PROVE Least(pattern, name, end, Min(found) + (end - start))
  <2>1. found \in SUBSET Nat
    BY <1>2 DEF Found, Occurrences
  <2>2. Min(found) \in Nat /\ \A at \in found : Min(found) <= at
    BY <1>5, <2>1, LeastIsThere
  <2> HIDE DEF found, end
  <2>3. ASSUME NEW cut, Cutting(cut, pattern, name, Len(pattern) + 1),
               cut[Len(pattern) + 1] = Len(name)
        PROVE  Min(found) + (end - start) <= cut[end]
    <3>1. cut[start] \in found /\ cut[end] = cut[start] + (end - start)
      BY <1>3, <2>3
    <3>2. Min(found) <= cut[start] /\ cut[start] \in Nat
      BY <2>1, <2>2, <3>1
    <3> QED
      BY <1>1, <1>2, <2>2, <3>1, <3>2
  <2> QED
    BY <2>3 DEF Least
<1> QED
  BY <1>4, <1>5 DEF end, found

LEMMA LeastAfterStar ==
  ASSUME NEW pattern, Text(pattern), NEW name, Text(name), NEW at \in 1..Len(pattern),
         pattern[at] = Star, NEW n \in Nat, Least(pattern, name, at, n)
  PROVE  Least(pattern, name, at + 1, n)
<1>1. Len(pattern) \in Nat /\ Len(name) \in Nat
  BY LenProperties DEF Text
<1>2. ASSUME NEW cut, Cutting(cut, pattern, name, Len(pattern) + 1),
             cut[Len(pattern) + 1] = Len(name)
      PROVE  n <= cut[at + 1]
  <2>1. n <= cut[at]
    BY <1>2 DEF Least
  <2>2. cut[at] <= cut[at + 1]
    BY <1>1, <1>2 DEF Cutting, Shares
  <2>3. cut[at] \in Nat /\ cut[at + 1] \in Nat
    BY <1>1, <1>2 DEF Cutting
  <2> QED
    BY <2>1, <2>2, <2>3
<1> QED
  BY <1>2 DEF Least

(* A pattern without a star means itself. *)
LEMMA StarlessMeansItself ==
  ASSUME NEW pattern, Text(pattern), NEW name, Text(name), Star \notin ToSet(pattern)
  PROVE  Glob(pattern, name) <=> pattern = name
<1>1. /\ Len(pattern) \in Nat /\ Len(name) \in Nat
      /\ DOMAIN pattern = 1..Len(pattern)
  BY LenProperties DEF Text
<1>2. \A i \in 1..Len(pattern) : pattern[i] # Star
  BY <1>1 DEF ToSet
<1>3. ASSUME pattern = name PROVE Glob(pattern, name)
  <2> DEFINE cut == [i \in 1..Len(pattern) + 1 |-> i - 1]
  <2>1. cut \in [1..Len(pattern) + 1 -> 0..Len(name)]
    BY <1>1, <1>3
  <2>2. cut[1] = 0 /\ cut[Len(pattern) + 1] = Len(name)
    BY <1>1, <1>3
  <2>3. \A i \in 1..Len(pattern) : cut[i] = i - 1 /\ cut[i + 1] = i
    BY <1>1
  <2> HIDE DEF cut
  <2>4. \A i \in 1..Len(pattern) : Shares(cut, pattern, name, i)
    BY <1>1, <1>2, <1>3, <2>3 DEF Shares
  <2> QED
    BY <2>1, <2>2, <2>4 DEF Glob
<1>4. ASSUME Glob(pattern, name) PROVE pattern = name
  <2>1. PICK cut :
          /\ cut \in [1..Len(pattern) + 1 -> 0..Len(name)] /\ cut[1] = 0 /\ cut[Len(pattern) + 1] = Len(name)
          /\ \A i \in 1..Len(pattern) : Shares(cut, pattern, name, i)
    BY <1>4 DEF Glob
  <2> DEFINE end == Len(pattern) + 1
  <2>2. /\ 1 \in 1..Len(pattern) + 1 /\ end \in 1..Len(pattern) + 1 /\ end - 1 = Len(pattern)
        /\ 1 \in 1..end /\ end \in 1..end /\ end = Len(pattern) + 1
    BY <1>1
  <2> HIDE DEF end
  <2>3. Cutting(cut, pattern, name, end)
    BY <2>1, <2>2 DEF Cutting
  <2>4. /\ \A i \in 1..end : cut[i] = cut[1] + (i - 1)
        /\ \A i \in 1..end - 1 : name[cut[1] + (i - 1) + 1] = pattern[i]
    <3> DEFINE start == 1
    <3>1. /\ start \in 1..Len(pattern) + 1 /\ end \in start..Len(pattern) + 1
          /\ \A i \in start..end - 1 : pattern[i] # Star
          /\ Cutting(cut, pattern, name, Len(pattern) + 1)
      BY <1>2, <2>2, <2>3
    <3> HIDE DEF start
    <3>2. /\ \A i \in start..end : cut[i] = cut[start] + (i - start)
          /\ \A i \in start..end - 1 : name[cut[start] + (i - start) + 1] = pattern[i]
      BY <3>1, SharesAreStraight
    <3> QED
      BY <3>2 DEF start
  <2>5. Len(name) = Len(pattern)
    BY <1>1, <2>1, <2>2, <2>4
  <2>6. \A i \in 1..Len(pattern) : 0 + (i - 1) + 1 = i
    BY <1>1
  <2>7. \A i \in 1..Len(pattern) : name[i] = pattern[i]
    BY <2>1, <2>2, <2>4, <2>6
  <2> QED
    BY <2>5, <2>7, SeqEqual DEF Text
<1> QED
  BY <1>3, <1>4


MatchFields == {"pc", "pattern", "name", "start", "passed", "first", "answer"}

(* The part of the pattern that the loop has passed: all of it when no     *)
(* part is left.                                                           *)
PassedPart == IF match.start > Len(match.pattern) + 1 THEN Len(match.pattern) + 1
              ELSE match.start

(* What the loop has passed of the name is what the passed part of the     *)
(* pattern may have, and the least of it.                                  *)
LoopInv ==
  /\ Star \in ToSet(match.pattern) /\ match.pattern # <<>>
  /\ match.start \in 1..Len(match.pattern) + 2
  /\ match.passed \in 0..Len(match.name) /\ match.first \in BOOLEAN
  /\ 1 < match.start /\ match.start <= Len(match.pattern) + 1 =>
       match.pattern[match.start - 1] = Star
  /\ match.first => match.passed = 0
  /\ match.first /\ match.pattern[1] # Star => match.start = 1
  /\ match.start = 1 => match.first
  /\ Reached(match.pattern, match.name, PassedPart, match.passed)
  /\ Least(match.pattern, match.name, PassedPart, match.passed)

WildcardInv ==
  /\ DOMAIN match = MatchFields /\ match.pc \in {"idle", "loop", "done"}
  /\ Text(match.pattern) /\ Text(match.name)
  /\ match.pc = "loop" => LoopInv
  /\ MatchesAreMeant

LEMMA ReachedAtStart ==
  ASSUME NEW pattern, Text(pattern), NEW name, Text(name)
  PROVE  Reached(pattern, name, 1, 0) /\ Least(pattern, name, 1, 0)
<1>1. Len(pattern) \in Nat /\ Len(name) \in Nat
  BY LenProperties DEF Text
<1>2. Reached(pattern, name, 1, 0)
  <2> DEFINE cut == [i \in 1..Len(pattern) + 1 |-> 0]
  <2>1. cut \in [1..Len(pattern) + 1 -> 0..Len(name)] /\ cut[1] = 0
    BY <1>1
  <2>2. \A i \in 1..1 - 1 : Shares(cut, pattern, name, i)
    OBVIOUS
  <2> QED
    BY <2>1, <2>2 DEF Reached, Cutting
<1>3. Least(pattern, name, 1, 0)
  BY DEF Least, Cutting
<1> QED
  BY <1>2, <1>3

(* A turn of the loop that finds its part. *)
LEMMA TurnKeeps ==
  ASSUME WildcardInv, match.pc = "loop", match.start <= Len(match.pattern) + 1
  PROVE  LET pattern == match.pattern
             start == match.start
             end == NextStar(pattern, start)
             anchored == match.first /\ pattern[1] # Star
             found == Found(pattern, start, match.name, match.passed, anchored)
             passed == Min(found) + (end - start)
         IN /\ end \in start..Len(pattern) + 1
            /\ end <= Len(pattern) => pattern[end] = Star
            /\ Part(pattern, start) = <<>> <=> end = start
            /\ Glob(pattern, match.name) => found # {}
            /\ end # start /\ found # {} =>
                 /\ Min(found) \in Nat /\ passed \in 0..Len(match.name)
                 /\ Reached(pattern, match.name, end, passed)
                 /\ Least(pattern, match.name, end, passed)
<1> DEFINE pattern == match.pattern
           name == match.name
           start == match.start
           n == match.passed
           end == NextStar(pattern, start)
           anchored == match.first /\ pattern[1] # Star
           found == Found(pattern, start, name, n, anchored)
           passed == Min(found) + (end - start)
<1>1. Text(pattern) /\ Text(name) /\ LoopInv
  BY DEF WildcardInv
<1>2. Len(pattern) \in Nat /\ Len(name) \in Nat
  BY <1>1, LenProperties DEF Text
<1>3. /\ start \in 1..Len(pattern) + 1 /\ n \in Nat /\ anchored \in BOOLEAN
      /\ anchored => start = 1 /\ n = 0
      /\ ~anchored /\ start = 1 => pattern[start] = Star
      /\ start > 1 => pattern[start - 1] = Star
  BY <1>1, <1>2 DEF LoopInv
<1>4. Reached(pattern, name, start, n) /\ Least(pattern, name, start, n)
  BY <1>1, <1>2 DEF LoopInv, PassedPart
<1> HIDE DEF pattern, name, start, n, anchored
<1>5. /\ end \in start..Len(pattern) + 1 /\ (end <= Len(pattern) => pattern[end] = Star)
      /\ \A i \in start..end - 1 : pattern[i] # Star
      /\ Part(pattern, start) = <<>> <=> end = start
  BY <1>1, <1>3, PartIs
<1>6. end # start => anchored \/ start > 1
  <2>1. end # start => start \in start..end - 1
    BY <1>2, <1>3, <1>5
  <2> QED
    BY <1>2, <1>3, <1>5, <2>1
<1>7. /\ Glob(pattern, name) => found # {}
      /\ found # {} => Least(pattern, name, end, passed)
  BY <1>1, <1>3, <1>4, LeastOccurrence
<1>8. ASSUME end # start, found # {}
      PROVE  Min(found) \in Nat /\ passed \in 0..Len(name) /\ Reached(pattern, name, end, passed)
  <2>1. found \in SUBSET Nat
    BY <1>2 DEF Found, Occurrences
  <2>2. Min(found) \in found /\ Min(found) \in Nat
    BY <1>8, <2>1, LeastIsThere
  <2> DEFINE at == Min(found)
  <2>3. /\ at \in Occurrences(Part(pattern, start), name) /\ at \in Int /\ at >= 0
        /\ IF anchored THEN at = n ELSE at >= n
    BY <2>2 DEF Found
  <2> HIDE DEF at
  <2>4. at + (end - start) <= Len(name)
    BY <1>1, <1>3, <2>3, OccursAt
  <2>5. at >= n /\ (at = n \/ (start > 1 /\ pattern[start - 1] = Star))
    BY <1>3, <1>6, <1>8, <2>3
  <2>6. Reached(pattern, name, end, at + (end - start))
    BY <1>1, <1>3, <1>4, <2>3, <2>5, TakenIsReached
  <2>7. at + (end - start) \in 0..Len(name)
    BY <1>2, <1>3, <1>5, <2>3, <2>4
  <2> QED
    BY <2>2, <2>6, <2>7 DEF at
<1> QED
  BY <1>5, <1>7, <1>8 DEF pattern, name, start, n, anchored

(* The star behind a part takes nothing yet. *)
LEMMA StarPassed ==
  ASSUME NEW pattern, Text(pattern), NEW name, Text(name),
         NEW end \in 1..Len(pattern) + 1, end <= Len(pattern) => pattern[end] = Star,
         NEW n \in 0..Len(name), Reached(pattern, name, end, n), Least(pattern, name, end, n)
  PROVE  LET at == IF end + 1 > Len(pattern) + 1 THEN Len(pattern) + 1 ELSE end + 1
         IN Reached(pattern, name, at, n) /\ Least(pattern, name, at, n)
<1>1. Len(pattern) \in Nat /\ Len(name) \in Nat
  BY LenProperties DEF Text
<1>2. CASE end > Len(pattern)
  <2>1. end = Len(pattern) + 1 /\ end + 1 > Len(pattern) + 1
    BY <1>1, <1>2
  <2> QED
    BY <2>1
<1>3. CASE end <= Len(pattern)
  <2>1. /\ end \in 1..Len(pattern) /\ pattern[end] = Star /\ n \in n..Len(name) /\ n \in Nat
        /\ ~(end + 1 > Len(pattern) + 1)
    BY <1>1, <1>3
  <2>2. Reached(pattern, name, end + 1, n)
    BY <2>1, StarTakes
  <2>3. Least(pattern, name, end + 1, n)
    BY <2>1, LeastAfterStar
  <2> QED
    BY <2>1, <2>2, <2>3
<1> QED
  BY <1>1, <1>2, <1>3

LEMMA EndedIsMeant ==
  ASSUME NEW pattern, Text(pattern), NEW name, Text(name), pattern # <<>>,
         NEW n \in 0..Len(name), Reached(pattern, name, Len(pattern) + 1, n),
         Last(pattern) = Star \/ n = Len(name)
  PROVE  Glob(pattern, name)
<1>1. Len(pattern) \in Nat /\ Len(pattern) > 0 /\ Len(name) \in Nat
  BY LenProperties, EmptySeq DEF Text
<1>2. CASE n = Len(name)
  BY <1>2, ReachedIsMeant
<1>3. CASE Last(pattern) = Star
  <2> DEFINE last == Len(pattern)
  <2>1. pattern[last] = Star /\ last \in 1..Len(pattern) /\ last + 1 - 1 = last
    BY <1>1, <1>3 DEF Last
  <2>2. PICK cut : Cutting(cut, pattern, name, last + 1) /\ cut[last + 1] = n
    BY DEF Reached
  <2>3. cut[last] \in 0..Len(name) /\ Shares(cut, pattern, name, last)
    BY <1>1, <2>1, <2>2 DEF Cutting
  <2>4. Cutting(cut, pattern, name, last)
    BY <1>1, <2>2 DEF Cutting
  <2> DEFINE k == cut[last]
             all == Len(name)
  <2>5. Reached(pattern, name, last, k)
    BY <2>4 DEF Reached
  <2>6. k \in Nat /\ all \in k..Len(name)
    BY <1>1, <2>3
  <2>7. Reached(pattern, name, last + 1, all)
    BY <2>1, <2>5, <2>6, StarTakes
  <2> QED
    BY <2>7, ReachedIsMeant
<1> QED
  BY <1>2, <1>3

(* What the loop concludes is right. *)
LEMMA AnsweredIsMeant ==
  ASSUME WildcardInv, match.pc = "loop", NEW answer, Answered(answer),
         answer => Glob(match.pattern, match.name),
         Last(match.pattern) = Star /\ ~answer => ~Glob(match.pattern, match.name)
  PROVE  WildcardInv'
<1>1. /\ DOMAIN match' = MatchFields /\ match'.pc = "done" /\ match'.answer = answer
      /\ match'.pattern = match.pattern /\ match'.name = match.name
  BY DEF WildcardInv, MatchFields, Answered
<1>2. Text(match.pattern) /\ Text(match.name) /\ Star \in ToSet(match.pattern)
  BY DEF WildcardInv, LoopInv
<1>3. MatchesAreMeant'
  BY <1>1, <1>2 DEF MatchesAreMeant
<1> QED
  BY <1>1, <1>2, <1>3 DEF WildcardInv

LEMMA TakePartKeeps == ASSUME WildcardInv, TakePart PROVE WildcardInv'
<1> DEFINE pattern == match.pattern
           name == match.name
           start == match.start
           n == match.passed
           end == NextStar(pattern, start)
           anchored == match.first /\ pattern[1] # Star
           found == Found(pattern, start, name, n, anchored)
           part == Part(pattern, start)
<1>1. match.pc = "loop" /\ start <= Len(pattern) + 1
  BY DEF TakePart
<1>2. Text(pattern) /\ Text(name) /\ LoopInv
  BY <1>1 DEF WildcardInv
<1>3. Len(pattern) \in Nat /\ Len(name) \in Nat
  BY <1>2, LenProperties DEF Text
<1>4. /\ end \in start..Len(pattern) + 1 /\ (end <= Len(pattern) => pattern[end] = Star)
      /\ part = <<>> <=> end = start
      /\ Glob(pattern, name) => found # {}
      /\ end # start /\ found # {} =>
           /\ Min(found) \in Nat /\ Min(found) + (end - start) \in 0..Len(name)
           /\ Reached(pattern, name, end, Min(found) + (end - start))
           /\ Least(pattern, name, end, Min(found) + (end - start))
  BY <1>1, TurnKeeps
<1>5. Len(part) = end - start
  BY <1>1, <1>2, <1>3, PartIs DEF LoopInv
<1>6. \/ part = <<>> /\ match' = [match EXCEPT !.start = end + 1]
      \/ part # <<>> /\ found = {} /\ Answered(FALSE)
      \/ /\ part # <<>> /\ found # {}
         /\ match' = [match EXCEPT !.start = end + 1, !.first = FALSE,
                                    !.passed = Passed(Min(found), part)]
  BY DEF TakePart, Found
<1>7. DOMAIN match = MatchFields
  BY DEF WildcardInv
<1> DEFINE at == IF end + 1 > Len(pattern) + 1 THEN Len(pattern) + 1 ELSE end + 1
<1> HIDE DEF end, found, part, anchored
<1>8. start \in 1..Len(pattern) + 1
  BY <1>1, <1>2, <1>3 DEF LoopInv
<1>9. CASE part = <<>> /\ match' = [match EXCEPT !.start = end + 1]
  <2>1. /\ DOMAIN match' = MatchFields /\ match'.pc = "loop" /\ match'.start = end + 1
        /\ match'.pattern = pattern /\ match'.name = name /\ match'.passed = n
        /\ match'.first = match.first
    BY <1>1, <1>7, <1>9 DEF MatchFields
  <2>2. end = start /\ Reached(pattern, name, end, n) /\ Least(pattern, name, end, n)
    BY <1>1, <1>2, <1>3, <1>4, <1>8, <1>9 DEF LoopInv, PassedPart
  <2>3. n \in 0..Len(name) /\ end \in 1..Len(pattern) + 1
    BY <1>2, <1>8, <2>2 DEF LoopInv
  <2>4. Reached(pattern, name, at, n) /\ Least(pattern, name, at, n)
    BY <1>2, <1>4, <2>2, <2>3, StarPassed
  <2>5. ~(match.first /\ pattern[1] # Star)
    <3>1. ASSUME match.first, pattern[1] # Star PROVE FALSE
      <4>1. start = 1 /\ Len(pattern) > 0
        BY <1>2, <1>3, <3>1, EmptySeq DEF LoopInv, Text
      <4> QED
        BY <1>3, <1>4, <2>2, <3>1, <4>1
    <3> QED
      BY <3>1
  <2>6. LoopInv'
    <3>1. PassedPart' = at
      BY <2>1 DEF PassedPart
    <3>2. Star \in ToSet(pattern) /\ pattern # <<>> /\ match.first \in BOOLEAN
          /\ (match.first => n = 0)
      BY <1>2 DEF LoopInv
    <3>3. end + 1 \in 1..Len(pattern) + 2 /\ end + 1 # 1 /\ end + 1 - 1 = end
      BY <1>3, <2>3
    <3>4. end + 1 <= Len(pattern) + 1 => pattern[end] = Star
      BY <1>3, <1>4, <2>3
    <3> QED
      BY <2>1, <2>3, <2>4, <2>5, <3>1, <3>2, <3>3, <3>4 DEF LoopInv
  <2>7. MatchesAreMeant'
    BY <2>1 DEF MatchesAreMeant
  <2> QED
    BY <1>2, <2>1, <2>6, <2>7 DEF WildcardInv
<1>10. CASE part # <<>> /\ found = {} /\ Answered(FALSE)
  BY <1>1, <1>4, <1>10, AnsweredIsMeant
<1>11. CASE /\ part # <<>> /\ found # {}
            /\ match' = [match EXCEPT !.start = end + 1, !.first = FALSE,
                                       !.passed = Passed(Min(found), part)]
  <2> DEFINE passed == Min(found) + (end - start)
  <2>1. /\ DOMAIN match' = MatchFields /\ match'.pc = "loop" /\ match'.start = end + 1
        /\ match'.pattern = pattern /\ match'.name = name /\ match'.passed = passed
        /\ match'.first = FALSE
    BY <1>1, <1>5, <1>7, <1>11 DEF MatchFields, Passed
  <2>2. /\ passed \in 0..Len(name) /\ end \in 1..Len(pattern) + 1
        /\ Reached(pattern, name, end, passed) /\ Least(pattern, name, end, passed)
    BY <1>3, <1>4, <1>8, <1>11
  <2> HIDE DEF passed
  <2>3. Reached(pattern, name, at, passed) /\ Least(pattern, name, at, passed)
    BY <1>2, <1>4, <2>2, StarPassed
  <2>4. LoopInv'
    <3>1. PassedPart' = at
      BY <2>1 DEF PassedPart
    <3>2. Star \in ToSet(pattern) /\ pattern # <<>>
      BY <1>2 DEF LoopInv
    <3>3. end + 1 \in 1..Len(pattern) + 2 /\ end + 1 # 1 /\ end + 1 - 1 = end
      BY <1>3, <2>2
    <3>4. end + 1 <= Len(pattern) + 1 => pattern[end] = Star
      BY <1>3, <1>4, <2>2
    <3>5. /\ Reached(match'.pattern, match'.name, PassedPart', match'.passed)
          /\ Least(match'.pattern, match'.name, PassedPart', match'.passed)
      BY <2>1, <2>3, <3>1
    <3>6. /\ match'.start \in 1..Len(match'.pattern) + 2 /\ match'.start # 1
          /\ match'.start <= Len(match'.pattern) + 1 =>
               match'.pattern[match'.start - 1] = Star
      BY <1>3, <2>1, <2>2, <3>3, <3>4
    <3>7. Star \in ToSet(match'.pattern) /\ match'.pattern # <<>>
      BY <2>1, <3>2
    <3>8. ~match'.first /\ match'.first \in BOOLEAN /\ match'.passed \in 0..Len(match'.name)
      BY <2>1, <2>2
    <3> QED
      BY <3>5, <3>6, <3>7, <3>8 DEF LoopInv
  <2>5. MatchesAreMeant'
    BY <2>1 DEF MatchesAreMeant
  <2> QED
    BY <1>2, <2>1, <2>4, <2>5 DEF WildcardInv
<1> QED
  BY <1>6, <1>9, <1>10, <1>11

LEMMA WildcardStarts == WildcardIdle => WildcardInv
<1>1. Text(<<>>)
  BY DEF Text
<1> QED
  BY <1>1 DEF WildcardIdle, NoMatch, WildcardInv, MatchFields, MatchesAreMeant

LEMMA WildcardSteps == ASSUME WildcardInv, [WildcardNext]_match PROVE WildcardInv'
<1>1. CASE UNCHANGED match
  <2>1. PassedPart' = PassedPart /\ (MatchesAreMeant => MatchesAreMeant')
    BY <1>1 DEF PassedPart, MatchesAreMeant
  <2>2. LoopInv => LoopInv'
    BY <1>1, <2>1 DEF LoopInv
  <2> QED
    BY <1>1, <2>1, <2>2 DEF WildcardInv
<1>2. CASE Compare
  <2>1. PICK pattern, name \in Texts :
          match' = [match EXCEPT !.pattern = pattern, !.name = name,
                      !.pc = IF Star \in ToSet(pattern) THEN "loop" ELSE "done",
                      !.answer = Star \notin ToSet(pattern) /\ pattern = name]
    BY <1>2 DEF Compare
  <2>2. Text(pattern) /\ Text(name)
    BY TextsAre
  <2>3. Len(pattern) \in Nat /\ Len(name) \in Nat
    BY <2>2, LenProperties DEF Text
  <2>4. match = NoMatch
    BY <1>2 DEF Compare, WildcardIdle
  <2>5. /\ DOMAIN match' = MatchFields /\ match'.pattern = pattern /\ match'.name = name
        /\ match'.pc = (IF Star \in ToSet(pattern) THEN "loop" ELSE "done")
        /\ match'.answer = (Star \notin ToSet(pattern) /\ pattern = name)
        /\ match'.start = 1 /\ match'.passed = 0 /\ match'.first = TRUE
    BY <2>1, <2>4 DEF NoMatch, MatchFields
  <2>6. CASE Star \in ToSet(pattern)
    <3>1. pattern # <<>>
      BY <2>6 DEF ToSet
    <3>2. PassedPart' = 1
      BY <2>3, <2>5 DEF PassedPart
    <3>4. /\ Reached(match'.pattern, match'.name, PassedPart', match'.passed)
          /\ Least(match'.pattern, match'.name, PassedPart', match'.passed)
      BY <2>2, <2>5, <3>2, ReachedAtStart
    <3>5. /\ match'.start \in 1..Len(match'.pattern) + 2 /\ match'.passed \in 0..Len(match'.name)
          /\ ~(1 < match'.start)
      BY <2>3, <2>5
    <3>3. LoopInv'
      BY <2>5, <2>6, <3>1, <3>4, <3>5 DEF LoopInv
    <3> QED
      BY <2>2, <2>5, <2>6, <3>3 DEF WildcardInv, MatchesAreMeant
  <2>7. CASE Star \notin ToSet(pattern)
    <3>1. Glob(pattern, name) <=> pattern = name
      BY <2>2, <2>7, StarlessMeansItself
    <3> QED
      BY <2>2, <2>5, <2>7, <3>1 DEF WildcardInv, MatchesAreMeant
  <2> QED
    BY <2>6, <2>7
<1>3. CASE TakePart
  BY <1>3, TakePartKeeps
<1>4. CASE Conclude
  <2>1. /\ match.pc = "loop" /\ match.start > Len(match.pattern) + 1
        /\ Answered(Last(match.pattern) = Star \/ match.passed = Len(match.name))
    BY <1>4 DEF Conclude
  <2>2. /\ Text(match.pattern) /\ Text(match.name) /\ match.pattern # <<>>
        /\ match.passed \in 0..Len(match.name)
        /\ Reached(match.pattern, match.name, Len(match.pattern) + 1, match.passed)
    BY <2>1 DEF WildcardInv, LoopInv, PassedPart
  <2> QED
    BY <2>1, <2>2, EndedIsMeant, AnsweredIsMeant
<1>5. CASE Forget
  <2>1. match' = NoMatch /\ Text(<<>>)
    BY <1>5 DEF Forget, Text
  <2> QED
    BY <2>1 DEF NoMatch, WildcardInv, MatchFields, MatchesAreMeant
<1> QED
  BY <1>1, <1>2, <1>3, <1>4, <1>5 DEF WildcardNext

(* However far the loop has come, what it passed of the name is the least  *)
(* that the passed part of the pattern may have.                           *)
THEOREM WildcardInductive == Spec => []WildcardInv
<1>1. Init => WildcardInv
  BY WildcardStarts DEF Init, WildcardInit
<1>2. WildcardInv /\ [Next]_toolVars => WildcardInv'
  BY WildcardSteps, StepsAreLocal
<1> QED
  BY <1>1, <1>2, PTL DEF Spec

(* No pattern covers a name that it does not mean, and one that ends with  *)
(* its star or has none covers all that it means.                          *)
THEOREM OnlyMeantMatches == Spec => []MatchesAreMeant
<1>1. WildcardInv => MatchesAreMeant
  BY DEF WildcardInv
<1> QED
  BY <1>1, WildcardInductive, PTL

-----------------------------------------------------------------------------
(* logs.query_sls_logs *)

(* What was sent was made of the arguments and the source of the call, and *)
(* what was answered of the response.                                      *)
SlsFields == {"pc", "ask", "request", "response", "status", "logs", "count"}

SlsInv ==
  \/ SlsIdle
  \/ /\ DOMAIN slsCall = SlsFields
     /\ \E ask \in SlsAsk : slsCall.ask = {ask}
     /\ slsSource = {} \/ \E source \in SlsSource : slsSource = {source}
     /\ slsCall.pc = "sent" => slsCall.request # {} /\ slsCall.response = {}
     /\ \A request \in slsCall.request, source \in slsSource, ask \in slsCall.ask :
          /\ ~SlsAskIsRefused(ask) /\ ~ClientIsRefused(source)
          /\ request = LogsRequest(ask, source)
     /\ \A response \in slsCall.response :
          /\ response \in SlsResponse
          /\ slsCall.status = IF DecodeBody(response) = {"data"} /\ response.ok
                              THEN "succeeded" ELSE "query_failed"
          /\ slsCall.status = "succeeded" => slsCall.logs = response.logs

LEMMA SlsStarts == SlsInit => SlsInv
BY DEF SlsInit, SlsInv

LEMMA OnlyOne == \A x : Only({x}) = x
BY DEF Only

LEMMA SlsSteps ==
  ASSUME SlsInv, [SlsNext]_slsVars
  PROVE  SlsInv'
<1>1. CASE UNCHANGED slsVars
  BY <1>1 DEF SlsInv, SlsIdle, slsVars
<1>2. CASE StartSls
  <2>1. PICK ask \in SlsAsk, found \in {{}} \cup {{s} : s \in SlsSource} :
          /\ slsSource' = found
          /\ IF SlsAskIsRefused(ask) THEN FailSls(ask, "invalid")
             ELSE IF found = {} THEN FailSls(ask, "query_failed")
             ELSE IF ClientIsRefused(Only(found)) \/ SigningFails(Only(found))
             THEN FailSls(ask, "query_failed")
             ELSE slsCall' = [NoSlsCall EXCEPT !.pc = "sent", !.ask = {ask},
                                !.request = {LogsRequest(ask, Only(found))}]
    BY <1>2 DEF StartSls
  <2>2. slsSource' = {} \/ \E source \in SlsSource : slsSource' = {source}
    BY <2>1
  <2>3. CASE \E status \in {"invalid", "query_failed"} : FailSls(ask, status)
    BY <2>1, <2>2, <2>3 DEF FailSls, NoSlsCall, SlsInv, SlsFields
  <2>4. CASE /\ ~SlsAskIsRefused(ask) /\ found # {} /\ ~ClientIsRefused(Only(found))
             /\ slsCall' = [NoSlsCall EXCEPT !.pc = "sent", !.ask = {ask},
                              !.request = {LogsRequest(ask, Only(found))}]
    <3>1. slsCall'.ask = {ask} /\ slsCall'.request = {LogsRequest(ask, Only(found))}
          /\ slsCall'.response = {} /\ DOMAIN slsCall' = SlsFields
      BY <2>4 DEF NoSlsCall, SlsFields
    <3>2. \A source \in slsSource' : source = Only(found)
      BY <2>1, OnlyOne
    <3> QED
      BY <2>1, <2>2, <2>4, <3>1, <3>2 DEF SlsInv
  <2> QED
    BY <2>1, <2>3, <2>4
<1>3. CASE NetworkFails
  BY <1>3 DEF NetworkFails, SlsInv, SlsIdle, NoSlsCall, SlsFields
<1>4. CASE ServiceAnswers
  <2>1. PICK response \in SlsResponse : ParseResponse(response)
    BY <1>4 DEF ServiceAnswers
  <2>2. /\ slsCall'.ask = slsCall.ask /\ slsCall'.request = slsCall.request
        /\ slsCall'.response = {response} /\ slsCall'.pc = "done"
        /\ slsCall'.status = IF DecodeBody(response) = {"data"} /\ response.ok
                             THEN "succeeded" ELSE "query_failed"
        /\ slsCall'.status = "succeeded" => slsCall'.logs = response.logs
        /\ DOMAIN slsCall' = DOMAIN slsCall
    <3>1. slsCall.pc = "sent" /\ DOMAIN slsCall = SlsFields
      BY <1>4 DEF ServiceAnswers, SlsInv, SlsIdle, NoSlsCall, SlsFields
    <3> QED
      BY <2>1, <3>1 DEF ParseResponse, SlsFields
  <2> QED
    BY <1>4, <2>2 DEF ServiceAnswers, SlsInv, SlsIdle, NoSlsCall
<1>5. CASE ForgetSls
  BY <1>5 DEF ForgetSls, SlsInv, SlsIdle
<1> QED
  BY <1>1, <1>2, <1>3, <1>4, <1>5 DEF SlsNext

LEMMA LogsFollow == SlsInv => LogsAreTheServices
<1> SUFFICES ASSUME SlsInv, NEW response \in slsCall.response
             PROVE  /\ slsCall.status = "succeeded" <=>
                         /\ response.ok /\ response.content = "data"
                         /\ \/ response.packed = "plain" /\ ~response.marked
                            \/ response.packed = "gzip"
                            \/ response.packed = "zlib" /\ response.marked
                    /\ slsCall.status = "succeeded" => slsCall.logs = response.logs
  BY DEF LogsAreTheServices
<1>1. /\ response \in SlsResponse
      /\ slsCall.status = IF DecodeBody(response) = {"data"} /\ response.ok
                          THEN "succeeded" ELSE "query_failed"
      /\ slsCall.status = "succeeded" => slsCall.logs = response.logs
  BY DEF SlsInv, SlsIdle, NoSlsCall
<1>2. response.ok \in BOOLEAN /\ response.marked \in BOOLEAN
  BY <1>1, SlsAssumption
<1>3. DecodeBody(response) = {"data"} <=>
        /\ response.content = "data"
        /\ \/ response.packed = "plain" /\ ~response.marked
           \/ response.packed = "gzip"
           \/ response.packed = "zlib" /\ response.marked
  BY <1>2 DEF DecodeBody
<1> QED
  BY <1>1, <1>2, <1>3

(* The headers that are signed are the service's own, and the others do    *)
(* not have their names.                                                   *)
Own(headers) ==
  {"x-log-apiversion", "x-log-bodyrawsize", "x-log-signaturemethod",
   "x-acs-security-token"} \cap DOMAIN headers

Signed(headers, path, params, body, date, source) ==
  LET token == SecretString(source, "securityToken")
      signing == SigningHeaders(body, token)
  IN /\ DOMAIN signing = Own(headers)
     /\ \A name \in Own(headers) : signing[name] = headers[name]
     /\ headers["x-log-bodyrawsize"] = SizeOfBody(body)
     /\ headers["content-md5"] = Md5(body) /\ headers["date"] = date
     /\ headers["authorization"].signature =
          SignRequest(Only(SecretString(source, "accessKeySecret")), Md5(body), date,
                      signing, path, params)
     /\ \A name \in Own(headers) :
          \/ headers[name] \in {<<"0.6.0">>, SizeOfBody(body), <<"hmac-sha1">>}
          \/ token # {} /\ headers[name] = <<Only(token)>>

LEMMA HeadersKept ==
  ASSUME NEW path, NEW params, NEW body, NEW date, NEW source
  PROVE  Signed(SignedHeaders(path, params, body, date, source),
                path, params, body, date, source)
<1> DEFINE headers == SignedHeaders(path, params, body, date, source)
           token == SecretString(source, "securityToken")
           signing == SigningHeaders(body, token)
           sending == [name \in {"date", "content-md5", "content-type", "authorization"} |->
               CASE name = "date" -> date
                 [] name = "content-md5" -> Md5(body)
                 [] name = "content-type" -> "application/json"
                 [] name = "authorization" ->
                      [id |-> Only(SecretString(source, "accessKeyId")),
                       signature |-> SignRequest(Only(SecretString(source, "accessKeySecret")),
                                       Md5(body), date, signing, path, params)]]
           logs == {"x-log-apiversion", "x-log-bodyrawsize", "x-log-signaturemethod"}
           own == logs \cup IF token = {} THEN {} ELSE {"x-acs-security-token"}
<1>1. headers = Joined(signing, sending)
  BY DEF SignedHeaders, SigningHeaders
<1> HIDE DEF token
<1>2. /\ DOMAIN signing = own /\ signing = [name \in own |-> signing[name]]
      /\ signing["x-log-bodyrawsize"] = SizeOfBody(body)
      /\ \A name \in own : \/ signing[name] \in {<<"0.6.0">>, SizeOfBody(body), <<"hmac-sha1">>}
                           \/ token # {} /\ signing[name] = <<Only(token)>>
  <2>1. /\ DOMAIN LogHeaders(body) = logs
        /\ LogHeaders(body)["x-log-bodyrawsize"] = SizeOfBody(body)
        /\ \A name \in logs :
             LogHeaders(body)[name] \in {<<"0.6.0">>, SizeOfBody(body), <<"hmac-sha1">>}
    BY DEF LogHeaders
  <2>2. /\ DOMAIN TokenHeader(token) = IF token = {} THEN {} ELSE {"x-acs-security-token"}
        /\ \A name \in DOMAIN TokenHeader(token) : TokenHeader(token)[name] = <<Only(token)>>
    BY DEF TokenHeader
  <2> QED
    BY <2>1, <2>2 DEF SigningHeaders, Joined
<1>3. /\ DOMAIN sending = {"date", "content-md5", "content-type", "authorization"}
      /\ sending["date"] = date /\ sending["content-md5"] = Md5(body)
      /\ sending["authorization"].signature =
           SignRequest(Only(SecretString(source, "accessKeySecret")), Md5(body), date,
                       signing, path, params)
  OBVIOUS
<1> HIDE DEF signing, sending
<1>4. /\ DOMAIN headers = own \cup DOMAIN sending
      /\ \A name \in own : headers[name] = signing[name]
      /\ \A name \in DOMAIN sending : headers[name] = sending[name]
  <2>1. own \cap DOMAIN sending = {}
    BY <1>3
  <2> QED
    BY <1>1, <1>2, <2>1 DEF Joined
<1>5. Own(headers) = own /\ "x-log-bodyrawsize" \in own
  BY <1>3, <1>4 DEF Own
<1> HIDE DEF headers, own
<1>6. Signed(headers, path, params, body, date, source)
  BY <1>2, <1>3, <1>4, <1>5 DEF signing, token, Signed
<1> QED
  BY <1>6 DEF headers

LEMMA SigningIsFunction ==
  ASSUME NEW body, NEW token
  PROVE  SigningHeaders(body, token) =
           [name \in DOMAIN SigningHeaders(body, token) |-> SigningHeaders(body, token)[name]]
BY DEF SigningHeaders, Joined

LEMMA ServiceAgrees ==
  ASSUME NEW source \in SlsSource, NEW ask \in SlsAsk, NEW decodes \in BOOLEAN,
         ~SlsAskIsRefused(ask), SecretString(source, "securityToken") # {"padded"}
  PROVE  LogsRequest(ask, source).headers["authorization"].signature =
           ServiceSignature(LogsRequest(ask, source),
                            Only(SecretString(source, "accessKeySecret")), decodes)
<1> DEFINE request == LogsRequest(ask, source)
           headers == request.headers
           body == LogsBody(ask)
           token == SecretString(source, "securityToken")
           path == <<"logstores", Encode(ask.logstore), "logs">>
           params == <<"project", ask.project>>
           Read(texts) == [i \in DOMAIN texts |-> IF decodes THEN Decode(texts[i]) ELSE texts[i]]
<1>1. /\ headers = SignedHeaders(path, params, body, "now", source)
      /\ request.path = path /\ request.params = <<"project", Encode(ask.project)>>
  BY DEF LogsRequest
<1>2. /\ Encode(ask.logstore) = ask.logstore /\ Encode(ask.project) = ask.project
      /\ Decode(ask.logstore) = ask.logstore /\ Decode(ask.project) = ask.project
  BY DEF SlsAskIsRefused, SlsNameIsRefused, Encode, Decode
<1>3. Read(path) = path /\ Read(params) = params
  BY <1>2 DEF Decode
<1> HIDE DEF headers, path, params, body, request, token
<1>4. Signed(headers, path, params, body, "now", source)
  BY <1>1, HeadersKept
<1>5. \A a, b \in token : a = b
  BY SlsAssumption DEF SecretString, AtMostOne, token
<1>6. token # {} => Only(token) # "padded"
  BY <1>5 DEF Only, token
<1>7. \A name \in Own(headers) : Arrived(headers[name]) = SigningHeaders(body, token)[name]
  BY <1>4, <1>6 DEF Arrived, SizeOfBody, Signed, token
<1>8. [name \in Own(headers) |-> Arrived(headers[name])] = SigningHeaders(body, token)
  <2>1. DOMAIN SigningHeaders(body, token) = Own(headers)
    BY <1>4 DEF Signed, token
  <2> QED
    BY <2>1, <1>7, SigningIsFunction
<1>9. /\ headers["content-md5"] = Md5(body) /\ headers["date"] = "now"
      /\ headers["authorization"].signature =
           SignRequest(Only(SecretString(source, "accessKeySecret")), Md5(body), "now",
                       SigningHeaders(body, token), path, params)
  BY <1>4 DEF Signed, token
<1>10. request.headers = headers /\ request.path = path /\ request.params = params
  BY <1>1, <1>2 DEF params, headers, request
<1>11. ServiceSignature(request, Only(SecretString(source, "accessKeySecret")), decodes) =
         SignRequest(Only(SecretString(source, "accessKeySecret")), Md5(body), "now",
                     SigningHeaders(body, token), path, params)
  BY <1>3, <1>8, <1>9, <1>10 DEF ServiceSignature, Own
<1> QED
  BY <1>9, <1>10, <1>11 DEF request

LEMMA RequestGoes ==
  ASSUME NEW source \in SlsSource, NEW ask \in SlsAsk, ~ClientIsRefused(source)
  PROVE  LET endpoint == Only(SecretString(source, "endpoint")) IN
         endpoint.local \/ EndpointForProject(endpoint, ask.project)[1] = ask.project
<1> DEFINE endpoint == Only(SecretString(source, "endpoint"))
<1>1. SecretString(source, "endpoint") # {}
  BY DEF ClientIsRefused
<1>2. endpoint \in SecretString(source, "endpoint")
  BY <1>1 DEF Only
<1>3. endpoint \in source.credential["endpoint"] \cup source.config["endpoint"]
  BY <1>2 DEF SecretString
<1>4. endpoint.host \in Seq(ToSet(endpoint.host))
  BY <1>3, SlsAssumption
<1> HIDE DEF endpoint
<1>5. (<<ask.project>> \o endpoint.host)[1] = ask.project
  <2> DEFINE S == ToSet(endpoint.host) \cup {ask.project}
  <2>1. endpoint.host \in Seq(S) /\ <<ask.project>> \in Seq(S)
    BY <1>4, SeqMonotonic
  <2>2. Len(<<ask.project>>) = 1 /\ Len(endpoint.host) \in Nat /\ <<ask.project>>[1] = ask.project
    BY <2>1
  <2> HIDE DEF S
  <2>3. \A i \in 1..(Len(<<ask.project>>) + Len(endpoint.host)) :
          (<<ask.project>> \o endpoint.host)[i] =
            IF i <= Len(<<ask.project>>) THEN <<ask.project>>[i]
            ELSE endpoint.host[i - Len(<<ask.project>>)]
    BY <2>1, ConcatProperties
  <2> QED
    BY <2>2, <2>3
<1> QED
  BY <1>5 DEF EndpointForProject, endpoint

LEMMA SigningFollows == SlsInv => SignedIsSent
<1> SUFFICES ASSUME SlsInv, NEW request \in slsCall.request, NEW source \in slsSource,
                    NEW ask \in slsCall.ask
             PROVE  /\ request.headers["content-md5"] = Md5(request.body)
                    /\ request.headers["x-log-bodyrawsize"] = SizeOfBody(request.body)
                    /\ SecretString(source, "securityToken") # {"padded"} =>
                         \A decodes \in BOOLEAN :
                           request.headers["authorization"].signature =
                             ServiceSignature(request,
                               Only(SecretString(source, "accessKeySecret")), decodes)
                    /\ \/ Only(SecretString(source, "endpoint")).local
                       \/ request.host[1] = ask.project
  BY DEF SignedIsSent
<1>1. /\ ask \in SlsAsk /\ source \in SlsSource
      /\ ~SlsAskIsRefused(ask) /\ ~ClientIsRefused(source)
      /\ request = LogsRequest(ask, source)
  BY DEF SlsInv, SlsIdle, NoSlsCall
<1>2. /\ request.headers["content-md5"] = Md5(LogsBody(ask))
      /\ request.headers["x-log-bodyrawsize"] = SizeOfBody(LogsBody(ask))
  <2>1. \E path, params : request.headers = SignedHeaders(path, params, LogsBody(ask), "now", source)
    BY <1>1 DEF LogsRequest
  <2> QED
    BY <2>1, HeadersKept DEF Signed
<1>3. /\ request.body = LogsBody(ask)
      /\ request.host = EndpointForProject(Only(SecretString(source, "endpoint")), ask.project)
  BY <1>1 DEF LogsRequest
<1> QED
  BY <1>1, <1>2, <1>3, ServiceAgrees, RequestGoes

(* Every step keeps what was sent the request that the arguments and the   *)
(* source of the call make, and what was answered that of the response.    *)
THEOREM SlsInductive == Spec => []SlsInv
<1>1. Init => SlsInv
  BY SlsStarts DEF Init
<1>2. SlsInv /\ [Next]_toolVars => SlsInv'
  BY SlsSteps, StepsAreLocal
<1> QED
  BY <1>1, <1>2, PTL DEF Spec

(* Whatever the source and the arguments, what is sent is what was signed. *)
THEOREM SentIsSigned == Spec => []SignedIsSent
BY SlsInductive, SigningFollows, PTL

(* A call succeeds with the logs that the service sent, whenever it sent   *)
(* any that can be read.                                                   *)
THEOREM LogsAreSent == Spec => []LogsAreTheServices
BY SlsInductive, LogsFollow, PTL

-----------------------------------------------------------------------------
(* Sequences *)

(* As many elements as places, or fewer; as many only if none is there     *)
(* twice.                                                                  *)
LEMMA ElementsCounted ==
  ASSUME NEW S, NEW s \in Seq(S)
  PROVE  /\ IsFiniteSet(ToSet(s)) /\ Cardinality(ToSet(s)) \in Nat
         /\ Cardinality(ToSet(s)) <= Len(s)
         /\ Cardinality(ToSet(s)) = Len(s) <=> IsInjective(s)
<1>1. /\ Len(s) \in Nat /\ DOMAIN s = 1..Len(s) /\ s \in [1..Len(s) -> ToSet(s)]
      /\ \A x \in ToSet(s) : \E i \in 1..Len(s) : s[i] = x
  BY LenProperties DEF ToSet
<1>2. s \in Surjection(1..Len(s), ToSet(s))
  BY <1>1, Fun_IsSurj
<1>3. IsFiniteSet(1..Len(s)) /\ Cardinality(1..Len(s)) = Len(s)
  <2>1. Len(s) \in Nat
    BY <1>1
  <2> QED
    BY ONLY <2>1, FS_Interval
<1>4. /\ IsFiniteSet(ToSet(s)) /\ Cardinality(ToSet(s)) <= Len(s)
      /\ Cardinality(ToSet(s)) = Len(s) <=> s \in Injection(1..Len(s), ToSet(s))
  BY <1>2, <1>3, FS_Surjection
<1>5. s \in Injection(1..Len(s), ToSet(s)) <=> IsInjective(s)
  BY <1>1 DEF Injection, IsInjective
<1> QED
  BY <1>4, <1>5, FS_CardinalityType

LEMMA ImageIsSmaller ==
  ASSUME NEW D, IsFiniteSet(D), NEW g
  PROVE  LET image == {g[x] : x \in D} IN
         IsFiniteSet(image) /\ Cardinality(image) <= Cardinality(D)
<1> DEFINE f == [x \in D |-> g[x]]
           image == {g[x] : x \in D}
<1>1. f \in Surjection(D, image)
  <2>1. f \in [D -> image] /\ \A y \in image : \E x \in D : f[x] = y
    OBVIOUS
  <2> QED
    BY <2>1, Fun_IsSurj
<1> QED
  BY <1>1, FS_Surjection

LEMMA FrontOf ==
  ASSUME NEW S, NEW s \in Seq(S), NEW n \in 0..Len(s)
  PROVE  /\ SubSeq(s, 1, n) \in Seq(S) /\ Len(SubSeq(s, 1, n)) = n
         /\ \A i \in 1..n : SubSeq(s, 1, n)[i] = s[i]
<1>1. Len(s) \in Nat /\ \A i \in 1..n : s[i] \in S
  BY ElementOfSeq, LenProperties
<1> QED
  BY <1>1, SubSeqProperties

-----------------------------------------------------------------------------
(* audit.query_approval_events *)

Events == [id : EventId, at : Nat, fields : EventFields]
IdsDiffer(events) == \A i, j \in DOMAIN events : events[i].id = events[j].id => i = j

LEMMA EventTyped == \A e \in Events : e.id \in Int /\ e.at \in Int
<1>1. \A id \in EventId : id \in Int
  BY AuditAssumption
<1> QED
  BY <1>1 DEF Events

(* Every event of the store has an id of its own, and the answer is what   *)
(* the store has for the question.                                         *)
AuditInv ==
  /\ trail \in Seq(Events) /\ IdsDiffer(trail) /\ clock \in Nat
  /\ DOMAIN auditCall = {"pc", "used", "ask", "status", "events"}
  /\ \A i \in DOMAIN trail : trail[i].id \in auditCall.used
  /\ auditCall.pc = "idle" => auditCall.ask = {}
  /\ \A ask \in auditCall.ask :
       ask \in AuditAsk /\ (auditCall.status = "succeeded" =>
                             /\ ~QueryIsRefused(ask)
                             /\ auditCall.events = Fetch(trail, ask))

LEMMA AuditStarts == AuditInit => AuditInv
<1> SUFFICES ASSUME AuditInit PROVE AuditInv
  OBVIOUS
<1>1. trail = <<>> /\ clock = 0 /\ auditCall = NoQuery
  BY DEF AuditInit, AuditIdle
<1> QED
  BY <1>1 DEF AuditInv, IdsDiffer, NoQuery

LEMMA KeptDiffer ==
  ASSUME NEW events \in Seq(Events), IdsDiffer(events)
  PROVE  /\ Kept(events) \in Seq(Events) /\ IdsDiffer(Kept(events))
         /\ ToSet(Kept(events)) \subseteq ToSet(events)
<1> DEFINE first == 1 + (IF Len(events) > AuditCap THEN Len(events) - AuditCap ELSE 0)
<1>1. /\ Len(events) \in Nat /\ DOMAIN events = 1..Len(events) /\ AuditCap \in Nat \ {0}
      /\ \A i \in 1..Len(events) : events[i] \in Events
  BY LenProperties, ElementOfSeq, AuditAssumption
<1>2. first \in 1..(Len(events) + 1)
  BY <1>1
<1> HIDE DEF first
<1>3. /\ SubSeq(events, first, Len(events)) \in Seq(Events)
      /\ Len(SubSeq(events, first, Len(events))) = Len(events) - first + 1
      /\ \A i \in 1..(Len(events) - first + 1) :
           SubSeq(events, first, Len(events))[i] = events[first + i - 1]
  BY <1>1, <1>2, SubSeqProperties
<1>4. Kept(events) = SubSeq(events, first, Len(events))
  BY DEF Kept, first
<1>5. /\ Kept(events) \in Seq(Events) /\ DOMAIN Kept(events) = 1..(Len(events) - first + 1)
      /\ \A i \in DOMAIN Kept(events) :
           /\ first + i - 1 \in DOMAIN events
           /\ Kept(events)[i] = events[first + i - 1]
  <2>1. DOMAIN Kept(events) = 1..(Len(events) - first + 1)
    BY <1>3, <1>4, LenProperties
  <2> QED
    BY <1>1, <1>2, <1>3, <1>4, <2>1
<1>6. IdsDiffer(Kept(events))
  <2> SUFFICES ASSUME NEW i \in DOMAIN Kept(events), NEW j \in DOMAIN Kept(events),
                      Kept(events)[i].id = Kept(events)[j].id
               PROVE  i = j
    BY DEF IdsDiffer
  <2>1. first + i - 1 = first + j - 1
    BY <1>5 DEF IdsDiffer
  <2> QED
    BY <1>2, <1>5, <2>1
<1> QED
  BY <1>5, <1>6 DEF ToSet

LEMMA AuditSteps ==
  ASSUME AuditInv, [AuditNext]_auditVars
  PROVE  AuditInv'
<1>1. CASE UNCHANGED auditVars
  BY <1>1 DEF AuditInv, auditVars
<1>2. CASE AuditTick
  BY <1>2 DEF AuditTick, AuditInv
<1>3. CASE AppendEvent
  <2>1. PICK id \in EventId \ auditCall.used, fields \in EventFields, at \in 0..clock :
          /\ trail' = Kept(Append(trail, [id |-> id, at |-> at, fields |-> fields]))
          /\ auditCall' = [auditCall EXCEPT !.used = @ \cup {id}]
    BY <1>3 DEF AppendEvent
  <2> DEFINE event == [id |-> id, at |-> at, fields |-> fields]
             longer == Append(trail, event)
  <2>2. event \in Events /\ trail \in Seq(Events) /\ Len(trail) \in Nat
    BY LenProperties DEF Events, AuditInv
  <2>3. /\ longer \in Seq(Events) /\ Len(longer) = Len(trail) + 1
        /\ \A i \in 1..Len(trail) : longer[i] = trail[i]
        /\ longer[Len(trail) + 1] = event
    BY <2>2, AppendProperties
  <2>4. DOMAIN longer = 1..(Len(trail) + 1) /\ DOMAIN trail = 1..Len(trail)
    BY <2>2, <2>3, LenProperties
  <2>5. /\ \A i \in 1..Len(trail) : longer[i].id = trail[i].id /\ trail[i].id \in auditCall.used
        /\ longer[Len(trail) + 1].id = id
    BY <2>3, <2>4 DEF AuditInv
  <2> HIDE DEF longer
  <2>6. IdsDiffer(longer)
    BY <2>2, <2>4, <2>5 DEF IdsDiffer, AuditInv
  <2>7. \A e \in ToSet(longer) : e.id \in auditCall.used \cup {id}
    BY <2>2, <2>4, <2>5 DEF ToSet
  <2>8. /\ trail' \in Seq(Events) /\ IdsDiffer(trail') /\ ToSet(trail') \subseteq ToSet(longer)
    BY <2>1, <2>3, <2>6, KeptDiffer DEF longer
  <2>9. /\ DOMAIN auditCall' = DOMAIN auditCall /\ auditCall'.used = auditCall.used \cup {id}
        /\ auditCall'.ask = {} /\ clock' = clock
    BY <1>3, <2>1 DEF AppendEvent, AuditInv
  <2>10. \A i \in DOMAIN trail' : trail'[i].id \in auditCall'.used
    BY <2>7, <2>8, <2>9 DEF ToSet
  <2> QED
    BY <2>8, <2>9, <2>10 DEF AuditInv
<1>4. CASE QueryAudit
  BY <1>4 DEF QueryAudit, AuditInv
<1>5. CASE ForgetQuery
  <2>1. AuditInit'
    BY <1>5 DEF ForgetQuery, AuditInit, AuditIdle
  <2>2. trail' = <<>> /\ clock' = 0 /\ auditCall' = NoQuery
    BY <1>5 DEF ForgetQuery
  <2> QED
    BY <2>2 DEF AuditInv, IdsDiffer, NoQuery
<1> QED
  BY <1>1, <1>2, <1>3, <1>4, <1>5 DEF AuditNext

(* The order of the answer is one in which any two events have their       *)
(* places, because no two have the same id.                                *)
LEMMA NewestLists ==
  ASSUME NEW found \in SUBSET Events, IsFiniteSet(found),
         \A a, b \in found : a.id = b.id => a = b
  PROVE  /\ Newest(found) \in Seq(found) /\ ToSet(Newest(found)) = found
         /\ \A i, j \in DOMAIN Newest(found) :
              i < j => NewestFirst(Newest(found)[i], Newest(found)[j])
         /\ IsInjective(Newest(found))
<1> DEFINE below == [e \in found |-> {b \in found : NewestFirst(b, e)}]
           list == Ascending(found, below)
<1>1. \A e \in found : e.id \in Int /\ e.at \in Int
  BY EventTyped
<1>2. IsOrder(found, below)
  <2>1. \A x \in found : below[x] \subseteq found \ {x}
    BY <1>1 DEF NewestFirst
  <2>2. \A x, y \in found : y \in below[x] => below[y] \subseteq below[x]
    BY <1>1 DEF NewestFirst
  <2>3. \A x, y \in found : x = y \/ x \in below[y] \/ y \in below[x]
    BY <1>1 DEF NewestFirst
  <2> QED
    BY <2>1, <2>2, <2>3 DEF IsOrder
<1> HIDE DEF below
<1>3. /\ list \in Seq(found) /\ ToSet(list) = found
      /\ \A i, j \in DOMAIN list : i < j => list[i] \in below[list[j]]
  BY <1>2, AscendingLists
<1>4. DOMAIN list = 1..Len(list) /\ Len(list) \in Nat /\ \A i \in DOMAIN list : list[i] \in found
  BY <1>3, LenProperties, ElementOfSeq
<1>5. Newest(found) = list
  BY DEF Newest, below
<1> HIDE DEF list
<1>6. ASSUME NEW i \in DOMAIN list, NEW j \in DOMAIN list, i < j
      PROVE  NewestFirst(list[i], list[j]) /\ list[i] # list[j]
  <2>1. list[i] \in below[list[j]] /\ list[i] \in found /\ list[j] \in found
    BY <1>3, <1>4, <1>6
  <2>2. NewestFirst(list[i], list[j])
    BY <2>1 DEF below
  <2> QED
    BY <1>1, <2>1, <2>2 DEF NewestFirst
<1>7. IsInjective(list)
  BY <1>4, <1>6 DEF IsInjective
<1> QED
  BY <1>3, <1>5, <1>6, <1>7

LEMMA NewestFollows == AuditInv => AnswerIsNewest
<1> SUFFICES ASSUME AuditInv, NEW ask \in auditCall.ask, auditCall.status = "succeeded"
             PROVE  LET shown == ToSet(auditCall.events)
                        missing == {e \in ToSet(trail) : EventMatches(e, ask.filters)} \ shown
                    IN /\ shown \subseteq ToSet(trail)
                       /\ Len(auditCall.events) = Cardinality(shown)
                       /\ \A e \in shown : EventMatches(e, ask.filters)
                       /\ \A i, j \in DOMAIN auditCall.events :
                            i < j => auditCall.events[i].at >= auditCall.events[j].at
                       /\ missing # {} => Cardinality(shown) = LimitOfQuery(ask)
                       /\ \A e \in missing, s \in shown : e.at <= s.at
  BY DEF AnswerIsNewest
<1> DEFINE found == {e \in ToSet(trail) : EventMatches(e, ask.filters)}
           list == Newest(found)
           limit == LimitOfQuery(ask)
           n == IF Len(list) < limit THEN Len(list) ELSE limit
           events == SubSeq(list, 1, n)
           shown == ToSet(events)
<1>1. /\ trail \in Seq(Events) /\ IdsDiffer(trail) /\ limit \in 1..1000
      /\ auditCall.events = FirstOf(list, limit)
  BY DEF AuditInv, QueryIsRefused, Fetch
<1>2. /\ found \in SUBSET Events /\ IsFiniteSet(found)
      /\ \A a, b \in found : a.id = b.id => a = b
  <2>1. IsFiniteSet(ToSet(trail)) /\ found \in SUBSET ToSet(trail)
    BY <1>1, ElementsCounted
  <2>2. \A i \in DOMAIN trail : trail[i] \in Events
    BY <1>1, LenProperties
  <2>3. \A a, b \in ToSet(trail) : a.id = b.id => a = b
    BY <1>1 DEF ToSet, IdsDiffer
  <2> QED
    BY <2>1, <2>2, <2>3, FS_Subset DEF ToSet
<1> HIDE DEF found, limit
<1>3. /\ list \in Seq(found) /\ ToSet(list) = found /\ IsInjective(list)
      /\ \A i, j \in DOMAIN list : i < j => NewestFirst(list[i], list[j])
  BY <1>2, NewestLists
<1> HIDE DEF list
<1>4. Len(list) \in Nat /\ DOMAIN list = 1..Len(list) /\ n \in 0..Len(list) /\ n <= limit
      /\ (n < Len(list) => n = limit)
  BY <1>1, <1>3, LenProperties
<1>5. auditCall.events = events
  BY <1>1 DEF FirstOf
<1> HIDE DEF n
<1>6. /\ events \in Seq(found) /\ Len(events) = n /\ DOMAIN events = 1..n
      /\ \A i \in 1..n : events[i] = list[i]
  BY <1>3, <1>4, FrontOf, LenProperties
<1> HIDE DEF events
<1>7. shown = {list[i] : i \in 1..n} /\ shown \subseteq found
  <2>1. shown \subseteq found
    BY <1>6, ElementOfSeq DEF ToSet
  <2> QED
    BY <1>6, <2>1 DEF ToSet
<1>8. IsInjective(events)
  BY <1>3, <1>4, <1>6 DEF IsInjective
<1>9. Cardinality(shown) = n
  BY <1>6, <1>8, ElementsCounted
<1>10. \A e \in found : e.at \in Int /\ e.id \in Int
  BY <1>2, EventTyped
<1>11. \A i, j \in DOMAIN list : i < j => list[i].at >= list[j].at
  <2>1. \A i \in DOMAIN list : list[i] \in found
    BY <1>3 DEF ToSet
  <2> QED
    BY <1>3, <1>10, <2>1 DEF NewestFirst
<1>12. ASSUME NEW e \in found \ shown
       PROVE  n = limit /\ \A s \in shown : e.at <= s.at
  <2>1. PICK k \in DOMAIN list : e = list[k]
    BY <1>3 DEF ToSet
  <2>2. k \notin 1..n
    BY <1>7, <1>12, <2>1
  <2>3. n < k
    BY <1>4, <2>2
  <2>4. \A i \in 1..n : list[i].at >= e.at
    BY <1>4, <1>11, <2>1, <2>3
  <2>5. \A i \in 1..n : e.at <= list[i].at
    <3>1. \A i \in 1..n : list[i].at \in Int /\ e.at \in Int
      BY <1>7, <1>10, <1>12
    <3> QED
      BY <2>4, <3>1
  <2> QED
    BY <1>4, <1>7, <2>3, <2>5
<1>13. \A i, j \in DOMAIN events : i < j => events[i].at >= events[j].at
  BY <1>4, <1>6, <1>11
<1>14. shown \subseteq ToSet(trail) /\ \A e \in shown : EventMatches(e, ask.filters)
  BY <1>7 DEF found
<1> HIDE DEF shown
<1> QED
  BY <1>5, <1>6, <1>9, <1>12, <1>13, <1>14 DEF found, limit, shown

(* Whatever is appended, in whatever order, the events of the store have   *)
(* ids of their own, and an answer is what the store had for the question. *)
THEOREM AuditInductive == Spec => []AuditInv
<1>1. Init => AuditInv
  BY AuditStarts DEF Init
<1>2. AuditInv /\ [Next]_toolVars => AuditInv'
  BY AuditSteps, StepsAreLocal
<1> QED
  BY <1>1, <1>2, PTL DEF Spec

(* The newest events that match are in the answer, in whatever order they  *)
(* reached the store.                                                      *)
THEOREM AnswersAreNewest == Spec => []AnswerIsNewest
BY AuditInductive, NewestFollows, PTL

-----------------------------------------------------------------------------
(* redis.query_key *)

RedisFields ==
  {"pc", "bytes", "limit", "type", "count", "status", "shown", "truncated", "changes"}

(* What was read is what the key has, unless somebody changed it since.    *)
RedisOnItsWay ==
  redisCall.pc \in {"type", "ttl", "count", "value"} =>
    /\ redisCall.limit \in 1..1000 /\ redisCall.status = "none"
    /\ redisCall.pc # "type" /\ redisCall.changes = 0 => redisCall.type = redisKey.type
    /\ redisCall.pc = "value" /\ redisCall.changes = 0 =>
         redisCall.count = CountOf(redisKey)

RedisInv ==
  /\ IsContent(redisKey) /\ DOMAIN redisCall = RedisFields
  /\ redisCall.pc \in {"idle", "type", "ttl", "count", "value", "done"}
  /\ redisCall.changes \in Nat
  /\ redisCall.pc = "idle" => redisCall.status = "none"
  /\ RedisOnItsWay /\ ReadIsBounded /\ UntruncatedIsWhole

LEMMA NoneInvariant == RedisIdle => RedisInv
<1> SUFFICES ASSUME RedisIdle PROVE RedisInv
  OBVIOUS
<1>1. redisCall = NoCall /\ redisKey = RedisAbsent
  BY DEF RedisIdle
<1>2. IsContent(RedisAbsent)
  BY DEF RedisAbsent, IsContent
<1>3. /\ DOMAIN redisCall = RedisFields /\ redisCall.pc = "idle" /\ redisCall.changes = 0
      /\ redisCall.status = "none"
  BY <1>1 DEF NoCall, RedisFields
<1> QED
  BY <1>1, <1>2, <1>3 DEF RedisInv, RedisOnItsWay, ReadIsBounded, UntruncatedIsWhole

(* A number of a row is within its bounds when the row decides. *)
LEMMA AllowedBounds ==
  ASSUME NEW rows \in RedisRow, LoadAllowed(rows) = "allowed"
  PROVE  AllowedRow(rows).members \in 1..1000
<1>1. rows \in Seq([matches : {"whole", "part", "nothing", "invalid"},
                    enabled : BOOLEAN, bytes : Int, members : Int])
  BY RedisAssumption
<1>2. Deciding(rows) \in SUBSET Nat /\ Deciding(rows) # {} /\ Deciding(rows) \subseteq DOMAIN rows
  BY <1>1, LenProperties DEF Deciding, LoadAllowed
<1>3. Min(Deciding(rows)) \in DOMAIN rows
  BY <1>2, LeastIsThere
<1>4. DecidingRow(rows).members \in Int
  <2>1. DecidingRow(rows) \in [matches : {"whole", "part", "nothing", "invalid"},
                               enabled : BOOLEAN, bytes : Int, members : Int]
    BY <1>1, <1>3, ElementOfSeq, LenProperties DEF DecidingRow
  <2> QED
    BY <2>1
<1> QED
  BY <1>4 DEF AllowedRow, Clamp

(* At most all of the items are kept, and all of them unless it is a hash. *)
ShownOf(type, items) == {items[i] : i \in KeptItems(type, items)}

LEMMA KeptCounted ==
  ASSUME NEW type, NEW S, NEW items \in Seq(S)
  PROVE  LET shown == ShownOf(type, items)
             n == Cardinality(KeptItems(type, items))
         IN /\ n \in 0..Len(items)
            /\ type # "hash" => n = Len(items)
            /\ IsFiniteSet(shown) /\ Cardinality(shown) \in Nat /\ Cardinality(shown) <= n
            /\ shown \subseteq ToSet(items)
            /\ n = Len(items) => shown = ToSet(items)
<1> DEFINE kept == KeptItems(type, items)
           shown == ShownOf(type, items)
           n == Cardinality(kept)
<1>1. Len(items) \in Nat /\ DOMAIN items = 1..Len(items)
  BY LenProperties
<1>2. IsFiniteSet(1..Len(items)) /\ Cardinality(1..Len(items)) = Len(items)
  BY ONLY <1>1, FS_Interval
<1>3. kept \in SUBSET (1..Len(items)) /\ (type # "hash" => kept = 1..Len(items))
  BY <1>1 DEF KeptItems
<1>4. shown \subseteq ToSet(items) /\ (kept = 1..Len(items) => shown = ToSet(items))
  BY <1>1, <1>3 DEF ToSet, ShownOf
<1>5. shown = {items[i] : i \in kept}
  BY DEF ShownOf
<1> HIDE DEF kept, shown
<1>6. IsFiniteSet(kept) /\ n \in Nat /\ n <= Len(items)
      /\ (n = Len(items) => kept = 1..Len(items))
  <2>1. /\ IsFiniteSet(kept) /\ Cardinality(kept) <= Cardinality(1..Len(items))
        /\ (Cardinality(1..Len(items)) = Cardinality(kept) => 1..Len(items) = kept)
    BY ONLY <1>2, <1>3, FS_Subset
  <2>2. Cardinality(kept) \in Nat
    BY ONLY <2>1, FS_CardinalityType
  <2> QED
    BY <1>2, <2>1, <2>2
<1>7. IsFiniteSet(shown) /\ Cardinality(shown) <= n /\ Cardinality(shown) \in Nat
  <2>1. IsFiniteSet(shown) /\ Cardinality(shown) <= n
    BY <1>5, <1>6, ImageIsSmaller
  <2>2. Cardinality(shown) \in Nat
    BY ONLY <2>1, FS_CardinalityType
  <2> QED
    BY <2>1, <2>2
<1>8. n \in 0..Len(items)
  BY <1>1, <1>6
<1>9. type # "hash" => n = Len(items)
  BY <1>2, <1>3
<1> HIDE DEF n
<1> QED
  BY <1>4, <1>6, <1>7, <1>8, <1>9 DEF kept, n, shown

LEMMA LimitIsNumber == \A limit \in 1..1000 : limit \in Nat
OBVIOUS

LEMMA ClampedLength ==
  \A limit \in 1..1000, length \in Nat :
    Clamp(0, limit, length) \in 0..length /\ Clamp(0, limit, length) <= limit
BY DEF Clamp

Limits == 1..1000

LEMMA LimitIsKept ==
  ASSUME NEW ask \in RedisAsk, NEW members \in Limits, ~LimitIsRefused(ask, members)
  PROVE  LimitOf(ask, members) \in Limits
<1>1. ask.limit \in {"none", "text", "number"} /\ ask.number \in Int
  BY RedisAssumption
<1>2. CASE ask.limit = "none"
  <2>1. members \in 1..1000 /\ LimitOf(ask, members) = IF members < 100 THEN members ELSE 100
    BY <1>2 DEF LimitOf, Limits
  <2> QED
    BY ONLY <2>1 DEF Limits
<1>3. CASE ask.limit = "number" /\ ask.number \in 1..members
  <2> DEFINE number == ask.number
  <2>1. number \in 1..members /\ members \in 1..1000 /\ LimitOf(ask, members) = number
    BY <1>3 DEF LimitOf, Limits
  <2> HIDE DEF number
  <2> QED
    BY ONLY <2>1 DEF Limits
<1> QED
  BY <1>1, <1>2, <1>3 DEF LimitIsRefused

LEMMA CallEnds ==
  ASSUME RedisInv, NEW status, status # "succeeded", EndCall(status), IsContent(redisKey')
  PROVE  RedisInv'
<1>1. /\ DOMAIN redisCall' = RedisFields /\ redisCall'.pc = "done"
      /\ redisCall'.status = status /\ redisCall'.changes = redisCall.changes
  BY DEF EndCall, RedisInv, RedisFields
<1> QED
  BY <1>1 DEF RedisInv, RedisOnItsWay, ReadIsBounded, UntruncatedIsWhole

(* What an answer shows of the items that were taken for it. *)
LEMMA AnswerShows ==
  ASSUME RedisInv, redisCall.pc = "value", redisKey' = redisKey,
         NEW S, NEW items \in Seq(S), Len(items) <= redisCall.limit,
         NEW cursor, NEW scanned, AnswerRead(items, cursor, scanned),
         NEW n, n = Cardinality(KeptItems(redisCall.type, items)),
         n \in 0..Len(items) /\ redisCall.changes = 0
           /\ (redisCall.type # "hash" => n = Len(items))
           /\ (redisCall.type = "string" \/ ~Truncated(cursor, scanned, n))
           => n = Len(items) /\ ToSet(items) = ToSet(redisKey.items)
  PROVE  RedisInv'
<1> DEFINE shown == ShownOf(redisCall.type, items)
<1>1. /\ n \in 0..Len(items) /\ (redisCall.type # "hash" => n = Len(items))
      /\ IsFiniteSet(shown) /\ Cardinality(shown) \in Nat /\ Cardinality(shown) <= n
      /\ shown \subseteq ToSet(items) /\ (n = Len(items) => shown = ToSet(items))
  BY KeptCounted
<1>2. CASE EndCall("query_failed")
  BY <1>2 DEF EndCall, RedisInv, RedisFields, RedisOnItsWay, ReadIsBounded, UntruncatedIsWhole
<1> HIDE DEF shown
<1>3. CASE /\ Fits(items)
           /\ redisCall' = [redisCall EXCEPT !.pc = "done", !.status = "succeeded",
                !.shown = shown,
                !.truncated = redisCall.type # "string" /\ Truncated(cursor, scanned, n)]
  <2>1. \A item \in shown : item.size <= redisCall.bytes
    BY <1>1, <1>3 DEF Fits, ToSet
  <2>2. /\ DOMAIN redisCall' = RedisFields /\ redisCall'.pc = "done"
        /\ redisCall'.status = "succeeded" /\ redisCall'.shown = shown
        /\ redisCall'.truncated = (redisCall.type # "string" /\ Truncated(cursor, scanned, n))
        /\ redisCall'.limit = redisCall.limit /\ redisCall'.bytes = redisCall.bytes
        /\ redisCall'.changes = redisCall.changes
    BY <1>3 DEF RedisInv, RedisFields
  <2>3. redisCall.limit \in 1..1000
    BY DEF RedisInv, RedisOnItsWay
  <2>4. Cardinality(shown) <= redisCall.limit
    <3>1. Len(items) \in Nat /\ redisCall.limit \in Nat
      <4>1. Len(items) \in Nat
        BY LenProperties
      <4>2. redisCall.limit \in Nat
        BY ONLY <2>3, LimitIsNumber
      <4> QED
        BY ONLY <4>1, <4>2
    <3>2. Len(items) <= redisCall.limit
      OBVIOUS
    <3> QED
      BY ONLY <1>1, <3>1, <3>2
  <2>5. ReadIsBounded'
    BY <2>1, <2>2, <2>3, <2>4 DEF ReadIsBounded
  <2>6. UntruncatedIsWhole'
    BY <1>1, <2>2 DEF UntruncatedIsWhole
  <2> QED
    BY <2>2, <2>5, <2>6 DEF RedisInv, RedisOnItsWay
<1> QED
  BY <1>2, <1>3 DEF AnswerRead, shown, ShownOf

LEMMA TakenOf ==
  ASSUME NEW S, NEW items \in Seq(S), redisCall.limit \in 1..1000
  PROVE  /\ Taken(items) \in Seq(S) /\ Len(Taken(items)) <= redisCall.limit
         /\ Len(Taken(items)) \in 0..Len(items)
         /\ Len(Taken(items)) = Len(items) => Taken(items) = items
<1> DEFINE n == Clamp(0, redisCall.limit, Len(items))
<1>1. Len(items) \in Nat
  BY LenProperties
<1>2. n \in 0..Len(items) /\ n <= redisCall.limit
  BY <1>1, ClampedLength
<1> HIDE DEF n
<1>3. /\ SubSeq(items, 1, n) \in Seq(S) /\ Len(SubSeq(items, 1, n)) = n
  BY <1>2, FrontOf
<1>4. SubSeq(items, 1, Len(items)) = items
  BY SubSeqFull
<1>5. Taken(items) = SubSeq(items, 1, n)
  BY DEF Taken, n
<1> QED
  BY <1>2, <1>3, <1>4, <1>5

LEMMA BatchOf ==
  ASSUME NEW T, IsFiniteSet(T), NEW batch \in SetToAllKPermutations(T)
  PROVE  /\ batch \in Seq(T) /\ IsInjective(batch)
         /\ Len(batch) = Cardinality(T) => ToSet(batch) = T
<1>1. PICK s \in SUBSET T : batch \in SetToSeqs(s)
  BY DEF SetToAllKPermutations
<1>2. IsFiniteSet(s) /\ Cardinality(s) \in Nat
  <2>1. IsFiniteSet(s)
    BY <1>1, FS_Subset
  <2> QED
    BY ONLY <2>1, FS_CardinalityType
<1>3. /\ batch \in [1..Cardinality(s) -> s]
      /\ \A i, j \in 1..Cardinality(s) : i # j => batch[i] # batch[j]
  BY <1>1 DEF SetToSeqs
<1>4. batch \in Seq(T)
  <2> DEFINE n == Cardinality(s)
  <2>1. n \in Nat /\ batch \in [1..n -> T]
    BY <1>1, <1>2, <1>3
  <2> HIDE DEF n
  <2> QED
    BY <2>1, IsASeq
<1>5. IsInjective(batch)
  BY <1>3 DEF IsInjective
<1>6. /\ Cardinality(ToSet(batch)) = Len(batch) /\ ToSet(batch) \in SUBSET T
  <2>1. Cardinality(ToSet(batch)) = Len(batch)
    BY <1>4, <1>5, ElementsCounted
  <2>2. ToSet(batch) \in SUBSET T
    BY <1>4, ElementOfSeq, LenProperties DEF ToSet
  <2> QED
    BY <2>1, <2>2
<1> DEFINE all == ToSet(batch)
<1> HIDE DEF all
<1>7. ASSUME Len(batch) = Cardinality(T)
      PROVE  all = T
  <2>1. all \in SUBSET T /\ Cardinality(T) = Cardinality(all)
    BY <1>6, <1>7 DEF all
  <2> QED
    BY ONLY <2>1, IsFiniteSet(T), FS_Subset
<1> QED
  BY <1>4, <1>5, <1>7 DEF all

LEMMA ValueShows ==
  ASSUME RedisInv, ReadValue
  PROVE  RedisInv'
<1>1. /\ redisCall.pc = "value" /\ redisKey' = redisKey /\ redisCall.limit \in 1..1000
      /\ redisCall.changes = 0 => redisCall.type = redisKey.type
                                  /\ redisCall.count = CountOf(redisKey)
      /\ redisCall.type \in {"string", "list", "zset"}
  BY DEF ReadValue, RedisInv, RedisOnItsWay
<1> DEFINE all == redisKey.items
           S == ToSet(all)
           items == IF redisCall.type = "string" THEN all ELSE Taken(all)
           n == Cardinality(KeptItems(redisCall.type, items))
<1>2. /\ all \in Seq(S) /\ Len(all) \in Nat
      /\ redisKey.type = "none" => all = <<>>
      /\ redisKey.type = "string" => Len(all) = 1
  BY LenProperties DEF RedisInv, IsContent
<1>3. /\ Taken(all) \in Seq(S) /\ Len(Taken(all)) <= redisCall.limit
      /\ Len(Taken(all)) \in 0..Len(all)
      /\ Len(Taken(all)) = Len(all) => Taken(all) = all
  BY <1>1, <1>2, TakenOf
<1>4. CASE WrongType /\ EndCall("query_failed")
  BY <1>1, <1>4 DEF EndCall, RedisInv, RedisFields, RedisOnItsWay, ReadIsBounded,
                     UntruncatedIsWhole
<1>5. CASE ~WrongType /\ AnswerRead(items, 0, Len(items))
  <2>1. items \in Seq(S)
    BY <1>2, <1>3
  <2>2. Len(items) <= redisCall.limit
    <3>1. redisCall.type = "string" => Len(all) \in {0, 1}
      BY <1>2, <1>5 DEF WrongType
    <3>2. \A limit \in 1..1000, length \in {0, 1} : length <= limit
      OBVIOUS
    <3>3. CASE redisCall.type = "string"
      BY <1>1, <3>1, <3>2, <3>3
    <3>4. CASE redisCall.type # "string"
      BY <1>3, <3>4
    <3> QED
      BY <3>3, <3>4
  <2>3. AnswerRead(items, 0, Len(items))
    BY <1>5
  <2>4. ASSUME /\ n \in 0..Len(items) /\ redisCall.changes = 0
               /\ redisCall.type # "hash" => n = Len(items)
               /\ redisCall.type = "string" \/ ~Truncated(0, Len(items), n)
        PROVE  n = Len(items) /\ ToSet(items) = ToSet(redisKey.items)
    <3> HIDE DEF n
    <3>1. n = Len(items)
      BY <1>1, <2>4
    <3>2. CASE redisCall.type = "string"
      BY <3>1, <3>2
    <3>3. CASE redisCall.type # "string"
      <4>1. items = Taken(all) /\ redisCall.count = Len(all)
        BY <1>1, <2>4, <3>3 DEF CountOf
      <4>2. ~(Len(all) > Len(Taken(all)))
        BY <2>4, <3>1, <3>3, <4>1 DEF Truncated
      <4>3. Taken(all) = all
        BY <1>2, <1>3, <4>2
      <4> QED
        BY <3>1, <4>1, <4>3
    <3> QED
      BY <3>2, <3>3
  <2> HIDE DEF items, n, S
  <2>5. n = Cardinality(KeptItems(redisCall.type, items))
    BY DEF n
  <2> QED
    BY <1>1, <2>1, <2>2, <2>3, <2>4, <2>5, AnswerShows
<1> QED
  BY <1>4, <1>5 DEF ReadValue

LEMMA ScanShows ==
  ASSUME RedisInv, ScanItems
  PROVE  RedisInv'
<1>1. /\ redisCall.pc = "value" /\ redisKey' = redisKey /\ redisCall.limit \in 1..1000
      /\ redisCall.changes = 0 => redisCall.type = redisKey.type
                                  /\ redisCall.count = CountOf(redisKey)
      /\ redisCall.type \in {"hash", "set"}
  BY DEF ScanItems, RedisInv, RedisOnItsWay
<1> DEFINE all == redisKey.items
           S == ToSet(all)
<1>2. /\ all \in Seq(S)
      /\ redisKey.type \in {"set", "hash"} => IsInjective(all)
  BY DEF RedisInv, IsContent
<1>3. IsFiniteSet(S) /\ (IsInjective(all) => Cardinality(S) = Len(all))
  BY <1>2, ElementsCounted
<1>4. CASE WrongType /\ EndCall("query_failed")
  BY <1>1, <1>4 DEF EndCall, RedisInv, RedisFields, RedisOnItsWay, ReadIsBounded,
                     UntruncatedIsWhole
<1>5. ASSUME NEW cursor \in {0, 1}, NEW batch \in SetToAllKPermutations(S),
             cursor = 0 => Len(batch) = Len(all),
             AnswerRead(Taken(batch), cursor, Len(batch))
      PROVE  RedisInv'
  <2> DEFINE items == Taken(batch)
             n == Cardinality(KeptItems(redisCall.type, items))
  <2>1. /\ batch \in Seq(S) /\ (Len(batch) = Cardinality(S) => ToSet(batch) = S)
    BY <1>3, <1>5, BatchOf
  <2>2. /\ items \in Seq(S) /\ Len(items) <= redisCall.limit
        /\ Len(items) \in 0..Len(batch)
        /\ Len(items) = Len(batch) => items = batch
    BY <1>1, <2>1, TakenOf
  <2> HIDE DEF items
  <2>3. Len(batch) \in Nat /\ Len(items) \in Nat
    BY <2>1, <2>2, LenProperties
  <2>4. ASSUME /\ n \in 0..Len(items) /\ redisCall.changes = 0
               /\ redisCall.type # "hash" => n = Len(items)
               /\ redisCall.type = "string" \/ ~Truncated(cursor, Len(batch), n)
        PROVE  n = Len(items) /\ ToSet(items) = ToSet(redisKey.items)
    <3> HIDE DEF n
    <3>1. cursor = 0 /\ ~(Len(batch) > n)
      BY <1>1, <2>4 DEF Truncated
    <3>2. n = Len(items) /\ items = batch
      BY <2>2, <2>3, <2>4, <3>1
    <3>3. Len(batch) = Len(all) /\ IsInjective(all)
      BY <1>1, <1>2, <1>5, <2>4, <3>1
    <3>4. ToSet(batch) = S
      BY <1>3, <2>1, <3>3
    <3> QED
      BY <3>2, <3>4
  <2>5. n = Cardinality(KeptItems(redisCall.type, items)) /\ AnswerRead(items, cursor, Len(batch))
    BY <1>5 DEF items
  <2> HIDE DEF n, S
  <2> QED
    BY <1>1, <2>2, <2>4, <2>5, AnswerShows
<1> QED
  BY <1>4, <1>5 DEF ScanItems

LEMMA RedisSteps ==
  ASSUME RedisInv, [RedisNext]_redisVars
  PROVE  RedisInv'
<1>1. CASE UNCHANGED redisVars
  BY <1>1 DEF redisVars, RedisInv, RedisOnItsWay, ReadIsBounded, UntruncatedIsWhole
<1>2. CASE StartRead
  <2>1. PICK ask \in RedisAsk, rows \in RedisRow, content \in RedisContent :
          LET row == AllowedRow(rows) IN
          /\ redisKey' = content
          /\ IF KeyIsRefused(ask) THEN EndCall("invalid")
             ELSE IF LoadAllowed(rows) # "allowed" THEN EndCall(LoadAllowed(rows))
             ELSE IF LimitIsRefused(ask, row.members) THEN EndCall("invalid")
             ELSE redisCall' = [NoCall EXCEPT !.pc = "type", !.bytes = row.bytes,
                                              !.limit = LimitOf(ask, row.members)]
    BY <1>2 DEF StartRead
  <2>2. redisCall = NoCall /\ IsContent(content)
    BY <1>2, RedisAssumption DEF StartRead, RedisIdle
  <2>3. ASSUME NEW status \in {"invalid", "not_allowed", "query_failed"}, EndCall(status)
        PROVE  RedisInv'
    BY <2>1, <2>2, <2>3 DEF EndCall, NoCall, RedisInv, RedisFields, RedisOnItsWay,
                             ReadIsBounded, UntruncatedIsWhole
  <2>4. CASE LoadAllowed(rows) # "allowed" /\ EndCall(LoadAllowed(rows))
    <3>1. LoadAllowed(rows) \in {"not_allowed", "query_failed"}
      BY <2>4 DEF LoadAllowed
    <3> QED
      BY <2>3, <2>4, <3>1
  <2>5. CASE /\ LoadAllowed(rows) = "allowed"
             /\ ~LimitIsRefused(ask, AllowedRow(rows).members)
             /\ redisCall' = [NoCall EXCEPT !.pc = "type", !.bytes = AllowedRow(rows).bytes,
                                !.limit = LimitOf(ask, AllowedRow(rows).members)]
    <3>1. AllowedRow(rows).members \in 1..1000
      BY <2>5, AllowedBounds
    <3>2. LimitOf(ask, AllowedRow(rows).members) \in 1..1000
      <4>1. /\ ask \in RedisAsk /\ ~LimitIsRefused(ask, AllowedRow(rows).members)
            /\ AllowedRow(rows).members \in Limits
        BY <2>5, <3>1 DEF Limits
      <4>2. LimitOf(ask, AllowedRow(rows).members) \in Limits
        BY ONLY <4>1, LimitIsKept
      <4> QED
        BY <4>2 DEF Limits
    <3>3. /\ DOMAIN redisCall' = RedisFields /\ redisCall'.pc = "type"
          /\ redisCall'.status = "none" /\ redisCall'.changes = 0
          /\ redisCall'.limit = LimitOf(ask, AllowedRow(rows).members)
      BY <2>5 DEF NoCall, RedisFields
    <3> QED
      BY <2>1, <2>2, <3>2, <3>3 DEF RedisInv, RedisOnItsWay, ReadIsBounded, UntruncatedIsWhole
  <2> QED
    BY <2>1, <2>3, <2>4, <2>5
<1>3. CASE ReadType
  BY <1>3 DEF ReadType, RedisInv, RedisFields, RedisOnItsWay, ReadIsBounded, UntruncatedIsWhole
<1>4. CASE ReadTtl
  <2>1. IsContent(redisKey')
    BY <1>4 DEF ReadTtl, RedisInv
  <2>2. CASE EndCall("absent") \/ EndCall("query_failed")
    BY <2>1, <2>2, CallEnds
  <2>3. CASE RedisGoesOn("count")
    <3>1. /\ DOMAIN redisCall' = RedisFields /\ redisCall'.pc = "count"
          /\ \A field \in RedisFields \ {"pc"} : redisCall'[field] = redisCall[field]
      BY <2>3 DEF RedisGoesOn, RedisInv, RedisFields
    <3>2. /\ redisCall'.limit = redisCall.limit /\ redisCall'.status = redisCall.status
          /\ redisCall'.changes = redisCall.changes /\ redisCall'.type = redisCall.type
      BY <3>1 DEF RedisFields
    <3>3. redisKey' = redisKey /\ redisCall.pc = "ttl" /\ redisCall.status = "none"
      BY <1>4 DEF ReadTtl, RedisInv, RedisOnItsWay
    <3> QED
      BY <2>1, <3>1, <3>2, <3>3 DEF RedisInv, RedisOnItsWay, ReadIsBounded, UntruncatedIsWhole
  <2> QED
    BY <1>4, <2>2, <2>3 DEF ReadTtl
<1>5. CASE ReadCount
  <2>1. IsContent(redisKey')
    BY <1>5 DEF ReadCount, RedisInv
  <2>2. CASE EndCall("query_failed")
    BY <2>1, <2>2, CallEnds
  <2>3. CASE redisCall' = [redisCall EXCEPT !.pc = "value", !.count = CountOf(redisKey)]
    <3>1. /\ DOMAIN redisCall' = RedisFields /\ redisCall'.pc = "value"
          /\ redisCall'.count = CountOf(redisKey)
          /\ redisCall'.limit = redisCall.limit /\ redisCall'.status = redisCall.status
          /\ redisCall'.changes = redisCall.changes /\ redisCall'.type = redisCall.type
      BY <2>3 DEF RedisInv, RedisFields
    <3>2. redisKey' = redisKey /\ redisCall.pc = "count" /\ redisCall.status = "none"
      BY <1>5 DEF ReadCount, RedisInv, RedisOnItsWay
    <3>3. CountOf(redisKey)' = CountOf(redisKey)
      BY <3>2
    <3> QED
      BY <2>1, <3>1, <3>2, <3>3 DEF RedisInv, RedisOnItsWay, ReadIsBounded, UntruncatedIsWhole
  <2> QED
    BY <1>5, <2>2, <2>3 DEF ReadCount
<1>6. CASE CommandFails
  BY <1>6 DEF CommandFails, EndCall, RedisInv, RedisFields, RedisOnItsWay,
              ReadIsBounded, UntruncatedIsWhole
<1>7. CASE KeyChanges
  BY <1>7, RedisAssumption DEF KeyChanges, RedisInv, RedisFields, RedisOnItsWay,
              ReadIsBounded, UntruncatedIsWhole
<1>8. CASE ForgetRead
  <2>1. redisCall' = NoCall /\ redisKey' = RedisAbsent
    BY <1>8 DEF ForgetRead
  <2>2. IsContent(RedisAbsent)
    BY DEF RedisAbsent, IsContent
  <2> QED
    BY <2>1, <2>2 DEF NoCall, RedisInv, RedisFields, RedisOnItsWay, ReadIsBounded,
                       UntruncatedIsWhole
<1> QED
  BY <1>1, <1>2, <1>3, <1>4, <1>5, <1>6, <1>7, <1>8, ValueShows, ScanShows DEF RedisNext

(* At every command the limit is one of 1 to 1000, and type and length are *)
(* those of the key unless somebody changed it since.                      *)
THEOREM RedisInductive == Spec => []RedisInv
<1>1. Init => RedisInv
  BY NoneInvariant DEF Init, RedisInit
<1>2. RedisInv /\ [Next]_toolVars => RedisInv'
  BY RedisSteps, StepsAreLocal
<1> QED
  BY <1>1, <1>2, PTL DEF Spec

(* A limit is kept even if the key changes while it is read. *)
THEOREM ReadsAreBounded == Spec => []ReadIsBounded
<1>1. RedisInv => ReadIsBounded
  BY DEF RedisInv
<1> QED
  BY <1>1, RedisInductive, PTL

(* An answer that shows a part of the key says so. *)
THEOREM UntruncatedReadsAreWhole == Spec => []UntruncatedIsWhole
<1>1. RedisInv => UntruncatedIsWhole
  BY DEF RedisInv
<1> QED
  BY <1>1, RedisInductive, PTL

-----------------------------------------------------------------------------
(* The kubernetes tools: what a command line says, read as kubectl reads   *)
(* it, and what the allowlist permits.                                     *)

LEMMA GivenAmong ==
  ASSUME NEW S, NEW optional \in SUBSET S, NEW default \in S
  PROVE  Given(optional, default) \in S
BY DEF Given

LEMMA GivenOnly ==
  ASSUME NEW optional, NEW default, NEW value \in optional, \A a, b \in optional : a = b
  PROVE  Given(optional, default) = value /\ optional = {value}
BY DEF Given

LEMMA WithinGiven ==
  ASSUME NEW optional, NEW low \in Int, NEW high \in Int, Within(optional, low, high),
         NEW default \in Int
  PROVE  Given(optional, default) \in Int
<1>1. optional \in SUBSET Int
  BY DEF Within
<1> QED
  BY <1>1, GivenAmong

LEMMA AliasesDiffer ==
  /\ \A f \in DOMAIN Alias : f \in Alias[f]
  /\ \A r : \A f, g \in DOMAIN Alias : r \in Alias[f] /\ r \in Alias[g] => f = g
BY DEF Alias

LEMMA NormalizedTwice ==
  ASSUME NEW resource
  PROVE  /\ NormalizeResource(NormalizeResource(resource)) = NormalizeResource(resource)
         /\ resource \in KubeName => NormalizeResource(resource) \in KubeName
<1>1. DOMAIN Alias \subseteq KubeName
  BY KubeAssumption
<1>2. CASE \E full \in DOMAIN Alias : resource \in Alias[full]
  <2>1. NormalizeResource(resource) \in DOMAIN Alias
    BY <1>2 DEF NormalizeResource
  <2> DEFINE full == NormalizeResource(resource)
  <2>2. NormalizeResource(full) \in DOMAIN Alias /\ full \in Alias[NormalizeResource(full)]
    BY <2>1, AliasesDiffer DEF NormalizeResource
  <2> HIDE DEF full
  <2>3. NormalizeResource(full) = full
    BY <2>1, <2>2, AliasesDiffer DEF full
  <2> QED
    BY <1>1, <2>1, <2>3 DEF full
<1>3. CASE ~\E full \in DOMAIN Alias : resource \in Alias[full]
  BY <1>3 DEF NormalizeResource
<1> QED
  BY <1>2, <1>3

LEMMA WordSays ==
  \A text : /\ Word(text).text = text /\ Word(text).flag = FALSE
            /\ Word(text).eq = {} /\ Word(text).slash = {}
BY DEF Word

LEMMA FlagSays ==
  \A text : /\ Flag(text).text = text /\ Flag(text).flag = TRUE
            /\ Flag(text).eq = {} /\ Flag(text).slash = {}
BY DEF Flag, Word

LEMMA SlashedSays ==
  \A text, name : /\ Slashed(text, name).text = text /\ Slashed(text, name).flag = FALSE
                  /\ Slashed(text, name).eq = {} /\ Slashed(text, name).slash = {name}
BY DEF Slashed, Word

LEMMA ValuedSays ==
  \A text, value : /\ Valued(text, value).text = text /\ Valued(text, value).flag = TRUE
                   /\ Valued(text, value).eq = {value}
BY DEF Valued, Flag, Word

(* What stands after a flag that takes a value is no positional. *)
LEMMA ValueIsNoPositional ==
  ASSUME NEW line, NEW start \in Nat, NEW i \in Nat, i - 1 > start,
         TakesValue(line[i - 1]), ~TakesValue(line[i - 2])
  PROVE  i \notin Positionals(line, start)
<1> DEFINE before == {j \in start + 1..i - 1 : \A k \in j..i - 1 : TakesValue(line[k])}
<1>1. before = {i - 1}
  <2>1. i - 1 \in before
    <3>1. \A k \in i - 1..i - 1 : k = i - 1
      OBVIOUS
    <3> QED
      BY <3>1
  <2>2. ASSUME NEW j \in before PROVE j = i - 1
    <3>1. i - 2 \notin j..i - 1
      OBVIOUS
    <3> QED
      BY <3>1
  <2> HIDE DEF before
  <2> QED
    BY <2>1, <2>2
<1> HIDE DEF before
<1>2. Cardinality(before) % 2 = 1
  <2>1. Cardinality({i - 1}) = 1
    BY FS_Singleton
  <2> QED
    BY <1>1, <2>1
<1> QED
  BY <1>2 DEF Positionals, before

LEMMA WordIsPositional ==
  ASSUME NEW line, NEW start \in Nat, NEW i \in start + 1..Len(line), Len(line) \in Nat,
         ~TakesValue(line[i]), ~line[i].flag,
         i = start + 1 \/ ~TakesValue(line[i - 1])
  PROVE  i \in Positionals(line, start)
<1> DEFINE before == {j \in start + 1..i - 1 : \A k \in j..i - 1 : TakesValue(line[k])}
<1>1. before = {}
  <2> SUFFICES ASSUME NEW j \in before PROVE FALSE
    OBVIOUS
  <2>1. j \in start + 1..i - 1 /\ i - 1 \in j..i - 1
    OBVIOUS
  <2> QED
    BY <2>1
<1> HIDE DEF before
<1>2. Cardinality(before) % 2 = 0
  <2>1. Cardinality({}) = 0
    BY FS_EmptySet
  <2> QED
    BY <1>1, <2>1
<1> QED
  BY <1>2 DEF Positionals, before

LEMMA LeastOf ==
  ASSUME NEW S, NEW x \in S, x \in Int, \A y \in S : y \in Int /\ x <= y
  PROVE  Min(S) = x
<1>1. ASSUME NEW z \in S, \A y \in S : z <= y
      PROVE  z = x
  <2>1. z <= x /\ x <= z /\ z \in Int
    BY <1>1
  <2> QED
    BY ONLY <2>1, x \in Int
<1> QED
  BY <1>1 DEF Min

Named(namespace, resource, name, action) ==
  [namespace |-> namespace, resource |-> resource, name |-> name, action |-> action]

(* kubectl's reading of a line with one namespace and one target. *)
LEMMA NamespaceRead ==
  ASSUME NEW line, NEW p \in Int, Namespaces(line) = {p}
  PROVE  KubectlNamespace(line) =
           IF line[p].eq # {} THEN line[p].eq ELSE {Whole(line[p + 1])}
<1>1. Max({p}) = p
  BY DEF Max
<1> QED
  BY <1>1 DEF KubectlNamespace

LEMMA TargetOne ==
  ASSUME NEW line, NEW first \in Int, KubectlArguments(line) = {first},
         line[1].text # "logs"
  PROVE  Targets(line) = {Target(NormalizeResource(line[first].text), line[first].slash)}
<1>1. Min({first}) = first
  BY LeastOf
<1> QED
  BY <1>1 DEF Targets

LEMMA TargetNamed ==
  ASSUME NEW line, NEW first \in Int, NEW second \in Int, first < second,
         KubectlArguments(line) = {first, second}, line[first].slash = {},
         line[1].text # "logs"
  PROVE  Targets(line) = {Target(NormalizeResource(line[first].text), {Whole(line[second])})}
<1> DEFINE at == {first, second}
           resource == NormalizeResource(line[first].text)
<1>1. Min(at) = first /\ at \ {first} = {second} /\ at # {first}
  BY LeastOf
<1> HIDE DEF at, resource
<1>2. Targets(line) = {Target(resource, {Whole(line[i])}) : i \in {second}}
  BY <1>1 DEF Targets, at, resource
<1> QED
  BY <1>2 DEF resource

LEMMA AsksForOne ==
  ASSUME NEW line, NEW namespace, NEW resource, NEW name,
         KubectlNamespace(line) = {namespace}, Targets(line) = {Target(resource, name)}
  PROVE  KubectlAsks(line) = {Named(namespace, resource, name, ActionOn(line, name))}
<1> DEFINE target == Target(resource, name)
<1>1. target.resource = resource /\ target.name = name
  BY DEF Target
<1> HIDE DEF target
<1>2. KubectlAsks(line) =
        {Named(n, t.resource, t.name, ActionOn(line, t.name)) :
           n \in {namespace}, t \in {target}}
  BY DEF KubectlAsks, Named, target
<1>3. KubectlAsks(line) =
        {Named(namespace, target.resource, target.name, ActionOn(line, target.name))}
  BY ONLY <1>2
<1> QED
  BY <1>1, <1>3

(* Names are no flags, and the flags of the lines that are built are known. *)
LEMMA KnownFlags ==
  /\ {"-n", "-o", "-l", "-c", "--tail"} \subseteq KubectlValued
  /\ \A text \in KubeName : text \notin KubectlValued
  /\ ValueFlags \subseteq KubectlValued
BY KubeAssumption DEF ValueFlags

LEMMA NamespaceFound ==
  ASSUME NEW line, NEW p \in Int, NEW namespace, Namespaces(line) = {p},
         line[p].eq = {}, line[p + 1].slash = {}, line[p + 1].text = namespace
  PROVE  KubectlNamespace(line) = {namespace}
BY NamespaceRead DEF Whole

LEMMA ListLineSays ==
  ASSUME NEW ask \in KubeAsk, ask.tool = "list", ~ListIsRefused(ask)
  PROVE  KubectlAsks(ListLine(ask)) =
           {Subject(ask, NormalizeResource(ask.resource), "list")}
<1> DEFINE line == ListLine(ask)
           resource == NormalizeResource(ask.resource)
<1>1. /\ NormalizeResource(resource) = resource /\ ask.name = {}
      /\ resource \in KubeName /\ ask.namespace \in KubeName
  BY NormalizedTwice, KubeAssumption DEF IsKubeAsk, ListIsRefused
<1>2. /\ Len(line) \in {6, 8} /\ DOMAIN line = 1..Len(line)
      /\ line[1] = Word("get") /\ line[2] = Word(resource)
      /\ line[3] = Flag("-n") /\ line[4] = Word(ask.namespace)
      /\ line[5] = Flag("-o") /\ line[6] = Word("json")
      /\ Len(line) = 8 => line[7] = Flag("-l")
  BY DEF ListLine, InNamespace
<1> HIDE DEF line, resource
<1>3. /\ line[1].text = "get" /\ ~line[1].flag
      /\ line[2].text = resource /\ ~line[2].flag /\ line[2].slash = {}
      /\ line[3].text = "-n" /\ line[3].flag /\ line[3].eq = {}
      /\ line[4].text = ask.namespace /\ ~line[4].flag /\ line[4].slash = {}
      /\ line[5].text = "-o" /\ line[5].flag /\ line[5].eq = {}
      /\ ~line[6].flag
      /\ Len(line) = 8 => line[7].text = "-l" /\ line[7].flag /\ line[7].eq = {}
  BY <1>2, WordSays, FlagSays
<1>4. /\ ~TakesNext(line[1]) /\ ~TakesNext(line[2]) /\ ~TakesNext(line[4])
      /\ TakesNext(line[3]) /\ TakesNext(line[5])
      /\ Len(line) = 8 => TakesNext(line[7])
  BY <1>3, KnownFlags DEF TakesNext
<1>5. /\ ~IsValue(line, 2) /\ ~IsValue(line, 3)
      /\ IsValue(line, 4) /\ IsValue(line, 6)
      /\ Len(line) = 8 => IsValue(line, 8)
  BY <1>4 DEF IsValue
<1>6. Namespaces(line) = {3}
  BY <1>2, <1>3, <1>5 DEF Namespaces
<1>7. KubectlArguments(line) = {2}
  <2>1. KubectlArguments(line) =
          {i \in 2..Len(line) : ~line[i].flag /\ ~IsValue(line, i)}
    BY <1>3 DEF KubectlArguments
  <2>2. \A i \in 2..Len(line) : ~line[i].flag /\ ~IsValue(line, i) <=> i = 2
    BY <1>2, <1>3, <1>5
  <2> QED
    BY <1>2, <2>1, <2>2
<1>8. KubectlNamespace(line) = {ask.namespace}
  <2> DEFINE p == 3
  <2>1. /\ p \in Int /\ Namespaces(line) = {p} /\ line[p].eq = {}
        /\ line[p + 1].slash = {} /\ line[p + 1].text = ask.namespace
    BY <1>3, <1>6
  <2> HIDE DEF p
  <2> QED
    BY ONLY <2>1, NamespaceFound
<1>9. Targets(line) = {Target(resource, {})}
  <2> DEFINE first == 2
  <2>1. /\ KubectlArguments(line) = {first} /\ first \in Int /\ line[1].text # "logs"
        /\ line[first].text = resource /\ line[first].slash = {}
    BY <1>3, <1>7
  <2> HIDE DEF first
  <2>2. Targets(line) = {Target(NormalizeResource(line[first].text), line[first].slash)}
    BY ONLY <2>1, TargetOne
  <2> QED
    BY <1>1, <2>1, <2>2
<1>10. KubectlAsks(line) = {Named(ask.namespace, resource, {}, ActionOn(line, {}))}
  BY ONLY <1>8, <1>9, AsksForOne
<1>11. ActionOn(line, {}) = "list"
  BY <1>3 DEF ActionOn
<1> QED
  BY <1>1, <1>10, <1>11 DEF Named, Subject, line, resource

LEMMA GetLineSays ==
  ASSUME NEW ask \in KubeAsk, ask.tool = "get", ~GetIsRefused(ask)
  PROVE  KubectlAsks(GetLine(ask)) =
           {Subject(ask, NormalizeResource(ask.resource), "get")}
<1> DEFINE line == GetLine(ask)
           resource == NormalizeResource(ask.resource)
           name == Given(ask.name, "")
<1>1. /\ NormalizeResource(resource) = resource
      /\ resource \in KubeName /\ ask.namespace \in KubeName
  BY NormalizedTwice DEF GetIsRefused
<1>2. name \in KubeName /\ ask.name = {name}
  <2>1. ask.name # {} /\ ask.name \subseteq KubeName /\ \A a, b \in ask.name : a = b
    BY KubeAssumption DEF GetIsRefused, IsKubeAsk
  <2> QED
    BY <2>1, GivenOnly
<1>3. /\ Len(line) = 7 /\ DOMAIN line = 1..Len(line)
      /\ line[1] = Word("get") /\ line[2] = Word(resource) /\ line[3] = Word(name)
      /\ line[4] = Flag("-n") /\ line[5] = Word(ask.namespace)
      /\ line[6] = Flag("-o") /\ line[7] = Word("json")
  BY DEF GetLine, InNamespace
<1> HIDE DEF line, resource, name
<1>4. /\ line[1].text = "get" /\ ~line[1].flag
      /\ line[2].text = resource /\ ~line[2].flag /\ line[2].slash = {}
      /\ line[3].text = name /\ ~line[3].flag /\ line[3].slash = {}
      /\ line[4].text = "-n" /\ line[4].flag /\ line[4].eq = {}
      /\ line[5].text = ask.namespace /\ ~line[5].flag /\ line[5].slash = {}
      /\ line[6].text = "-o" /\ line[6].flag /\ line[6].eq = {}
      /\ ~line[7].flag
  BY <1>3, WordSays, FlagSays
<1>5. /\ ~TakesNext(line[1]) /\ ~TakesNext(line[2]) /\ ~TakesNext(line[3])
      /\ ~TakesNext(line[5]) /\ TakesNext(line[4]) /\ TakesNext(line[6])
  BY <1>4, KnownFlags DEF TakesNext
<1>6. /\ ~IsValue(line, 2) /\ ~IsValue(line, 3) /\ ~IsValue(line, 4)
      /\ IsValue(line, 5) /\ IsValue(line, 7)
  BY <1>5 DEF IsValue
<1>7. Namespaces(line) = {4}
  BY <1>3, <1>4, <1>6 DEF Namespaces
<1>8. KubectlArguments(line) = {2, 3}
  <2>1. KubectlArguments(line) =
          {i \in 2..Len(line) : ~line[i].flag /\ ~IsValue(line, i)}
    BY <1>4 DEF KubectlArguments
  <2>2. \A i \in 2..Len(line) : ~line[i].flag /\ ~IsValue(line, i) <=> i \in {2, 3}
    BY <1>3, <1>4, <1>6
  <2> QED
    BY <1>3, <2>1, <2>2
<1>9. KubectlNamespace(line) = {ask.namespace}
  <2> DEFINE p == 4
  <2>1. /\ p \in Int /\ Namespaces(line) = {p} /\ line[p].eq = {}
        /\ line[p + 1].slash = {} /\ line[p + 1].text = ask.namespace
    BY <1>4, <1>7
  <2> HIDE DEF p
  <2> QED
    BY ONLY <2>1, NamespaceFound
<1>10. Targets(line) = {Target(resource, {name})}
  <2> DEFINE first == 2
             second == 3
  <2>1. /\ KubectlArguments(line) = {first, second} /\ first \in Int /\ second \in Int
        /\ first < second /\ line[1].text # "logs"
        /\ line[first].text = resource /\ line[first].slash = {}
        /\ Whole(line[second]) = name
    BY <1>4, <1>8 DEF Whole
  <2> HIDE DEF first, second
  <2>2. Targets(line) =
          {Target(NormalizeResource(line[first].text), {Whole(line[second])})}
    BY ONLY <2>1, TargetNamed
  <2> QED
    BY <1>1, <2>1, <2>2
<1>11. KubectlAsks(line) =
         {Named(ask.namespace, resource, {name}, ActionOn(line, {name}))}
  BY ONLY <1>9, <1>10, AsksForOne
<1>12. ActionOn(line, {name}) = "get"
  BY <1>4 DEF ActionOn
<1> QED
  BY <1>2, <1>11, <1>12 DEF Named, Subject, line, resource

LEMMA RolloutLineSays ==
  ASSUME NEW ask \in KubeAsk, ask.tool = "rollout", ~RolloutIsRefused(ask)
  PROVE  LET action == IF Given(ask.action, "status") = "history" THEN "rollout_history"
                       ELSE "rollout_status"
         IN KubectlAsks(RolloutLine(ask)) =
              {Subject(ask, NormalizeResource(ask.resource), action)}
<1> DEFINE line == RolloutLine(ask)
           resource == NormalizeResource(ask.resource)
           name == Given(ask.name, "")
           action == Given(ask.action, "status")
<1>1. /\ NormalizeResource(resource) = resource
      /\ resource \in KubeName /\ ask.namespace \in KubeName
      /\ action \in {"status", "history"}
  BY NormalizedTwice DEF GetIsRefused, RolloutIsRefused
<1>2. name \in KubeName /\ ask.name = {name}
  <2>1. ask.name # {} /\ ask.name \subseteq KubeName /\ \A a, b \in ask.name : a = b
    BY KubeAssumption DEF GetIsRefused, RolloutIsRefused, IsKubeAsk
  <2> QED
    BY <2>1, GivenOnly
<1> HIDE DEF name, action
<1>3. /\ Len(line) \in 5..7 /\ DOMAIN line = 1..Len(line)
      /\ line[1] = Word("rollout") /\ line[2] = Word(action)
      /\ line[3] = Slashed(resource, name)
      /\ line[4] = Flag("-n") /\ line[5] = Word(ask.namespace)
      /\ Len(line) > 5 => line[6] \in {Valued("--watch", "false"), Valued("--revision", "n")}
      /\ Len(line) > 6 => line[7] = Valued("--revision", "n")
  BY DEF RolloutLine, InNamespace, name, action
<1> HIDE DEF line, resource
<1>4. /\ line[1].text = "rollout" /\ ~line[1].flag
      /\ line[2].text = action /\ ~line[2].flag
      /\ line[3].text = resource /\ ~line[3].flag /\ line[3].slash = {name}
      /\ line[4].text = "-n" /\ line[4].flag /\ line[4].eq = {}
      /\ line[5].text = ask.namespace /\ ~line[5].flag /\ line[5].slash = {}
      /\ Len(line) > 5 => line[6].flag /\ line[6].text \in {"--watch", "--revision"}
      /\ Len(line) > 6 => line[7].flag /\ line[7].text = "--revision"
  BY <1>3, WordSays, FlagSays, SlashedSays, ValuedSays
<1>5. /\ ~TakesNext(line[1]) /\ ~TakesNext(line[2]) /\ ~TakesNext(line[3])
      /\ ~TakesNext(line[5]) /\ TakesNext(line[4])
  BY <1>4, KnownFlags DEF TakesNext
<1>6. ~IsValue(line, 3) /\ ~IsValue(line, 4) /\ IsValue(line, 5)
  BY <1>5 DEF IsValue
<1>7. Namespaces(line) = {4}
  BY <1>3, <1>4, <1>6 DEF Namespaces
<1>8. KubectlArguments(line) = {3}
  <2>1. KubectlArguments(line) =
          {i \in 3..Len(line) : ~line[i].flag /\ ~IsValue(line, i)}
    BY <1>4 DEF KubectlArguments
  <2>2. \A i \in 3..Len(line) : ~line[i].flag /\ ~IsValue(line, i) <=> i = 3
    BY <1>3, <1>4, <1>6
  <2> QED
    BY <1>3, <2>1, <2>2
<1>9. KubectlNamespace(line) = {ask.namespace}
  <2> DEFINE p == 4
  <2>1. /\ p \in Int /\ Namespaces(line) = {p} /\ line[p].eq = {}
        /\ line[p + 1].slash = {} /\ line[p + 1].text = ask.namespace
    BY <1>4, <1>7
  <2> HIDE DEF p
  <2> QED
    BY ONLY <2>1, NamespaceFound
<1>10. Targets(line) = {Target(resource, {name})}
  <2> DEFINE first == 3
  <2>1. /\ KubectlArguments(line) = {first} /\ first \in Int /\ line[1].text # "logs"
        /\ line[first].text = resource /\ line[first].slash = {name}
    BY <1>4, <1>8
  <2> HIDE DEF first
  <2>2. Targets(line) = {Target(NormalizeResource(line[first].text), line[first].slash)}
    BY ONLY <2>1, TargetOne
  <2> QED
    BY <1>1, <2>1, <2>2
<1>11. KubectlAsks(line) =
         {Named(ask.namespace, resource, {name}, ActionOn(line, {name}))}
  BY ONLY <1>9, <1>10, AsksForOne
<1>12. ActionOn(line, {name}) =
         IF action = "history" THEN "rollout_history" ELSE "rollout_status"
  BY <1>1, <1>4 DEF ActionOn
<1> QED
  BY <1>2, <1>11, <1>12 DEF Named, Subject, line, resource, action

LEMMA LogsLineSays ==
  ASSUME NEW ask \in KubeAsk, ask.tool = "logs", ~LogsAreRefused(ask)
  PROVE  KubectlAsks(LogsLine(ask)) = {Subject(ask, "pods", "logs")}
<1> DEFINE line == LogsLine(ask)
           name == Given(ask.name, "")
<1>1. ask.namespace \in KubeName
  BY DEF LogsAreRefused
<1>2. name \in KubeName /\ ask.name = {name}
  <2>1. ask.name # {} /\ ask.name \subseteq KubeName /\ \A a, b \in ask.name : a = b
    BY KubeAssumption DEF LogsAreRefused, IsKubeAsk
  <2> QED
    BY <2>1, GivenOnly
<1> HIDE DEF name
<1>3. /\ Len(line) \in {6, 8} /\ DOMAIN line = 1..Len(line)
      /\ line[1] = Word("logs") /\ line[2] = Word(name)
      /\ line[3] = Flag("-n") /\ line[4] = Word(ask.namespace)
      /\ line[5] = Flag("--tail") /\ line[6] = Word("n")
      /\ Len(line) = 8 => line[7] = Flag("-c")
  BY DEF LogsLine, InNamespace, name
<1> HIDE DEF line
<1>4. /\ line[1].text = "logs" /\ ~line[1].flag
      /\ line[2].text = name /\ ~line[2].flag /\ line[2].slash = {}
      /\ line[3].text = "-n" /\ line[3].flag /\ line[3].eq = {}
      /\ line[4].text = ask.namespace /\ ~line[4].flag /\ line[4].slash = {}
      /\ line[5].text = "--tail" /\ line[5].flag /\ line[5].eq = {}
      /\ ~line[6].flag
      /\ Len(line) = 8 => line[7].text = "-c" /\ line[7].flag /\ line[7].eq = {}
  BY <1>3, WordSays, FlagSays
<1>5. /\ ~TakesNext(line[1]) /\ ~TakesNext(line[2]) /\ ~TakesNext(line[4])
      /\ TakesNext(line[3]) /\ TakesNext(line[5])
      /\ Len(line) = 8 => TakesNext(line[7])
  BY <1>4, KnownFlags DEF TakesNext
<1>6. /\ ~IsValue(line, 2) /\ ~IsValue(line, 3)
      /\ IsValue(line, 4) /\ IsValue(line, 6)
      /\ Len(line) = 8 => IsValue(line, 8)
  BY <1>5 DEF IsValue
<1>7. Namespaces(line) = {3}
  BY <1>3, <1>4, <1>6 DEF Namespaces
<1>8. KubectlArguments(line) = {2}
  <2>1. KubectlArguments(line) =
          {i \in 2..Len(line) : ~line[i].flag /\ ~IsValue(line, i)}
    BY <1>4 DEF KubectlArguments
  <2>2. \A i \in 2..Len(line) : ~line[i].flag /\ ~IsValue(line, i) <=> i = 2
    BY <1>3, <1>4, <1>6
  <2> QED
    BY <1>3, <2>1, <2>2
<1>9. KubectlNamespace(line) = {ask.namespace}
  <2> DEFINE p == 3
  <2>1. /\ p \in Int /\ Namespaces(line) = {p} /\ line[p].eq = {}
        /\ line[p + 1].slash = {} /\ line[p + 1].text = ask.namespace
    BY <1>4, <1>7
  <2> HIDE DEF p
  <2> QED
    BY ONLY <2>1, NamespaceFound
<1>10. Targets(line) = {Target("pods", {name})}
  <2>1. Targets(line) = {Target("pods", {Whole(line[i])}) : i \in {2}}
    BY <1>4, <1>8 DEF Targets
  <2>2. Whole(line[2]) = name
    BY <1>4 DEF Whole
  <2> QED
    BY <2>1, <2>2
<1>11. KubectlAsks(line) =
         {Named(ask.namespace, "pods", {name}, ActionOn(line, {name}))}
  BY ONLY <1>9, <1>10, AsksForOne
<1>12. ActionOn(line, {name}) = "logs"
  BY <1>4 DEF ActionOn
<1> QED
  BY <1>2, <1>11, <1>12 DEF Named, Subject, line

(* A command line of the raw tool. *)
IsLine(line) ==
  /\ Len(line) \in Nat /\ DOMAIN line = 1..Len(line)
  /\ \A i \in 1..Len(line) : IsWord(line[i])

RawVerb(line) ==
  \/ line[1].text \in {"get", "describe"}
  \/ /\ line[1].text = "rollout" /\ Len(line) > 1
     /\ line[2].text \in {"history", "status"}
VerbsOf(line) == IF line[1].text = "rollout" THEN 2 ELSE 1

(* On a line that says nothing twice the gateway and kubectl agree on what *)
(* a flag takes as its value.                                              *)
LEMMA ValuesAgree ==
  ASSUME NEW line, IsLine(line), SaysOnce(line), NEW i \in 1..Len(line)
  PROVE  /\ TakesValue(line[i]) <=> TakesNext(line[i])
         /\ TakesValue(line[i]) => line[i].flag /\ i < Len(line) /\ ~line[i + 1].flag
<1>1. IsWord(line[i]) /\ i \in DOMAIN line
  BY DEF IsLine
<1>2. TakesNext(line[i]) =>
        line[i].text \in ValueFlags /\ i < Len(line) /\ ~line[i + 1].flag
  BY <1>1 DEF SaysOnce
<1>3. TakesValue(line[i]) => TakesNext(line[i])
  BY <1>1, KnownFlags DEF TakesValue, TakesNext, IsWord
<1> QED
  BY <1>2, <1>3 DEF TakesValue, TakesNext

LEMMA PositionalsAgree ==
  ASSUME NEW line, IsLine(line), SaysOnce(line), Len(line) > 0, RawVerb(line)
  PROVE  Positionals(line, VerbsOf(line)) = KubectlArguments(line)
<1> DEFINE start == VerbsOf(line)
<1>1. start \in 1..2 /\ start <= Len(line) /\ ~TakesValue(line[start])
  BY DEF RawVerb, VerbsOf, TakesValue, ValueFlags, IsLine
<1>2. KubectlArguments(line) =
        {i \in start + 1..Len(line) : ~line[i].flag /\ ~IsValue(line, i)}
  BY DEF KubectlArguments, VerbsOf
<1> HIDE DEF start
<1>3. Len(line) \in Nat
  BY DEF IsLine
<1>4. ASSUME NEW i \in start + 1..Len(line), ~line[i].flag, ~IsValue(line, i)
      PROVE  i \in Positionals(line, start)
  <2>1. i \in 1..Len(line) /\ i - 1 \in 1..Len(line) /\ i > 1
    BY <1>1, <1>3
  <2>2. ~TakesValue(line[i]) /\ ~TakesValue(line[i - 1])
    BY <1>4, <2>1, ValuesAgree DEF IsValue
  <2>3. start \in Nat
    BY <1>1
  <2> QED
    BY <1>3, <1>4, <2>2, <2>3, WordIsPositional
<1>5. ASSUME NEW i \in Positionals(line, start)
      PROVE  i \in start + 1..Len(line) /\ ~line[i].flag /\ ~IsValue(line, i)
  <2>1. i \in start + 1..Len(line) /\ ~line[i].flag
    BY DEF Positionals
  <2>2. /\ i \in Nat /\ start \in Nat /\ i - 1 >= start
        /\ i - 1 \in 1..Len(line) /\ i - 2 \in 0..Len(line)
    BY <1>1, <1>3, <2>1
  <2>3. SUFFICES ASSUME IsValue(line, i) PROVE FALSE
    BY <2>1
  <2>4. TakesValue(line[i - 1])
    BY <2>2, <2>3, ValuesAgree DEF IsValue
  <2>5. i - 1 > start
    <3>1. i - 1 # start
      BY <1>1, <2>4
    <3> QED
      BY <2>2, <3>1
  <2>6. ~TakesValue(line[i - 2])
    <3>1. i - 2 \in 1..Len(line) /\ i - 2 + 1 = i - 1
      BY <1>1, <2>2, <2>5
    <3>2. line[i - 1].flag
      BY <2>2, <2>4, ValuesAgree
    <3>3. TakesValue(line[i - 2]) => ~line[i - 2 + 1].flag
      BY ONLY <3>1, ValuesAgree, IsLine(line), SaysOnce(line)
    <3> QED
      BY <3>1, <3>2, <3>3
  <2> QED
    BY <2>2, <2>4, <2>5, <2>6, ValueIsNoPositional
<1>6. Positionals(line, start) = KubectlArguments(line)
  BY <1>2, <1>4, <1>5
<1> QED
  BY <1>6 DEF start

LEMMA NamespacesAgree ==
  ASSUME NEW line, IsLine(line), SaysOnce(line), NEW namespace \in RawNamespace(line)
  PROVE  KubectlNamespace(line) = {namespace}
<1> DEFINE at == {i \in DOMAIN line : \/ line[i].text \in {"-n", "--namespace"} /\ line[i].eq = {}
                                      \/ line[i].text = "--namespace" /\ line[i].eq # {}}
           first == Min(at)
<1>1. /\ at # {}
      /\ namespace \in (IF line[first].eq # {} THEN line[first].eq
                        ELSE IF first < Len(line) THEN {Whole(line[first + 1])} ELSE {})
  BY DEF RawNamespace
<1>2. Len(line) \in Nat /\ at \in SUBSET Nat
  BY DEF IsLine
<1>3. at \subseteq Namespaces(line)
  <2> SUFFICES ASSUME NEW i \in at PROVE i \in Namespaces(line)
    OBVIOUS
  <2>1. i \in 1..Len(line) /\ IsWord(line[i]) /\ i \in Nat
    BY <1>2 DEF IsLine
  <2>2. line[i].flag
    BY <2>1, KnownFlags DEF IsWord, ValueFlags
  <2>3. ~IsValue(line, i)
    <3>1. SUFFICES ASSUME i > 1, TakesNext(line[i - 1]) PROVE FALSE
      BY DEF IsValue
    <3>2. i - 1 \in DOMAIN line /\ i - 1 + 1 = i
      BY <2>1, <3>1 DEF IsLine
    <3>3. ~line[i - 1 + 1].flag
      BY ONLY <3>1, <3>2, SaysOnce(line) DEF SaysOnce
    <3> QED
      BY <2>2, <3>2, <3>3
  <2> QED
    BY <2>1, <2>2, <2>3 DEF Namespaces, IsLine
<1> HIDE DEF at
<1>4. first \in at /\ first \in Int
  <2>1. at # {} /\ at \in SUBSET Nat
    BY <1>1, <1>2
  <2>2. first \in at
    BY ONLY <2>1, LeastIsThere
  <2> HIDE DEF first
  <2> QED
    BY ONLY <2>1, <2>2
<1>5. Namespaces(line) = {first}
  BY <1>3, <1>4 DEF SaysOnce
<1>6. \A a, b \in line[first].eq : a = b
  <2>1. IsWord(line[first])
    BY <1>4 DEF at, IsLine
  <2> QED
    BY <2>1 DEF IsWord
<1> HIDE DEF first
<1>7. KubectlNamespace(line) =
        IF line[first].eq # {} THEN line[first].eq ELSE {Whole(line[first + 1])}
  BY ONLY <1>4, <1>5, NamespaceRead
<1> QED
  BY <1>1, <1>6, <1>7

LEMMA TargetsAgree ==
  ASSUME NEW line, NEW at, at = KubectlArguments(line), at # {}, at \in SUBSET Nat,
         SaysOnce(line), line[1].text # "logs"
  PROVE  Targets(line) =
           {Target(NormalizeResource(line[Min(at)].text), RawName(line, at))}
<1> DEFINE first == Min(at)
<1>1. first \in at /\ first \in Int /\ \A i \in at : i \in Int /\ first <= i
  BY LeastIsThere
<1>2. \A i, j \in at : i < j => line[i].slash = {} /\ ~\E k \in at : j < k
  BY DEF SaysOnce
<1> HIDE DEF first
<1>3. CASE at = {first}
  <2>1. RawName(line, at) = line[first].slash
    BY <1>3 DEF RawName, first
  <2>2. KubectlArguments(line) = {first}
    BY <1>3
  <2>3. Targets(line) = {Target(NormalizeResource(line[first].text), line[first].slash)}
    BY <1>1, <2>2, TargetOne
  <2> QED
    BY <2>1, <2>3 DEF first
<1>4. CASE at # {first}
  <2> DEFINE rest == at \ {first}
             second == Min(rest)
  <2>1. rest # {} /\ rest \in SUBSET Nat
    BY <1>1, <1>4
  <2>2. second \in rest /\ \A i \in rest : second <= i
    BY <2>1, LeastIsThere
  <2> HIDE DEF second
  <2>3. second \in at /\ second \in Int /\ first < second
    BY <1>1, <2>2
  <2>4. line[first].slash = {}
    BY <1>1, <1>2, <2>3
  <2>5. \A i \in rest : i = second
    <3> SUFFICES ASSUME NEW i \in rest PROVE i = second
      OBVIOUS
    <3>1. ~(second < i)
      BY <1>1, <1>2, <2>3
    <3>2. second <= i /\ i \in Int
      BY <1>1, <2>2
    <3> QED
      BY <2>3, <3>1, <3>2
  <2>6. KubectlArguments(line) = {first, second}
    BY <1>1, <2>2, <2>5
  <2>7. Targets(line) =
          {Target(NormalizeResource(line[first].text), {Whole(line[second])})}
    BY <1>1, <2>3, <2>4, <2>6, TargetNamed
  <2>8. RawName(line, at) = {Whole(line[second])}
    BY <1>4, <2>4 DEF RawName, first, second
  <2> QED
    BY <2>7, <2>8 DEF first
<1> QED
  BY <1>3, <1>4

LEMMA ActionReplaced ==
  ASSUME NEW r, NEW namespace, NEW resource, NEW name, NEW before, NEW action,
         r = Named(namespace, resource, name, before)
  PROVE  [r EXCEPT !.action = action] = Named(namespace, resource, name, action)
<1>1. r = [namespace |-> namespace, resource |-> resource, name |-> name, action |-> before]
  BY DEF Named
<1>2. [r EXCEPT !.action = action] =
        [namespace |-> namespace, resource |-> resource, name |-> name, action |-> action]
  BY ONLY <1>1
<1> QED
  BY <1>2 DEF Named

LEMMA RawResourceSays ==
  ASSUME NEW line, NEW start, NEW r \in RawResource(line, start)
  PROVE  LET at == Positionals(line, start) IN
         /\ at # {} /\ r.namespace \in RawNamespace(line)
         /\ \A action : [r EXCEPT !.action = action] =
              Named(r.namespace, NormalizeResource(line[Min(at)].text),
                    RawName(line, at), action)
         /\ r.name = RawName(line, at)
<1> DEFINE at == Positionals(line, start)
           resource == NormalizeResource(line[Min(at)].text)
           name == RawName(line, at)
           blank == ""
<1>1. at # {} /\ r \in {Named(n, resource, name, blank) : n \in RawNamespace(line)}
  BY DEF RawResource, Named
<1> HIDE DEF at, resource, name, blank
<1>2. PICK n \in RawNamespace(line) : r = Named(n, resource, name, blank)
  BY <1>1
<1>3. r.namespace = n /\ r.name = name
  BY <1>2 DEF Named
<1>4. \A action : [r EXCEPT !.action = action] = Named(n, resource, name, action)
  <2>1. r = Named(n, resource, name, blank)
    BY <1>2
  <2> QED
    BY ONLY <2>1, ActionReplaced
<1> QED
  BY <1>1, <1>3, <1>4 DEF at, resource, name

(* The subject is the resource read, with the action on it. *)
LEMMA RawSubjectSays ==
  ASSUME NEW line, RawVerb(line), NEW s \in RawSubject(line)
  PROVE  \E r \in RawResource(line, VerbsOf(line)) :
           s = [r EXCEPT !.action = ActionOn(line, r.name)]
<1> DEFINE start == VerbsOf(line)
           Acted(action) == {[r EXCEPT !.action = action] : r \in RawResource(line, start)}
<1>1. ASSUME NEW action, NEW q \in Acted(action)
      PROVE  \E r \in RawResource(line, start) :
               q = [r EXCEPT !.action = action] /\ q.name = r.name
  <2>1. PICK r \in RawResource(line, start) : q = [r EXCEPT !.action = action]
    BY <1>1
  <2> DEFINE at == Positionals(line, start)
             resource == NormalizeResource(line[Min(at)].text)
             name == RawName(line, at)
  <2>2. q = Named(r.namespace, resource, name, action) /\ r.name = name
    BY <2>1, RawResourceSays
  <2> HIDE DEF at, resource, name, start
  <2>3. q.name = name
    BY <2>2 DEF Named
  <2> QED
    BY <2>1, <2>2, <2>3
<1>2. CASE line[1].text = "get"
  <2>1. \/ s \in Acted("list") /\ s.name = {}
        \/ s \in Acted("get") /\ s.name # {}
    BY <1>2 DEF RawSubject, VerbsOf
  <2>2. \A name : ActionOn(line, name) = IF name = {} THEN "list" ELSE "get"
    BY <1>2 DEF ActionOn
  <2> HIDE DEF start, Acted
  <2> QED
    BY <1>1, <2>1, <2>2 DEF start
<1>3. CASE line[1].text = "describe"
  <2>1. s \in Acted("describe")
    BY <1>3 DEF RawSubject, VerbsOf
  <2>2. \A name : ActionOn(line, name) = "describe"
    BY <1>3 DEF ActionOn
  <2> HIDE DEF start, Acted
  <2> QED
    BY <1>1, <2>1, <2>2 DEF start
<1>4. CASE line[1].text = "rollout"
  <2> DEFINE action == IF line[2].text = "status" THEN "rollout_status" ELSE "rollout_history"
  <2>1. s \in Acted(action)
    BY <1>4 DEF RawSubject, VerbsOf
  <2>2. \A name : ActionOn(line, name) = action
    BY <1>4 DEF ActionOn
  <2> HIDE DEF start, Acted, action
  <2> QED
    BY <1>1, <2>1, <2>2 DEF start
<1> QED
  BY <1>2, <1>3, <1>4 DEF RawVerb

(* A raw line that says nothing twice asks kubectl for what the gateway    *)
(* reads from it, and for nothing else.                                    *)
LEMMA RawLineSays ==
  ASSUME NEW line, IsLine(line), Len(line) > 0, RawVerb(line), SaysOnce(line),
         NEW s \in RawSubject(line)
  PROVE  KubectlAsks(line) = {s}
<1> DEFINE at == Positionals(line, VerbsOf(line))
           resource == NormalizeResource(line[Min(at)].text)
           name == RawName(line, at)
<1>1. PICK r \in RawResource(line, VerbsOf(line)) :
        s = [r EXCEPT !.action = ActionOn(line, r.name)]
  BY RawSubjectSays
<1> DEFINE namespace == r.namespace
<1>2. /\ at # {} /\ namespace \in RawNamespace(line) /\ r.name = name
      /\ s = Named(namespace, resource, name, ActionOn(line, r.name))
  BY <1>1, RawResourceSays
<1>3. at = KubectlArguments(line) /\ at \in SUBSET Nat
  <2>1. at = KubectlArguments(line)
    BY PositionalsAgree
  <2> HIDE DEF at
  <2>2. KubectlArguments(line) \in SUBSET Nat
    BY DEF KubectlArguments, IsLine
  <2> QED
    BY <2>1, <2>2
<1>4. line[1].text # "logs"
  BY DEF RawVerb
<1>5. Targets(line) = {Target(resource, name)}
  <2> HIDE DEF at
  <2> QED
    BY <1>2, <1>3, <1>4, TargetsAgree
<1> HIDE DEF at, resource, name, namespace
<1>6. KubectlNamespace(line) = {namespace}
  BY <1>2, NamespacesAgree
<1>7. KubectlAsks(line) = {Named(namespace, resource, name, ActionOn(line, name))}
  BY ONLY <1>5, <1>6, AsksForOne
<1> QED
  BY <1>2, <1>7

(* The least row for a resource is among the rows, and what it permits is  *)
(* within bounds.                                                          *)
RowPermits(rows, subject) ==
  \E i \in DOMAIN rows :
    /\ rows[i].enabled /\ subject.action \in rows[i].actions
    /\ rows[i].namespace = subject.namespace /\ rows[i].resource = subject.resource

LEMMA PolicyPermits ==
  ASSUME NEW rows \in KubeRows, NEW subject, LoadPolicy(rows, subject).outcome = "allowed"
  PROVE  /\ RowPermits(rows, subject)
         /\ LoadPolicy(rows, subject).items \in Int /\ LoadPolicy(rows, subject).items >= 1
         /\ LoadPolicy(rows, subject).bytes \in Int
         /\ LoadPolicy(rows, subject).tail \in Int
<1> DEFINE found == RowsFor(rows, subject)
           row == rows[Min(found)]
<1>1. /\ found # {} /\ subject.action \in row.actions
      /\ LoadPolicy(rows, subject) =
           [outcome |-> "allowed", items |-> Between(1, row.items, 1000),
            bytes |-> Between(1024, row.bytes, 1048576), tail |-> Between(1, row.tail, 5000)]
  BY DEF LoadPolicy
<1>2. rows \in Seq(ToSet(rows)) /\ \A r \in ToSet(rows) : {r.items, r.bytes, r.tail} \subseteq Int
  BY KubeAssumption
<1>3. found \in SUBSET Nat /\ found \subseteq DOMAIN rows
  BY <1>2, LenProperties DEF RowsFor
<1>4. Min(found) \in found
  BY <1>1, <1>3, LeastIsThere
<1>5. row \in ToSet(rows)
  BY <1>3, <1>4 DEF ToSet
<1>6. row.items \in Int /\ row.bytes \in Int /\ row.tail \in Int
  BY <1>2, <1>5
<1>7. RowPermits(rows, subject)
  BY <1>1, <1>3, <1>4 DEF RowPermits, RowsFor
<1> HIDE DEF row
<1>8. \A n \in Int : /\ Between(1, n, 1000) \in Int /\ Between(1, n, 1000) >= 1
                     /\ Between(1024, n, 1048576) \in Int /\ Between(1, n, 5000) \in Int
  BY DEF Between
<1> QED
  BY <1>1, <1>6, <1>7, <1>8

(* What a call is about to ask kubectl for. *)
Permitted(ask, rows, subject, line, policy, bytes, limit) ==
  /\ ask.tool # "raw" => ScopeOf(ask) = subject /\ KubectlAsks(line) = {subject}
  /\ policy.outcome = "allowed" =>
       /\ ask.tool = "raw" /\ SaysOnce(line) => KubectlAsks(line) = {subject}
       /\ RowPermits(rows, subject)
       /\ bytes <= policy.bytes
       /\ ask.tool = "list" => limit <= policy.items
       /\ ask.tool = "logs" => limit <= policy.tail
  /\ policy.outcome # "allowed" => bytes <= 65536 /\ IsClusterWide(line)

KubeInv == "pc" \in DOMAIN kubeCall /\ AskedIsPermitted

LEMMA ReadyIsPermitted ==
  ASSUME NEW ask, NEW rows, NEW subject, NEW line, NEW policy, NEW bytes, NEW limit,
         kubeRows' = rows, Ready(ask, subject, line, policy, bytes, limit),
         Permitted(ask, rows, subject, line, policy, bytes, limit)
  PROVE  KubeInv'
<1>1. /\ "pc" \in DOMAIN kubeCall' /\ kubeCall'.ask = {ask} /\ kubeCall'.policy = {policy}
      /\ kubeCall'.subject = subject /\ kubeCall'.line = line
      /\ kubeCall'.bytes = bytes /\ kubeCall'.limit = limit
  BY DEF Ready, NoKubeCall
<1> QED
  BY <1>1 DEF KubeInv, AskedIsPermitted, Permitted, RowPermits

LEMMA EndedIsPermitted ==
  ASSUME KubeInv, NEW status, EndKube(status)
  PROVE  KubeInv'
<1>1. "pc" \in DOMAIN kubeCall' /\ kubeCall'.pc = "done"
  BY DEF EndKube, KubeInv
<1> QED
  BY <1>1 DEF KubeInv, AskedIsPermitted

LEMMA ListIsPermitted ==
  ASSUME KubeInv, NEW ask \in KubeAsk, NEW rows \in KubeRows, kubeRows' = rows,
         ask.tool = "list", ListResources(ask, rows)
  PROVE  KubeInv'
<1> DEFINE subject == Subject(ask, NormalizeResource(ask.resource), "list")
           policy == LoadPolicy(rows, subject)
           limit == Given(ask.number, Between(1, policy.items, 100))
<1>1. CASE \E status : EndKube(status)
  BY <1>1, EndedIsPermitted
<1>2. CASE /\ ~ListIsRefused(ask) /\ policy.outcome = "allowed"
           /\ ~(Given(ask.number, 0) > policy.items)
           /\ Ready(ask, subject, ListLine(ask), policy, policy.bytes, limit)
  <2>1. KubectlAsks(ListLine(ask)) = {subject}
    BY <1>2, ListLineSays
  <2>2. ScopeOf(ask) = subject
    BY DEF ScopeOf, Subject, NormalizeLossy
  <2> HIDE DEF subject
  <2>3. /\ RowPermits(rows, subject) /\ policy.items \in Int /\ policy.items >= 1
        /\ policy.bytes \in Int
    BY <1>2, PolicyPermits
  <2> HIDE DEF policy
  <2>4. limit <= policy.items
    <3>1. CASE ask.number = {}
      <4>1. limit = Between(1, policy.items, 100)
        BY <3>1 DEF Given
      <4> QED
        BY <2>3, <4>1 DEF Between
    <3>2. CASE ask.number # {}
      <4>1. limit = Given(ask.number, 0)
        BY <3>2 DEF Given
      <4>2. Given(ask.number, 0) \in Int
        <5>1. Within(ask.number, 1, 1000)
          BY <1>2 DEF ListIsRefused
        <5> QED
          BY <5>1, WithinGiven
      <4> QED
        BY <1>2, <2>3, <4>1, <4>2
    <3> QED
      BY <3>1, <3>2
  <2> HIDE DEF limit
  <2>5. policy.outcome = "allowed" /\ policy.bytes <= policy.bytes
    BY <1>2, <2>3
  <2>6. Permitted(ask, rows, subject, ListLine(ask), policy, policy.bytes, limit)
    BY <2>1, <2>2, <2>3, <2>4, <2>5 DEF Permitted
  <2> QED
    BY <1>2, <2>6, ReadyIsPermitted
<1> QED
  BY <1>1, <1>2 DEF ListResources

LEMMA GetIsPermitted ==
  ASSUME KubeInv, NEW ask \in KubeAsk, NEW rows \in KubeRows, kubeRows' = rows,
         ask.tool = "get", GetResource(ask, rows)
  PROVE  KubeInv'
<1> DEFINE subject == Subject(ask, NormalizeResource(ask.resource), "get")
           policy == LoadPolicy(rows, subject)
<1>1. CASE \E status : EndKube(status)
  BY <1>1, EndedIsPermitted
<1>2. CASE /\ ~GetIsRefused(ask) /\ policy.outcome = "allowed"
           /\ Ready(ask, subject, GetLine(ask), policy, policy.bytes, 1)
  <2>1. KubectlAsks(GetLine(ask)) = {subject}
    BY <1>2, GetLineSays
  <2>2. ScopeOf(ask) = subject
    BY DEF ScopeOf, Subject, NormalizeLossy
  <2> HIDE DEF subject
  <2>3. RowPermits(rows, subject) /\ policy.bytes \in Int
    BY <1>2, PolicyPermits
  <2> HIDE DEF policy
  <2>4. policy.outcome = "allowed" /\ policy.bytes <= policy.bytes
    BY <1>2, <2>3
  <2>5. Permitted(ask, rows, subject, GetLine(ask), policy, policy.bytes, 1)
    BY <2>1, <2>2, <2>3, <2>4 DEF Permitted
  <2> QED
    BY <1>2, <2>5, ReadyIsPermitted
<1> QED
  BY <1>1, <1>2 DEF GetResource

LEMMA RolloutIsPermitted ==
  ASSUME KubeInv, NEW ask \in KubeAsk, NEW rows \in KubeRows, kubeRows' = rows,
         ask.tool = "rollout", RolloutStatus(ask, rows)
  PROVE  KubeInv'
<1> DEFINE action == IF Given(ask.action, "status") = "history" THEN "rollout_history"
                     ELSE "rollout_status"
           subject == Subject(ask, NormalizeResource(ask.resource), action)
           policy == LoadPolicy(rows, subject)
<1>1. CASE \E status : EndKube(status)
  BY <1>1, EndedIsPermitted
<1>2. CASE /\ ~RolloutIsRefused(ask) /\ policy.outcome = "allowed"
           /\ Ready(ask, subject, RolloutLine(ask), policy, policy.bytes, 1)
  <2>1. KubectlAsks(RolloutLine(ask)) = {subject}
    BY <1>2, RolloutLineSays
  <2>2. ask.action = {"history"} <=> Given(ask.action, "status") = "history"
    <3>1. \A a, b \in ask.action : a = b
      BY KubeAssumption DEF IsKubeAsk
    <3>2. CASE ask.action = {}
      BY <3>2 DEF Given
    <3>3. CASE ask.action # {}
      BY <3>1, <3>3 DEF Given
    <3> QED
      BY <3>2, <3>3
  <2>3. ScopeOf(ask) = subject
    BY <2>2 DEF ScopeOf, Subject, NormalizeLossy
  <2> HIDE DEF subject
  <2>4. RowPermits(rows, subject) /\ policy.bytes \in Int
    BY <1>2, PolicyPermits
  <2> HIDE DEF policy
  <2>5. policy.outcome = "allowed" /\ policy.bytes <= policy.bytes
    BY <1>2, <2>4
  <2>6. Permitted(ask, rows, subject, RolloutLine(ask), policy, policy.bytes, 1)
    BY <2>1, <2>3, <2>4, <2>5 DEF Permitted
  <2> QED
    BY <1>2, <2>6, ReadyIsPermitted
<1> QED
  BY <1>1, <1>2 DEF RolloutStatus

LEMMA LogsArePermitted ==
  ASSUME KubeInv, NEW ask \in KubeAsk, NEW rows \in KubeRows, kubeRows' = rows,
         ask.tool = "logs", PodLogs(ask, rows)
  PROVE  KubeInv'
<1> DEFINE subject == Subject(ask, "pods", "logs")
           policy == LoadPolicy(rows, subject)
           bytes == Given(ask.bytes, 65536)
           limit == Given(ask.number, 200)
<1>1. CASE \E status : EndKube(status)
  BY <1>1, EndedIsPermitted
<1>2. CASE /\ ~LogsAreRefused(ask) /\ policy.outcome = "allowed"
           /\ ~(limit > policy.tail) /\ ~(bytes > policy.bytes)
           /\ Ready(ask, subject, LogsLine(ask), policy, bytes, limit)
  <2>1. KubectlAsks(LogsLine(ask)) = {subject}
    BY <1>2, LogsLineSays
  <2>2. ScopeOf(ask) = subject
    BY DEF ScopeOf, Subject
  <2> HIDE DEF subject
  <2>3. RowPermits(rows, subject) /\ policy.bytes \in Int /\ policy.tail \in Int
    BY <1>2, PolicyPermits
  <2>4. bytes \in Int /\ limit \in Int
    <3>1. ~LogsAreRefused(ask)
      BY <1>2
    <3>2. Within(ask.number, 1, 5000) /\ Within(ask.bytes, 1024, 1048576)
      BY ONLY <3>1 DEF LogsAreRefused, BytesAreRefused
    <3> QED
      BY <3>2, WithinGiven
  <2> HIDE DEF policy, bytes, limit
  <2>5. policy.outcome = "allowed" /\ bytes <= policy.bytes /\ limit <= policy.tail
    BY <1>2, <2>3, <2>4
  <2>6. Permitted(ask, rows, subject, LogsLine(ask), policy, bytes, limit)
    BY <2>1, <2>2, <2>3, <2>5 DEF Permitted
  <2> QED
    BY <1>2, <2>6, ReadyIsPermitted
<1> QED
  BY <1>1, <1>2 DEF PodLogs

LEMMA RawIsPermitted ==
  ASSUME KubeInv, NEW ask \in KubeAsk, NEW rows \in KubeRows, kubeRows' = rows,
         ask.tool = "raw", RawRead(ask, rows)
  PROVE  KubeInv'
<1> DEFINE bytes == Given(ask.bytes, 65536)
           line == ask.line
           subject == CHOOSE s \in RawSubject(line) : TRUE
           policy == LoadPolicy(rows, subject)
           cluster == [outcome |-> "cluster"]
<1>1. CASE \E status : EndKube(status)
  BY <1>1, EndedIsPermitted
<1>2. ASSUME ~BytesAreRefused(ask)
      PROVE  bytes \in Int
  <2>1. Within(ask.bytes, 1024, 1048576)
    BY <1>2 DEF BytesAreRefused
  <2> QED
    BY <2>1, WithinGiven
<1> HIDE DEF bytes, subject
<1>3. CASE /\ ~BytesAreRefused(ask) /\ IsClusterWide(line)
           /\ Ready(ask, NoSubject, line, cluster, Between(0, bytes, 65536), 0)
  <2>1. Between(0, bytes, 65536) <= 65536
    BY <1>2, <1>3 DEF Between
  <2>2. cluster.outcome # "allowed"
    OBVIOUS
  <2> HIDE DEF cluster
  <2>3. Permitted(ask, rows, NoSubject, line, cluster, Between(0, bytes, 65536), 0)
    BY <1>3, <2>1, <2>2 DEF Permitted
  <2> QED
    BY <1>3, <2>3, ReadyIsPermitted
<1>4. CASE /\ ~RawIsRefused(line) /\ ~IsClusterWide(line) /\ RawSubject(line) # {}
           /\ ~BytesAreRefused(ask) /\ policy.outcome = "allowed" /\ ~(bytes > policy.bytes)
           /\ Ready(ask, subject, line, policy, bytes, 0)
  <2>1. RowPermits(rows, subject) /\ policy.bytes \in Int
    BY <1>4, PolicyPermits
  <2> HIDE DEF policy
  <2>2. policy.outcome = "allowed" /\ bytes <= policy.bytes
    BY <1>2, <1>4, <2>1
  <2>3. IsLine(line)
    <3>1. line \in Seq(ToSet(line)) /\ \A word \in ToSet(line) : IsWord(word)
      BY KubeAssumption DEF IsKubeAsk
    <3> HIDE DEF line
    <3> QED
      BY <3>1, LenProperties DEF IsLine, ToSet
  <2> HIDE DEF line
  <2>4. RawVerb(line) /\ Len(line) > 0
    <3>1. Len(line) \in Nat /\ Len(line) > 0
      BY <1>4, <2>3 DEF RawIsRefused, IsLine
    <3>2. \A word, text : Whole(word) = text /\ text # "/" => word.text = text
      BY DEF Whole
    <3> QED
      BY <1>4, <3>1, <3>2 DEF RawIsRefused, ReadsOnly, IsClusterWide, RawVerb
  <2>5. subject \in RawSubject(line)
    BY <1>4 DEF subject
  <2>6. SaysOnce(line) => KubectlAsks(line) = {subject}
    BY <2>3, <2>4, <2>5, RawLineSays
  <2>7. Permitted(ask, rows, subject, line, policy, bytes, 0)
    BY <2>1, <2>2, <2>6 DEF Permitted
  <2> QED
    BY <1>4, <2>7, ReadyIsPermitted DEF line
<1> QED
  BY <1>1, <1>3, <1>4 DEF RawRead, bytes, subject

LEMMA KubeSteps ==
  ASSUME KubeInv, [KubeNext]_kubeVars
  PROVE  KubeInv'
<1>1. CASE UNCHANGED kubeVars
  BY <1>1 DEF kubeVars, KubeInv, AskedIsPermitted
<1>2. CASE StartKube
  <2>1. PICK ask \in KubeAsk, rows \in KubeRows :
          /\ kubeRows' = rows
          /\ CASE ask.tool = "list" -> ListResources(ask, rows)
               [] ask.tool = "get" -> GetResource(ask, rows)
               [] ask.tool = "rollout" -> RolloutStatus(ask, rows)
               [] ask.tool = "logs" -> PodLogs(ask, rows)
               [] ask.tool = "raw" -> RawRead(ask, rows)
    BY <1>2 DEF StartKube
  <2>2. ask.tool \in {"list", "get", "rollout", "logs", "raw"}
    BY KubeAssumption DEF IsKubeAsk
  <2>3. \/ ask.tool = "list" /\ ListResources(ask, rows)
        \/ ask.tool = "get" /\ GetResource(ask, rows)
        \/ ask.tool = "rollout" /\ RolloutStatus(ask, rows)
        \/ ask.tool = "logs" /\ PodLogs(ask, rows)
        \/ ask.tool = "raw" /\ RawRead(ask, rows)
    BY <2>1, <2>2
  <2> QED
    BY <2>1, <2>3, ListIsPermitted, GetIsPermitted, RolloutIsPermitted, LogsArePermitted,
       RawIsPermitted
<1>3. CASE NoKubeconfig
  BY <1>3, EndedIsPermitted DEF NoKubeconfig
<1>4. CASE KubectlEnds
  <2>1. "pc" \in DOMAIN kubeCall' /\ kubeCall'.pc = "done"
    BY <1>4 DEF KubectlEnds, KubeInv
  <2> QED
    BY <2>1 DEF KubeInv, AskedIsPermitted
<1>5. CASE ForgetKube
  BY <1>5 DEF ForgetKube, NoKubeCall, KubeInv, AskedIsPermitted
<1> QED
  BY <1>1, <1>2, <1>3, <1>4, <1>5 DEF KubeNext

(* No step makes kubectl ready for a line of a typed tool that says        *)
(* anything but what was permitted, nor for a raw line that says nothing   *)
(* twice and something that was not permitted.                             *)
LEMMA KubeInductive == Spec => []KubeInv
<1>1. Init => KubeInv
  BY DEF Init, KubeInit, KubeIdle, NoKubeCall, KubeInv, AskedIsPermitted
<1>2. KubeInv /\ [Next]_toolVars => KubeInv'
  BY KubeSteps, StepsAreLocal
<1> QED
  BY <1>1, <1>2, PTL DEF Spec

(* All that kubectl reads from a line of a typed tool is the one subject   *)
(* that the access policies saw and a row of the allowlist permits. All    *)
(* that it reads from a raw line that says nothing twice is the subject    *)
(* that a row permits; of other raw lines nothing is claimed.              *)
THEOREM AskedWasPermitted == Spec => []AskedIsPermitted
<1>1. KubeInv => AskedIsPermitted
  BY DEF KubeInv
<1> QED
  BY <1>1, KubeInductive, PTL

===============================================================================
