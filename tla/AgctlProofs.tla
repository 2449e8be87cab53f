----------------------------- MODULE AgctlProofs -----------------------------
(***************************************************************************)
(* Proofs about Agctl for every set of operators, files and commands, and  *)
(* for any number of commands, faults and edits.                           *)
(*                                                                         *)
(* What is said of one operator is an operator of the store s and of the   *)
(* record r of its run: the steps of others leave the store alone, or end  *)
(* that this operator is alone with it.                                    *)
(***************************************************************************)
EXTENDS Agctl, ListingsProofs, SequenceTheorems

-----------------------------------------------------------------------------
(* Sequences of requests *)

LEMMA Counted ==
  ASSUME NEW n \in Nat, NEW t, t = [i \in 1..n |-> t[i]]
  PROVE  IsSequence(t) /\ DOMAIN t = 1..n /\ Len(t) = n
<1>1. DOMAIN t = 1..n
  OBVIOUS
<1>2. \A i \in 1..n : t[i] \in ToSet(t)
  BY <1>1 DEF ToSet
<1>3. t \in [1..n -> ToSet(t)]
  BY <1>2
<1>4. t \in Seq(ToSet(t)) /\ Len(t) = n
  BY <1>3
<1> QED
  BY <1>1, <1>4 DEF IsSequence

LEMMA Joined ==
  ASSUME NEW s, IsSequence(s), NEW t, IsSequence(t)
  PROVE  /\ IsSequence(s \o t)
         /\ ToSet(s \o t) = ToSet(s) \cup ToSet(t)
         /\ DOMAIN (s \o t) = 1..(Len(s) + Len(t))
         /\ \A i \in DOMAIN s : (s \o t)[i] = s[i]
         /\ \A i \in DOMAIN t : (s \o t)[Len(s) + i] = t[i]
         /\ s \o t = <<>> => s = <<>> /\ t = <<>>
<1> DEFINE S == ToSet(s) \cup ToSet(t)
           joined == s \o t
<1>1. s \in Seq(ToSet(s)) /\ t \in Seq(ToSet(t))
  BY DEF IsSequence
<1>2. s \in Seq(S) /\ t \in Seq(S)
  BY <1>1
<1>3. /\ Len(s) \in Nat /\ Len(t) \in Nat /\ DOMAIN s = 1..Len(s) /\ DOMAIN t = 1..Len(t)
      /\ joined \in Seq(S) /\ Len(joined) = Len(s) + Len(t)
      /\ \A i \in 1..Len(s) : joined[i] = s[i]
      /\ \A i \in 1..Len(t) : joined[Len(s) + i] = t[i]
  BY <1>2
<1> HIDE DEF joined
<1>4. DOMAIN joined = 1..(Len(s) + Len(t))
  BY <1>3
<1>5. \A i \in 1..(Len(s) + Len(t)) : i \in 1..Len(s) \/ \E k \in 1..Len(t) : i = Len(s) + k
  <2> SUFFICES ASSUME NEW i \in 1..(Len(s) + Len(t)), i \notin 1..Len(s)
               PROVE  \E k \in 1..Len(t) : i = Len(s) + k
    OBVIOUS
  <2>1. i - Len(s) \in 1..Len(t) /\ i = Len(s) + (i - Len(s))
    BY <1>3
  <2> QED
    BY <2>1
<1>6. \A k \in 1..Len(t) : Len(s) + k \in 1..(Len(s) + Len(t))
  BY <1>3
<1>7. \A k \in 1..Len(s) : k \in 1..(Len(s) + Len(t))
  BY <1>3
<1>8. ToSet(joined) = S
  <2>1. ASSUME NEW i \in DOMAIN joined PROVE joined[i] \in S
    <3>1. CASE i \in 1..Len(s)
      BY <1>3, <3>1 DEF ToSet
    <3>2. CASE \E k \in 1..Len(t) : i = Len(s) + k
      BY <1>3, <3>2 DEF ToSet
    <3> QED
      BY <1>4, <1>5, <3>1, <3>2
  <2>2. \A x \in S : x \in ToSet(joined)
    <3>1. \A x \in ToSet(s) : x \in ToSet(joined)
      BY <1>3, <1>4, <1>7 DEF ToSet
    <3>2. \A x \in ToSet(t) : x \in ToSet(joined)
      BY <1>3, <1>4, <1>6 DEF ToSet
    <3> QED
      BY <3>1, <3>2
  <2>3. \A x \in ToSet(joined) : x \in S
    BY <2>1 DEF ToSet
  <2> QED
    BY <2>2, <2>3
<1>9. joined = <<>> => s = <<>> /\ t = <<>>
  BY <1>2, <1>3
<1> QED
  BY <1>3, <1>4, <1>8, <1>9 DEF joined, IsSequence

LEMMA Headed ==
  ASSUME NEW s, IsSequence(s), s # <<>>
  PROVE  /\ IsSequence(Tail(s)) /\ Head(s) \in ToSet(s)
         /\ ToSet(s) = {Head(s)} \cup ToSet(Tail(s))
         /\ \A i \in DOMAIN Tail(s) : i + 1 \in DOMAIN s /\ Tail(s)[i] = s[i + 1]
         /\ 1 \in DOMAIN s /\ Head(s) = s[1] /\ DOMAIN Tail(s) \subseteq Nat \ {0}
<1> DEFINE rest == Tail(s)
<1>1. s \in Seq(ToSet(s))
  BY DEF IsSequence
<1>2. /\ Len(s) \in Nat /\ Len(s) > 0 /\ DOMAIN s = 1..Len(s) /\ Head(s) = s[1]
      /\ rest \in Seq(ToSet(s)) /\ Len(rest) = Len(s) - 1
      /\ \A i \in 1..(Len(s) - 1) : rest[i] = s[i + 1]
  BY <1>1
<1> HIDE DEF rest
<1>3. /\ DOMAIN rest = 1..(Len(s) - 1) /\ 1 \in DOMAIN s
      /\ \A i \in DOMAIN rest : i + 1 \in DOMAIN s
  BY <1>2
<1>4. \A i \in DOMAIN s : i = 1 \/ (i - 1 \in DOMAIN rest /\ i - 1 + 1 = i)
  BY <1>2, <1>3
<1>5. ToSet(s) = {s[1]} \cup ToSet(rest)
  <2>1. \A x \in ToSet(s) : x \in {s[1]} \cup ToSet(rest)
    BY <1>2, <1>3, <1>4 DEF ToSet
  <2>2. \A x \in {s[1]} \cup ToSet(rest) : x \in ToSet(s)
    BY <1>2, <1>3 DEF ToSet
  <2> QED
    BY <2>1, <2>2
<1>6. IsSequence(rest)
  <2>1. rest = [i \in 1..(Len(s) - 1) |-> rest[i]] /\ Len(s) - 1 \in Nat
    BY <1>2
  <2> QED
    BY <2>1, Counted
<1> QED
  BY <1>2, <1>3, <1>5, <1>6 DEF rest

LEMMA Mapped ==
  ASSUME NEW s, IsSequence(s), NEW t, t = [i \in DOMAIN s |-> t[i]]
  PROVE  IsSequence(t)
<1>1. Len(s) \in Nat /\ DOMAIN s = 1..Len(s)
  BY DEF IsSequence
<1> QED
  BY <1>1, Counted

(* An order that every queue keeps: the list of the policies to disable is *)
(* first or last, and no key is created once the policies have begun.      *)
MayPrecede(a, b) ==
  /\ a.what # "stale" /\ b.what # "managed"
  /\ a.what = "policy" => b.what # "key"

Ordered(todo) ==
  \A i, j \in DOMAIN todo : i < j => MayPrecede(todo[i], todo[j])

LEMMA OrderedTail ==
  ASSUME NEW s, IsSequence(s), s # <<>>, Ordered(s)
  PROVE  /\ Ordered(Tail(s))
         /\ \A q \in ToSet(Tail(s)) : MayPrecede(Head(s), q)
<1>1. /\ \A i \in DOMAIN Tail(s) : i + 1 \in DOMAIN s /\ Tail(s)[i] = s[i + 1]
      /\ 1 \in DOMAIN s /\ Head(s) = s[1] /\ DOMAIN Tail(s) \subseteq Nat \ {0}
  BY Headed
<1>2. \A i, j \in DOMAIN Tail(s) : i < j => i + 1 < j + 1
  BY <1>1
<1>3. \A i \in DOMAIN Tail(s) : 1 < i + 1
  BY <1>1
<1>4. Ordered(Tail(s))
  BY <1>1, <1>2 DEF Ordered
<1>5. \A i \in DOMAIN Tail(s) : MayPrecede(Head(s), Tail(s)[i])
  BY <1>1, <1>3 DEF Ordered
<1> QED
  BY <1>4, <1>5 DEF ToSet

LEMMA OrderedJoined ==
  ASSUME NEW s, IsSequence(s), Ordered(s), NEW t, IsSequence(t), Ordered(t),
         \A a \in ToSet(s), b \in ToSet(t) : MayPrecede(a, b)
  PROVE  Ordered(s \o t)
<1> DEFINE joined == s \o t
<1>1. /\ DOMAIN joined = 1..(Len(s) + Len(t))
      /\ \A i \in DOMAIN s : joined[i] = s[i]
      /\ \A i \in DOMAIN t : joined[Len(s) + i] = t[i]
  <2>1. DOMAIN joined = 1..(Len(s) + Len(t))
    BY Joined
  <2>2. \A i \in DOMAIN s : joined[i] = s[i]
    <3>1. s \in Seq(ToSet(s)) /\ t \in Seq(ToSet(t))
      BY DEF IsSequence
    <3> QED
      BY <3>1, Joined
  <2>3. \A i \in DOMAIN t : joined[Len(s) + i] = t[i]
    BY Joined
  <2> QED
    BY <2>1, <2>2, <2>3
<1>2. Len(s) \in Nat /\ Len(t) \in Nat /\ DOMAIN s = 1..Len(s) /\ DOMAIN t = 1..Len(t)
  BY DEF IsSequence
<1> HIDE DEF joined
<1>3. ASSUME NEW i \in DOMAIN joined, NEW j \in DOMAIN joined, i < j
      PROVE  MayPrecede(joined[i], joined[j])
  <2>1. CASE i \in DOMAIN s /\ j \in DOMAIN s
    BY <1>1, <1>3, <2>1 DEF Ordered
  <2>2. ASSUME j \notin DOMAIN s
        PROVE  /\ j - Len(s) \in DOMAIN t /\ j = Len(s) + (j - Len(s))
               /\ joined[j] = t[j - Len(s)]
    <3>1. j - Len(s) \in DOMAIN t /\ j = Len(s) + (j - Len(s))
      BY <1>1, <1>2, <2>2
    <3> QED
      BY <1>1, <3>1
  <2>3. CASE i \in DOMAIN s /\ j \notin DOMAIN s
    <3>1. joined[i] \in ToSet(s) /\ joined[j] \in ToSet(t)
      BY <1>1, <2>2, <2>3 DEF ToSet
    <3> QED
      BY <3>1
  <2>4. CASE i \notin DOMAIN s
    <3>1. i - Len(s) \in DOMAIN t /\ i = Len(s) + (i - Len(s))
      BY <1>1, <1>2, <2>4
    <3>2. joined[i] = t[i - Len(s)]
      BY <1>1, <3>1
    <3>3. j \notin DOMAIN s
      BY <1>1, <1>2, <1>3, <2>4
    <3>4. i - Len(s) < j - Len(s)
      BY <1>1, <1>2, <1>3
    <3> QED
      BY <2>2, <3>1, <3>2, <3>3, <3>4 DEF Ordered
  <2> QED
    BY <2>1, <2>3, <2>4
<1> QED
  BY <1>3 DEF Ordered, joined

LEMMA PostsAre ==
  ASSUME NEW what, NEW bodies, IsSequence(bodies)
  PROVE  /\ IsSequence(Posts(what, bodies))
         /\ ToSet(Posts(what, bodies)) = {[what |-> what, body |-> b] : b \in ToSet(bodies)}
         /\ \A q \in ToSet(Posts(what, bodies)) : q.what = what /\ q.body \in ToSet(bodies)
         /\ what \notin {"stale", "managed"} => Ordered(Posts(what, bodies))
         /\ Posts(what, bodies) = <<>> => ToSet(bodies) = {}
<1>1. DOMAIN Posts(what, bodies) = DOMAIN bodies
  BY DEF Posts
<1>2. \A i \in DOMAIN bodies : Posts(what, bodies)[i] = [what |-> what, body |-> bodies[i]]
  BY DEF Posts
<1>3. IsSequence(Posts(what, bodies))
  <2>1. Posts(what, bodies) = [i \in DOMAIN bodies |-> Posts(what, bodies)[i]]
    BY DEF Posts
  <2> QED
    BY <2>1, Mapped
<1>4. ToSet(Posts(what, bodies)) = {[what |-> what, body |-> b] : b \in ToSet(bodies)}
  BY <1>1, <1>2 DEF ToSet
<1>5. what \notin {"stale", "managed"} => Ordered(Posts(what, bodies))
  BY <1>1, <1>2 DEF Ordered, MayPrecede
<1>6. Posts(what, bodies) = <<>> => ToSet(bodies) = {}
  BY <1>1 DEF ToSet
<1> QED
  BY <1>3, <1>4, <1>5, <1>6

LEMMA ListOfIs ==
  ASSUME NEW what
  PROVE  /\ IsSequence(ListOf(what)) /\ ListOf(what) # <<>>
         /\ ToSet(ListOf(what)) = {[what |-> what, body |-> Absent]}
         /\ Ordered(ListOf(what))
<1>1. DOMAIN ListOf(what) = {1} /\ ListOf(what)[1] = [what |-> what, body |-> Absent]
  BY DEF ListOf
<1>2. ToSet(ListOf(what)) = {[what |-> what, body |-> Absent]}
  BY <1>1 DEF ToSet
<1>3. IsSequence(ListOf(what)) /\ ListOf(what) # <<>>
  BY <1>2 DEF IsSequence, ListOf
<1> QED
  BY <1>1, <1>2, <1>3 DEF Ordered

-----------------------------------------------------------------------------
(* What an accepted file compiles to *)

LEMMA ImageIsFinite ==
  ASSUME NEW D, IsFiniteSet(D), NEW g, g = [x \in D |-> g[x]]
  PROVE  IsFiniteSet({g[x] : x \in D})
<1>1. g \in [D -> {g[x] : x \in D}]
  OBVIOUS
<1>2. \A y \in {g[x] : x \in D} : \E x \in D : g[x] = y
  OBVIOUS
<1>3. g \in Surjection(D, {g[x] : x \in D})
  BY <1>1, <1>2, Fun_IsSurj
<1> QED
  BY <1>3, FS_Surjection

LEMMA SequenceIsFinite ==
  ASSUME NEW s, IsSequence(s)
  PROVE  IsFiniteSet(DOMAIN s) /\ IsFiniteSet(ToSet(s)) /\ DOMAIN s \subseteq Nat
<1>1. s \in Seq(ToSet(s))
  BY DEF IsSequence
<1>2. Len(s) \in Nat /\ DOMAIN s = 1..Len(s) /\ s = [i \in DOMAIN s |-> s[i]]
  BY <1>1
<1>3. IsFiniteSet(DOMAIN s)
  BY <1>2, FS_Interval
<1> QED
  BY <1>2, <1>3, ImageIsFinite DEF ToSet

LEMMA DocumentsAre ==
  ASSUME NEW file, IsFile(file), FromYaml(file), NEW kind \in Kinds
  PROVE  /\ IsFiniteSet(Of(kind, file))
         /\ \A d \in Of(kind, file) : d.name \in DOMAIN Rank
         /\ \A d, e \in Of(kind, file) : d.name = e.name => d = e
<1>1. IsFiniteSet(ToSet(file)) /\ Of(kind, file) \in SUBSET ToSet(file)
  BY SequenceIsFinite DEF IsFile, Of, Documents
<1>2. \A d \in Of(kind, file) : d.name \in DOMAIN Rank
  BY DEF FromYaml, Of
<1>3. ASSUME NEW d \in Of(kind, file), NEW e \in Of(kind, file), d.name = e.name
      PROVE  d = e
  <2>1. PICK i \in DOMAIN file : file[i] = d /\ d.kind = kind
    BY DEF Of, Documents, ToSet
  <2>2. PICK j \in DOMAIN file : file[j] = e /\ e.kind = kind
    BY DEF Of, Documents, ToSet
  <2>3. kind # "null"
    BY DEF Kinds
  <2>4. i = j
    BY <1>3, <2>1, <2>2, <2>3 DEF FromYaml, NamesAreUnique
  <2> QED
    BY <2>1, <2>2, <2>4
<1> QED
  BY <1>1, <1>2, <1>3, FS_Subset

LEMMA InOrderLists ==
  ASSUME NEW file, IsFile(file), FromYaml(file), NEW kind \in Kinds
  PROVE  /\ IsSequence(InOrder(kind, file))
         /\ ToSet(InOrder(kind, file)) = Of(kind, file)
<1> DEFINE docs == Of(kind, file)
           below == [a \in docs |-> {b \in docs : Rank[b.name] < Rank[a.name]}]
<1>1. /\ IsFiniteSet(docs)
      /\ \A d \in docs : Rank[d.name] \in Int
      /\ \A d, e \in docs : Rank[d.name] = Rank[e.name] => d = e
  BY DocumentsAre, RankAssumption
<1>2. IsOrder(docs, below)
  <2>1. \A x \in docs : below[x] = {b \in docs : Rank[b.name] < Rank[x.name]}
    OBVIOUS
  <2> HIDE DEF docs, below
  <2>2. \A x \in docs : below[x] \subseteq docs \ {x}
    BY <1>1, <2>1
  <2>3. \A x, y \in docs : y \in below[x] => below[y] \subseteq below[x]
    BY <1>1, <2>1
  <2>4. \A x, y \in docs : x = y \/ x \in below[y] \/ y \in below[x]
    <3> SUFFICES ASSUME NEW x \in docs, NEW y \in docs, x # y
                 PROVE  x \in below[y] \/ y \in below[x]
      OBVIOUS
    <3>1. Rank[x.name] # Rank[y.name] /\ Rank[x.name] \in Int /\ Rank[y.name] \in Int
      BY <1>1
    <3> QED
      BY <2>1, <3>1
  <2> QED
    BY <2>2, <2>3, <2>4 DEF IsOrder
<1>3. InOrder(kind, file) = Ascending(docs, below)
  BY DEF InOrder
<1> HIDE DEF docs, below
<1>4. InOrder(kind, file) \in Seq(docs) /\ ToSet(InOrder(kind, file)) = docs
  BY <1>1, <1>2, <1>3, AscendingLists
<1> QED
  BY <1>4 DEF IsSequence, docs

(* The role of a binding is in the file, with rules that are valid. *)
LEMMA RoleIsThere ==
  ASSUME NEW file, IsFile(file), FromYaml(file), NEW b \in Of("RoleBinding", file)
  PROVE  /\ IsSequence(RoleOf(b, file).rules)
         /\ \A r \in DOMAIN RoleOf(b, file).rules :
              /\ IsSequence(RoleOf(b, file).rules[r].names)
              /\ IsInjective(RoleOf(b, file).rules[r].names)
<1>1. \E doc \in Of("Role", file) : doc.name = b.spec.role
  <2>1. b \in Documents(file) /\ b.kind = "RoleBinding"
    BY DEF Of
  <2>2. SpecIsValid(b, file)
    BY <2>1 DEF FromYaml
  <2> QED
    BY <2>1, <2>2 DEF SpecIsValid, BindingIsValid, Names
<1>2. PICK doc \in Of("Role", file) : RoleOf(b, file) = doc.spec
  BY <1>1 DEF RoleOf, SpecOf
<1>3. doc \in ToSet(file) /\ doc \in Documents(file) /\ doc.kind = "Role"
  BY DEF Of, Documents
<1>4. IsSequence(doc.spec.rules)
  BY <1>3 DEF IsFile
<1>5. ASSUME NEW r \in DOMAIN doc.spec.rules
      PROVE  IsSequence(doc.spec.rules[r].names) /\ IsInjective(doc.spec.rules[r].names)
  <2>1. doc.spec.rules[r] \in ToSet(doc.spec.rules)
    BY DEF ToSet
  <2>2. SpecIsValid(doc, file)
    BY <1>3 DEF FromYaml
  <2>3. RoleIsValid(doc.spec)
    BY <1>3, <2>2 DEF SpecIsValid
  <2> QED
    BY <1>3, <2>1, <2>3 DEF RoleIsValid, RuleIsValid, IsFile
<1> QED
  BY <1>2, <1>4, <1>5

LEMMA PlaceShape ==
  ASSUME NEW file, NEW p
  PROVE  p \in Places(file) <=>
           \E b \in Of("RoleBinding", file) :
             \E r \in DOMAIN RoleOf(b, file).rules :
               \E k \in DOMAIN RoleOf(b, file).rules[r].names : p = <<b, r, k>>
BY DEF Places

LEMMA PlacesAreFinite ==
  ASSUME NEW file, IsFile(file), FromYaml(file)
  PROVE  IsFiniteSet(Places(file))
<1> DEFINE OfRule(b, r) == {<<b, r, k>> : k \in DOMAIN RoleOf(b, file).rules[r].names}
           OfBinding(b) == UNION {OfRule(b, r) : r \in DOMAIN RoleOf(b, file).rules}
<1>1. ASSUME NEW b \in Of("RoleBinding", file), NEW r \in DOMAIN RoleOf(b, file).rules
      PROVE  IsFiniteSet(OfRule(b, r))
  <2> DEFINE D == DOMAIN RoleOf(b, file).rules[r].names
             g == [k \in D |-> <<b, r, k>>]
  <2>1. IsFiniteSet(D)
    BY RoleIsThere, SequenceIsFinite
  <2>2. g = [k \in D |-> g[k]] /\ OfRule(b, r) = {g[k] : k \in D}
    OBVIOUS
  <2> HIDE DEF D, g, OfRule
  <2> QED
    BY <2>1, <2>2, ImageIsFinite
<1>2. ASSUME NEW b \in Of("RoleBinding", file) PROVE IsFiniteSet(OfBinding(b))
  <2> DEFINE D == DOMAIN RoleOf(b, file).rules
             g == [r \in D |-> OfRule(b, r)]
  <2>1. IsFiniteSet(D)
    BY RoleIsThere, SequenceIsFinite
  <2>2. g = [r \in D |-> g[r]] /\ OfBinding(b) = UNION {g[r] : r \in D}
    OBVIOUS
  <2>3. \A T \in {g[r] : r \in D} : IsFiniteSet(T)
    BY <1>1
  <2> HIDE DEF D, g, OfRule, OfBinding
  <2>4. IsFiniteSet({g[r] : r \in D})
    BY <2>1, <2>2, ImageIsFinite
  <2> QED
    BY <2>2, <2>3, <2>4, FS_UNION
<1>3. IsFiniteSet(Of("RoleBinding", file))
  BY DocumentsAre DEF Kinds
<1> DEFINE D == Of("RoleBinding", file)
           g == [b \in D |-> OfBinding(b)]
<1>4. g = [b \in D |-> g[b]] /\ Places(file) = UNION {g[b] : b \in D}
  BY DEF Places
<1>5. \A T \in {g[b] : b \in D} : IsFiniteSet(T)
  BY <1>2
<1> HIDE DEF D, g, OfRule, OfBinding
<1>6. IsFiniteSet({g[b] : b \in D})
  BY <1>3, <1>4, ImageIsFinite DEF D
<1> QED
  BY <1>4, <1>5, <1>6, FS_UNION

LEMMA PlacesInOrder ==
  ASSUME NEW file, IsFile(file), FromYaml(file), NEW places, places = Places(file),
         NEW below, below = [p \in places |-> {q \in places : IsBefore(q, p)}]
  PROVE  IsOrder(places, below)
<1>1. /\ \A p \in places : p[1] \in Of("RoleBinding", file) /\ p = <<p[1], p[2], p[3]>>
      /\ \A p \in places : Rank[p[1].name] \in Int /\ p[2] \in Int /\ p[3] \in Int
  <2> SUFFICES ASSUME NEW p \in places
               PROVE  /\ p[1] \in Of("RoleBinding", file) /\ p = <<p[1], p[2], p[3]>>
                      /\ Rank[p[1].name] \in Int /\ p[2] \in Int /\ p[3] \in Int
    OBVIOUS
  <2>1. PICK b \in Of("RoleBinding", file) :
          \E r \in DOMAIN RoleOf(b, file).rules :
            \E k \in DOMAIN RoleOf(b, file).rules[r].names : p = <<b, r, k>>
    BY PlaceShape
  <2>2. PICK r \in DOMAIN RoleOf(b, file).rules :
          \E k \in DOMAIN RoleOf(b, file).rules[r].names : p = <<b, r, k>>
    BY <2>1
  <2>3. PICK k \in DOMAIN RoleOf(b, file).rules[r].names : p = <<b, r, k>>
    BY <2>2
  <2>4. r \in Int /\ k \in Int
    BY RoleIsThere, SequenceIsFinite
  <2>5. Rank[b.name] \in Int
    BY DocumentsAre, RankAssumption DEF Kinds
  <2> QED
    BY <2>3, <2>4, <2>5
<1>2. \A p, q \in places : Rank[p[1].name] = Rank[q[1].name] => p[1] = q[1]
  <2>1. \A d, e \in Of("RoleBinding", file) : Rank[d.name] = Rank[e.name] => d = e
    BY DocumentsAre, RankAssumption DEF Kinds
  <2> QED
    BY <1>1, <2>1
<1>3. \A x \in places : below[x] = {q \in places : IsBefore(q, x)}
  OBVIOUS
<1>4. \A x \in places : ~IsBefore(x, x)
  BY <1>1 DEF IsBefore
<1>5. \A x, y, z \in places : IsBefore(x, y) /\ IsBefore(y, z) => IsBefore(x, z)
  BY <1>1 DEF IsBefore
<1>6. \A x, y \in places : x = y \/ IsBefore(x, y) \/ IsBefore(y, x)
  <2> SUFFICES ASSUME NEW x \in places, NEW y \in places, ~IsBefore(x, y), ~IsBefore(y, x)
               PROVE  x = y
    OBVIOUS
  <2>1. Rank[x[1].name] = Rank[y[1].name]
    BY <1>1 DEF IsBefore
  <2>2. x[1] = y[1]
    BY <1>2, <2>1
  <2>3. x[2] = y[2] /\ x[3] = y[3]
    BY <1>1, <2>2 DEF IsBefore
  <2> QED
    BY <1>1, <2>2, <2>3
<1>7. \A x, y \in places : y \in below[x] => below[y] \subseteq below[x]
  BY <1>3, <1>5
<1>8. \A x \in places : below[x] \subseteq places \ {x}
  BY <1>3, <1>4
<1>9. \A x, y \in places : x = y \/ x \in below[y] \/ y \in below[x]
  BY <1>3, <1>6
<1> QED
  BY <1>7, <1>8, <1>9 DEF IsOrder

LEMMA CompiledIs ==
  ASSUME NEW f \in Accepted
  PROVE  /\ IsSequence(Compiled[f])
         /\ CompiledSet[f] = {PolicyAt(p, File[f]) : p \in Places(File[f])}
<1> DEFINE file == File[f]
           places == Places(file)
           below == [p \in places |-> {q \in places : IsBefore(q, p)}]
           list == Ascending(places, below)
<1>1. IsFile(file) /\ FromYaml(file)
  BY CommandAssumption DEF Accepted
<1>2. IsFiniteSet(places) /\ IsOrder(places, below)
  BY <1>1, PlacesAreFinite, PlacesInOrder
<1>3. Compiled[f] = [i \in DOMAIN list |-> PolicyAt(list[i], file)]
  BY DEF Compiled, CompilePolicies
<1>4. CompiledSet[f] = ToSet(Compiled[f])
  BY DEF CompiledSet
<1> HIDE DEF file, places, below
<1>5. list \in Seq(places) /\ ToSet(list) = places
  BY <1>2, AscendingLists
<1> HIDE DEF list
<1>6. IsSequence(list)
  BY <1>5 DEF IsSequence
<1>7. DOMAIN Compiled[f] = DOMAIN list
  BY <1>3
<1>8. IsSequence(Compiled[f])
  BY <1>3, <1>6, <1>7, Mapped
<1>9. ToSet(Compiled[f]) = {PolicyAt(p, file) : p \in places}
  BY <1>3, <1>5, <1>7 DEF ToSet
<1> QED
  BY <1>4, <1>8, <1>9 DEF file, places

(* What a file compiles to is in force for its bindings, and the ids are   *)
(* all different, since a rule names no resource twice.                    *)
LEMMA CompiledManaged ==
  ASSUME NEW f \in Accepted
  PROVE  /\ \A p \in CompiledSet[f] : IsPolicy(p) /\ p.enabled = TRUE /\ IsManagedHere(p, f)
         /\ \A p, q \in CompiledSet[f] : p.id = q.id => p = q
         /\ \A p \in CompiledSet[f] : p.id \in CompiledIds[f]
<1> DEFINE file == File[f]
<1>1. IsFile(file) /\ FromYaml(file)
  BY CommandAssumption DEF Accepted
<1>2. ASSUME NEW p \in Places(file)
      PROVE  LET c == PolicyAt(p, file) IN
             /\ IsPolicy(c) /\ c.enabled = TRUE /\ IsManagedHere(c, f)
             /\ c.id = <<p[1].name, p[2], RoleOf(p[1], file).rules[p[2]].names[p[3]]>>
  <2>1. PICK b \in Of("RoleBinding", file) :
          \E r \in DOMAIN RoleOf(b, file).rules :
            \E k \in DOMAIN RoleOf(b, file).rules[r].names : p = <<b, r, k>>
    BY PlaceShape
  <2>2. p[1] = b
    BY <2>1
  <2>3. b.name \in Bindings[f]
    BY DEF Bindings, RoleBindingNames, Names
  <2> QED
    BY <2>2, <2>3 DEF PolicyAt, CompiledPolicy, PolicyId, IsPolicy, IsManagedHere,
       IsAgctlPolicy, PolicyRoleBinding
<1>3. ASSUME NEW p \in Places(file), NEW q \in Places(file),
             PolicyAt(p, file).id = PolicyAt(q, file).id
      PROVE  p = q
  <2>1. PICK b \in Of("RoleBinding", file) :
          \E r \in DOMAIN RoleOf(b, file).rules :
            \E k \in DOMAIN RoleOf(b, file).rules[r].names : p = <<b, r, k>>
    BY PlaceShape
  <2>2. PICK d \in Of("RoleBinding", file) :
          \E r \in DOMAIN RoleOf(d, file).rules :
            \E k \in DOMAIN RoleOf(d, file).rules[r].names : q = <<d, r, k>>
    BY PlaceShape
  <2>3. PICK r \in DOMAIN RoleOf(b, file).rules :
          \E k \in DOMAIN RoleOf(b, file).rules[r].names : p = <<b, r, k>>
    BY <2>1
  <2>4. PICK k \in DOMAIN RoleOf(b, file).rules[r].names : p = <<b, r, k>>
    BY <2>3
  <2>5. PICK t \in DOMAIN RoleOf(d, file).rules :
          \E m \in DOMAIN RoleOf(d, file).rules[t].names : q = <<d, t, m>>
    BY <2>2
  <2>6. PICK m \in DOMAIN RoleOf(d, file).rules[t].names : q = <<d, t, m>>
    BY <2>5
  <2>7. <<b.name, r, RoleOf(b, file).rules[r].names[k]>>
          = <<d.name, t, RoleOf(d, file).rules[t].names[m]>>
    <3>1. /\ PolicyAt(p, file).id = <<b.name, r, RoleOf(b, file).rules[r].names[k]>>
          /\ PolicyAt(q, file).id = <<d.name, t, RoleOf(d, file).rules[t].names[m]>>
      BY <1>2, <2>4, <2>6
    <3> QED
      BY <1>3, <3>1
  <2>8. b = d /\ r = t
    <3>1. b.name = d.name /\ r = t
      BY <2>7
    <3> QED
      BY <1>1, <3>1, DocumentsAre DEF Kinds
  <2>9. k = m
    <3>1. IsInjective(RoleOf(b, file).rules[r].names)
      BY <1>1, RoleIsThere
    <3> QED
      BY <2>7, <2>8, <3>1 DEF IsInjective
  <2> QED
    BY <2>4, <2>6, <2>8, <2>9
<1>4. CompiledSet[f] = {PolicyAt(p, file) : p \in Places(file)}
  BY CompiledIs
<1>5. \A p \in CompiledSet[f] : p.id \in CompiledIds[f]
  BY DEF CompiledIds
<1> HIDE DEF file
<1> QED
  BY <1>2, <1>3, <1>4, <1>5

LEMMA PrincipalsAre ==
  ASSUME NEW f \in Accepted
  PROVE  /\ IsSequence(Principals[f])
         /\ \A p \in ToSet(Principals[f]) :
              DOMAIN p = {"id", "type", "display", "status"} /\ p.id \in Names("Principal", File[f])
         /\ \A n \in Names("Principal", File[f]) : \E p \in ToSet(Principals[f]) : p.id = n
         /\ \A p, q \in ToSet(Principals[f]) : p.id = q.id => p = q
<1> DEFINE docs == InOrder("Principal", File[f])
           Sent(doc) == [id |-> doc.name, type |-> doc.spec.type,
                         display |-> NormalizeOptional(doc.spec.display),
                         status |-> doc.spec.status]
<1>1. IsFile(File[f]) /\ FromYaml(File[f])
  BY CommandAssumption DEF Accepted
<1>2. /\ IsSequence(docs) /\ ToSet(docs) = Of("Principal", File[f])
      /\ \A d, e \in Of("Principal", File[f]) : d.name = e.name => d = e
  BY <1>1, InOrderLists, DocumentsAre DEF Kinds
<1>3. Principals[f] = [i \in DOMAIN docs |-> Sent(docs[i])]
  BY DEF Principals, PrincipalRequests
<1>4. Names("Principal", File[f]) = {doc.name : doc \in ToSet(docs)}
  BY <1>2 DEF Names
<1>5. \A doc : Sent(doc).id = doc.name /\ DOMAIN Sent(doc) = {"id", "type", "display", "status"}
  OBVIOUS
<1> HIDE DEF docs, Sent
<1>6. DOMAIN Principals[f] = DOMAIN docs /\ \A i \in DOMAIN docs : Principals[f][i] = Sent(docs[i])
  BY <1>3
<1>7. IsSequence(Principals[f])
  BY <1>2, <1>3, <1>6, Mapped
<1>8. ToSet(Principals[f]) = {Sent(doc) : doc \in ToSet(docs)}
  BY <1>6 DEF ToSet
<1> QED
  BY <1>2, <1>4, <1>5, <1>7, <1>8

LEMMA ApiKeysAre ==
  ASSUME NEW f \in Accepted
  PROVE  /\ IsSequence(ApiKeys[f])
         /\ \A n \in Names("ApiKey", File[f]) : \E k \in ToSet(ApiKeys[f]) : k.id = n
<1> DEFINE docs == InOrder("ApiKey", File[f])
           Sent(doc) == [id |-> doc.name, principal |-> doc.spec.principal,
                         display |-> NormalizeOptional(doc.spec.display)]
<1>1. IsFile(File[f]) /\ FromYaml(File[f])
  BY CommandAssumption DEF Accepted
<1>2. IsSequence(docs) /\ ToSet(docs) = Of("ApiKey", File[f])
  BY <1>1, InOrderLists DEF Kinds
<1>3. ApiKeys[f] = [i \in DOMAIN docs |-> Sent(docs[i])]
  BY DEF ApiKeys, ApiKeyRequests
<1>4. Names("ApiKey", File[f]) = {doc.name : doc \in ToSet(docs)}
  BY <1>2 DEF Names
<1>5. \A doc : Sent(doc).id = doc.name
  OBVIOUS
<1> HIDE DEF docs, Sent
<1>6. DOMAIN ApiKeys[f] = DOMAIN docs /\ \A i \in DOMAIN docs : ApiKeys[f][i] = Sent(docs[i])
  BY <1>3
<1>7. IsSequence(ApiKeys[f])
  BY <1>2, <1>3, <1>6, Mapped
<1>8. ToSet(ApiKeys[f]) = {Sent(doc) : doc \in ToSet(docs)}
  BY <1>6 DEF ToSet
<1> QED
  BY <1>4, <1>5, <1>7, <1>8

-----------------------------------------------------------------------------
(* The invariant *)

RunFields == {"command", "status", "todo", "printed", "seen", "report", "allowed",
              "query", "before", "alone"}
Kind == {"principal", "key", "policy", "principals", "policies", "stale", "managed"}

IsRun(r) ==
  /\ DOMAIN r = RunFields
  /\ IsSequence(r.todo) /\ Ordered(r.todo)
  /\ IsStore(r.before)
  /\ r.status = "running" => /\ r.todo # <<>> /\ r.command \in Command
                             /\ r.command.verb # "can-i" /\ IsGiven(r.command)
  /\ r.status = "done" => r.todo = <<>>

TypeInv ==
  /\ IsStore(store)
  /\ DOMAIN run = Operator /\ \A o \in Operator : IsRun(run[o])
  /\ budget \in [{"commands", "faults", "edits"} -> Nat]

Disabled(principal) == [principal EXCEPT !.status = "disabled"]

(* What may wait in the queue of a command. *)
IsQueued(q, c) ==
  /\ q.what \in Kind
  /\ q.what = "principal" =>
       \/ c.verb = "create-principal"
       \/ c.verb = "apply" /\ q.body \in ToSet(Principals[c.file])
       \/ c.verb = "delete" /\ \E p \in ToSet(Principals[c.file]) : q.body = Disabled(p)
  /\ q.what = "policy" =>
       /\ IsPolicy(q.body)
       /\ \/ c.verb = "apply" /\ q.body \in CompiledSet[c.file]
          \/ c.verb = "apply" /\ q.body.enabled = FALSE /\ q.body.id \notin CompiledIds[c.file]
          \/ c.verb = "delete" /\ q.body.enabled = FALSE
  /\ q.what = "key" => c.verb \in {"apply", "create-key"}
  /\ q.what = "stale" => c.verb = "apply"
  /\ q.what = "managed" => c.verb = "delete"
  /\ q.what = "principals" => c.verb \in {"diff", "get"}
  /\ q.what = "policies" => c.verb = "diff"

Queue(r) == \A q \in ToSet(r.todo) : IsQueued(q, r.command)

Alone(r, verbs) == r.alone /\ r.command.verb \in verbs /\ r.command.file \in Accepted
BodiesOf(requests, what) == {q.body : q \in {x \in requests : x.what = what}}
Pending(r, what) == BodiesOf(ToSet(r.todo), what)
Underway(r) == r.status \in {"running", "done"}

Ours(p, f) ==
  p.id \in CompiledIds[f] \/ (IsAgctlPolicy(p) /\ PolicyRoleBinding(p) \in Bindings[f])

(* OthersUntouched, and what the policies that wait to be written are. *)
Untouched(s, r) ==
  Alone(r, {"apply", "delete"}) =>
    LET f == r.command.file
        mine == {DisabledPolicy(p) : p \in r.before.policies} \cup CompiledSet[f]
    IN /\ {p \in r.before.policies : ~Ours(p, f)} = {p \in s.policies : ~Ours(p, f)}
       /\ s.policies \subseteq r.before.policies \cup mine
       /\ {p \in r.before.principals : p.id \notin Names("Principal", File[f])}
            \subseteq s.principals
       /\ r.before.keys \subseteq s.keys
       /\ r.status = "running" =>
            \A b \in Pending(r, "policy") :
              Ours(b, f) /\ b \in mine /\ \A p \in s.policies : p.id = b.id => Ours(p, f)
       /\ r.status = "running" /\ Pending(r, "managed") # {} =>
            s.policies = r.before.policies

(* What an apply has not written yet waits; once the stale policies were   *)
(* listed, those in force wait to be disabled.                             *)
ApplyOnItsWay(s, r) ==
  Alone(r, {"apply"}) /\ Underway(r) =>
    LET f == r.command.file IN
    /\ CompiledSet[f] \subseteq s.policies \cup Pending(r, "policy")
    /\ ToSet(Principals[f]) \subseteq s.principals \cup Pending(r, "principal")
    /\ r.command.prune /\ Pending(r, "stale") = {} =>
         \A p \in s.policies : IsManagedHere(p, f) /\ p \notin CompiledSet[f] =>
           \E b \in Pending(r, "policy") : b.id = p.id

DeleteOnItsWay(s, r) ==
  Alone(r, {"delete"}) /\ Underway(r) =>
    LET f == r.command.file IN
    /\ Pending(r, "managed") = {} =>
         \A p \in s.policies : IsManagedHere(p, f) =>
           \E b \in Pending(r, "policy") : b.id = p.id
    /\ r.command.principals =>
         \A p \in s.principals : p.id \in Names("Principal", File[f]) =>
           p.status = "disabled" \/ \E b \in Pending(r, "principal") : b.id = p.id

(* While a key waits nothing is granted. *)
TokensFirst(s, r) ==
  Alone(r, {"apply"}) /\ r.command.secrets =>
    LET keys == Names("ApiKey", File[r.command.file]) IN
    /\ keys \subseteq r.printed \/ s.policies = r.before.policies
    /\ r.status = "running" => keys \subseteq r.printed \cup {b.id : b \in Pending(r, "key")}
    /\ r.status = "running" /\ Pending(r, "key") # {} => s.policies = r.before.policies

DiffOnItsWay(s, r) ==
  Alone(r, {"diff"}) =>
    /\ r.status = "running" =>
         r.todo = DiffPlan \/ (r.todo = ListOf("policies") /\ r.seen = s.principals)
    /\ r.status = "done" =>
         r.report = Changes(r.command.file, s.principals, s.policies)

Decided(r) ==
  r.status = "done" /\ r.command.verb = "can-i" =>
    /\ r.query \in Query /\ r.command.file \in Accepted
    /\ r.allowed = LocalCanI(r.command.file, r.query)

RunInv(s, r) ==
  /\ Queue(r) /\ Decided(r)
  /\ Untouched(s, r) /\ ApplyOnItsWay(s, r) /\ DeleteOnItsWay(s, r)
  /\ TokensFirst(s, r) /\ DiffOnItsWay(s, r)

IInv == TypeInv /\ \A o \in Operator : RunInv(store, run[o])

-----------------------------------------------------------------------------
(* What a step makes of the store s and the run r of the operator whose    *)
(* step it is.                                                             *)

Keeps(r, r2) ==
  /\ DOMAIN r2 = RunFields
  /\ r2.command = r.command /\ r2.before = r.before /\ r2.alone = r.alone
EndedStatus(todo) == IF todo = <<>> THEN "done" ELSE "running"

Starts(s, s2, r2) ==
  /\ s2 = s /\ DOMAIN r2 = RunFields
  /\ r2.before = s /\ r2.printed = {}
  /\ r2.command \in Command /\ r2.command.verb # "can-i"
  /\ \/ /\ IsGiven(r2.command) /\ r2.todo = Plan(r2.command)
        /\ r2.status = EndedStatus(r2.todo)
     \/ r2.todo = <<>> /\ r2.status = "failed"

Decides(s, s2, r2) ==
  /\ s2 = s /\ DOMAIN r2 = RunFields
  /\ r2.before = s /\ r2.todo = <<>> /\ r2.command.verb = "can-i"
  /\ \/ r2.status = "done" /\ Decided(r2)
     \/ r2.status = "failed"

Fails(s, r, s2, r2) ==
  /\ s2 = s /\ Keeps(r, r2) /\ r.status = "running"
  /\ r2.todo = r.todo /\ r2.printed = r.printed /\ r2.status = "failed"

Writes(s, q, s2) ==
  /\ DOMAIN s2 = {"principals", "keys", "policies"}
  /\ s2.principals = IF q.what = "principal" THEN Upsert(s.principals, q.body) ELSE s.principals
  /\ s2.keys = IF q.what = "key" THEN s.keys \cup {q.body} ELSE s.keys
  /\ s2.policies = IF q.what = "policy" THEN Upsert(s.policies, q.body) ELSE s.policies

PostsHead(s, r, s2, r2) ==
  LET q == Head(r.todo) IN
  /\ r.status = "running" /\ q.what \in {"principal", "key", "policy"}
  /\ Writes(s, q, s2) /\ Keeps(r, r2)
  /\ \/ r2.todo = r.todo /\ r2.printed = r.printed /\ r2.status = "failed"
     \/ /\ r2.todo = Tail(r.todo)
        /\ r2.printed = IF q.what = "key" THEN r.printed \cup {q.body.id} ELSE r.printed
        /\ r2.status \in {EndedStatus(r2.todo), "failed"}

ListsHead(s, r, s2, r2) ==
  LET q == Head(r.todo) IN
  /\ r.status = "running" /\ s2 = s /\ Keeps(r, r2)
  /\ r2.todo = Tail(r.todo) /\ r2.printed = r.printed /\ r2.status = EndedStatus(r2.todo)
  /\ \/ q.what = "principals" /\ r2.seen = s.principals
     \/ q.what = "policies" /\ r2.report = Changes(r.command.file, r.seen, s.policies)

Chosen(s, what, f) ==
  {p \in s.policies : IF what = "stale" THEN IsStale(p, f) ELSE IsManagedHere(p, f)}

ListsToDisable(s, r, s2, r2) ==
  LET q == Head(r.todo) IN
  /\ r.status = "running" /\ q.what \in {"stale", "managed"}
  /\ s2 = s /\ Keeps(r, r2) /\ r2.printed = r.printed
  /\ \E list :
       /\ IsSequence(list)
       /\ ToSet(list) = {DisabledPolicy(p) : p \in Chosen(s, q.what, r.command.file)}
       /\ r2.todo = Posts("policy", list) \o Tail(r.todo)
  /\ r2.status = EndedStatus(r2.todo)

Moves(s, r, s2, r2) ==
  \/ Starts(s, s2, r2) \/ Decides(s, s2, r2)
  \/ Fails(s, r, s2, r2) \/ PostsHead(s, r, s2, r2)
  \/ ListsHead(s, r, s2, r2) \/ ListsToDisable(s, r, s2, r2)

LEMMA Proceeds ==
  ASSUME NEW o \in Operator, NEW r, Proceed(o, r)
  PROVE  /\ DOMAIN run' = Operator /\ run'[o] = r
         /\ \A p \in Operator \ {o} :
              \/ run'[p] = run[p] /\ store' = store
              \/ run'[p] = [run[p] EXCEPT !.alone = FALSE]
BY DEF Proceed

LEMMA StoredWrites ==
  ASSUME IsStore(store), NEW q, q.what \in {"principal", "key", "policy"}
  PROVE  Writes(store, q, Stored(q))
<1>1. DOMAIN store = {"principals", "keys", "policies"}
  BY DEF IsStore
<1>2. CASE q.what = "principal"
  <2>1. Stored(q) = UpsertPrincipal(q.body)
    BY <1>2 DEF Stored
  <2> QED
    BY <1>1, <1>2, <2>1 DEF UpsertPrincipal, Writes
<1>3. CASE q.what = "key"
  <2>1. Stored(q) = CreateApiKey(q.body)
    BY <1>3 DEF Stored
  <2> QED
    BY <1>1, <1>3, <2>1 DEF CreateApiKey, Writes
<1>4. CASE q.what = "policy"
  <2>1. Stored(q) = UpsertAccessPolicy(q.body)
    BY <1>4 DEF Stored
  <2> QED
    BY <1>1, <1>4, <2>1 DEF UpsertAccessPolicy, Writes
<1> QED
  BY <1>2, <1>3, <1>4

LEMMA WritesStore ==
  ASSUME NEW s, IsStore(s), NEW q, NEW s2, Writes(s, q, s2),
         q.what = "policy" => IsPolicy(q.body)
  PROVE  IsStore(s2)
<1>1. /\ \A a, b \in s.principals : a.id = b.id => a = b
      /\ \A a, b \in s.policies : a.id = b.id => a = b
      /\ IsFiniteSet(s.policies) /\ \A p \in s.policies : IsPolicy(p)
  BY DEF IsStore
<1>2. \A a, b \in s2.principals : a.id = b.id => a = b
  BY <1>1 DEF Writes, Upsert
<1>3. \A a, b \in s2.policies : a.id = b.id => a = b
  BY <1>1 DEF Writes, Upsert
<1>4. IsFiniteSet(s2.policies)
  <2>1. IsFiniteSet(Upsert(s.policies, q.body))
    <3>1. {p \in s.policies : p.id # q.body.id} \in SUBSET s.policies
      OBVIOUS
    <3>2. IsFiniteSet({p \in s.policies : p.id # q.body.id})
      BY <1>1, <3>1, FS_Subset
    <3>3. IsFiniteSet({q.body})
      BY FS_Singleton
    <3> QED
      BY <3>2, <3>3, FS_Union DEF Upsert
  <2> QED
    BY <1>1, <2>1 DEF Writes
<1>5. \A p \in s2.policies : IsPolicy(p)
  BY <1>1 DEF Writes, Upsert
<1>6. \A kind \in {"principals", "policies"} : \A a, b \in s2[kind] : a.id = b.id => a = b
  BY <1>2, <1>3
<1>7. DOMAIN s2 = {"principals", "keys", "policies"}
  BY DEF Writes
<1> QED
  BY <1>4, <1>5, <1>6, <1>7 DEF IsStore

LEMMA ListingIs ==
  ASSUME NEW S, IsFiniteSet(S), NEW list \in SetToSeqs(S)
  PROVE  IsSequence(list) /\ ToSet(list) = S
<1>1. list \in [1..Cardinality(S) -> S] /\ \A a, b \in DOMAIN list : list[a] = list[b] => a = b
  BY DEF SetToSeqs, IsInjective
<1>2. Cardinality(S) \in Nat
  BY FS_CardinalityType
<1>3. IsSequence(list)
  BY <1>1, <1>2, Counted
<1>4. list \in Injection(1..Cardinality(S), S)
  BY <1>1, Fun_IsInj
<1>5. IsFiniteSet(1..Cardinality(S)) /\ Cardinality(1..Cardinality(S)) = Cardinality(S)
  BY <1>2, FS_Interval
<1>6. list \in Surjection(1..Cardinality(S), S)
  BY <1>4, <1>5, FS_Injection
<1>7. ToSet(list) = S
  BY <1>1, <1>6, Fun_IsSurj DEF ToSet, Surjection
<1> QED
  BY <1>3, <1>7

(* The parts of the record that a command ends with, or goes on as. *)
LEMMA RunParts ==
  ASSUME NEW r, DOMAIN r = RunFields
  PROVE  /\ Failed(r).status = "failed" /\ Failed(r).todo = r.todo
         /\ Failed(r).printed = r.printed /\ Keeps(r, Failed(r))
         /\ Ended(r).status = EndedStatus(r.todo) /\ Ended(r).todo = r.todo
         /\ Ended(r).printed = r.printed /\ Keeps(r, Ended(r))
         /\ Ended(r).seen = r.seen /\ Ended(r).report = r.report
BY DEF Failed, Ended, EndedStatus, Keeps, RunFields

LEMMA BegunParts ==
  ASSUME NEW c
  PROVE  /\ DOMAIN Begun(c) = RunFields
         /\ Begun(c).command = c /\ Begun(c).before = store
         /\ Begun(c).printed = {} /\ Begun(c).todo = <<>>
<1>1. DOMAIN Idle = RunFields
  BY DEF Idle, RunFields
<1> QED
  BY <1>1 DEF Begun, Idle, RunFields

LEMMA StartMoves ==
  ASSUME NEW o \in Operator, Start(o)
  PROVE  Starts(store, store', run'[o])
<1>1. store' = store
  BY DEF Start
<1>2. PICK c \in Command :
        /\ c.verb # "can-i"
        /\ Proceed(o, IF IsGiven(c) THEN Ended([Begun(c) EXCEPT !.todo = Plan(c)])
                      ELSE Failed(Begun(c)))
  BY DEF Start
<1>3. run'[o] = IF IsGiven(c) THEN Ended([Begun(c) EXCEPT !.todo = Plan(c)])
                ELSE Failed(Begun(c))
  BY <1>2, Proceeds
<1>4. CASE IsGiven(c)
  <2> DEFINE r == [Begun(c) EXCEPT !.todo = Plan(c)]
  <2>1. /\ DOMAIN r = RunFields /\ r.command = c /\ r.before = store /\ r.printed = {}
        /\ r.todo = Plan(c)
    BY BegunParts DEF RunFields
  <2>2. run'[o] = Ended(r)
    BY <1>3, <1>4
  <2> HIDE DEF r
  <2>3. /\ DOMAIN Ended(r) = RunFields /\ Ended(r).command = c /\ Ended(r).before = store
        /\ Ended(r).printed = {} /\ Ended(r).todo = Plan(c)
        /\ Ended(r).status = EndedStatus(Plan(c))
    BY <2>1, RunParts DEF Keeps
  <2> QED
    BY <1>1, <1>2, <1>4, <2>2, <2>3 DEF Starts
<1>5. CASE ~IsGiven(c)
  <2>1. run'[o] = Failed(Begun(c))
    BY <1>3, <1>5
  <2>2. /\ DOMAIN Failed(Begun(c)) = RunFields /\ Failed(Begun(c)).command = c
        /\ Failed(Begun(c)).before = store /\ Failed(Begun(c)).printed = {}
        /\ Failed(Begun(c)).todo = <<>> /\ Failed(Begun(c)).status = "failed"
    BY BegunParts, RunParts DEF Keeps
  <2> QED
    BY <1>1, <1>2, <2>1, <2>2 DEF Starts
<1> QED
  BY <1>4, <1>5

LEMMA CanIMoves ==
  ASSUME NEW o \in Operator, CanI(o)
  PROVE  Decides(store, store', run'[o])
<1>1. store' = store
  BY DEF CanI
<1>2. PICK c \in Command, q \in Query :
        /\ c.verb = "can-i"
        /\ Proceed(o, IF IsGiven(c)
                      THEN [Begun(c) EXCEPT !.status = "done", !.query = q,
                                            !.allowed = LocalCanI(c.file, q)]
                      ELSE Failed(Begun(c)))
  BY DEF CanI
<1> DEFINE r == [Begun(c) EXCEPT !.status = "done", !.query = q,
                                 !.allowed = LocalCanI(c.file, q)]
<1>3. run'[o] = IF IsGiven(c) THEN r ELSE Failed(Begun(c))
  BY <1>2, Proceeds
<1>4. CASE IsGiven(c)
  <2>1. /\ DOMAIN r = RunFields /\ r.command = c /\ r.before = store /\ r.todo = <<>>
        /\ r.status = "done" /\ r.query = q /\ r.allowed = LocalCanI(c.file, q)
    BY BegunParts DEF RunFields
  <2>2. c.file \in Accepted
    BY <1>2, <1>4 DEF IsGiven
  <2>3. run'[o] = r
    BY <1>3, <1>4
  <2> HIDE DEF r
  <2>4. Decided(r)
    BY <2>1, <2>2 DEF Decided
  <2> QED
    BY <1>1, <1>2, <2>1, <2>3, <2>4 DEF Decides
<1>5. CASE ~IsGiven(c)
  <2>1. run'[o] = Failed(Begun(c))
    BY <1>3, <1>5
  <2>2. /\ DOMAIN Failed(Begun(c)) = RunFields /\ Failed(Begun(c)).command = c
        /\ Failed(Begun(c)).before = store
        /\ Failed(Begun(c)).todo = <<>> /\ Failed(Begun(c)).status = "failed"
    BY BegunParts, RunParts DEF Keeps
  <2> QED
    BY <1>1, <1>2, <2>1, <2>2 DEF Decides
<1> QED
  BY <1>4, <1>5

LEMMA FailMoves ==
  ASSUME TypeInv, NEW o \in Operator,
         Refused(o) \/ RequestLost(o) \/ PrincipalNotFound(o)
  PROVE  Fails(store, run[o], store', run'[o])
<1>1. store' = store /\ run[o].status = "running" /\ Proceed(o, Failed(run[o]))
  BY DEF Refused, RequestLost, PrincipalNotFound, Running
<1>2. run'[o] = Failed(run[o])
  BY <1>1, Proceeds
<1>3. DOMAIN run[o] = RunFields
  BY DEF TypeInv, IsRun
<1> QED
  BY <1>1, <1>2, <1>3, RunParts DEF Fails

LEMMA AdvancedParts ==
  ASSUME TypeInv, NEW o \in Operator
  PROVE  /\ Keeps(run[o], Advanced(o)) /\ Advanced(o).todo = Tail(run[o].todo)
         /\ Advanced(o).printed = run[o].printed
         /\ Advanced(o).status = EndedStatus(Tail(run[o].todo))
<1> DEFINE r == [run[o] EXCEPT !.todo = Tail(@)]
<1>1. DOMAIN run[o] = RunFields
  BY DEF TypeInv, IsRun
<1>2. /\ DOMAIN r = RunFields /\ Keeps(run[o], r) /\ r.todo = Tail(run[o].todo)
      /\ r.printed = run[o].printed
  BY <1>1 DEF RunFields, Keeps
<1>3. Advanced(o) = Ended(r)
  BY DEF Advanced
<1> HIDE DEF r
<1> QED
  BY <1>2, <1>3, RunParts DEF Keeps

LEMMA AnsweredMoves ==
  ASSUME TypeInv, NEW o \in Operator, Answered(o) \/ AnswerLost(o)
  PROVE  PostsHead(store, run[o], store', run'[o])
<1> DEFINE q == Head(run[o].todo)
<1>1. /\ run[o].status = "running" /\ q.what \in {"principal", "key", "policy"}
      /\ store' = Stored(q)
  BY DEF Answered, AnswerLost, Running, Request, IsPost
<1>2. DOMAIN run[o] = RunFields
  BY DEF TypeInv, IsRun
<1>3. Writes(store, q, store')
  BY <1>1, StoredWrites DEF TypeInv
<1>4. CASE AnswerLost(o)
  <2>1. run'[o] = Failed(run[o])
    BY <1>4, Proceeds DEF AnswerLost
  <2> HIDE DEF q
  <2> QED
    BY <1>1, <1>2, <1>3, <2>1, RunParts DEF PostsHead, q
<1>5. CASE Answered(o)
  <2> DEFINE r == IF q.what = "key"
                  THEN [Advanced(o) EXCEPT !.printed = @ \cup {q.body.id}]
                  ELSE Advanced(o)
  <2>1. Proceed(o, r) \/ Proceed(o, Failed(r))
    BY <1>5 DEF Answered, Request
  <2>2. /\ Keeps(run[o], r) /\ r.todo = Tail(run[o].todo)
        /\ r.printed = IF q.what = "key" THEN run[o].printed \cup {q.body.id}
                       ELSE run[o].printed
        /\ r.status = EndedStatus(Tail(run[o].todo))
    BY AdvancedParts DEF Keeps, RunFields
  <2> HIDE DEF q, r
  <2>3. run'[o] = r \/ run'[o] = Failed(r)
    BY <2>1, Proceeds
  <2>4. CASE run'[o] = r
    BY <1>1, <1>3, <2>2, <2>4 DEF PostsHead, q
  <2>5. CASE run'[o] = Failed(r)
    <3>1. /\ Keeps(r, Failed(r)) /\ Failed(r).todo = r.todo /\ Failed(r).printed = r.printed
          /\ Failed(r).status = "failed"
      BY <2>2, RunParts DEF Keeps
    <3>2. Keeps(run[o], Failed(r))
      BY <2>2, <3>1 DEF Keeps
    <3> QED
      BY <1>1, <1>3, <2>2, <2>5, <3>1, <3>2 DEF PostsHead, q
  <2> QED
    BY <2>3, <2>4, <2>5
<1> QED
  BY <1>4, <1>5

LEMMA ListedMoves ==
  ASSUME TypeInv, NEW o \in Operator, ListedPrincipals(o) \/ ListedForDiff(o)
  PROVE  ListsHead(store, run[o], store', run'[o])
<1>1. run[o].status = "running" /\ store' = store
  BY DEF ListedPrincipals, ListedForDiff, Running
<1>2. /\ Keeps(run[o], Advanced(o)) /\ Advanced(o).todo = Tail(run[o].todo)
      /\ Advanced(o).printed = run[o].printed
      /\ Advanced(o).status = EndedStatus(Tail(run[o].todo))
      /\ DOMAIN Advanced(o) = RunFields
  BY AdvancedParts DEF Keeps
<1>3. CASE ListedPrincipals(o)
  <2> DEFINE r == [Advanced(o) EXCEPT !.seen = store.principals]
  <2>1. run'[o] = r /\ Head(run[o].todo).what = "principals"
    BY <1>3, Proceeds DEF ListedPrincipals, Request
  <2>2. /\ Keeps(run[o], r) /\ r.todo = Tail(run[o].todo) /\ r.printed = run[o].printed
        /\ r.status = EndedStatus(r.todo) /\ r.seen = store.principals
    BY <1>2 DEF RunFields, Keeps
  <2> HIDE DEF r
  <2> QED
    BY <1>1, <2>1, <2>2 DEF ListsHead
<1>4. CASE ListedForDiff(o)
  <2> DEFINE r == [Advanced(o) EXCEPT
                    !.report = Changes(run[o].command.file, run[o].seen, store.policies)]
  <2>1. run'[o] = r /\ Head(run[o].todo).what = "policies"
    BY <1>4, Proceeds DEF ListedForDiff, Request
  <2>2. /\ Keeps(run[o], r) /\ r.todo = Tail(run[o].todo) /\ r.printed = run[o].printed
        /\ r.status = EndedStatus(r.todo)
        /\ r.report = Changes(run[o].command.file, run[o].seen, store.policies)
    BY <1>2 DEF RunFields, Keeps
  <2> HIDE DEF r
  <2> QED
    BY <1>1, <2>1, <2>2 DEF ListsHead
<1> QED
  BY <1>3, <1>4

LEMMA ListedToDisableMoves ==
  ASSUME TypeInv, NEW o \in Operator, ListedToDisable(o)
  PROVE  ListsToDisable(store, run[o], store', run'[o])
<1> DEFINE q == Head(run[o].todo)
           off == {DisabledPolicy(p) : p \in Chosen(store, q.what, run[o].command.file)}
<1>1. run[o].status = "running" /\ store' = store /\ q.what \in {"stale", "managed"}
  BY DEF ListedToDisable, Running, Request
<1>2. PICK list \in SetToSeqs(off) :
        Proceed(o, Ended([run[o] EXCEPT !.todo = Posts("policy", list) \o Tail(@)]))
  BY DEF ListedToDisable, Request, Chosen
<1>3. IsFiniteSet(off)
  <2> DEFINE C == Chosen(store, q.what, run[o].command.file)
             g == [p \in C |-> DisabledPolicy(p)]
  <2>1. IsFiniteSet(C)
    <3>1. IsFiniteSet(store.policies) /\ C \in SUBSET store.policies
      BY DEF TypeInv, IsStore, Chosen
    <3> QED
      BY <3>1, FS_Subset
  <2>2. g = [p \in C |-> g[p]] /\ off = {g[p] : p \in C}
    OBVIOUS
  <2> HIDE DEF C, g, off
  <2> QED
    BY <2>1, <2>2, ImageIsFinite
<1> HIDE DEF off
<1>4. IsSequence(list) /\ ToSet(list) = off
  BY <1>3, ListingIs
<1> DEFINE todo == Posts("policy", list) \o Tail(run[o].todo)
           r == [run[o] EXCEPT !.todo = todo]
<1>5. run'[o] = Ended(r)
  BY <1>2, Proceeds
<1>6. DOMAIN run[o] = RunFields
  BY DEF TypeInv, IsRun
<1> HIDE DEF todo
<1>7. DOMAIN r = RunFields /\ Keeps(run[o], r) /\ r.todo = todo /\ r.printed = run[o].printed
  BY <1>6 DEF RunFields, Keeps
<1> HIDE DEF r
<1>8. /\ Keeps(run[o], Ended(r)) /\ Ended(r).todo = todo /\ Ended(r).printed = run[o].printed
      /\ Ended(r).status = EndedStatus(todo)
  BY <1>7, RunParts DEF Keeps
<1> QED
  BY <1>1, <1>4, <1>5, <1>8 DEF ListsToDisable, off, todo

LEMMA StepMoves ==
  ASSUME TypeInv, NEW o \in Operator, Step(o)
  PROVE  Moves(store, run[o], store', run'[o])
BY StartMoves, CanIMoves, FailMoves, AnsweredMoves, ListedMoves, ListedToDisableMoves
   DEF Step, Moves

-----------------------------------------------------------------------------
(* The queues with which the commands begin *)

Wrapped(what, bodies) == {[what |-> what, body |-> b] : b \in bodies}

LEMMA NothingQueued == IsSequence(<<>>) /\ Ordered(<<>>) /\ ToSet(<<>>) = {}
<1>1. ToSet(<<>>) = {}
  BY DEF ToSet
<1> QED
  BY <1>1 DEF IsSequence, Ordered

LEMMA ApplyPlanIs ==
  ASSUME NEW c, c.file \in Accepted
  PROVE  /\ IsSequence(ApplyPlan(c)) /\ Ordered(ApplyPlan(c))
         /\ ToSet(ApplyPlan(c)) =
                 Wrapped("principal", ToSet(Principals[c.file]))
            \cup (IF c.secrets THEN Wrapped("key", ToSet(ApiKeys[c.file])) ELSE {})
            \cup Wrapped("policy", CompiledSet[c.file])
            \cup (IF c.prune THEN Wrapped("stale", {Absent}) ELSE {})
<1> DEFINE p == Posts("principal", Principals[c.file])
           k == IF c.secrets THEN Posts("key", ApiKeys[c.file]) ELSE <<>>
           y == Posts("policy", Compiled[c.file])
           t == IF c.prune THEN ListOf("stale") ELSE <<>>
           P == Wrapped("principal", ToSet(Principals[c.file]))
           K == IF c.secrets THEN Wrapped("key", ToSet(ApiKeys[c.file])) ELSE {}
           Y == Wrapped("policy", CompiledSet[c.file])
           T == IF c.prune THEN Wrapped("stale", {Absent}) ELSE {}
<1>1. IsSequence(p) /\ Ordered(p) /\ ToSet(p) = P
  BY PrincipalsAre, PostsAre DEF Wrapped
<1>2. IsSequence(k) /\ Ordered(k) /\ ToSet(k) = K
  BY ApiKeysAre, PostsAre, NothingQueued DEF Wrapped
<1>3. IsSequence(y) /\ Ordered(y) /\ ToSet(y) = Y
  <2>1. CompiledSet[c.file] = ToSet(Compiled[c.file])
    BY DEF CompiledSet
  <2> QED
    BY <2>1, CompiledIs, PostsAre DEF Wrapped
<1>4. IsSequence(t) /\ Ordered(t) /\ ToSet(t) = T
  <2>1. ToSet(ListOf("stale")) = Wrapped("stale", {Absent})
    BY ListOfIs DEF Wrapped
  <2> QED
    BY <2>1, ListOfIs, NothingQueued
<1>5. /\ \A q \in P : q.what = "principal"
      /\ \A q \in K : q.what = "key"
      /\ \A q \in Y : q.what = "policy"
      /\ \A q \in T : q.what = "stale"
  BY DEF Wrapped
<1>6. ApplyPlan(c) = ((p \o k) \o y) \o t
  <2>1. ApplyPlan(c) = p \o k \o y \o t
    BY DEF ApplyPlan
  <2> QED
    BY <2>1
<1> HIDE DEF p, k, y, t, P, K, Y, T
<1>7. IsSequence(p \o k) /\ Ordered(p \o k) /\ ToSet(p \o k) = P \cup K
  <2>1. \A a \in ToSet(p), b \in ToSet(k) : MayPrecede(a, b)
    BY <1>1, <1>2, <1>5 DEF MayPrecede
  <2> QED
    BY <1>1, <1>2, <2>1, Joined, OrderedJoined
<1>8. /\ IsSequence((p \o k) \o y) /\ Ordered((p \o k) \o y)
      /\ ToSet((p \o k) \o y) = P \cup K \cup Y
  <2>1. \A a \in ToSet(p \o k), b \in ToSet(y) : MayPrecede(a, b)
    BY <1>3, <1>5, <1>7 DEF MayPrecede
  <2> QED
    BY <1>3, <1>7, <2>1, Joined, OrderedJoined
<1>9. /\ IsSequence(((p \o k) \o y) \o t) /\ Ordered(((p \o k) \o y) \o t)
      /\ ToSet(((p \o k) \o y) \o t) = P \cup K \cup Y \cup T
  <2>1. \A a \in ToSet((p \o k) \o y), b \in ToSet(t) : MayPrecede(a, b)
    BY <1>4, <1>5, <1>8 DEF MayPrecede
  <2> QED
    BY <1>4, <1>8, <2>1, Joined, OrderedJoined
<1> QED
  BY <1>6, <1>9 DEF P, K, Y, T

LEMMA DeletePlanIs ==
  ASSUME NEW c, c.file \in Accepted
  PROVE  /\ IsSequence(DeletePlan(c)) /\ Ordered(DeletePlan(c))
         /\ ToSet(DeletePlan(c)) =
              Wrapped("managed", {Absent}) \cup
              (IF c.principals
               THEN Wrapped("principal", {Disabled(p) : p \in ToSet(Principals[c.file])})
               ELSE {})
<1> DEFINE all == Principals[c.file]
           off == [i \in DOMAIN all |-> Disabled(all[i])]
           h == ListOf("managed")
           t == IF c.principals THEN Posts("principal", off) ELSE <<>>
           T == IF c.principals
                THEN Wrapped("principal", {Disabled(p) : p \in ToSet(all)}) ELSE {}
<1>1. IsSequence(all)
  BY PrincipalsAre
<1>2. DeletePlan(c) = h \o t
  BY DEF DeletePlan, Disabled
<1> HIDE DEF all
<1>3. IsSequence(off) /\ ToSet(off) = {Disabled(p) : p \in ToSet(all)}
  <2>1. off = [i \in DOMAIN all |-> off[i]] /\ DOMAIN off = DOMAIN all
    OBVIOUS
  <2>2. ToSet(off) = {Disabled(p) : p \in ToSet(all)}
    BY DEF ToSet
  <2> HIDE DEF off
  <2> QED
    BY <1>1, <2>1, <2>2, Mapped
<1>4. IsSequence(h) /\ Ordered(h) /\ ToSet(h) = Wrapped("managed", {Absent})
  BY ListOfIs DEF Wrapped
<1> HIDE DEF off
<1>5. IsSequence(t) /\ Ordered(t) /\ ToSet(t) = T
  BY <1>3, PostsAre, NothingQueued DEF Wrapped
<1>6. /\ \A q \in Wrapped("managed", {Absent}) : q.what = "managed"
      /\ \A q \in T : q.what = "principal"
  BY DEF Wrapped
<1> HIDE DEF h, t, T
<1>7. \A a \in ToSet(h), b \in ToSet(t) : MayPrecede(a, b)
  BY <1>4, <1>5, <1>6 DEF MayPrecede
<1>8. /\ IsSequence(h \o t) /\ Ordered(h \o t)
      /\ ToSet(h \o t) = Wrapped("managed", {Absent}) \cup T
  BY <1>4, <1>5, <1>7, Joined, OrderedJoined
<1> QED
  BY <1>2, <1>8 DEF T, all

LEMMA PairJoined == ASSUME NEW x, NEW y PROVE <<x>> \o <<y>> = <<x, y>>
<1> DEFINE s == <<x>>
           t == <<y>>
           u == <<x, y>>
           S == {x, y}
<1>1. s \in Seq(S) /\ Len(s) = 1 /\ s[1] = x
  OBVIOUS
<1>2. t \in Seq(S) /\ Len(t) = 1 /\ t[1] = y
  OBVIOUS
<1>3. u \in Seq(S) /\ Len(u) = 2 /\ u[1] = x /\ u[2] = y
  OBVIOUS
<1> DEFINE j == s \o t
<1> HIDE DEF s, t, u, S
<1>4. /\ j \in Seq(S) /\ Len(j) = Len(s) + Len(t)
      /\ \A i \in 1..(Len(s) + Len(t)) : j[i] = IF i <= Len(s) THEN s[i] ELSE t[i - Len(s)]
  BY <1>1, <1>2, ConcatProperties
<1> HIDE DEF j
<1>5. Len(j) = 2
  BY <1>1, <1>2, <1>4
<1>6. j[1] = x
  BY <1>1, <1>2, <1>4
<1>7. j[2] = y
  <2>1. 2 \in 1..(Len(s) + Len(t)) /\ ~(2 <= Len(s)) /\ 2 - Len(s) = 1
    BY <1>1, <1>2
  <2>2. j[2] = t[2 - Len(s)]
    BY <1>4, <2>1
  <2> QED
    BY <1>2, <2>1, <2>2
<1>8. \A i \in 1..Len(j) : j[i] = u[i]
  <2>1. \A i \in 1..2 : i = 1 \/ i = 2
    OBVIOUS
  <2> QED
    BY <1>3, <1>5, <1>6, <1>7, <2>1
<1>9. j = u
  BY <1>3, <1>4, <1>5, <1>8, SeqEqual
<1> QED
  BY <1>9 DEF j, s, t, u

LEMMA DiffPlanIs ==
  /\ IsSequence(DiffPlan) /\ Ordered(DiffPlan)
  /\ ToSet(DiffPlan) = Wrapped("principals", {Absent}) \cup Wrapped("policies", {Absent})
  /\ DiffPlan # <<>> /\ Head(DiffPlan).what = "principals"
  /\ Tail(DiffPlan) = ListOf("policies")
  /\ Head(ListOf("policies")).what = "policies" /\ Tail(ListOf("policies")) = <<>>
<1>1. DiffPlan = <<[what |-> "principals", body |-> Absent], [what |-> "policies", body |-> Absent]>>
  BY PairJoined DEF DiffPlan, ListOf
<1>2. DiffPlan # <<>> /\ Head(DiffPlan).what = "principals"
  BY <1>1
<1>3. Tail(DiffPlan) = ListOf("policies")
  BY <1>1 DEF ListOf
<1>4. Head(ListOf("policies")).what = "policies" /\ Tail(ListOf("policies")) = <<>>
  BY DEF ListOf
<1>5. DiffPlan = ListOf("principals") \o ListOf("policies")
  BY DEF DiffPlan
<1> DEFINE a == ListOf("principals")
           b == ListOf("policies")
<1>6. IsSequence(a) /\ Ordered(a) /\ ToSet(a) = Wrapped("principals", {Absent})
  BY ListOfIs DEF Wrapped
<1>7. IsSequence(b) /\ Ordered(b) /\ ToSet(b) = Wrapped("policies", {Absent})
  BY ListOfIs DEF Wrapped
<1>8. \A x \in ToSet(a), y \in ToSet(b) : MayPrecede(x, y)
  BY <1>6, <1>7 DEF MayPrecede, Wrapped
<1> HIDE DEF a, b
<1>9. /\ IsSequence(a \o b) /\ Ordered(a \o b)
      /\ ToSet(a \o b) = Wrapped("principals", {Absent}) \cup Wrapped("policies", {Absent})
  <2>1. IsSequence(a \o b) /\ ToSet(a \o b) = ToSet(a) \cup ToSet(b)
    BY <1>6, <1>7, Joined
  <2>2. Ordered(a \o b)
    BY <1>6, <1>7, <1>8, OrderedJoined
  <2> QED
    BY <1>6, <1>7, <2>1, <2>2
<1> QED
  BY <1>2, <1>3, <1>4, <1>5, <1>9 DEF a, b

LEMMA OneIsSequence == ASSUME NEW x PROVE IsSequence(<<x>>) /\ ToSet(<<x>>) = {x}
<1>1. ToSet(<<x>>) = {x}
  BY DEF ToSet
<1> QED
  BY <1>1 DEF IsSequence

LEMMA PlanIs ==
  ASSUME NEW c \in Command, c.verb # "can-i", IsGiven(c)
  PROVE  /\ IsSequence(Plan(c)) /\ Ordered(Plan(c))
         /\ \A q \in ToSet(Plan(c)) : IsQueued(q, c)
<1>0. c.verb \in {"apply", "diff", "delete", "get", "create-key", "create-principal"}
  BY CommandAssumption
<1>1. CASE c.verb = "apply"
  <2>1. c.file \in Accepted /\ Plan(c) = ApplyPlan(c)
    BY <1>1 DEF IsGiven, Plan
  <2>2. \A p \in CompiledSet[c.file] : IsPolicy(p)
    BY <2>1, CompiledManaged
  <2>3. \A q \in ToSet(ApplyPlan(c)) :
          \/ q.what = "principal" /\ q.body \in ToSet(Principals[c.file])
          \/ q.what = "key" \/ q.what = "stale"
          \/ q.what = "policy" /\ q.body \in CompiledSet[c.file]
    BY <2>1, ApplyPlanIs DEF Wrapped
  <2>4. \A q \in ToSet(ApplyPlan(c)) : IsQueued(q, c)
    BY <1>1, <2>2, <2>3 DEF IsQueued, Kind
  <2> QED
    BY <2>1, <2>4, ApplyPlanIs
<1>2. CASE c.verb = "delete"
  <2>1. c.file \in Accepted /\ Plan(c) = DeletePlan(c)
    BY <1>2 DEF IsGiven, Plan
  <2>2. \A q \in ToSet(DeletePlan(c)) :
          \/ q.what = "principal" /\ \E p \in ToSet(Principals[c.file]) : q.body = Disabled(p)
          \/ q.what = "managed"
    BY <2>1, DeletePlanIs DEF Wrapped
  <2>3. \A q \in ToSet(DeletePlan(c)) : IsQueued(q, c)
    BY <1>2, <2>2 DEF IsQueued, Kind
  <2> QED
    BY <2>1, <2>3, DeletePlanIs
<1>3. CASE c.verb = "diff"
  <2>1. Plan(c) = DiffPlan
    BY <1>3 DEF Plan
  <2>2. \A q \in ToSet(DiffPlan) : IsQueued(q, c)
    BY <1>3, DiffPlanIs DEF IsQueued, Kind, Wrapped
  <2> QED
    BY <2>1, <2>2, DiffPlanIs
<1>4. CASE c.verb = "get"
  <2>1. Plan(c) = ListOf("principals")
    BY <1>4 DEF Plan, GetPlan
  <2>2. \A q \in ToSet(ListOf("principals")) : IsQueued(q, c)
    BY <1>4, ListOfIs DEF IsQueued, Kind
  <2> QED
    BY <2>1, <2>2, ListOfIs
<1>5. CASE c.verb = "create-key"
  <2>1. Plan(c) = Posts("key", <<c.body>>)
    BY <1>5 DEF Plan, CreateKeyPlan
  <2>2. \A q \in ToSet(Posts("key", <<c.body>>)) : q.what = "key"
    BY OneIsSequence, PostsAre
  <2>3. \A q \in ToSet(Posts("key", <<c.body>>)) : IsQueued(q, c)
    BY <1>5, <2>2 DEF IsQueued, Kind
  <2> QED
    BY <2>1, <2>3, OneIsSequence, PostsAre
<1>6. CASE c.verb = "create-principal"
  <2>1. Plan(c) = Posts("principal", <<c.body>>)
    BY <1>6 DEF Plan, CreatePrincipalPlan
  <2>2. \A q \in ToSet(Posts("principal", <<c.body>>)) : q.what = "principal"
    BY OneIsSequence, PostsAre
  <2>3. \A q \in ToSet(Posts("principal", <<c.body>>)) : IsQueued(q, c)
    BY <1>6, <2>2 DEF IsQueued, Kind
  <2> QED
    BY <2>1, <2>3, OneIsSequence, PostsAre
<1> QED
  BY <1>0, <1>1, <1>2, <1>3, <1>4, <1>5, <1>6

-----------------------------------------------------------------------------
(* The types, and what the queues hold *)

LEMMA DisabledIs ==
  ASSUME NEW p, IsPolicy(p)
  PROVE  LET d == DisabledPolicy(p) IN
         IsPolicy(d) /\ d.enabled = FALSE /\ d.id = p.id /\ d.constraints = p.constraints
BY DEF DisabledPolicy, IsPolicy

LEMMA EndedIs == ASSUME NEW todo
                 PROVE  /\ EndedStatus(todo) = "running" => todo # <<>>
                        /\ EndedStatus(todo) = "done" => todo = <<>>
                        /\ EndedStatus(todo) \in {"running", "done"}
BY DEF EndedStatus

(* What is left when the first request is answered. *)
LEMMA TailIs ==
  ASSUME NEW r, IsRun(r), r.status = "running"
  PROVE  LET q == Head(r.todo)  rest == Tail(r.todo) IN
         /\ IsSequence(rest) /\ Ordered(rest)
         /\ ToSet(r.todo) = {q} \cup ToSet(rest)
         /\ \A x \in ToSet(rest) : MayPrecede(q, x)
<1>1. IsSequence(r.todo) /\ Ordered(r.todo) /\ r.todo # <<>>
  BY DEF IsRun
<1> QED
  BY <1>1, Headed, OrderedTail

LEMMA ToDisableIs ==
  ASSUME NEW s, NEW r, NEW s2, NEW r2, IsStore(s), IsRun(r), Queue(r),
         ListsToDisable(s, r, s2, r2)
  PROVE  LET q == Head(r.todo)
             c == r.command
             off == {DisabledPolicy(p) : p \in Chosen(s, q.what, c.file)}
         IN /\ IsSequence(r2.todo) /\ Ordered(r2.todo)
            /\ ToSet(r2.todo) = Wrapped("policy", off) \cup ToSet(Tail(r.todo))
            /\ \/ q.what = "stale" /\ c.verb = "apply" /\ ToSet(Tail(r.todo)) = {}
               \/ q.what = "managed" /\ c.verb = "delete"
            /\ \A x \in ToSet(Tail(r.todo)) : x.what \notin {"key", "managed"}
<1> DEFINE q == Head(r.todo)
           c == r.command
           off == {DisabledPolicy(p) : p \in Chosen(s, q.what, c.file)}
           rest == Tail(r.todo)
<1>1. /\ IsSequence(rest) /\ Ordered(rest) /\ ToSet(r.todo) = {q} \cup ToSet(rest)
      /\ \A x \in ToSet(rest) : MayPrecede(q, x)
  BY TailIs DEF ListsToDisable
<1>2. PICK list : /\ IsSequence(list) /\ ToSet(list) = off
                  /\ r2.todo = Posts("policy", list) \o rest
  BY DEF ListsToDisable
<1>3. q.what \in {"stale", "managed"}
  BY DEF ListsToDisable
<1> HIDE DEF q, off, rest
<1>4. IsQueued(q, c) /\ \A x \in ToSet(rest) : IsQueued(x, c)
  BY <1>1 DEF Queue
<1>5. \/ q.what = "stale" /\ c.verb = "apply" /\ ToSet(rest) = {}
      \/ q.what = "managed" /\ c.verb = "delete"
  BY <1>1, <1>3, <1>4 DEF IsQueued, MayPrecede
<1>6. \A x \in ToSet(rest) : x.what \notin {"key", "managed"}
  BY <1>1, <1>4, <1>5 DEF IsQueued, MayPrecede
<1> DEFINE posts == Posts("policy", list)
<1>7. /\ IsSequence(posts) /\ Ordered(posts) /\ ToSet(posts) = Wrapped("policy", off)
      /\ \A x \in ToSet(posts) : x.what = "policy"
  BY <1>2, PostsAre DEF Wrapped
<1> HIDE DEF posts
<1>8. \A a \in ToSet(posts), b \in ToSet(rest) : MayPrecede(a, b)
  BY <1>6, <1>7 DEF MayPrecede
<1>9. /\ IsSequence(posts \o rest) /\ Ordered(posts \o rest)
      /\ ToSet(posts \o rest) = Wrapped("policy", off) \cup ToSet(rest)
  <2>1. IsSequence(posts \o rest) /\ ToSet(posts \o rest) = ToSet(posts) \cup ToSet(rest)
    BY <1>1, <1>7, Joined
  <2>2. Ordered(posts \o rest)
    BY <1>1, <1>7, <1>8, OrderedJoined
  <2> QED
    BY <1>7, <2>1, <2>2
<1>10. r2.todo = posts \o rest
  BY <1>2 DEF posts
<1>11. /\ IsSequence(r2.todo) /\ Ordered(r2.todo)
       /\ ToSet(r2.todo) = Wrapped("policy", off) \cup ToSet(rest)
  BY <1>9, <1>10
<1> QED
  BY <1>5, <1>6, <1>11 DEF off, rest, q

LEMMA TypeKept ==
  ASSUME NEW s, NEW r, NEW s2, NEW r2, IsStore(s), IsRun(r), Queue(r), Moves(s, r, s2, r2)
  PROVE  IsStore(s2) /\ IsRun(r2) /\ Queue(r2)
<1>1. CASE Starts(s, s2, r2)
  <2>1. /\ IsSequence(r2.todo) /\ Ordered(r2.todo)
        /\ \A q \in ToSet(r2.todo) : IsQueued(q, r2.command)
    BY <1>1, PlanIs, NothingQueued DEF Starts
  <2> QED
    BY <1>1, <2>1, EndedIs DEF Starts, IsRun, Queue
<1>2. CASE Decides(s, s2, r2)
  BY <1>2, NothingQueued DEF Decides, IsRun, Queue
<1>3. CASE Fails(s, r, s2, r2)
  BY <1>3 DEF Fails, IsRun, Queue, Keeps
<1>4. CASE PostsHead(s, r, s2, r2)
  <2>1. /\ IsSequence(Tail(r.todo)) /\ Ordered(Tail(r.todo))
        /\ ToSet(r.todo) = {Head(r.todo)} \cup ToSet(Tail(r.todo))
    BY <1>4, TailIs DEF PostsHead
  <2>2. IsStore(s2)
    <3>1. Head(r.todo).what = "policy" => IsPolicy(Head(r.todo).body)
      BY <2>1 DEF Queue, IsQueued
    <3> QED
      BY <1>4, <3>1, WritesStore DEF PostsHead
  <2>3. IsRun(r2)
    BY <1>4, <2>1, EndedIs DEF PostsHead, IsRun, Keeps
  <2>4. Queue(r2)
    BY <1>4, <2>1 DEF PostsHead, Queue, Keeps
  <2> QED
    BY <2>2, <2>3, <2>4
<1>5. CASE ListsHead(s, r, s2, r2)
  <2>1. /\ IsSequence(Tail(r.todo)) /\ Ordered(Tail(r.todo))
        /\ ToSet(r.todo) = {Head(r.todo)} \cup ToSet(Tail(r.todo))
    BY <1>5, TailIs DEF ListsHead
  <2> QED
    BY <1>5, <2>1, EndedIs DEF ListsHead, IsRun, Queue, Keeps
<1>6. CASE ListsToDisable(s, r, s2, r2)
  <2> DEFINE q == Head(r.todo)
             off == {DisabledPolicy(p) : p \in Chosen(s, q.what, r.command.file)}
  <2>1. /\ IsSequence(r2.todo) /\ Ordered(r2.todo)
        /\ ToSet(r2.todo) = Wrapped("policy", off) \cup ToSet(Tail(r.todo))
        /\ \/ q.what = "stale" /\ r.command.verb = "apply"
           \/ q.what = "managed" /\ r.command.verb = "delete"
    BY <1>6, ToDisableIs
  <2>2. ToSet(r.todo) = {q} \cup ToSet(Tail(r.todo))
    BY <1>6, TailIs DEF ListsToDisable
  <2>3. IsRun(r2)
    BY <1>6, <2>1, EndedIs DEF ListsToDisable, IsRun, Keeps
  <2>4. ASSUME NEW b \in off
        PROVE  IsQueued([what |-> "policy", body |-> b], r.command)
    <3>1. PICK p \in Chosen(s, q.what, r.command.file) : b = DisabledPolicy(p)
      OBVIOUS
    <3>2. IsPolicy(p)
      BY DEF IsStore, Chosen
    <3>3. IsPolicy(b) /\ b.enabled = FALSE /\ b.id = p.id
      BY <3>1, <3>2, DisabledIs
    <3>4. q.what = "stale" => p.id \notin CompiledIds[r.command.file]
      BY DEF Chosen, IsStale
    <3> HIDE DEF q, off
    <3> QED
      BY <2>1, <3>3, <3>4 DEF IsQueued, Kind
  <2>5. \A x \in ToSet(Tail(r.todo)) : IsQueued(x, r.command)
    BY <2>2 DEF Queue
  <2>6. r2.command = r.command
    BY <1>6 DEF ListsToDisable, Keeps
  <2> HIDE DEF q, off
  <2>7. Queue(r2)
    BY <2>1, <2>4, <2>5, <2>6 DEF Queue, Wrapped
  <2>8. s2 = s
    BY <1>6 DEF ListsToDisable
  <2> QED
    BY <2>3, <2>7, <2>8
<1> QED
  BY <1>1, <1>2, <1>3, <1>4, <1>5, <1>6 DEF Moves

LEMMA InUnion ==
  ASSUME NEW A, NEW B, NEW what, NEW b
  PROVE  b \in BodiesOf(A \cup B, what) <=> b \in BodiesOf(A, what) \/ b \in BodiesOf(B, what)
BY DEF BodiesOf

LEMMA InBodies ==
  ASSUME NEW S, NEW v, NEW what, NEW b
  PROVE  /\ b \in BodiesOf(Wrapped(v, S), what) <=> v = what /\ b \in S
         /\ b \notin BodiesOf({}, what)
<1>1. b \in BodiesOf(Wrapped(v, S), what) => v = what /\ b \in S
  BY DEF BodiesOf, Wrapped
<1>2. ASSUME b \in S
      PROVE  b \in BodiesOf(Wrapped(what, S), what)
  <2> DEFINE q == [what |-> what, body |-> b]
  <2>1. q \in Wrapped(what, S) /\ q.what = what /\ q.body = b
    BY <1>2 DEF Wrapped
  <2> HIDE DEF q
  <2> QED
    BY <2>1 DEF BodiesOf
<1>3. b \notin BodiesOf({}, what)
  BY DEF BodiesOf
<1> QED
  BY <1>1, <1>2, <1>3

LEMMA PendingTail ==
  ASSUME NEW r, IsRun(r), r.status = "running", NEW r2, r2.todo = Tail(r.todo), NEW what
  PROVE  /\ Pending(r2, what) \subseteq Pending(r, what)
         /\ Head(r.todo).what # what => Pending(r2, what) = Pending(r, what)
         /\ Head(r.todo).what = what =>
              Pending(r, what) = Pending(r2, what) \cup {Head(r.todo).body}
<1>1. ToSet(r.todo) = {Head(r.todo)} \cup ToSet(r2.todo)
  BY TailIs
<1> QED
  BY <1>1 DEF Pending, BodiesOf

LEMMA PendingPlan ==
  ASSUME NEW r, r.command.file \in Accepted
  PROVE  /\ r.todo = ApplyPlan(r.command) =>
              /\ Pending(r, "principal") = ToSet(Principals[r.command.file])
              /\ Pending(r, "policy") = CompiledSet[r.command.file]
              /\ r.command.secrets => Pending(r, "key") = ToSet(ApiKeys[r.command.file])
              /\ r.command.prune => Pending(r, "stale") # {}
              /\ Pending(r, "managed") = {}
         /\ r.todo = DeletePlan(r.command) =>
              /\ Pending(r, "policy") = {}
              /\ Pending(r, "managed") # {}
              /\ r.command.principals =>
                   Pending(r, "principal") = {Disabled(p) : p \in ToSet(Principals[r.command.file])}
<1>1. ASSUME r.todo = ApplyPlan(r.command)
      PROVE  /\ Pending(r, "principal") = ToSet(Principals[r.command.file])
             /\ Pending(r, "policy") = CompiledSet[r.command.file]
             /\ r.command.secrets => Pending(r, "key") = ToSet(ApiKeys[r.command.file])
             /\ r.command.prune => Pending(r, "stale") # {}
             /\ Pending(r, "managed") = {}
  <2> DEFINE P == ToSet(Principals[r.command.file])
             K == ToSet(ApiKeys[r.command.file])
             Y == CompiledSet[r.command.file]
  <2>1. ToSet(r.todo) =
                 Wrapped("principal", P)
            \cup (IF r.command.secrets THEN Wrapped("key", K) ELSE {})
            \cup Wrapped("policy", Y)
            \cup (IF r.command.prune THEN Wrapped("stale", {Absent}) ELSE {})
    BY <1>1, ApplyPlanIs
  <2> HIDE DEF P, K, Y
  <2>2. \A what, b :
          b \in Pending(r, what) <=>
            \/ what = "principal" /\ b \in P
            \/ r.command.secrets /\ what = "key" /\ b \in K
            \/ what = "policy" /\ b \in Y
            \/ r.command.prune /\ what = "stale" /\ b = Absent
    <3> TAKE what, b
    <3> DEFINE SK == IF r.command.secrets THEN Wrapped("key", K) ELSE {}
               SS == IF r.command.prune THEN Wrapped("stale", {Absent}) ELSE {}
    <3>1. b \in BodiesOf(SK, what) <=> r.command.secrets /\ what = "key" /\ b \in K
      BY InBodies
    <3>2. b \in BodiesOf(SS, what) <=> r.command.prune /\ what = "stale" /\ b = Absent
      BY InBodies
    <3>3. ToSet(r.todo) = ((Wrapped("principal", P) \cup SK) \cup Wrapped("policy", Y)) \cup SS
      BY <2>1
    <3> HIDE DEF SK, SS
    <3>4. b \in BodiesOf(((Wrapped("principal", P) \cup SK) \cup Wrapped("policy", Y)) \cup SS, what)
            <=> \/ b \in BodiesOf(Wrapped("principal", P), what) \/ b \in BodiesOf(SK, what)
                \/ b \in BodiesOf(Wrapped("policy", Y), what) \/ b \in BodiesOf(SS, what)
      <4>1. \A A, B, C, D : b \in BodiesOf(((A \cup B) \cup C) \cup D, what)
              <=> \/ b \in BodiesOf(A, what) \/ b \in BodiesOf(B, what)
                  \/ b \in BodiesOf(C, what) \/ b \in BodiesOf(D, what)
        BY DEF BodiesOf
      <4> QED
        BY <4>1
    <3>5. /\ b \in BodiesOf(Wrapped("principal", P), what) <=> what = "principal" /\ b \in P
          /\ b \in BodiesOf(Wrapped("policy", Y), what) <=> what = "policy" /\ b \in Y
      BY InBodies
    <3> QED
      BY <3>1, <3>2, <3>3, <3>4, <3>5 DEF Pending
  <2>3. /\ Pending(r, "principal") = P
        /\ Pending(r, "policy") = Y
        /\ Pending(r, "managed") = {}
    BY <2>2
  <2>4. r.command.secrets => Pending(r, "key") = K
    BY <2>2
  <2>5. r.command.prune => Pending(r, "stale") # {}
    BY <2>2
  <2> QED
    BY <2>3, <2>4, <2>5 DEF P, K, Y
<1>2. ASSUME r.todo = DeletePlan(r.command)
      PROVE  /\ Pending(r, "policy") = {}
             /\ Pending(r, "managed") # {}
             /\ r.command.principals =>
                  Pending(r, "principal") = {Disabled(p) : p \in ToSet(Principals[r.command.file])}
  <2> DEFINE P == {Disabled(p) : p \in ToSet(Principals[r.command.file])}
  <2>1. ToSet(r.todo) = Wrapped("managed", {Absent}) \cup
                        (IF r.command.principals THEN Wrapped("principal", P) ELSE {})
    BY <1>2, DeletePlanIs
  <2> HIDE DEF P
  <2>2. \A what, b :
          b \in Pending(r, what) <=>
            \/ what = "managed" /\ b = Absent
            \/ r.command.principals /\ what = "principal" /\ b \in P
    <3> TAKE what, b
    <3> DEFINE S == IF r.command.principals THEN Wrapped("principal", P) ELSE {}
    <3>1. b \in BodiesOf(S, what) <=> r.command.principals /\ what = "principal" /\ b \in P
      BY InBodies
    <3>2. ToSet(r.todo) = Wrapped("managed", {Absent}) \cup S
      BY <2>1
    <3> HIDE DEF S
    <3>3. b \in BodiesOf(Wrapped("managed", {Absent}) \cup S, what)
            <=> b \in BodiesOf(Wrapped("managed", {Absent}), what) \/ b \in BodiesOf(S, what)
      BY InUnion
    <3>4. b \in BodiesOf(Wrapped("managed", {Absent}), what) <=> what = "managed" /\ b = Absent
      BY InBodies
    <3> QED
      BY <3>1, <3>2, <3>3, <3>4 DEF Pending
  <2>3. Pending(r, "policy") = {} /\ Pending(r, "managed") # {}
    BY <2>2
  <2>4. r.command.principals => Pending(r, "principal") = P
    BY <2>2
  <2> QED
    BY <2>3, <2>4 DEF P
<1> QED
  BY <1>1, <1>2

(* After the list, the disabled versions of the chosen policies wait.      *)
LEMMA PendingDisabled ==
  ASSUME NEW s, NEW r, NEW s2, NEW r2, IsStore(s), IsRun(r), Queue(r),
         ListsToDisable(s, r, s2, r2)
  PROVE  LET q == Head(r.todo)
             off == {DisabledPolicy(p) : p \in Chosen(s, q.what, r.command.file)}
         IN /\ Pending(r2, "policy") = off \cup Pending(r, "policy")
            /\ Pending(r2, "principal") = Pending(r, "principal")
            /\ Pending(r2, "managed") = {} /\ Pending(r2, "key") = {} /\ Pending(r, "key") = {}
            /\ \/ /\ q.what = "stale" /\ r.command.verb = "apply"
                  /\ Pending(r, "policy") = {} /\ Pending(r2, "stale") = {}
               \/ q.what = "managed" /\ r.command.verb = "delete"
<1> DEFINE q == Head(r.todo)
           off == {DisabledPolicy(p) : p \in Chosen(s, q.what, r.command.file)}
           rest == Tail(r.todo)
<1>1. /\ ToSet(r2.todo) = Wrapped("policy", off) \cup ToSet(rest)
      /\ \/ q.what = "stale" /\ r.command.verb = "apply" /\ ToSet(rest) = {}
         \/ q.what = "managed" /\ r.command.verb = "delete"
      /\ \A x \in ToSet(rest) : x.what \notin {"key", "managed"}
  BY ToDisableIs
<1>2. ToSet(r.todo) = {q} \cup ToSet(rest)
  BY TailIs DEF ListsToDisable
<1> HIDE DEF q, off, rest
<1>3. \A what, b : b \in Pending(r2, what) <=>
        (what = "policy" /\ b \in off) \/ b \in BodiesOf(ToSet(rest), what)
  <2> TAKE what, b
  <2>1. b \in BodiesOf(Wrapped("policy", off), what) <=> what = "policy" /\ b \in off
    BY InBodies
  <2>2. b \in BodiesOf(Wrapped("policy", off) \cup ToSet(rest), what)
          <=> b \in BodiesOf(Wrapped("policy", off), what) \/ b \in BodiesOf(ToSet(rest), what)
    BY InUnion
  <2> QED
    BY <1>1, <2>1, <2>2 DEF Pending
<1>4. \A what, b : q.what # what => (b \in Pending(r, what) <=> b \in BodiesOf(ToSet(rest), what))
  BY <1>2 DEF Pending, BodiesOf
<1>5. \A b : b \notin BodiesOf(ToSet(rest), "key") /\ b \notin BodiesOf(ToSet(rest), "managed")
  BY <1>1 DEF BodiesOf
<1>6. q.what \in {"stale", "managed"}
  BY <1>1
<1>7. Pending(r2, "policy") = off \cup Pending(r, "policy")
  BY <1>3, <1>4, <1>6
<1>8. Pending(r2, "principal") = Pending(r, "principal")
  BY <1>3, <1>4, <1>6
<1>9. Pending(r2, "managed") = {} /\ Pending(r2, "key") = {} /\ Pending(r, "key") = {}
  BY <1>3, <1>4, <1>5, <1>6
<1>10. ToSet(rest) = {} /\ q.what = "stale" => Pending(r, "policy") = {} /\ Pending(r2, "stale") = {}
  <2>1. ToSet(rest) = {} => \A what, b : b \notin BodiesOf(ToSet(rest), what)
    BY DEF BodiesOf
  <2> QED
    BY <1>3, <1>4, <2>1
<1>11. \/ q.what = "stale" /\ r.command.verb = "apply" /\ Pending(r, "policy") = {}
            /\ Pending(r2, "stale") = {}
       \/ q.what = "managed" /\ r.command.verb = "delete"
  BY <1>1, <1>10
<1> QED
  BY <1>7, <1>8, <1>9, <1>11 DEF q, off

-----------------------------------------------------------------------------
(* What an apply or a delete leaves alone *)

LEMMA CompiledOurs ==
  ASSUME NEW f \in Accepted, NEW b \in CompiledSet[f]
  PROVE  Ours(b, f) /\ \A p : p.id = b.id => Ours(p, f)
<1>1. b.id \in CompiledIds[f]
  BY CompiledManaged
<1> QED
  BY <1>1 DEF Ours

LEMMA UntouchedByPost ==
  ASSUME NEW s, NEW r, NEW s2, NEW r2, IsStore(s), IsRun(r), Queue(r),
         Untouched(s, r), Alone(r, {"apply", "delete"}), PostsHead(s, r, s2, r2)
  PROVE  Untouched(s2, r2)
<1> DEFINE q == Head(r.todo)
           b == q.body
           f == r.command.file
           mine == {DisabledPolicy(p) : p \in r.before.policies} \cup CompiledSet[f]
           names == Names("Principal", File[f])
<1>1. /\ r.status = "running" /\ Writes(s, q, s2) /\ q.what \in {"principal", "key", "policy"}
      /\ r2.before = r.before /\ r2.command = r.command
      /\ r2.status = "running" => r2.todo = Tail(r.todo)
  BY EndedIs DEF PostsHead, Keeps
<1>2. /\ {p \in r.before.policies : ~Ours(p, f)} = {p \in s.policies : ~Ours(p, f)}
      /\ s.policies \subseteq r.before.policies \cup mine
      /\ {p \in r.before.principals : p.id \notin names} \subseteq s.principals
      /\ r.before.keys \subseteq s.keys
      /\ \A x \in Pending(r, "policy") :
           Ours(x, f) /\ x \in mine /\ \A p \in s.policies : p.id = x.id => Ours(p, f)
  BY <1>1 DEF Untouched
<1>3. q \in ToSet(r.todo) /\ IsQueued(q, r.command)
  BY <1>1, TailIs DEF Queue
<1>4. q.what = "policy" => b \in Pending(r, "policy")
  BY <1>3 DEF Pending, BodiesOf
<1>5. f \in Accepted /\ r.command.verb \in {"apply", "delete"}
  BY DEF Alone
<1>6. q.what = "principal" => b.id \in names
  <2> SUFFICES ASSUME q.what = "principal" PROVE b.id \in names
    OBVIOUS
  <2>1. \E p \in ToSet(Principals[f]) : b = p \/ b = Disabled(p)
    BY <1>3, <1>5 DEF IsQueued
  <2>2. \A p \in ToSet(Principals[f]) : p.id \in names /\ Disabled(p).id = p.id
    BY <1>5, PrincipalsAre DEF Disabled
  <2> QED
    BY <2>1, <2>2
<1>7. \/ s2.policies = s.policies
      \/ q.what = "policy" /\ s2.policies = {p \in s.policies : p.id # b.id} \cup {b}
  BY <1>1 DEF Writes, Upsert
<1>8. \/ s2.principals = s.principals
      \/ q.what = "principal" /\ s2.principals = {p \in s.principals : p.id # b.id} \cup {b}
  BY <1>1 DEF Writes, Upsert
<1>9. s.keys \subseteq s2.keys
  BY <1>1 DEF Writes
<1>10. r2.status = "running" =>
         /\ Pending(r2, "policy") \subseteq Pending(r, "policy")
         /\ Pending(r2, "managed") = {}
  <2> SUFFICES ASSUME r2.status = "running"
               PROVE  /\ Pending(r2, "policy") \subseteq Pending(r, "policy")
                      /\ Pending(r2, "managed") = {}
    OBVIOUS
  <2>1. r2.todo = Tail(r.todo)
    BY <1>1
  <2>2. \A x \in ToSet(Tail(r.todo)) : x.what # "managed"
    BY <1>1, TailIs DEF MayPrecede
  <2>3. Pending(r2, "managed") = {}
    BY <2>1, <2>2 DEF Pending, BodiesOf
  <2> QED
    BY <1>1, <2>1, <2>3, PendingTail
<1> HIDE DEF b, f, mine, names, q
<1>11. {p \in r.before.policies : ~Ours(p, f)} = {p \in s2.policies : ~Ours(p, f)}
  BY <1>2, <1>4, <1>7
<1>12. s2.policies \subseteq r.before.policies \cup mine
  BY <1>2, <1>4, <1>7
<1>13. {p \in r.before.principals : p.id \notin names} \subseteq s2.principals
  BY <1>2, <1>6, <1>8
<1>14. r2.status = "running" =>
         \A x \in Pending(r2, "policy") :
           Ours(x, f) /\ x \in mine /\ \A p \in s2.policies : p.id = x.id => Ours(p, f)
  BY <1>2, <1>4, <1>7, <1>10
<1> QED
  BY <1>1, <1>2, <1>9, <1>10, <1>11, <1>12, <1>13, <1>14 DEF Untouched, f, mine, names

LEMMA UntouchedByList ==
  ASSUME NEW s, NEW r, NEW s2, NEW r2, IsStore(s), IsRun(r), Queue(r),
         Untouched(s, r), Alone(r, {"apply", "delete"}), ListsToDisable(s, r, s2, r2)
  PROVE  Untouched(s2, r2)
<1> DEFINE q == Head(r.todo)
           f == r.command.file
           mine == {DisabledPolicy(p) : p \in r.before.policies} \cup CompiledSet[f]
           names == Names("Principal", File[f])
           off == {DisabledPolicy(p) : p \in Chosen(s, q.what, f)}
<1>1. /\ r.status = "running" /\ s2 = s /\ q.what \in {"stale", "managed"}
      /\ r2.before = r.before /\ r2.command = r.command
  BY DEF ListsToDisable, Keeps
<1>2. /\ {p \in r.before.policies : ~Ours(p, f)} = {p \in s.policies : ~Ours(p, f)}
      /\ s.policies \subseteq r.before.policies \cup mine
      /\ {p \in r.before.principals : p.id \notin names} \subseteq s.principals
      /\ r.before.keys \subseteq s.keys
      /\ \A x \in Pending(r, "policy") :
           Ours(x, f) /\ x \in mine /\ \A p \in s.policies : p.id = x.id => Ours(p, f)
      /\ Pending(r, "managed") # {} => s.policies = r.before.policies
  BY <1>1 DEF Untouched
<1>3. Pending(r2, "policy") = off \cup Pending(r, "policy") /\ Pending(r2, "managed") = {}
  BY PendingDisabled
<1>4. q.what = "managed" => s.policies = r.before.policies
  <2>1. q \in ToSet(r.todo)
    BY <1>1, TailIs
  <2>2. q.what = "managed" => q.body \in Pending(r, "managed")
    BY <2>1 DEF Pending, BodiesOf
  <2> QED
    BY <1>2, <2>2
<1>5. \A p \in r.before.policies : DisabledPolicy(p).enabled = FALSE
  BY DisabledIs DEF IsRun, IsStore
<1>6. ASSUME NEW p \in Chosen(s, q.what, f) PROVE p \in r.before.policies
  <2>1. CASE q.what = "managed"
    BY <1>4, <2>1 DEF Chosen
  <2>2. CASE q.what = "stale"
    <3>1. p \in s.policies /\ p.enabled /\ p.id \notin CompiledIds[f]
      BY <2>2 DEF Chosen, IsStale
    <3>2. p \notin CompiledSet[f]
      BY <3>1, CompiledManaged DEF Alone
    <3> QED
      BY <1>2, <1>5, <3>1, <3>2
  <2> QED
    BY <1>1, <2>1, <2>2
<1>7. ASSUME NEW p \in Chosen(s, q.what, f)
      PROVE  LET x == DisabledPolicy(p) IN
             Ours(x, f) /\ x \in mine /\ \A y \in s.policies : y.id = x.id => Ours(y, f)
  <2>1. p \in s.policies /\ IsAgctlPolicy(p) /\ PolicyRoleBinding(p) \in Bindings[f]
    BY <1>1 DEF Chosen, IsStale, IsManagedHere
  <2>2. IsPolicy(p) /\ \A y \in s.policies : y.id = p.id => y = p
    BY <2>1 DEF IsStore
  <2>3. DisabledPolicy(p).id = p.id /\ DisabledPolicy(p).constraints = p.constraints
    BY <2>2, DisabledIs
  <2>4. Ours(p, f) /\ Ours(DisabledPolicy(p), f)
    BY <2>1, <2>3 DEF Ours, IsAgctlPolicy, PolicyRoleBinding
  <2>5. DisabledPolicy(p) \in mine
    BY <1>6
  <2> QED
    BY <2>2, <2>3, <2>4, <2>5
<1> HIDE DEF f, mine, names
<1>8. \A x \in Pending(r2, "policy") :
        Ours(x, f) /\ x \in mine /\ \A p \in s.policies : p.id = x.id => Ours(p, f)
  BY <1>2, <1>3, <1>7
<1> HIDE DEF off, q
<1> QED
  BY <1>1, <1>2, <1>3, <1>8 DEF Untouched, f, mine, names

LEMMA UntouchedKept ==
  ASSUME NEW s, NEW r, NEW s2, NEW r2, IsStore(s), IsRun(r), Queue(r),
         Untouched(s, r), Moves(s, r, s2, r2)
  PROVE  Untouched(s2, r2)
<1> SUFFICES ASSUME Alone(r2, {"apply", "delete"}) PROVE Untouched(s2, r2)
  BY DEF Untouched
<1> DEFINE f == r2.command.file
           mine == {DisabledPolicy(p) : p \in r2.before.policies} \cup CompiledSet[f]
<1>1. CASE Starts(s, s2, r2)
  <2>1. s2 = s /\ r2.before = s
    BY <1>1 DEF Starts
  <2>2. r2.status = "running" =>
          \A b \in Pending(r2, "policy") :
            Ours(b, f) /\ b \in mine /\ \A p \in s.policies : p.id = b.id => Ours(p, f)
    <3>1. f \in Accepted /\ r2.command.verb \in {"apply", "delete"}
      BY DEF Alone
    <3>2. r2.status = "running" => r2.todo \in {ApplyPlan(r2.command), DeletePlan(r2.command)}
      BY <1>1, <3>1 DEF Starts, Plan
    <3>3. r2.status = "running" => Pending(r2, "policy") \subseteq CompiledSet[f]
      BY <3>1, <3>2, PendingPlan
    <3> QED
      BY <3>1, <3>3, CompiledOurs
  <2> QED
    BY <2>1, <2>2 DEF Untouched
<1>2. CASE Decides(s, s2, r2)
  BY <1>2 DEF Decides, Alone
<1>3. CASE Fails(s, r, s2, r2)
  <2>1. /\ s2 = s /\ r2.before = r.before /\ r2.command = r.command /\ r2.alone = r.alone
        /\ r2.status = "failed"
    BY <1>3 DEF Fails, Keeps
  <2> QED
    BY <2>1 DEF Untouched, Alone
<1>4. CASE PostsHead(s, r, s2, r2)
  <2>1. Alone(r, {"apply", "delete"})
    BY <1>4 DEF PostsHead, Keeps, Alone
  <2> QED
    BY <1>4, <2>1, UntouchedByPost
<1>5. CASE ListsHead(s, r, s2, r2)
  <2>1. Head(r.todo).what \in {"principals", "policies"} /\ r2.command = r.command
    BY <1>5 DEF ListsHead, Keeps
  <2>2. IsQueued(Head(r.todo), r.command)
    BY <1>5, TailIs DEF ListsHead, Queue
  <2> QED
    BY <2>1, <2>2 DEF IsQueued, Alone
<1>6. CASE ListsToDisable(s, r, s2, r2)
  <2>1. Alone(r, {"apply", "delete"})
    BY <1>6 DEF ListsToDisable, Keeps, Alone
  <2> QED
    BY <1>6, <2>1, UntouchedByList
<1> QED
  BY <1>1, <1>2, <1>3, <1>4, <1>5, <1>6 DEF Moves

-----------------------------------------------------------------------------
(* What is left to write *)

LEMMA ApplyByPost ==
  ASSUME NEW s, NEW r, NEW s2, NEW r2, IsStore(s), IsRun(r), Queue(r),
         ApplyOnItsWay(s, r), Alone(r, {"apply"}), Underway(r2), PostsHead(s, r, s2, r2)
  PROVE  ApplyOnItsWay(s2, r2)
<1> DEFINE q == Head(r.todo)
           b == q.body
           f == r.command.file
           compiled == CompiledSet[f]
           principals == ToSet(Principals[f])
<1>1. /\ r.status = "running" /\ Writes(s, q, s2) /\ q.what \in {"principal", "key", "policy"}
      /\ r2.command = r.command /\ r2.todo = Tail(r.todo)
  BY DEF PostsHead, Keeps, Underway
<1>2. /\ compiled \subseteq s.policies \cup Pending(r, "policy")
      /\ principals \subseteq s.principals \cup Pending(r, "principal")
      /\ r.command.prune /\ Pending(r, "stale") = {} =>
           \A p \in s.policies : IsManagedHere(p, f) /\ p \notin compiled =>
             \E x \in Pending(r, "policy") : x.id = p.id
  BY <1>1 DEF ApplyOnItsWay, Underway
<1>3. f \in Accepted /\ r.command.verb = "apply"
  BY DEF Alone
<1>4. q \in ToSet(r.todo) /\ IsQueued(q, r.command)
  BY <1>1, TailIs DEF Queue
<1>5. q.what = "policy" => b \in compiled \/ (b.enabled = FALSE /\ b.id \notin CompiledIds[f])
  BY <1>3, <1>4 DEF IsQueued
<1>6. q.what = "principal" => b \in principals
  BY <1>3, <1>4 DEF IsQueued
<1>7. /\ q.what # "policy" => Pending(r2, "policy") = Pending(r, "policy")
      /\ q.what = "policy" => Pending(r, "policy") = Pending(r2, "policy") \cup {b}
      /\ q.what # "principal" => Pending(r2, "principal") = Pending(r, "principal")
      /\ q.what = "principal" => Pending(r, "principal") = Pending(r2, "principal") \cup {b}
      /\ Pending(r2, "stale") = Pending(r, "stale")
  BY <1>1, PendingTail
<1>8. \/ q.what # "policy" /\ s2.policies = s.policies
      \/ q.what = "policy" /\ s2.policies = {p \in s.policies : p.id # b.id} \cup {b}
  BY <1>1 DEF Writes, Upsert
<1>9. \/ q.what # "principal" /\ s2.principals = s.principals
      \/ q.what = "principal" /\ s2.principals = {p \in s.principals : p.id # b.id} \cup {b}
  BY <1>1 DEF Writes, Upsert
<1>10. /\ \A p \in compiled : p.id \in CompiledIds[f]
       /\ \A p, x \in compiled : p.id = x.id => p = x
       /\ \A p, x \in principals : p.id = x.id => p = x
  BY <1>3, CompiledManaged, PrincipalsAre
<1> HIDE DEF q, b, f, compiled, principals
<1>11. compiled \subseteq s2.policies \cup Pending(r2, "policy")
  BY <1>2, <1>5, <1>7, <1>8, <1>10
<1>12. principals \subseteq s2.principals \cup Pending(r2, "principal")
  BY <1>2, <1>6, <1>7, <1>9, <1>10
<1>13. ASSUME r.command.prune, Pending(r2, "stale") = {}, NEW p \in s2.policies,
              IsManagedHere(p, f), p \notin compiled
       PROVE  \E x \in Pending(r2, "policy") : x.id = p.id
  <2>1. ASSUME q.what = "policy" PROVE p # b
    <3>1. b.enabled = FALSE => ~IsManagedHere(b, f)
      BY DEF IsManagedHere
    <3> QED
      BY <1>5, <1>13, <2>1, <3>1
  <2>2. p \in s.policies /\ (q.what = "policy" => p.id # b.id)
    BY <1>8, <2>1
  <2>3. \E x \in Pending(r, "policy") : x.id = p.id
    BY <1>2, <1>7, <1>13, <2>2
  <2> QED
    BY <1>7, <2>2, <2>3
<1> QED
  BY <1>1, <1>11, <1>12, <1>13 DEF ApplyOnItsWay, f, compiled, principals

LEMMA ApplyByList ==
  ASSUME NEW s, NEW r, NEW s2, NEW r2, IsStore(s), IsRun(r), Queue(r),
         ApplyOnItsWay(s, r), Alone(r, {"apply"}), ListsToDisable(s, r, s2, r2)
  PROVE  ApplyOnItsWay(s2, r2)
<1> DEFINE q == Head(r.todo)
           f == r.command.file
           compiled == CompiledSet[f]
           off == {DisabledPolicy(p) : p \in Chosen(s, q.what, f)}
<1>1. r.status = "running" /\ s2 = s /\ r2.command = r.command
  BY DEF ListsToDisable, Keeps
<1>2. f \in Accepted /\ r.command.verb = "apply"
  BY DEF Alone
<1>3. /\ Pending(r2, "policy") = off \cup Pending(r, "policy")
      /\ Pending(r2, "principal") = Pending(r, "principal")
      /\ q.what = "stale" /\ Pending(r, "policy") = {}
  BY <1>2, PendingDisabled
<1>4. /\ compiled \subseteq s.policies \cup Pending(r, "policy")
      /\ ToSet(Principals[f]) \subseteq s.principals \cup Pending(r, "principal")
  BY <1>1 DEF ApplyOnItsWay, Underway
<1>5. ASSUME NEW p \in s.policies, IsManagedHere(p, f), p \notin compiled
      PROVE  \E x \in off : x.id = p.id
  <2>1. p.id \notin CompiledIds[f]
    <3> SUFFICES ASSUME p.id \in CompiledIds[f] PROVE FALSE
      OBVIOUS
    <3>1. PICK x \in compiled : x.id = p.id
      BY <1>2 DEF CompiledIds
    <3>2. x \in s.policies
      BY <1>3, <1>4
    <3>3. x = p
      BY <3>1, <3>2 DEF IsStore
    <3> QED
      BY <1>5, <3>3
  <2>2. IsStale(p, f)
    BY <1>5, <2>1 DEF IsStale, IsManagedHere
  <2>3. p \in Chosen(s, q.what, f)
    BY <1>3, <2>2 DEF Chosen
  <2>4. DisabledPolicy(p).id = p.id
    BY DisabledIs DEF IsStore
  <2> QED
    BY <2>3, <2>4
<1> HIDE DEF q, f, compiled, off
<1>6. compiled \subseteq s2.policies \cup Pending(r2, "policy")
  BY <1>1, <1>3, <1>4
<1>7. ToSet(Principals[f]) \subseteq s2.principals \cup Pending(r2, "principal")
  BY <1>1, <1>3, <1>4
<1>8. \A p \in s2.policies : IsManagedHere(p, f) /\ p \notin compiled =>
        \E x \in Pending(r2, "policy") : x.id = p.id
  BY <1>1, <1>3, <1>5
<1> QED
  BY <1>1, <1>6, <1>7, <1>8 DEF ApplyOnItsWay, f, compiled

LEMMA ApplyKept ==
  ASSUME NEW s, NEW r, NEW s2, NEW r2, IsStore(s), IsRun(r), Queue(r),
         ApplyOnItsWay(s, r), Moves(s, r, s2, r2)
  PROVE  ApplyOnItsWay(s2, r2)
<1> SUFFICES ASSUME Alone(r2, {"apply"}), Underway(r2) PROVE ApplyOnItsWay(s2, r2)
  BY DEF ApplyOnItsWay
<1>1. CASE Starts(s, s2, r2)
  <2>1. r2.command.file \in Accepted /\ r2.todo = ApplyPlan(r2.command)
    BY <1>1 DEF Starts, Plan, Alone, Underway
  <2>2. /\ Pending(r2, "principal") = ToSet(Principals[r2.command.file])
        /\ Pending(r2, "policy") = CompiledSet[r2.command.file]
        /\ r2.command.prune => Pending(r2, "stale") # {}
    BY <2>1, PendingPlan
  <2> QED
    BY <2>2 DEF ApplyOnItsWay
<1>2. CASE Decides(s, s2, r2)
  BY <1>2 DEF Decides, Alone
<1>3. CASE Fails(s, r, s2, r2)
  BY <1>3 DEF Fails, Underway
<1>4. CASE PostsHead(s, r, s2, r2)
  <2>1. Alone(r, {"apply"})
    BY <1>4 DEF PostsHead, Keeps, Alone
  <2> QED
    BY <1>4, <2>1, ApplyByPost
<1>5. CASE ListsHead(s, r, s2, r2)
  <2>1. Head(r.todo).what \in {"principals", "policies"} /\ r2.command = r.command
    BY <1>5 DEF ListsHead, Keeps
  <2>2. IsQueued(Head(r.todo), r.command)
    BY <1>5, TailIs DEF ListsHead, Queue
  <2> QED
    BY <2>1, <2>2 DEF IsQueued, Alone
<1>6. CASE ListsToDisable(s, r, s2, r2)
  <2>1. Alone(r, {"apply"})
    BY <1>6 DEF ListsToDisable, Keeps, Alone
  <2> QED
    BY <1>6, <2>1, ApplyByList
<1> QED
  BY <1>1, <1>2, <1>3, <1>4, <1>5, <1>6 DEF Moves

LEMMA DisabledPrincipals ==
  ASSUME NEW f \in Accepted
  PROVE  \A p \in ToSet(Principals[f]) :
           /\ Disabled(p).id = p.id /\ Disabled(p).status = "disabled"
           /\ p.id \in Names("Principal", File[f])
BY PrincipalsAre DEF Disabled

LEMMA DeleteByPost ==
  ASSUME NEW s, NEW r, NEW s2, NEW r2, IsStore(s), IsRun(r), Queue(r),
         DeleteOnItsWay(s, r), Alone(r, {"delete"}), Underway(r2), PostsHead(s, r, s2, r2)
  PROVE  DeleteOnItsWay(s2, r2)
<1> DEFINE q == Head(r.todo)
           b == q.body
           f == r.command.file
           names == Names("Principal", File[f])
<1>1. /\ r.status = "running" /\ Writes(s, q, s2) /\ q.what \in {"principal", "key", "policy"}
      /\ r2.command = r.command /\ r2.todo = Tail(r.todo)
  BY DEF PostsHead, Keeps, Underway
<1>2. /\ Pending(r, "managed") = {} =>
           \A p \in s.policies : IsManagedHere(p, f) =>
             \E x \in Pending(r, "policy") : x.id = p.id
      /\ r.command.principals =>
           \A p \in s.principals : p.id \in names =>
             p.status = "disabled" \/ \E x \in Pending(r, "principal") : x.id = p.id
  BY <1>1 DEF DeleteOnItsWay, Underway
<1>3. f \in Accepted /\ r.command.verb = "delete"
  BY DEF Alone
<1>4. q \in ToSet(r.todo) /\ IsQueued(q, r.command)
  BY <1>1, TailIs DEF Queue
<1>5. q.what = "policy" => b.enabled = FALSE
  BY <1>3, <1>4 DEF IsQueued
<1>6. q.what = "principal" => b.status = "disabled"
  BY <1>3, <1>4, DisabledPrincipals DEF IsQueued
<1>7. /\ q.what # "policy" => Pending(r2, "policy") = Pending(r, "policy")
      /\ q.what = "policy" => Pending(r, "policy") = Pending(r2, "policy") \cup {b}
      /\ q.what # "principal" => Pending(r2, "principal") = Pending(r, "principal")
      /\ q.what = "principal" => Pending(r, "principal") = Pending(r2, "principal") \cup {b}
      /\ Pending(r2, "managed") = Pending(r, "managed")
  BY <1>1, PendingTail
<1>8. \/ q.what # "policy" /\ s2.policies = s.policies
      \/ q.what = "policy" /\ s2.policies = {p \in s.policies : p.id # b.id} \cup {b}
  BY <1>1 DEF Writes, Upsert
<1>9. \/ q.what # "principal" /\ s2.principals = s.principals
      \/ q.what = "principal" /\ s2.principals = {p \in s.principals : p.id # b.id} \cup {b}
  BY <1>1 DEF Writes, Upsert
<1> HIDE DEF q, b, f, names
<1>10. ASSUME Pending(r2, "managed") = {}, NEW p \in s2.policies, IsManagedHere(p, f)
       PROVE  \E x \in Pending(r2, "policy") : x.id = p.id
  <2>1. q.what = "policy" => p # b
    <3>1. b.enabled = FALSE => ~IsManagedHere(b, f)
      BY DEF IsManagedHere
    <3> QED
      BY <1>5, <1>10, <3>1
  <2>2. p \in s.policies /\ (q.what = "policy" => p.id # b.id)
    BY <1>8, <2>1
  <2>3. \E x \in Pending(r, "policy") : x.id = p.id
    BY <1>2, <1>7, <1>10, <2>2
  <2> QED
    BY <1>7, <2>2, <2>3
<1>11. ASSUME r.command.principals, NEW p \in s2.principals, p.id \in names
       PROVE  p.status = "disabled" \/ \E x \in Pending(r2, "principal") : x.id = p.id
  <2>1. CASE q.what = "principal" /\ p = b
    BY <1>6, <2>1
  <2>2. CASE p \in s.principals /\ (q.what = "principal" => p.id # b.id)
    <3>1. p.status = "disabled" \/ \E x \in Pending(r, "principal") : x.id = p.id
      BY <1>2, <1>11, <2>2
    <3> QED
      BY <1>7, <2>2, <3>1
  <2> QED
    BY <1>9, <2>1, <2>2
<1> QED
  BY <1>1, <1>10, <1>11 DEF DeleteOnItsWay, f, names

LEMMA DeleteByList ==
  ASSUME NEW s, NEW r, NEW s2, NEW r2, IsStore(s), IsRun(r), Queue(r),
         DeleteOnItsWay(s, r), Alone(r, {"delete"}), ListsToDisable(s, r, s2, r2)
  PROVE  DeleteOnItsWay(s2, r2)
<1> DEFINE q == Head(r.todo)
           f == r.command.file
           off == {DisabledPolicy(p) : p \in Chosen(s, q.what, f)}
<1>1. r.status = "running" /\ s2 = s /\ r2.command = r.command
  BY DEF ListsToDisable, Keeps
<1>2. /\ Pending(r2, "policy") = off \cup Pending(r, "policy")
      /\ Pending(r2, "principal") = Pending(r, "principal")
      /\ q.what = "managed"
  BY PendingDisabled DEF Alone
<1>3. ASSUME NEW p \in s.policies, IsManagedHere(p, f) PROVE \E x \in off : x.id = p.id
  <2>1. p \in Chosen(s, q.what, f)
    BY <1>2, <1>3 DEF Chosen
  <2>2. DisabledPolicy(p).id = p.id
    BY DisabledIs DEF IsStore
  <2> QED
    BY <2>1, <2>2
<1> HIDE DEF q, off
<1>4. \A p \in s2.policies : IsManagedHere(p, f) => \E x \in Pending(r2, "policy") : x.id = p.id
  BY <1>1, <1>2, <1>3
<1> QED
  BY <1>1, <1>2, <1>4 DEF DeleteOnItsWay, Underway

LEMMA DeleteKept ==
  ASSUME NEW s, NEW r, NEW s2, NEW r2, IsStore(s), IsRun(r), Queue(r),
         DeleteOnItsWay(s, r), Moves(s, r, s2, r2)
  PROVE  DeleteOnItsWay(s2, r2)
<1> SUFFICES ASSUME Alone(r2, {"delete"}), Underway(r2) PROVE DeleteOnItsWay(s2, r2)
  BY DEF DeleteOnItsWay
<1>1. CASE Starts(s, s2, r2)
  <2> DEFINE f == r2.command.file
  <2>1. f \in Accepted /\ r2.todo = DeletePlan(r2.command)
    BY <1>1 DEF Starts, Plan, Alone, Underway
  <2>2. /\ Pending(r2, "managed") # {}
        /\ r2.command.principals =>
             Pending(r2, "principal") = {Disabled(p) : p \in ToSet(Principals[f])}
    BY <2>1, PendingPlan
  <2>3. \A n \in Names("Principal", File[f]) : \E p \in ToSet(Principals[f]) : Disabled(p).id = n
    BY <2>1, PrincipalsAre, DisabledPrincipals
  <2> HIDE DEF f
  <2>4. r2.command.principals =>
          \A n \in Names("Principal", File[f]) : \E b \in Pending(r2, "principal") : b.id = n
    BY <2>2, <2>3
  <2> QED
    BY <2>2, <2>4 DEF DeleteOnItsWay, f
<1>2. CASE Decides(s, s2, r2)
  BY <1>2 DEF Decides, Alone
<1>3. CASE Fails(s, r, s2, r2)
  BY <1>3 DEF Fails, Underway
<1>4. CASE PostsHead(s, r, s2, r2)
  <2>1. Alone(r, {"delete"})
    BY <1>4 DEF PostsHead, Keeps, Alone
  <2> QED
    BY <1>4, <2>1, DeleteByPost
<1>5. CASE ListsHead(s, r, s2, r2)
  <2>1. Head(r.todo).what \in {"principals", "policies"} /\ r2.command = r.command
    BY <1>5 DEF ListsHead, Keeps
  <2>2. IsQueued(Head(r.todo), r.command)
    BY <1>5, TailIs DEF ListsHead, Queue
  <2> QED
    BY <2>1, <2>2 DEF IsQueued, Alone
<1>6. CASE ListsToDisable(s, r, s2, r2)
  <2>1. Alone(r, {"delete"})
    BY <1>6 DEF ListsToDisable, Keeps, Alone
  <2> QED
    BY <1>6, <2>1, DeleteByList
<1> QED
  BY <1>1, <1>2, <1>3, <1>4, <1>5, <1>6 DEF Moves

-----------------------------------------------------------------------------
(* Tokens, diff and can-i *)

LEMMA TokensByPost ==
  ASSUME NEW s, NEW r, NEW s2, NEW r2, IsStore(s), IsRun(r), Queue(r),
         TokensFirst(s, r), Alone(r, {"apply"}), r.command.secrets, PostsHead(s, r, s2, r2)
  PROVE  TokensFirst(s2, r2)
<1> DEFINE q == Head(r.todo)
           b == q.body
           keys == Names("ApiKey", File[r.command.file])
           waiting == {x.id : x \in Pending(r, "key")}
           waiting2 == {x.id : x \in Pending(r2, "key")}
<1>1. /\ r.status = "running" /\ Writes(s, q, s2) /\ q.what \in {"principal", "key", "policy"}
      /\ r2.before = r.before /\ r2.command = r.command
      /\ \/ r2.printed = r.printed /\ r2.status # "running"
         \/ /\ r2.todo = Tail(r.todo)
            /\ r2.printed = IF q.what = "key" THEN r.printed \cup {b.id} ELSE r.printed
  BY DEF PostsHead, Keeps
<1>2. /\ keys \subseteq r.printed \/ s.policies = r.before.policies
      /\ keys \subseteq r.printed \cup waiting
      /\ Pending(r, "key") # {} => s.policies = r.before.policies
  BY <1>1 DEF TokensFirst
<1>3. r2.todo = Tail(r.todo) =>
        /\ q.what # "key" => Pending(r2, "key") = Pending(r, "key")
        /\ q.what = "key" => Pending(r, "key") = Pending(r2, "key") \cup {b}
  BY <1>1, PendingTail
<1>4. q.what = "key" => Pending(r, "key") # {}
  <2>1. q \in ToSet(r.todo)
    BY <1>1, TailIs
  <2> QED
    BY <2>1 DEF Pending, BodiesOf
<1>5. q.what = "policy" => Pending(r, "key") = {}
  <2>1. q.what = "policy" => \A x \in ToSet(r.todo) : x.what # "key"
    BY <1>1, TailIs DEF MayPrecede
  <2> QED
    BY <2>1 DEF Pending, BodiesOf
<1>6. q.what # "policy" => s2.policies = s.policies
  BY <1>1 DEF Writes
<1> HIDE DEF q, b, keys
<1>7. r.printed \subseteq r2.printed
  BY <1>1
<1>8. q.what = "policy" => keys \subseteq r.printed
  BY <1>2, <1>5
<1>9. keys \subseteq r2.printed \/ s2.policies = r.before.policies
  BY <1>2, <1>6, <1>7, <1>8
<1>10. r2.status = "running" => keys \subseteq r2.printed \cup waiting2
  BY <1>1, <1>2, <1>3
<1>11. r2.status = "running" /\ Pending(r2, "key") # {} => s2.policies = r.before.policies
  BY <1>1, <1>2, <1>3, <1>4, <1>5, <1>6
<1> QED
  BY <1>1, <1>9, <1>10, <1>11 DEF TokensFirst, keys

LEMMA TokensKept ==
  ASSUME NEW s, NEW r, NEW s2, NEW r2, IsStore(s), IsRun(r), Queue(r),
         TokensFirst(s, r), Moves(s, r, s2, r2)
  PROVE  TokensFirst(s2, r2)
<1> SUFFICES ASSUME Alone(r2, {"apply"}), r2.command.secrets PROVE TokensFirst(s2, r2)
  BY DEF TokensFirst
<1> DEFINE keys == Names("ApiKey", File[r2.command.file])
<1>1. CASE Starts(s, s2, r2)
  <2>1. s2 = s /\ r2.before = s
    BY <1>1 DEF Starts
  <2>2. r2.command.file \in Accepted /\ r2.command.verb = "apply"
    BY DEF Alone
  <2>3. r2.status = "running" => r2.todo = ApplyPlan(r2.command)
    BY <1>1, <2>2 DEF Starts, Plan
  <2>4. r2.status = "running" => Pending(r2, "key") = ToSet(ApiKeys[r2.command.file])
    BY <2>2, <2>3, PendingPlan
  <2>5. r2.status = "running" => keys \subseteq {b.id : b \in Pending(r2, "key")}
    BY <2>2, <2>4, ApiKeysAre
  <2> QED
    BY <2>1, <2>5 DEF TokensFirst
<1>2. CASE Decides(s, s2, r2)
  BY <1>2 DEF Decides, Alone
<1>3. CASE Fails(s, r, s2, r2)
  <2>1. /\ s2 = s /\ r2.before = r.before /\ r2.command = r.command /\ r2.alone = r.alone
        /\ r2.printed = r.printed /\ r2.status = "failed"
    BY <1>3 DEF Fails, Keeps
  <2> QED
    BY <2>1 DEF TokensFirst, Alone
<1>4. CASE PostsHead(s, r, s2, r2)
  <2>1. Alone(r, {"apply"}) /\ r.command.secrets
    BY <1>4 DEF PostsHead, Keeps, Alone
  <2> QED
    BY <1>4, <2>1, TokensByPost
<1>5. CASE ListsHead(s, r, s2, r2)
  <2>1. Head(r.todo).what \in {"principals", "policies"} /\ r2.command = r.command
    BY <1>5 DEF ListsHead, Keeps
  <2>2. IsQueued(Head(r.todo), r.command)
    BY <1>5, TailIs DEF ListsHead, Queue
  <2> QED
    BY <2>1, <2>2 DEF IsQueued, Alone
<1>6. CASE ListsToDisable(s, r, s2, r2)
  <2>1. /\ Alone(r, {"apply"}) /\ r.command.secrets /\ r.status = "running" /\ s2 = s
        /\ r2.before = r.before /\ r2.command = r.command /\ r2.printed = r.printed
    BY <1>6 DEF ListsToDisable, Keeps, Alone
  <2>2. Pending(r2, "key") = {} /\ Pending(r, "key") = {}
    BY <1>6, PendingDisabled
  <2>3. keys \subseteq r.printed \cup {b.id : b \in Pending(r, "key")}
    BY <2>1 DEF TokensFirst
  <2>4. keys \subseteq r.printed
    BY <2>2, <2>3
  <2> QED
    BY <2>1, <2>2, <2>4 DEF TokensFirst
<1> QED
  BY <1>1, <1>2, <1>3, <1>4, <1>5, <1>6 DEF Moves

LEMMA DiffKept ==
  ASSUME NEW s, NEW r, NEW s2, NEW r2, IsStore(s), IsRun(r), Queue(r),
         DiffOnItsWay(s, r), Moves(s, r, s2, r2)
  PROVE  DiffOnItsWay(s2, r2)
<1> SUFFICES ASSUME Alone(r2, {"diff"}) PROVE DiffOnItsWay(s2, r2)
  BY DEF DiffOnItsWay
<1>1. CASE Starts(s, s2, r2)
  <2>1. r2.status # "failed" => r2.todo = DiffPlan /\ r2.status = EndedStatus(DiffPlan)
    BY <1>1 DEF Starts, Plan, Alone
  <2>2. EndedStatus(DiffPlan) = "running"
    BY DiffPlanIs DEF EndedStatus
  <2> QED
    BY <2>1, <2>2 DEF DiffOnItsWay
<1>2. CASE Decides(s, s2, r2)
  BY <1>2 DEF Decides, Alone
<1>3. CASE Fails(s, r, s2, r2)
  BY <1>3 DEF Fails, DiffOnItsWay
<1>4. CASE PostsHead(s, r, s2, r2) \/ ListsToDisable(s, r, s2, r2)
  <2>1. /\ Head(r.todo).what \in {"principal", "key", "policy", "stale", "managed"}
        /\ r2.command = r.command /\ r.status = "running"
    BY <1>4 DEF PostsHead, ListsToDisable, Keeps
  <2>2. IsQueued(Head(r.todo), r.command)
    BY <2>1, TailIs DEF Queue
  <2> QED
    BY <2>1, <2>2 DEF IsQueued, Alone
<1>5. CASE ListsHead(s, r, s2, r2)
  <2>1. /\ s2 = s /\ r2.command = r.command /\ r.status = "running" /\ r2.todo = Tail(r.todo)
        /\ r2.status = EndedStatus(r2.todo)
        /\ Head(r.todo).what = "principals" => r2.seen = s.principals
        /\ Head(r.todo).what = "policies" =>
             r2.report = Changes(r.command.file, r.seen, s.policies)
    BY <1>5 DEF ListsHead, Keeps
  <2>2. Alone(r, {"diff"})
    BY <1>5 DEF ListsHead, Keeps, Alone
  <2>3. r.todo = DiffPlan \/ (r.todo = ListOf("policies") /\ r.seen = s.principals)
    BY <2>1, <2>2 DEF DiffOnItsWay
  <2>4. CASE r.todo = DiffPlan
    <3>1. r2.todo = ListOf("policies") /\ r2.seen = s.principals
      BY <2>1, <2>4, DiffPlanIs
    <3>2. r2.status = "running"
      BY <2>1, <3>1, ListOfIs DEF EndedStatus
    <3> QED
      BY <2>1, <3>1, <3>2 DEF DiffOnItsWay
  <2>5. CASE r.todo = ListOf("policies") /\ r.seen = s.principals
    <3>1. /\ r2.todo = <<>>
          /\ r2.report = Changes(r.command.file, s.principals, s.policies)
      BY <2>1, <2>5, DiffPlanIs
    <3>2. r2.status = "done"
      BY <2>1, <3>1 DEF EndedStatus
    <3> QED
      BY <2>1, <3>1, <3>2 DEF DiffOnItsWay
  <2> QED
    BY <2>3, <2>4, <2>5
<1> QED
  BY <1>1, <1>2, <1>3, <1>4, <1>5 DEF Moves

LEMMA DecidedKept ==
  ASSUME NEW s, NEW r, NEW s2, NEW r2, IsRun(r), Moves(s, r, s2, r2)
  PROVE  Decided(r2)
<1>1. CASE Starts(s, s2, r2)
  BY <1>1 DEF Starts, Decided
<1>2. CASE Decides(s, s2, r2)
  BY <1>2 DEF Decides, Decided
<1>3. CASE \/ Fails(s, r, s2, r2) \/ PostsHead(s, r, s2, r2)
           \/ ListsHead(s, r, s2, r2) \/ ListsToDisable(s, r, s2, r2)
  BY <1>3 DEF Fails, PostsHead, ListsHead, ListsToDisable, Keeps, IsRun, Decided
<1> QED
  BY <1>1, <1>2, <1>3 DEF Moves

LEMMA RunKept ==
  ASSUME NEW s, NEW r, NEW s2, NEW r2, IsStore(s), IsRun(r), RunInv(s, r), Moves(s, r, s2, r2)
  PROVE  IsStore(s2) /\ IsRun(r2) /\ RunInv(s2, r2)
BY TypeKept, DecidedKept, UntouchedKept, ApplyKept, DeleteKept, TokensKept, DiffKept
   DEF RunInv

(* Another step changes nothing of a run, or ends that it is alone. *)
LEMMA RunLeft ==
  ASSUME NEW s, NEW r, NEW s2, NEW r2, IsRun(r), RunInv(s, r),
         (r2 = r /\ s2 = s) \/ r2 = [r EXCEPT !.alone = FALSE]
  PROVE  IsRun(r2) /\ RunInv(s2, r2)
<1>1. CASE r2 = r /\ s2 = s
  BY <1>1
<1>2. CASE r2 = [r EXCEPT !.alone = FALSE]
  <2>1. /\ DOMAIN r2 = RunFields /\ ~r2.alone
        /\ r2.command = r.command /\ r2.status = r.status /\ r2.todo = r.todo
        /\ r2.before = r.before /\ r2.query = r.query /\ r2.allowed = r.allowed
    BY <1>2 DEF IsRun, RunFields
  <2>2. IsRun(r2)
    BY <2>1 DEF IsRun
  <2>3. Queue(r2) /\ Decided(r2)
    BY <2>1 DEF RunInv, Queue, Decided
  <2>4. \A verbs : ~Alone(r2, verbs)
    BY <2>1 DEF Alone
  <2> QED
    BY <2>2, <2>3, <2>4 DEF RunInv, Untouched, ApplyOnItsWay, DeleteOnItsWay, TokensFirst,
       DiffOnItsWay
<1> QED
  BY <1>1, <1>2

-----------------------------------------------------------------------------
(* The theorems *)

LEMMA Beginning == Init => IInv
<1> SUFFICES ASSUME Init PROVE IInv
  OBVIOUS
<1>1. IsStore(store)
  BY StoreAssumption DEF Init
<1>2. DOMAIN run = Operator /\ \A o \in Operator : run[o] = Idle
  BY DEF Init
<1>3. budget \in [{"commands", "faults", "edits"} -> Nat]
  BY CommandAssumption DEF Init
<1>4. /\ DOMAIN Idle = RunFields /\ Idle.todo = <<>> /\ Idle.status = "idle" /\ ~Idle.alone
      /\ Idle.before = [principals |-> {}, keys |-> {}, policies |-> {}]
  BY DEF Idle, RunFields
<1>5. IsStore(Idle.before)
  BY <1>4, FS_EmptySet DEF IsStore
<1>6. IsRun(Idle)
  BY <1>4, <1>5, NothingQueued DEF IsRun
<1>7. RunInv(store, Idle)
  <2>1. Queue(Idle) /\ Decided(Idle)
    BY <1>4, NothingQueued DEF Queue, Decided
  <2>2. \A verbs : ~Alone(Idle, verbs)
    BY <1>4 DEF Alone
  <2> QED
    BY <2>1, <2>2 DEF RunInv, Untouched, ApplyOnItsWay, DeleteOnItsWay, TokensFirst,
       DiffOnItsWay
<1> QED
  BY <1>1, <1>2, <1>3, <1>6, <1>7 DEF IInv, TypeInv

LEMMA Spending ==
  ASSUME NEW what \in {"commands", "faults", "edits"}, Spend(what),
         budget \in [{"commands", "faults", "edits"} -> Nat]
  PROVE  /\ budget' \in [{"commands", "faults", "edits"} -> Nat]
         /\ budget'[what] # budget[what]
<1>1. budget[what] \in Nat /\ budget[what] > 0
  BY DEF Spend
<1>2. budget[what] - 1 \in Nat /\ budget[what] - 1 # budget[what]
  BY <1>1
<1>3. budget' = [budget EXCEPT ![what] = budget[what] - 1]
  BY DEF Spend
<1> QED
  BY <1>2, <1>3

LEMMA StepKeeps == ASSUME IInv, NEW o \in Operator, Step(o) PROVE IInv'
<1>1. TypeInv /\ \A p \in Operator : IsRun(run[p]) /\ RunInv(store, run[p])
  BY DEF IInv, TypeInv
<1>2. Moves(store, run[o], store', run'[o])
  BY <1>1, StepMoves
<1>3. IsStore(store') /\ IsRun(run'[o]) /\ RunInv(store', run'[o])
  BY <1>1, <1>2, RunKept DEF TypeInv
<1>4. /\ DOMAIN run' = Operator
      /\ \A p \in Operator \ {o} :
           (run'[p] = run[p] /\ store' = store) \/ run'[p] = [run[p] EXCEPT !.alone = FALSE]
  <2>1. \E r : Proceed(o, r)
    BY DEF Step, Start, CanI, Answered, Refused, RequestLost, AnswerLost, ListedPrincipals,
       PrincipalNotFound, ListedForDiff, ListedToDisable
  <2> QED
    BY <2>1, Proceeds
<1>5. \A p \in Operator \ {o} : IsRun(run'[p]) /\ RunInv(store', run'[p])
  BY <1>1, <1>4, RunLeft
<1>6. budget' \in [{"commands", "faults", "edits"} -> Nat]
  <2>1. budget \in [{"commands", "faults", "edits"} -> Nat]
    BY <1>1 DEF TypeInv
  <2>2. budget' = budget \/ Spend("commands") \/ Spend("faults")
    BY DEF Step, Start, CanI, Answered, Refused, RequestLost, AnswerLost, ListedPrincipals,
       PrincipalNotFound, ListedForDiff, ListedToDisable
  <2> QED
    BY <2>1, <2>2, Spending
<1> QED
  BY <1>3, <1>4, <1>5, <1>6 DEF IInv, TypeInv

LEMMA EditKeeps == ASSUME IInv, AdministratorEdits PROVE IInv'
<1>1. TypeInv /\ \A p \in Operator : IsRun(run[p]) /\ RunInv(store, run[p])
  BY DEF IInv, TypeInv
<1>2. PICK e \in Edit : store' = Stored(e)
  BY DEF AdministratorEdits
<1>3. e.what \in {"principal", "key", "policy"} /\ (e.what = "policy" => IsPolicy(e.body))
  BY StoreAssumption
<1>4. IsStore(store')
  <2>1. Writes(store, e, store')
    BY <1>1, <1>2, <1>3, StoredWrites DEF TypeInv
  <2> QED
    BY <1>1, <1>3, <2>1, WritesStore DEF TypeInv
<1>5. /\ DOMAIN run' = Operator
      /\ \A p \in Operator :
           (run'[p] = run[p] /\ store' = store) \/ run'[p] = [run[p] EXCEPT !.alone = FALSE]
  BY DEF AdministratorEdits
<1>6. \A p \in Operator : IsRun(run'[p]) /\ RunInv(store', run'[p])
  BY <1>1, <1>5, RunLeft
<1>7. budget' \in [{"commands", "faults", "edits"} -> Nat]
  BY <1>1, Spending DEF AdministratorEdits, TypeInv
<1> QED
  BY <1>4, <1>5, <1>6, <1>7 DEF IInv, TypeInv

(* The store keeps one record of an id, and the queue of every command     *)
(* holds what IInv says.                                                   *)
THEOREM Inductive == Spec => []IInv
<1>1. IInv /\ [Next]_vars => IInv'
  <2> SUFFICES ASSUME IInv, [Next]_vars PROVE IInv'
    OBVIOUS
  <2>1. CASE UNCHANGED vars
    BY <2>1 DEF vars, IInv, TypeInv
  <2>2. CASE Resting
    BY <2>2 DEF Resting, vars, IInv, TypeInv
  <2>3. CASE \E o \in Operator : Step(o)
    BY <2>3, StepKeeps
  <2>4. CASE AdministratorEdits
    BY <2>4, EditKeeps
  <2> QED
    BY <2>1, <2>2, <2>3, <2>4 DEF Next
<1> QED
  BY <1>1, Beginning, PTL DEF Spec

(* ManagedMatchFile: a lone apply --prune or delete that ends with success *)
(* leaves in force for the bindings of the file what the file says, or     *)
(* nothing (apply_manifest and delete_manifest of agctl.rs).               *)
THEOREM AppliedIsInForce == Spec => []ManagedMatchFile
<1>1. IInv => ManagedMatchFile
  <2> SUFFICES ASSUME IInv, NEW o \in Operator, run[o].status = "done",
                      IsAlone(o, {"apply", "delete"})
               PROVE  LET c == run[o].command IN
                      /\ c.verb = "apply" =>
                           /\ CompiledSet[c.file] \subseteq EnabledOf(c.file)
                           /\ ToSet(Principals[c.file]) \subseteq store.principals
                      /\ c.verb = "apply" /\ c.prune => EnabledOf(c.file) = CompiledSet[c.file]
                      /\ c.verb = "delete" => EnabledOf(c.file) = {}
                      /\ c.verb = "delete" /\ c.principals =>
                           \A p \in store.principals :
                             p.id \in Names("Principal", File[c.file]) => p.status = "disabled"
    BY DEF ManagedMatchFile
  <2> DEFINE r == run[o]
             c == r.command
  <2>1. /\ IsRun(r) /\ RunInv(store, r) /\ r.status = "done" /\ c.file \in Accepted
        /\ c.verb \in {"apply", "delete"} /\ r.alone
    BY DEF IInv, TypeInv, IsAlone
  <2>2. \A what : Pending(r, what) = {}
    BY <2>1, NothingQueued DEF IsRun, Pending, BodiesOf
  <2> HIDE DEF r
  <2>3. ASSUME c.verb = "apply"
        PROVE  /\ CompiledSet[c.file] \subseteq store.policies
               /\ ToSet(Principals[c.file]) \subseteq store.principals
               /\ c.prune => \A p \in store.policies :
                    IsManagedHere(p, c.file) => p \in CompiledSet[c.file]
    BY <2>1, <2>2, <2>3 DEF RunInv, ApplyOnItsWay, Alone, Underway
  <2>4. ASSUME c.verb = "delete"
        PROVE  /\ \A p \in store.policies : ~IsManagedHere(p, c.file)
               /\ c.principals => \A p \in store.principals :
                    p.id \in Names("Principal", File[c.file]) => p.status = "disabled"
    BY <2>1, <2>2, <2>4 DEF RunInv, DeleteOnItsWay, Alone, Underway
  <2>5. \A p \in CompiledSet[c.file] : IsManagedHere(p, c.file)
    BY <2>1, CompiledManaged
  <2> QED
    BY <2>3, <2>4, <2>5 DEF EnabledOf, r
<1> QED
  BY <1>1, Inductive, PTL

(* OthersUntouched: wherever a lone apply or delete stops, nothing outside *)
(* its file has changed (agctl.rs: send_admin and disable_policy, one      *)
(* request after the other).                                               *)
THEOREM OthersAreLeft == Spec => []OthersUntouched
<1>1. IInv => OthersUntouched
  <2> SUFFICES ASSUME IInv, NEW o \in Operator, IsAlone(o, {"apply", "delete"})
               PROVE  LET f == run[o].command.file
                          before == run[o].before
                      IN /\ {p \in before.policies : ~Ours(p, f)}
                              = {p \in store.policies : ~Ours(p, f)}
                         /\ store.policies \subseteq
                              before.policies \cup {DisabledPolicy(p) : p \in before.policies}
                                \cup CompiledSet[f]
                         /\ {p \in before.principals : p.id \notin Names("Principal", File[f])}
                              \subseteq store.principals
                         /\ before.keys \subseteq store.keys
    BY DEF OthersUntouched, Ours
  <2>1. RunInv(store, run[o]) /\ Alone(run[o], {"apply", "delete"})
    BY DEF IInv, IsAlone, Alone
  <2> QED
    BY <2>1 DEF RunInv, Untouched
<1> QED
  BY <1>1, Inductive, PTL

(* TokensBeforeGrants: nothing is granted before every token of the file   *)
(* was shown (apply_manifest: keys before policies).                       *)
THEOREM TokensAreShown == Spec => []TokensBeforeGrants
<1>1. IInv => TokensBeforeGrants
  <2> SUFFICES ASSUME IInv, NEW o \in Operator, IsAlone(o, {"apply"}), run[o].command.secrets
               PROVE  \/ Names("ApiKey", File[run[o].command.file]) \subseteq run[o].printed
                      \/ store.policies = run[o].before.policies
    BY DEF TokensBeforeGrants
  <2>1. RunInv(store, run[o]) /\ Alone(run[o], {"apply"})
    BY DEF IInv, IsAlone, Alone
  <2> QED
    BY <2>1 DEF RunInv, TokensFirst
<1> QED
  BY <1>1, Inductive, PTL

(* DiffIsTrue: a diff that nothing interfered with lists the records that  *)
(* an apply --prune would change (diff_manifest of agctl.rs).              *)
THEOREM DiffTells == Spec => []DiffIsTrue
<1>1. IInv => DiffIsTrue
  <2> SUFFICES ASSUME IInv, NEW o \in Operator, run[o].status = "done", IsAlone(o, {"diff"})
               PROVE  LET f == run[o].command.file
                          Differs(records, desired) ==
                            {d.id : d \in {x \in desired : x \notin records}}
                          prunes == {p \in store.policies \ CompiledSet[f] :
                                       IsManagedHere(p, f) /\ p.id \notin CompiledIds[f]}
                      IN /\ run[o].report.principals
                              = Differs(store.principals, ToSet(Principals[f]))
                         /\ run[o].report.policies = Differs(store.policies, CompiledSet[f])
                         /\ run[o].report.stale = {p.id : p \in prunes}
    BY DEF DiffIsTrue
  <2> DEFINE f == run[o].command.file
             prunes == {p \in store.policies \ CompiledSet[f] :
                          IsManagedHere(p, f) /\ p.id \notin CompiledIds[f]}
  <2>1. RunInv(store, run[o]) /\ Alone(run[o], {"diff"}) /\ f \in Accepted
    BY DEF IInv, IsAlone, Alone
  <2>2. run[o].report = Changes(f, store.principals, store.policies)
    BY <2>1 DEF RunInv, DiffOnItsWay
  <2>3. \A records, desired :
          {d \in desired : \A x \in records : x.id = d.id => x # d}
            = {d \in desired : d \notin records}
    OBVIOUS
  <2>4. run[o].report.principals
          = {d.id : d \in {x \in ToSet(Principals[f]) : x \notin store.principals}}
    <3>1. run[o].report.principals
            = {d.id : d \in {x \in ToSet(Principals[f]) :
                               \A y \in store.principals : y.id = x.id => y # x}}
      BY <2>2 DEF Changes, PrincipalNeedsUpdate
    <3> QED
      BY <2>3, <3>1
  <2>5. run[o].report.policies
          = {d.id : d \in {x \in CompiledSet[f] : x \notin store.policies}}
    <3>1. run[o].report.policies
            = {d.id : d \in {x \in CompiledSet[f] :
                               \A y \in store.policies : y.id = x.id => y # x}}
      BY <2>2 DEF Changes, PolicyNeedsUpdate
    <3> QED
      BY <2>3, <3>1
  <2>6. run[o].report.stale = {p.id : p \in prunes}
    <3>1. run[o].report.stale = {x.id : x \in {p \in store.policies : IsStale(p, f)}}
      BY <2>2 DEF Changes
    <3>2. \A p \in CompiledSet[f] : p.id \in CompiledIds[f]
      BY <2>1, CompiledManaged
    <3>3. {p \in store.policies : IsStale(p, f)} = prunes
      BY <3>2 DEF IsStale, IsManagedHere
    <3> QED
      BY <3>1, <3>3
  <2> QED
    BY <2>4, <2>5, <2>6
<1> QED
  BY <1>1, Inductive, PTL

(* can-i asks of a policy what the gateway asks of it. *)
LEMMA QuestionIsCall ==
  ASSUME NEW q \in Query, NEW tool, tool = InferToolName(q.resource, q.verb),
         q.source # Absent, tool # Absent, q.tool \in {Absent, tool},
         NEW caller, caller = [principal |-> q.principal, key |-> Absent, unrestricted |-> FALSE],
         NEW scope, scope = [source |-> q.source, tool |-> tool, action |-> q.verb,
                             type |-> q.resource, resource |-> q.name],
         NEW ps, NEW p
  PROVE  PolicyMatchesQuery(p, q)
           <=> /\ Gateway(ps, caller, scope)!Applies(p, caller)
               /\ Gateway(ps, caller, scope)!Matches(p, scope)
<1>1. Absent \notin {q.principal, q.verb, q.resource, q.name}
  BY CommandAssumption
<1>2. Gateway(ps, caller, scope)!Applies(p, caller) <=> p.enabled /\ p.principal = q.principal
  BY DEF Gateway!Applies
<1>3. Gateway(ps, caller, scope)!Matches(p, scope)
        <=> /\ p.source \in {Absent, q.source} /\ p.tool \in {Absent, tool}
            /\ p.action \in {Absent, q.verb} /\ p.type \in {Absent, q.resource}
            /\ PatternMatches(p.pattern, q.name)
  BY <1>1 DEF Gateway!Matches, Gateway!OptionalMatch, Gateway!ResourceMatches, PatternMatches
<1>4. (IF q.tool # Absent THEN q.tool ELSE InferToolName(q.resource, q.verb)) = tool
  OBVIOUS
<1>5. PolicyMatchesQuery(p, q)
        <=> /\ p.enabled /\ p.principal = q.principal
            /\ p.source \in {Absent, q.source} /\ p.tool \in {Absent, tool}
            /\ p.action \in {Absent, q.verb} /\ p.type \in {Absent, q.resource}
            /\ PatternMatches(p.pattern, q.name)
  BY <1>1, <1>4 DEF PolicyMatchesQuery, RequestedMatch
<1> QED
  BY <1>2, <1>3, <1>5

(* CanIAgrees: can-i with a source answers as authorize_tool would decide  *)
(* the call, were the policies of the file the only ones (local_can_i).    *)
THEOREM CanIDecides == Spec => []CanIAgrees
<1>1. IInv => CanIAgrees
  <2> SUFFICES ASSUME IInv, NEW o \in Operator, run[o].status = "done",
                      run[o].command.verb = "can-i"
               PROVE  LET q == run[o].query
                          caller == [principal |-> q.principal, key |-> Absent,
                                     unrestricted |-> FALSE]
                          tool == InferToolName(q.resource, q.verb)
                          scope == [source |-> q.source, tool |-> tool, action |-> q.verb,
                                    type |-> q.resource, resource |-> q.name]
                          Matching(effect) ==
                            Gateway(Compiled[run[o].command.file], caller, scope)!Matching(effect)
                      IN q.source # Absent /\ tool # Absent /\ q.tool \in {Absent, tool} =>
                           run[o].allowed = (Matching("deny") = {} /\ Matching("allow") # {})
    BY DEF CanIAgrees
  <2> DEFINE q == run[o].query
             f == run[o].command.file
             caller == [principal |-> q.principal, key |-> Absent, unrestricted |-> FALSE]
             tool == InferToolName(q.resource, q.verb)
             scope == [source |-> q.source, tool |-> tool, action |-> q.verb,
                       type |-> q.resource, resource |-> q.name]
             ps == Compiled[f]
             Matching(effect) == Gateway(ps, caller, scope)!Matching(effect)
             Hit(effect) == \E p \in CompiledSet[f] : p.effect = effect /\ PolicyMatchesQuery(p, q)
  <2> SUFFICES ASSUME q.source # Absent, tool # Absent, q.tool \in {Absent, tool}
               PROVE  run[o].allowed = (Matching("deny") = {} /\ Matching("allow") # {})
    OBVIOUS
  <2>1. q \in Query /\ f \in Accepted /\ run[o].allowed = LocalCanI(f, q)
    BY DEF IInv, RunInv, Decided
  <2>2. \A p : PolicyMatchesQuery(p, q)
          <=> Gateway(ps, caller, scope)!Applies(p, caller) /\ Gateway(ps, caller, scope)!Matches(p, scope)
    BY <2>1, QuestionIsCall
  <2>3. ToSet(ps) = CompiledSet[f]
    BY <2>1 DEF CompiledSet
  <2>4. LocalCanI(f, q) = (~Hit("deny") /\ Hit("allow"))
    BY DEF LocalCanI
  <2> HIDE DEF ps, caller, scope, q, f, tool
  <2>5. \A effect : Matching(effect) =
          {i \in DOMAIN ps : /\ Gateway(ps, caller, scope)!Applies(ps[i], caller)
                             /\ Gateway(ps, caller, scope)!Matches(ps[i], scope)
                             /\ ps[i].effect = effect}
    BY DEF Gateway!Matching, Gateway!Applicable
  <2>6. \A effect : Matching(effect) # {} <=> Hit(effect)
    BY <2>2, <2>3, <2>5 DEF ToSet
  <2> HIDE DEF Matching, Hit
  <2>7. (Matching("deny") = {} /\ Matching("allow") # {}) = (~Hit("deny") /\ Hit("allow"))
    BY <2>6
  <2> QED
    BY <2>1, <2>4, <2>7
<1> QED
  BY <1>1, Inductive, PTL

(* EnablesOnlyCompiled: agctl puts nothing in force but what a file that   *)
(* is being applied compiles to (disable_policy writes whole records).     *)
THEOREM OnlyCompiledIsEnabled == Spec => EnablesOnlyCompiled
<1> DEFINE Kept == budget'.edits = budget.edits =>
                     \A p \in store'.policies \ store.policies :
                       p.enabled => \E o \in Operator :
                         /\ Running(o) /\ run[o].command.verb = "apply"
                         /\ p \in CompiledSet[run[o].command.file]
<1>1. IInv /\ [Next]_vars => [Kept]_vars
  <2> SUFFICES ASSUME IInv, Next, budget'.edits = budget.edits,
                      NEW p \in store'.policies \ store.policies, p.enabled
               PROVE  \E o \in Operator :
                        /\ Running(o) /\ run[o].command.verb = "apply"
                        /\ p \in CompiledSet[run[o].command.file]
    OBVIOUS
  <2>1. ~AdministratorEdits
    BY Spending DEF AdministratorEdits, IInv, TypeInv
  <2>2. PICK o \in Operator : Step(o)
    BY <2>1 DEF Next, Resting, vars
  <2>3. Moves(store, run[o], store', run'[o])
    BY <2>2, StepMoves DEF IInv
  <2>4. PostsHead(store, run[o], store', run'[o])
    BY <2>3 DEF Moves, Starts, Decides, Fails, ListsHead, ListsToDisable
  <2> DEFINE q == Head(run[o].todo)
             c == run[o].command
  <2>5. run[o].status = "running" /\ Writes(store, q, store')
    BY <2>4 DEF PostsHead
  <2>6. q.what = "policy" /\ p = q.body
    BY <2>5 DEF Writes, Upsert
  <2>7. IsRun(run[o]) /\ Queue(run[o])
    BY DEF IInv, TypeInv, RunInv
  <2>8. IsQueued(q, c)
    BY <2>5, <2>7, TailIs DEF Queue
  <2> HIDE DEF q, c
  <2>9. c.verb = "apply" /\ p \in CompiledSet[c.file]
    BY <2>6, <2>8 DEF IsQueued
  <2> QED
    BY <2>5, <2>9 DEF Running, c
<1> QED
  BY <1>1, Inductive, PTL DEF Spec, EnablesOnlyCompiled

===============================================================================
