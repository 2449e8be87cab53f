--------------------------- MODULE TableQueryProofs ---------------------------
(***************************************************************************)
(* Theorems about a call of data.query_table, for every table, allowlist   *)
(* record, set of arguments, values and bounds.                            *)
(***************************************************************************)
EXTENDS TableQuery, SequenceTheorems, WellFoundedInduction, TLAPS

USE TableAssumption

-----------------------------------------------------------------------------
(* Arguments and the statement made of them *)

LEMMA AskTyped ==
  ASSUME NEW a \in Ask \cup {NoAsk}
  PROVE  /\ a.columns \subseteq Column /\ a.where \subseteq Column
         /\ a.order \in Seq(Column) /\ a.limited \in BOOLEAN /\ a.limit \in Int
         /\ a.named \in BOOLEAN
<1>1. CASE a \in Ask
  BY <1>1 DEF Asks
<1>2. CASE a = NoAsk
  BY <1>2 DEF NoAsk
<1> QED
  BY <1>1, <1>2

LEMMA LimitBounds ==
  ASSUME record \in Record, ask \in Ask \cup {NoAsk}, ~LimitError
  PROVE  /\ Limit \in 1..LimitMax
         /\ IF ask.limited THEN Limit = ask.limit ELSE Limit <= Default
<1>1. record.maxLimit \in Int
  OBVIOUS
<1>2. ask.limited \in BOOLEAN /\ ask.limit \in Int
  BY AskTyped
<1>3. /\ LimitMax \in 1..Ceiling
      /\ LimitMax <= record.maxLimit \/ (record.maxLimit < 1 /\ LimitMax = 1)
  BY <1>1 DEF LimitMax, Clamp
<1> QED
  BY <1>2, <1>3 DEF Limit, LimitError, Lesser

(* Everything that a statement made of these arguments names is listed. *)
LEMMA StatementListed ==
  ASSUME ask \in Ask \cup {NoAsk}, record \in Record, NEW actual \in SUBSET Column,
         ~ConfigError(actual), ~ArgumentError(actual)
  PROVE  LET s == Statement(actual) IN
         /\ Named(s) # {} /\ Named(s) \subseteq actual
         /\ record.columns # {} => Named(s) \subseteq record.columns
         /\ \A c \in Named(s) \cap Malformed :
              Open /\ ~ask.named /\ c \notin ask.where \cup Elements(ask.order)
<1>1. /\ Selected(actual) # {}
      /\ \A c \in Selected(actual) : Listed(c, actual)
      /\ ask.named => ask.columns \cap Malformed = {}
  BY DEF ArgumentError, SelectError
<1>2. \A c \in ask.where : Usable(c, actual)
  BY DEF ArgumentError, WhereError
<1>3. \A c \in Elements(ask.order) : Usable(c, actual)
  BY DEF ArgumentError, OrderError, Elements
<1>4. Named(Statement(actual)) = Selected(actual) \cup ask.where \cup Elements(ask.order)
  BY DEF Named, Statement
<1>5. \A c \in Named(Statement(actual)) : Listed(c, actual)
  BY <1>1, <1>2, <1>3, <1>4 DEF Usable
<1>6. ASSUME NEW c \in Named(Statement(actual)) \cap Malformed
      PROVE  Open /\ ~ask.named /\ c \notin ask.where \cup Elements(ask.order)
  <2>1. c \notin ask.where \cup Elements(ask.order) /\ c \in Selected(actual)
    BY <1>2, <1>3, <1>4, <1>6 DEF Usable
  <2>2. ~ask.named
    BY <1>1, <1>6, <2>1 DEF Selected
  <2>3. CASE ~Open
    <3>1. c \in record.columns
      BY <2>1, <2>2, <2>3 DEF Selected
    <3> QED
      BY <3>1, <1>6 DEF ConfigError
  <2> QED
    BY <2>1, <2>2, <2>3
<1> QED
  BY <1>1, <1>4, <1>5, <1>6 DEF Listed, Open

-----------------------------------------------------------------------------
(* Masking *)

LEMMA PartialHides ==
  ASSUME NEW text \in Seq(Char), NEW prefix \in Nat, NEW suffix \in Nat,
         \A i \in 1..Len(text) : i <= MaxU64
  PROVE  LET shown == Partial(text, prefix, suffix) IN
         /\ shown \in Seq(Char) /\ Len(shown) = Len(text) /\ DOMAIN shown = 1..Len(text)
         /\ text # <<>> => \E i \in 1..Len(text) : shown[i] = Mask
         /\ \A i \in 1..Len(text) :
              \/ shown[i] = Mask
              \/ /\ i <= prefix \/ i > Len(text) - suffix
                 /\ shown[i] = text[i]
<1> DEFINE n == Len(text)
           shown == Partial(text, prefix, suffix)
           clear(i) == SatAdd(prefix, suffix) < n /\ (i <= prefix \/ i > n - suffix)
<1>1. n \in Nat /\ \A i \in 1..n : text[i] \in Char
  OBVIOUS
<1>2. shown = [i \in 1..n |-> IF clear(i) THEN text[i] ELSE Mask]
  BY DEF Partial
<1>3. Mask \in Char
  BY DEF Mask
<1>4. shown \in [1..n -> Char]
  BY <1>1, <1>2, <1>3
<1>5. shown \in Seq(Char) /\ Len(shown) = n /\ DOMAIN shown = 1..n
  BY <1>1, <1>4
<1>6. ASSUME n > 0 PROVE \E i \in 1..n : ~clear(i)
  <2>1. CASE SatAdd(prefix, suffix) < n
    <3>1. n <= MaxU64 /\ n \in 1..n
      BY <1>1, <1>6
    <3>2. prefix + suffix < n
      BY <1>1, <2>1, <3>1 DEF SatAdd, Lesser
    <3>3. prefix + 1 \in 1..n /\ ~clear(prefix + 1)
      BY <1>1, <3>2
    <3> QED
      BY <3>3
  <2>2. CASE ~(SatAdd(prefix, suffix) < n)
    BY <1>1, <1>6, <2>2
  <2> QED
    BY <2>1, <2>2
<1>7. text # <<>> => n > 0
  OBVIOUS
<1> QED
  BY <1>2, <1>5, <1>6, <1>7

(* A least element, by the library's well-foundedness of < on Nat. *)
LEMMA Minimal ==
  ASSUME NEW R, IsWellFoundedOn(R, Nat), NEW T, T \subseteq Nat, T # {}
  PROVE  \E i \in T : \A j \in T : ~(<<j, i>> \in R)
BY WFMin, Zenon

LEMMA LeastExists ==
  ASSUME NEW T \in SUBSET Nat, T # {}
  PROVE  \E i \in T : \A j \in T : i <= j
<1>1. IsWellFoundedOn(OpToRel(<, Nat), Nat)
  BY NatLessThanWellFounded
<1>2. \A j, i \in Nat : j < i => <<j, i>> \in OpToRel(<, Nat)
  BY DEF OpToRel
<1>3. \E i \in T : \A j \in T : ~(<<j, i>> \in OpToRel(<, Nat))
  BY ONLY T \in SUBSET Nat, T # {}, <1>1, Minimal, Zenon
<1>4. PICK i \in T : \A j \in T : ~(<<j, i>> \in OpToRel(<, Nat))
  BY ONLY <1>3, Zenon
<1>5. \A j \in T : ~(j < i)
  BY <1>2, <1>4, Zenon
<1> QED
  BY <1>5

LEMMA JoinedAt ==
  ASSUME NEW a \in Seq(Char), NEW b \in Seq(Char)
  PROVE  /\ a \o b \in Seq(Char) /\ Len(a \o b) = Len(a) + Len(b)
         /\ \A i \in 1..Len(a) : (a \o b)[i] = a[i]
         /\ \A k \in 1..Len(b) : (a \o b)[Len(a) + k] = b[k]
OBVIOUS

LEMMA EmailHides ==
  ASSUME NEW text \in Seq(Char), \A i \in 1..Len(text) : i <= MaxU64
  PROVE  LET shown == Email(text)
             at == IF Ats(text) = {} THEN Len(text) + 1 ELSE FirstAt(text) IN
         /\ shown \in Seq(Char) /\ Len(shown) = Len(text) /\ DOMAIN shown = 1..Len(text)
         /\ at > 1 => \E i \in 1..(at - 1) : shown[i] = Mask
         /\ \A i \in 1..Len(text) :
              \/ shown[i] = Mask
              \/ (i = 1 \/ i >= at) /\ shown[i] = text[i]
<1> DEFINE n == Len(text)
<1>1. n \in Nat /\ DOMAIN text = 1..n
  OBVIOUS
<1>2. CASE Ats(text) = {}
  <2>1. Email(text) = Partial(text, 1, 0)
    BY <1>2 DEF Email
  <2>2. \A i \in 1..n : ~(i > n - 0)
    BY <1>1
  <2>3. n > 0 => text # <<>>
    OBVIOUS
  <2>4. \A i \in 1..n : Partial(text, 1, 0)[i] = Mask \/ (i = 1 /\ Partial(text, 1, 0)[i] = text[i])
    <3> SUFFICES ASSUME NEW i \in 1..n
                 PROVE  \/ Partial(text, 1, 0)[i] = Mask
                        \/ i = 1 /\ Partial(text, 1, 0)[i] = text[i]
      OBVIOUS
    <3>1. i <= 1 => i = 1
      BY <1>1
    <3> QED
      BY PartialHides, <2>2, <3>1
  <2>5. (n + 1) - 1 = n /\ (n + 1 > 1 => n > 0)
    BY <1>1
  <2> QED
    BY <1>2, <2>1, <2>3, <2>4, <2>5, PartialHides
<1>3. CASE Ats(text) # {}
  <2> DEFINE at == FirstAt(text)
             local == SubSeq(text, 1, at - 1)
             domain == SubSeq(text, at, n)
             hidden == Partial(local, 1, 0)
  <2>1. at \in 1..n
    <3>1. Ats(text) \subseteq Nat
      BY <1>1 DEF Ats
    <3>2. \E i \in Ats(text) : \A j \in Ats(text) : i <= j
      BY <1>3, <3>1, LeastExists
    <3> QED
      BY <1>1, <3>2 DEF FirstAt, Ats
  <2> HIDE DEF at
  <2>2. /\ local \in Seq(Char) /\ Len(local) = at - 1
        /\ domain \in Seq(Char) /\ Len(domain) = n - at + 1
        /\ \A i \in 1..(at - 1) : local[i] = text[i]
        /\ \A i \in 1..(n - at + 1) : domain[i] = text[at + i - 1]
    BY <1>1, <2>1
  <2> HIDE DEF local, domain
  <2>3. \A i \in 1..Len(local) : i <= MaxU64
    BY <1>1, <2>1, <2>2
  <2>4. /\ hidden \in Seq(Char) /\ Len(hidden) = at - 1
        /\ local # <<>> => \E i \in 1..(at - 1) : hidden[i] = Mask
        /\ \A i \in 1..(at - 1) : hidden[i] = Mask \/ (i = 1 /\ hidden[i] = local[i])
    <3>1. \A i \in 1..(at - 1) : ~(i > (at - 1) - 0) /\ (i <= 1 => i = 1)
      BY <2>1
    <3> QED
      BY <2>2, <2>3, <3>1, PartialHides
  <2> HIDE DEF hidden
  <2>5. Email(text) = hidden \o domain
    BY <1>3 DEF Email, at, local, domain, hidden
  <2>6. /\ hidden \o domain \in Seq(Char) /\ Len(hidden \o domain) = n
        /\ \A i \in 1..(at - 1) : (hidden \o domain)[i] = hidden[i]
        /\ \A i \in at..n : (hidden \o domain)[i] = domain[i - at + 1]
    <3>1. \A i \in at..n : i - at + 1 \in 1..Len(domain) /\ i = Len(hidden) + (i - at + 1)
      BY <1>1, <2>1, <2>2, <2>4
    <3>2. Len(hidden) + Len(domain) = n
      BY <1>1, <2>1, <2>2, <2>4
    <3>3. /\ hidden \o domain \in Seq(Char) /\ Len(hidden \o domain) = Len(hidden) + Len(domain)
          /\ \A i \in 1..Len(hidden) : (hidden \o domain)[i] = hidden[i]
          /\ \A k \in 1..Len(domain) : (hidden \o domain)[Len(hidden) + k] = domain[k]
      BY <2>2, <2>4, JoinedAt
    <3> QED
      BY <2>4, <3>1, <3>2, <3>3
  <2>7. \A i \in at..n : domain[i - at + 1] = text[i]
    BY <1>1, <2>1, <2>2
  <2>8. at > 1 => local # <<>>
    BY <2>1, <2>2
  <2>9. \A i \in 1..n : i \in 1..(at - 1) \/ i \in at..n
    BY <1>1, <2>1
  <2>10. at > 1 => \E i \in 1..(at - 1) : Email(text)[i] = Mask
    BY <2>4, <2>5, <2>6, <2>8
  <2>11. ASSUME NEW i \in 1..n
         PROVE  \/ Email(text)[i] = Mask
                \/ (i = 1 \/ i >= at) /\ Email(text)[i] = text[i]
    <3>1. CASE i \in 1..(at - 1)
      BY <2>2, <2>4, <2>5, <2>6, <3>1
    <3>2. CASE i \in at..n
      BY <1>1, <2>1, <2>5, <2>6, <2>7, <3>2
    <3> QED
      BY <2>9, <3>1, <3>2
  <2>12. Email(text) \in Seq(Char) /\ Len(Email(text)) = n /\ DOMAIN Email(text) = 1..n
    BY <2>5, <2>6
  <2> QED
    BY <1>3, <2>10, <2>11, <2>12 DEF at
<1> QED
  BY <1>2, <1>3

(* What a rule's strategy makes of a text hides what the rule says. *)
LEMMA MaskHides ==
  ASSUME NEW rule \in Rules, rule.type # "unknown",
         NEW text \in Seq(Char), Len(text) <= MaxU64
  PROVE  Hides(rule, text, MaskText(rule, text))
<1> DEFINE shown == MaskText(rule, text)
           clear == {i \in DOMAIN shown : shown[i] # Mask}
<1>1. /\ rule.type \in {"full", "partial", "email"}
      /\ rule.prefix \in Nat /\ rule.suffix \in Nat
  BY DEF Rules
<1>2. Len(text) \in Nat /\ DOMAIN text = 1..Len(text) /\ \A i \in 1..Len(text) : i <= MaxU64
  OBVIOUS
<1>3. CASE rule.type = "full"
  BY <1>3 DEF Hides, MaskText
<1>4. CASE rule.type = "partial"
  <2>1. shown = Partial(text, rule.prefix, rule.suffix)
    BY <1>4 DEF MaskText
  <2> HIDE DEF shown
  <2>2. /\ Len(shown) = Len(text) /\ DOMAIN shown = 1..Len(text)
        /\ text # <<>> => \E i \in 1..Len(text) : shown[i] = Mask
        /\ \A i \in 1..Len(text) :
             \/ shown[i] = Mask
             \/ /\ i <= rule.prefix \/ i > Len(text) - rule.suffix
                /\ shown[i] = text[i]
    BY <1>1, <1>2, <2>1, PartialHides
  <2>3. /\ text # <<>> => clear # DOMAIN text
        /\ \A i \in clear : /\ i <= rule.prefix \/ i > Len(text) - rule.suffix
                           /\ shown[i] = text[i]
    BY <1>2, <2>2
  <2>4. Hides(rule, text, shown)
    BY <1>4, <2>2, <2>3 DEF Hides
  <2> QED
    BY <2>4 DEF shown
<1>5. CASE rule.type = "email"
  <2> DEFINE at == IF Ats(text) = {} THEN Len(text) + 1 ELSE FirstAt(text)
  <2>1. shown = Email(text)
    BY <1>5 DEF MaskText
  <2> HIDE DEF shown
  <2>2. /\ Len(shown) = Len(text) /\ DOMAIN shown = 1..Len(text)
        /\ at > 1 => \E i \in 1..(at - 1) : shown[i] = Mask
        /\ \A i \in 1..Len(text) :
             \/ shown[i] = Mask
             \/ (i = 1 \/ i >= at) /\ shown[i] = text[i]
    BY <1>2, <2>1, EmailHides
  <2>3. /\ at > 1 => 1..(at - 1) \ clear # {}
        /\ \A i \in clear : (i = 1 \/ i >= at) /\ shown[i] = text[i]
    <3> HIDE DEF at
    <3> QED
      BY <2>2
  <2>4. Hides(rule, text, shown)
    BY <1>5, <2>2, <2>3 DEF Hides
  <2> QED
    BY <2>4 DEF shown
<1> QED
  BY <1>1, <1>3, <1>4, <1>5

-----------------------------------------------------------------------------
(* The inductive invariant: what is known of the call at each place. *)

Unanswered == pc # "answered" => answer = "none"

StatementOK ==
  /\ ~ConfigError(columns)
  /\ Named(statement) # {} /\ Named(statement) \subseteq columns
  /\ record.columns # {} => Named(statement) \subseteq record.columns
  /\ \A c \in Named(statement) \cap Malformed :
       Open /\ ~ask.named /\ c \notin ask.where \cup Elements(ask.order)
  /\ statement.limit \in 1..LimitMax
  /\ IF ask.limited THEN statement.limit = ask.limit ELSE statement.limit <= Default

GateOK ==
  /\ estimated = Lesser(total, MaxU64)
  /\ pc = "passed" \/ answer = "succeeded" => plan > 0 /\ total <= record.maxEstimate
  /\ answer = "rejected" => total > record.maxEstimate

RowsOK ==
  /\ answer # "succeeded" => rows = <<>> /\ raw = <<>>
  /\ answer = "succeeded" => Len(rows) \in 0..statement.limit
  /\ MaskedInAnswer

Inv ==
  TypeOK /\ Unanswered /\ (Sent => StatementOK) /\ GateOK /\ RowsOK /\ BlamedForCause

LEMMA InitInv == Init => Inv
<1> SUFFICES ASSUME Init PROVE Inv
  OBVIOUS
<1>1. TypeOK
  BY DEF Init, TypeOK, NoStatement, Places, Answers, Elements
<1>2. Unanswered /\ ~Sent
  BY DEF Init, Unanswered, Sent
<1>3. GateOK
  BY DEF Init, GateOK, Lesser
<1>4. RowsOK
  BY DEF Init, RowsOK, MaskedInAnswer
<1>5. BlamedForCause
  BY DEF Init, BlamedForCause
<1> QED
  BY <1>1, <1>2, <1>3, <1>4, <1>5 DEF Inv

LEMMA PlaceStep == TypeOK /\ Unanswered /\ [Next]_vars => Unanswered'
BY DEF TypeOK, Unanswered, Next, vars, call, gate, result, Arrive, LoadAllowlist, Connect,
       Inspect, Explain, Count, CountFails, Gate, Query, DatabaseFails, AlterTable, Finished,
       End, Go

LEMMA TypeStep == TypeOK /\ [Next]_vars => TypeOK'
<1> SUFFICES ASSUME TypeOK, [Next]_vars PROVE TypeOK'
  OBVIOUS
<1> USE DEF vars, call, gate, result, End, Go
<1>1. table' \in Table /\ record' \in Record
  BY DEF TypeOK, Next, Arrive, LoadAllowlist, Connect, Inspect, Explain, Count, CountFails,
         Gate, Query, DatabaseFails, AlterTable, Finished
<1>2. pc' \in Places /\ answer' \in Answers
  BY DEF TypeOK, Places, Answers, Next, Arrive, LoadAllowlist, Connect, Inspect, Explain,
         Count, CountFails, Gate, Query, DatabaseFails, AlterTable, Finished
<1>3. ask' \in Ask \cup {NoAsk}
  BY DEF TypeOK, Next, Arrive, LoadAllowlist, Connect, Inspect, Explain, Count, CountFails,
         Gate, Query, DatabaseFails, AlterTable, Finished
<1>4. columns' \subseteq Column
  BY DEF TypeOK, Next, Arrive, LoadAllowlist, Connect, Inspect, Explain, Count, CountFails,
         Gate, Query, DatabaseFails, AlterTable, Finished
<1>5. /\ statement'.select \subseteq Column /\ statement'.where \subseteq Column
      /\ Elements(statement'.order) \subseteq Column /\ statement'.limit \in Int
  <2>1. CASE UNCHANGED statement
    BY <2>1 DEF TypeOK
  <2>2. CASE statement' = Statement(table) /\ ~ConfigError(table) /\ ~ArgumentError(table)
    <3>1. /\ ask \in Ask \cup {NoAsk} /\ record \in Record /\ table \in SUBSET Column
      BY DEF TypeOK
    <3>2. Named(Statement(table)) \subseteq Column
      BY <2>2, <3>1, StatementListed
    <3>3. Limit \in Int
      BY <2>2, <3>1, LimitBounds DEF ArgumentError
    <3> QED
      BY <2>2, <3>2, <3>3 DEF Named, Statement
  <2> QED
    BY <2>1, <2>2 DEF Next, Arrive, LoadAllowlist, Connect, Inspect, Explain, Count,
                      CountFails, Gate, Query, DatabaseFails, AlterTable, Finished
<1>6. plan' \in 0..MaxPlan /\ estimated' \in 0..MaxU64 /\ total' \in Nat
  <2>1. CASE Count
    BY <2>1 DEF Count, TypeOK, SatAdd, Lesser
  <2>2. CASE UNCHANGED gate
    BY <2>2 DEF TypeOK
  <2> QED
    BY <2>1, <2>2 DEF Next, Arrive, LoadAllowlist, Connect, Inspect, Explain,
                      CountFails, Gate, Query, DatabaseFails, AlterTable, Finished
<1>7. DOMAIN rows' = DOMAIN raw'
  <2>1. CASE Query
    BY <2>1 DEF Query, MaskRows
  <2>2. CASE UNCHANGED result
    BY <2>2 DEF TypeOK
  <2> QED
    BY <2>1, <2>2 DEF Next, Arrive, LoadAllowlist, Connect, Inspect, Explain, Count,
                      CountFails, Gate, DatabaseFails, AlterTable, Finished
<1> QED
  BY <1>1, <1>2, <1>3, <1>4, <1>5, <1>6, <1>7 DEF TypeOK

(* What is known of the statement says nothing of the other variables. *)
LEMMA StatementKept ==
  UNCHANGED <<record, ask, columns, statement>> => (StatementOK' <=> StatementOK)
BY DEF StatementOK, ConfigError, Usable, Listed, Open, Named, Elements, LimitMax, Clamp

LEMMA StatementStep ==
  Inv /\ [Next]_vars => (Sent => StatementOK)'
<1> SUFFICES ASSUME Inv, [Next]_vars, Sent' PROVE StatementOK'
  OBVIOUS
<1> USE DEF vars, call, gate, result, End, Go
<1>1. TypeOK /\ Unanswered /\ (Sent => StatementOK)
  BY DEF Inv
<1>2. CASE Inspect
  <2>1. /\ ~ConfigError(table) /\ ~ArgumentError(table)
        /\ statement' = Statement(table) /\ columns' = table /\ UNCHANGED <<record, ask>>
    BY <1>1, <1>2 DEF Inspect, Sent, Unanswered
  <2>2. ask \in Ask \cup {NoAsk} /\ record \in Record /\ table \in SUBSET Column
    BY <1>1 DEF TypeOK
  <2>3. /\ Named(statement') # {} /\ Named(statement') \subseteq table
        /\ record.columns # {} => Named(statement') \subseteq record.columns
        /\ \A c \in Named(statement') \cap Malformed :
             Open /\ ~ask.named /\ c \notin ask.where \cup Elements(ask.order)
    BY <2>1, <2>2, StatementListed
  <2>4. statement'.limit = Limit
    BY <2>1 DEF Statement
  <2>5. /\ Limit \in 1..LimitMax
        /\ IF ask.limited THEN Limit = ask.limit ELSE Limit <= Default
    BY <2>1, <2>2, LimitBounds DEF ArgumentError
  <2>6. ConfigError(columns)' = ConfigError(table) /\ Open' = Open /\ LimitMax' = LimitMax
    BY <2>1 DEF ConfigError, Usable, Listed, Open, LimitMax
  <2>7. Named(statement)' = Named(statement')
    BY DEF Named, Elements
  <2> QED
    BY <2>1, <2>3, <2>4, <2>5, <2>6, <2>7 DEF StatementOK, Elements
<1>3. CASE ~Inspect
  <2>1. Sent /\ UNCHANGED <<record, ask, columns, statement>>
    BY <1>1, <1>3 DEF Unanswered, Sent, Next, Arrive, LoadAllowlist, Connect, Explain, Count,
                      CountFails, Gate, Query, DatabaseFails, AlterTable, Finished
  <2> QED
    BY <1>1, <2>1, StatementKept
<1> QED
  BY <1>2, <1>3

LEMMA GateStep == Inv /\ [Next]_vars => GateOK'
<1> SUFFICES ASSUME Inv, [Next]_vars PROVE GateOK'
  OBVIOUS
<1> USE DEF vars, call, gate, result, End, Go
<1>1. TypeOK /\ Unanswered /\ GateOK
  BY DEF Inv
<1>2. CASE Count
  <2>1. UNCHANGED <<pc, answer, record>> /\ pc = "counting" /\ answer = "none"
    BY <1>1, <1>2 DEF Count, Unanswered
  <2>2. estimated' = Lesser(total', MaxU64)
    BY <1>1, <1>2 DEF Count, SatAdd, Lesser, GateOK, TypeOK
  <2> QED
    BY <2>1, <2>2 DEF GateOK
<1>3. CASE Gate
  <2>1. record.maxEstimate \in Int /\ record.maxEstimate < MaxU64 /\ MaxU64 \in Nat
        /\ total \in Nat /\ plan \in Nat
    BY <1>1 DEF TypeOK
  <2>2. (estimated > record.maxEstimate) <=> (total > record.maxEstimate)
    BY <1>1, <2>1 DEF GateOK, Lesser
  <2>3. UNCHANGED <<record, gate>> /\ pc = "counting" /\ answer = "none"
    BY <1>1, <1>3 DEF Gate, Unanswered
  <2>4. pc' = "passed" \/ answer' = "succeeded" => plan > 0 /\ total <= record.maxEstimate
    BY <1>3, <2>1, <2>2, <2>3 DEF Gate
  <2>5. answer' = "rejected" => total > record.maxEstimate
    BY <1>3, <2>1, <2>2, <2>3 DEF Gate
  <2> QED
    BY <1>1, <2>3, <2>4, <2>5 DEF GateOK
<1>4. CASE ~Count /\ ~Gate
  <2>1. UNCHANGED <<record, gate>>
    BY <1>4 DEF Next, Arrive, LoadAllowlist, Connect, Inspect, Explain,
                CountFails, Query, DatabaseFails, AlterTable, Finished
  <2>2. /\ pc' = "passed" \/ answer' = "succeeded" => pc = "passed" \/ answer = "succeeded"
        /\ answer' = "rejected" => answer = "rejected"
    BY <1>4, <1>1 DEF Unanswered, Next, Arrive, LoadAllowlist, Connect, Inspect, Explain,
                CountFails, Query, DatabaseFails, AlterTable, Finished
  <2> QED
    BY <1>1, <2>1, <2>2 DEF GateOK
<1> QED
  BY <1>2, <1>3, <1>4

LEMMA RowsStep == Inv /\ [Next]_vars => RowsOK'
<1> SUFFICES ASSUME Inv, [Next]_vars PROVE RowsOK'
  OBVIOUS
<1> USE DEF vars, call, gate, result, End, Go
<1>1. TypeOK /\ Unanswered /\ (Sent => StatementOK) /\ RowsOK
  BY DEF Inv
<1>2. CASE Query
  <2>1. /\ raw' \in Result /\ rows' = MaskRows(raw') /\ answer' = "succeeded"
        /\ UNCHANGED <<record, statement>> /\ Sent
    BY <1>2 DEF Query, Sent
  <2>2. /\ statement.limit \in Nat /\ record \in Record /\ StatementOK
    BY <1>1, <2>1 DEF StatementOK, TypeOK
  <2>3. PICK n \in 0..Lesser(statement.limit, MaxRows) : raw' \in [1..n -> [statement.select -> Value]]
    BY <2>1 DEF Result
  <2>4. n \in 0..statement.limit
    BY <2>2, <2>3 DEF Lesser
  <2>5. DOMAIN raw' = 1..n /\ \A i \in 1..n : raw'[i] \in [statement.select -> Value]
    BY <2>3
  <2>6. /\ rows' = [i \in 1..n |-> rows'[i]]
        /\ \A i \in 1..n : rows'[i] = [c \in DOMAIN raw'[i] |->
             IF c \in DOMAIN record.rules
               THEN MaskValue(record.rules[c], raw'[i][c]) ELSE raw'[i][c]]
    BY <2>1, <2>5 DEF MaskRows
  <2>7. Len(rows') = n
    BY <2>4, <2>6
  <2>8. ASSUME NEW i \in 1..n, NEW c \in DOMAIN rows'[i]
        PROVE  IF c \in DOMAIN record.rules /\ raw'[i][c].kind = "scalar"
                 THEN Hides(record.rules[c], raw'[i][c].text, rows'[i][c].text)
                 ELSE rows'[i][c] = raw'[i][c]
    <3>1. c \in statement.select /\ raw'[i][c] \in Value
      BY <2>5, <2>6, <2>8
    <3>2. rows'[i][c] = IF c \in DOMAIN record.rules
                         THEN MaskValue(record.rules[c], raw'[i][c]) ELSE raw'[i][c]
      BY <2>6, <2>8
    <3> DEFINE v == raw'[i][c]
    <3> HIDE DEF v
    <3>3. v \in Values /\ Len(v.text) <= MaxU64
      BY <3>1 DEF v
    <3>4. v.text \in Seq(Char) /\ v = [kind |-> v.kind, text |-> v.text]
      BY <3>3 DEF Values
    <3>5. CASE c \in DOMAIN record.rules /\ v.kind = "scalar"
      <4> DEFINE rule == record.rules[c]
      <4>1. rule \in Rules /\ rule.suffix <= MaxU64
        BY <2>2, <3>5
      <4>2. rule.type # "unknown"
        BY <2>2, <3>5 DEF StatementOK, ConfigError
      <4> HIDE DEF rule
      <4>3. Hides(rule, v.text, MaskText(rule, v.text))
        BY <3>3, <3>4, <4>1, <4>2, MaskHides
      <4>4. MaskValue(rule, v).text = MaskText(rule, v.text)
        BY <3>4, <3>5 DEF MaskValue
      <4>5. rows'[i][c] = MaskValue(rule, v)
        BY <3>2, <3>5 DEF v, rule
      <4> QED
        BY <3>5, <4>3, <4>4, <4>5 DEF v, rule
    <3>6. CASE ~(c \in DOMAIN record.rules /\ v.kind = "scalar")
      BY <3>2, <3>6 DEF MaskValue, v
    <3> QED
      BY <3>5, <3>6
  <2>9. DOMAIN rows' = 1..n
    BY <2>6
  <2>10. MaskedInAnswer'
    BY <2>1, <2>8, <2>9 DEF MaskedInAnswer
  <2> QED
    BY <2>1, <2>4, <2>7, <2>10 DEF RowsOK
<1>3. CASE ~Query
  <2>1. UNCHANGED <<record, rows, raw>>
    BY <1>3 DEF Next, Arrive, LoadAllowlist, Connect, Inspect, Explain, Count, CountFails,
                Gate, DatabaseFails, AlterTable, Finished
  <2>2. (answer' = "succeeded" <=> answer = "succeeded") /\ (answer = "succeeded" => UNCHANGED statement)
    BY <1>1, <1>3 DEF Unanswered, Next, Arrive, LoadAllowlist, Connect, Inspect, Explain,
                Count, CountFails, Gate, DatabaseFails, AlterTable, Finished
  <2>3. MaskedInAnswer'
    BY <1>1, <2>1 DEF RowsOK, MaskedInAnswer
  <2> QED
    BY <1>1, <2>1, <2>2, <2>3 DEF RowsOK
<1> QED
  BY <1>2, <1>3

(* Arguments that ask for nothing forbidden pass every check, as long as   *)
(* the allowlist fits the table.                                           *)
LEMMA OrderlyPasses ==
  ASSUME ask \in Ask \cup {NoAsk}, record \in Record, NEW actual, AskInOrder(ask, record, actual),
         actual # {}, record.columns \subseteq actual
  PROVE  ~ArgumentError(actual)
<1> DEFINE asked == ask.columns \cup ask.where \cup Elements(ask.order)
<1>1. \A c \in asked : Usable(c, actual)
  BY DEF AskInOrder, Usable, Listed, Open
<1>2. ~SelectError(actual)
  <2>1. CASE ask.named
    BY <1>1, <2>1 DEF SelectError, Selected, AskInOrder, Usable
  <2>2. CASE ~ask.named
    BY <2>2 DEF SelectError, Selected, Listed, Open
  <2> QED
    BY <2>1, <2>2
<1>3. ~WhereError(actual)
  BY <1>1 DEF WhereError, AskInOrder
<1>4. ~OrderError(actual)
  <2>1. \A i \in DOMAIN ask.order : ask.order[i] \in asked
    BY DEF Elements
  <2>2. \A i, j \in DOMAIN ask.order : i # j => ask.order[i] # ask.order[j]
    BY DEF AskInOrder
  <2>3. Len(ask.order) \in Nat /\ ~(Len(ask.order) > MaxOrder)
    BY AskTyped DEF AskInOrder
  <2> QED
    BY <1>1, <2>1, <2>2, <2>3 DEF OrderError
<1>5. ~LimitError
  BY AskTyped DEF LimitError, LimitMax, Clamp, AskInOrder, Lesser
<1> QED
  BY <1>2, <1>3, <1>4, <1>5 DEF ArgumentError, AskInOrder

LEMMA BlameStep == Inv /\ [Next]_vars => BlamedForCause'
<1> SUFFICES ASSUME Inv, [Next]_vars, answer' = "invalid arguments",
                    record'.columns \subseteq columns', AskInOrder(ask', record', columns')
             PROVE  FALSE
  BY Zenon DEF BlamedForCause
<1> USE DEF vars, call, gate, result, End, Go
<1>1. TypeOK /\ Unanswered /\ BlamedForCause
  BY DEF Inv
<1>2. CASE Arrive
  BY <1>1, <1>2 DEF Arrive, AskInOrder, Unanswered
<1>3. CASE Inspect
  <2>1. /\ columns' = table /\ columns' # {} /\ ArgumentError(table)
        /\ UNCHANGED <<record, ask>>
    BY <1>1, <1>3 DEF Inspect, Unanswered
  <2>2. ask \in Ask \cup {NoAsk} /\ record \in Record
    BY <1>1 DEF TypeOK
  <2>3. AskInOrder(ask, record, table)
    BY <2>1
  <2> QED
    BY <2>1, <2>2, <2>3, OrderlyPasses
<1>4. CASE ~Arrive /\ ~Inspect
  <2>1. answer = "invalid arguments" /\ UNCHANGED <<record, ask, columns>>
    BY <1>1, <1>4 DEF Unanswered, Next, LoadAllowlist, Connect, Explain, Count, CountFails,
                Gate, Query, DatabaseFails, AlterTable, Finished
  <2>2. AskInOrder(ask, record, columns)
    BY <2>1
  <2> QED
    BY <1>1, <2>1, <2>2 DEF BlamedForCause
<1> QED
  BY <1>2, <1>3, <1>4

LEMMA Inductive == Spec => []Inv
<1>1. Inv /\ [Next]_vars => Inv'
  <2> SUFFICES ASSUME Inv, [Next]_vars PROVE Inv'
    OBVIOUS
  <2>1. TypeOK' /\ Unanswered'
    BY TypeStep, PlaceStep DEF Inv
  <2>2. (Sent => StatementOK)'
    BY StatementStep
  <2>3. GateOK' /\ RowsOK' /\ BlamedForCause'
    BY GateStep, RowsStep, BlameStep
  <2> QED
    BY <2>1, <2>2, <2>3 DEF Inv
<1> QED
  BY InitInv, <1>1, PTL DEF Spec

-----------------------------------------------------------------------------
(* Type correctness. *)
THEOREM TypeCorrect == Spec => []TypeOK
<1>1. Inv => TypeOK
  BY DEF Inv
<1> QED
  BY Inductive, <1>1, PTL

(* Whatever the table becomes after its inspection, no statement names a   *)
(* column outside the allowlist.                                           *)
THEOREM ListedOnly == Spec => []OnlyListedColumns
<1>1. Inv => OnlyListedColumns
  BY DEF Inv, StatementOK, OnlyListedColumns
<1> QED
  BY Inductive, <1>1, PTL

(* What the answer shows of a column with a rule hides what the rule says, *)
(* for texts of any length and rules with any prefix and suffix.           *)
THEOREM MaskHolds == Spec => []MaskedInAnswer
<1>1. Inv => MaskedInAnswer
  BY DEF Inv, RowsOK
<1> QED
  BY Inductive, <1>1, PTL

(* An answer keeps to the caller's limit, the allowlist's and the ceiling, *)
(* whatever number the allowlist holds as its limit.                       *)
THEOREM LimitKept == Spec => []RowsWithinLimit
<1>1. Inv => RowsWithinLimit
  <2> SUFFICES ASSUME Inv, answer = "succeeded" PROVE RowsWithinLimit
    BY DEF RowsWithinLimit
  <2>1. TypeOK /\ StatementOK /\ Len(rows) \in 0..statement.limit
    BY DEF Inv, RowsOK, Sent
  <2>2. record.maxLimit \in Int /\ statement.limit \in 1..LimitMax
    BY <2>1 DEF TypeOK, StatementOK
  <2>3. /\ LimitMax \in 1..Ceiling
        /\ LimitMax <= record.maxLimit \/ (record.maxLimit < 1 /\ LimitMax = 1)
    BY <2>2 DEF LimitMax, Clamp
  <2>4. ask.limit \in Int /\ IF ask.limited THEN Len(rows) <= ask.limit ELSE Len(rows) <= Default
    BY <2>1, <2>2, <2>3, AskTyped DEF TypeOK, StatementOK
  <2> QED
    BY <2>1, <2>2, <2>3, <2>4 DEF RowsWithinLimit
<1> QED
  BY Inductive, <1>1, PTL

(* Saturation never lets a query pass or be rejected against the true sum  *)
(* of its plan: the threshold is below the greatest u64.                   *)
THEOREM GateExact == Spec => []GateIsExact
<1>1. Inv => GateIsExact
  BY DEF Inv, GateOK, GateIsExact
<1> QED
  BY Inductive, <1>1, PTL

(* Only arguments that are wrong are called invalid, as long as the        *)
(* allowlist lists no column that the table lost.                          *)
THEOREM BlameIsFair == Spec => []BlamedForCause
<1>1. Inv => BlamedForCause
  BY DEF Inv
<1> QED
  BY Inductive, <1>1, PTL

===============================================================================
