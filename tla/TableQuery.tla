------------------------------ MODULE TableQuery ------------------------------
(***************************************************************************)
(* One call of data.query_table: query_table_data in actions.rs with the   *)
(* parsing of its arguments, the EXPLAIN gate and the masking of rows.     *)
(*                                                                         *)
(* The handler looks at the table's columns, asks MySQL for a plan and     *)
(* runs the query, in three statements; the table may be altered between   *)
(* any two of them.  No operation of the gateway changes the allowlist,    *)
(* and calls share nothing else, so one call is modelled.  What let the    *)
(* call in is the business of Gateway.                                     *)
(***************************************************************************)
EXTENDS Integers, Sequences

CONSTANTS
  Column,      \* names of columns
  Malformed,   \* those that is_valid_identifier refuses
  Record,      \* what the table's allowlist record may be
  Table,       \* sets of columns that the table may have
  Ask,         \* arguments that a caller may send
  Char,        \* characters of texts
  Value,       \* what a column of a row may hold
  Estimate,    \* estimates that a row of a plan may hold
  MaxPlan,     \* bound: rows of a plan
  MaxRows,     \* bound: rows of a result
  MaxU64,      \* the greatest u64 (and usize)
  Ceiling,     \* the greatest limit of any allowlist: 1000 in the code
  Default,     \* the limit of a call that names none: 100 in the code
  MaxOrder     \* MAX_ORDER_BY_COLUMNS: 3 in the code

Mask == "*"
Values == [kind : {"null", "scalar", "nested"}, text : Seq(Char)]
Rules == [type : {"full", "partial", "email", "unknown"}, prefix : Nat, suffix : Nat]
Asks ==
  [table : {"valid", "malformed"}, typed : BOOLEAN, named : BOOLEAN,
   columns : SUBSET Column, where : SUBSET Column, scalar : BOOLEAN,
   order : Seq(Column), limited : BOOLEAN, limit : Int]

ASSUME TableAssumption ==
  /\ Malformed \subseteq Column
  /\ \A r \in Record :
       /\ r.enabled \in BOOLEAN /\ r.columns \subseteq Column
       /\ r.maxLimit \in Int /\ r.maxEstimate \in Int /\ r.maxEstimate < MaxU64
       /\ DOMAIN r.rules \subseteq Column
       /\ \A c \in DOMAIN r.rules : r.rules[c] \in Rules /\ r.rules[c].suffix <= MaxU64
  /\ \A t \in Table : t \subseteq Column
  /\ \A a \in Ask : a \in Asks
  /\ Mask \in Char
  /\ \A v \in Value : v \in Values /\ Len(v.text) <= MaxU64
  /\ \A e \in Estimate : e \in 0..MaxU64
  /\ MaxPlan \in Nat /\ MaxRows \in Nat
  /\ MaxU64 \in Nat /\ MaxOrder \in Nat
  /\ Ceiling \in Nat \ {0} /\ Default \in Nat \ {0}

NoAsk ==
  [table |-> "valid", typed |-> TRUE, named |-> FALSE, columns |-> {}, where |-> {},
   scalar |-> TRUE, order |-> <<>>, limited |-> FALSE, limit |-> 0]
NoStatement == [select |-> {}, where |-> {}, order |-> <<>>, limit |-> 0]

VARIABLES
  table,      \* the columns that the table has now
  record,     \* the table's record in the allowlist
  pc,         \* where the call is
  ask,        \* its arguments
  columns,    \* actual_columns, as inspected
  statement,  \* the statement that is explained and run
  plan,       \* rows of the plan read so far
  estimated,  \* estimated_rows
  total,      \* history: the sum of the estimates, without saturation
  raw,        \* history: what MySQL returned
  rows,       \* what the caller is told
  answer      \* the status of the answer

call == <<ask, columns, statement>>
gate == <<plan, estimated, total>>
result == <<raw, rows>>
vars == <<table, record, pc, call, gate, result, answer>>

Init ==
  /\ table \in Table /\ record \in Record
  /\ pc = "new" /\ ask = NoAsk /\ columns = {} /\ statement = NoStatement
  /\ plan = 0 /\ estimated = 0 /\ total = 0
  /\ raw = <<>> /\ rows = <<>> /\ answer = "none"

End(status) == pc' = "answered" /\ answer' = status
Go(there) == pc' = there /\ UNCHANGED answer

-----------------------------------------------------------------------------
(* Before the database *)

Arrive ==
  /\ pc = "new"
  /\ ask' \in Ask
  /\ IF ask'.table = "valid" THEN Go("parsed") ELSE End("invalid arguments")
  /\ UNCHANGED <<table, record, columns, statement, gate, result>>

LoadAllowlist ==
  /\ pc = "parsed"
  /\ IF record.enabled THEN Go("allowed") ELSE End("not allowed")
  /\ UNCHANGED <<table, record, call, gate, result>>

Connect ==
  /\ pc = "allowed" /\ Go("connected")
  /\ UNCHANGED <<table, record, call, gate, result>>

-----------------------------------------------------------------------------
(* The arguments against the table and the allowlist *)

Open == record.columns = {}

(* A column that is on the table and, unless it is open, in the allowlist. *)
Listed(c, actual) == c \in actual /\ (Open \/ c \in record.columns)
Usable(c, actual) == c \notin Malformed /\ Listed(c, actual)

ConfigError(actual) ==
  \/ record.columns \cap Malformed # {}
  \/ \E c \in DOMAIN record.rules :
       ~Usable(c, actual) \/ record.rules[c].type = "unknown"

Selected(actual) ==
  IF ask.named THEN ask.columns ELSE IF Open THEN actual ELSE record.columns

SelectError(actual) ==
  \/ ask.named /\ ask.columns \cap Malformed # {}
  \/ Selected(actual) = {}
  \/ \E c \in Selected(actual) : ~Listed(c, actual)

WhereError(actual) ==
  \E c \in ask.where : ~Usable(c, actual) \/ ~ask.scalar

(* Mutant: sorting is by any column of the table. *)
OrderErrorOpen(actual) ==
  \/ Len(ask.order) > MaxOrder
  \/ \E i \in DOMAIN ask.order : ask.order[i] \notin actual
  \/ \E i, j \in DOMAIN ask.order : i # j /\ ask.order[i] = ask.order[j]

OrderError(actual) ==
  \/ Len(ask.order) > MaxOrder
  \/ \E i \in DOMAIN ask.order : ~Usable(ask.order[i], actual)
  \/ \E i, j \in DOMAIN ask.order : i # j /\ ask.order[i] = ask.order[j]

Clamp(n, low, high) == IF n < low THEN low ELSE IF n > high THEN high ELSE n
Lesser(m, n) == IF m < n THEN m ELSE n

LimitMax == Clamp(record.maxLimit, 1, Ceiling)

Limit == IF ask.limited THEN ask.limit ELSE Lesser(Default, LimitMax)

(* Mutant: the greatest limit is refused. *)
LimitErrorEarly == ask.limited /\ (ask.limit < 1 \/ ask.limit >= LimitMax)

LimitError == ask.limited /\ (ask.limit < 1 \/ ask.limit > LimitMax)

ArgumentError(actual) ==
  \/ ~ask.typed \/ SelectError(actual) \/ WhereError(actual)
  \/ OrderError(actual) \/ LimitError

Statement(actual) ==
  [select |-> Selected(actual), where |-> ask.where, order |-> ask.order, limit |-> Limit]

(* No await from the columns of the table to the statement. *)
Inspect ==
  /\ pc = "connected"
  /\ columns' = table
  /\ CASE table = {} \/ ConfigError(table) -> End("failed") /\ UNCHANGED statement
       [] table # {} /\ ~ConfigError(table) /\ ArgumentError(table) ->
            End("invalid arguments") /\ UNCHANGED statement
       [] OTHER ->
            /\ statement' = Statement(table)
            /\ IF record.maxEstimate < 1 THEN End("failed") ELSE Go("explaining")
  /\ UNCHANGED <<table, record, ask, gate, result>>

-----------------------------------------------------------------------------
(* The EXPLAIN gate *)

Elements(s) == {s[i] : i \in DOMAIN s}
Named(s) == s.select \cup s.where \cup Elements(s.order)

(* MySQL knows every column that the statement names. *)
Runs == Named(statement) \subseteq table

Explain ==
  /\ pc = "explaining" /\ Runs /\ Go("counting")
  /\ UNCHANGED <<table, record, call, gate, result>>

SatAdd(m, n) == Lesser(m + n, MaxU64)

(* Mutant: the sum wraps around. *)
CountWraps ==
  /\ pc = "counting" /\ plan < MaxPlan
  /\ \E e \in Estimate :
       estimated' = (estimated + e) % (MaxU64 + 1) /\ total' = total + e
  /\ plan' = plan + 1
  /\ UNCHANGED <<table, record, pc, call, result, answer>>

(* One turn of the loop over the rows of the plan. *)
Count ==
  /\ pc = "counting" /\ plan < MaxPlan
  /\ \E e \in Estimate : estimated' = SatAdd(estimated, e) /\ total' = total + e
  /\ plan' = plan + 1
  /\ UNCHANGED <<table, record, pc, call, result, answer>>

(* A row without an estimate. *)
CountFails ==
  /\ pc = "counting" /\ plan < MaxPlan /\ End("failed")
  /\ UNCHANGED <<table, record, call, gate, result>>

Gate ==
  /\ pc = "counting"
  /\ CASE plan = 0 -> End("failed")
       [] plan > 0 /\ estimated > record.maxEstimate -> End("rejected")
       [] OTHER -> Go("passed")
  /\ UNCHANGED <<table, record, call, gate, result>>

-----------------------------------------------------------------------------
(* The query and its masking *)

(* Mutant: the boundary is off by one. *)
PartialKeepsAll(text, prefix, suffix) ==
  [i \in 1..Len(text) |->
     IF prefix + suffix <= Len(text) /\ (i <= prefix \/ i > Len(text) - suffix)
       THEN text[i] ELSE Mask]

(* mask_partial: the ends stay, unless they are all there is.  A mask      *)
(* counts as one character, however long it is.                            *)
Partial(text, prefix, suffix) ==
  [i \in 1..Len(text) |->
     IF /\ SatAdd(prefix, suffix) < Len(text)
        /\ i <= prefix \/ i > Len(text) - suffix
       THEN text[i] ELSE Mask]

Ats(text) == {i \in DOMAIN text : text[i] = "@"}
FirstAt(text) == CHOOSE i \in Ats(text) : \A j \in Ats(text) : i <= j

(* mask_email: the part before the first "@" keeps its first character. *)
Email(text) ==
  IF Ats(text) = {} THEN Partial(text, 1, 0)
  ELSE LET at == FirstAt(text) IN
       Partial(SubSeq(text, 1, at - 1), 1, 0) \o SubSeq(text, at, Len(text))

Full == <<"#">>

MaskText(rule, text) ==
  CASE rule.type = "full"    -> Full
    [] rule.type = "partial" -> Partial(text, rule.prefix, rule.suffix)
    [] rule.type = "email"   -> Email(text)

(* Null stays null, and arrays and objects are left alone. *)
MaskValue(rule, value) ==
  IF value.kind = "scalar"
    THEN [value EXCEPT !.text = MaskText(rule, value.text)] ELSE value

MaskRows(list) ==
  [i \in DOMAIN list |-> [c \in DOMAIN list[i] |->
     IF c \in DOMAIN record.rules
       THEN MaskValue(record.rules[c], list[i][c]) ELSE list[i][c]]]

(* What MySQL may return: it keeps to the LIMIT of the statement. *)
Result == UNION {[1..n -> [statement.select -> Value]] :
                 n \in 0..Lesser(statement.limit, MaxRows)}

Query ==
  /\ pc = "passed" /\ Runs
  /\ raw' \in Result
  /\ rows' = MaskRows(raw')
  /\ End("succeeded")
  /\ UNCHANGED <<table, record, call, gate>>

(* The source has no record or no url, MySQL cannot be reached, or it      *)
(* refuses a statement, as it must one that names a column that is gone.   *)
DatabaseFails ==
  /\ pc \in {"allowed", "connected", "explaining", "passed"}
  /\ End("failed")
  /\ UNCHANGED <<table, record, call, gate, result>>

(* Someone else alters the table. *)
AlterTable ==
  /\ pc \notin {"new", "answered"}
  /\ table' \in Table \ {table}
  /\ UNCHANGED <<record, pc, call, gate, result, answer>>

Finished == pc = "answered" /\ UNCHANGED vars

Next ==
  \/ Arrive \/ LoadAllowlist \/ Connect \/ Inspect \/ Explain \/ Count \/ CountFails
  \/ Gate \/ Query \/ DatabaseFails \/ AlterTable \/ Finished

Spec == Init /\ [][Next]_vars

-----------------------------------------------------------------------------
Places ==
  {"new", "parsed", "allowed", "connected", "explaining", "counting", "passed", "answered"}
Answers ==
  {"none", "invalid arguments", "not allowed", "failed", "rejected", "succeeded"}
Statements ==
  [select : SUBSET Column, where : SUBSET Column, order : Seq(Column), limit : Int]

TypeOK ==
  /\ table \in Table /\ record \in Record
  /\ pc \in Places /\ answer \in Answers
  /\ ask \in Ask \cup {NoAsk} /\ columns \subseteq Column
  /\ statement.select \subseteq Column /\ statement.where \subseteq Column
  /\ Elements(statement.order) \subseteq Column /\ statement.limit \in Int
  /\ plan \in 0..MaxPlan /\ estimated \in 0..MaxU64 /\ total \in Nat
  /\ DOMAIN rows = DOMAIN raw

Sent == pc \in {"explaining", "counting", "passed"} \/ answer \in {"rejected", "succeeded"}

(* No statement reaches MySQL, as a plan or as a query, that selects,      *)
(* filters by or sorts by a column outside the allowlist, or one that the  *)
(* table did not have when it was inspected.  A name that is no identifier *)
(* can only be one that the table itself gave, for a call that asks for    *)
(* all of an open table.                                                   *)
OnlyListedColumns ==
  Sent =>
    /\ Named(statement) # {} /\ Named(statement) \subseteq columns
    /\ record.columns # {} => Named(statement) \subseteq record.columns
    /\ \A c \in Named(statement) \cap Malformed :
         Open /\ ~ask.named /\ c \notin ask.where \cup Elements(ask.order)

(* What a rule must hide of a text, whatever computed the text shown.      *)
Hides(rule, text, shown) ==
  LET clear == {i \in DOMAIN shown : shown[i] # Mask}
      at == IF Ats(text) = {} THEN Len(text) + 1 ELSE FirstAt(text) IN
  CASE rule.type = "full" -> shown = Full
    [] rule.type = "partial" ->
         /\ Len(shown) = Len(text)
         /\ text # <<>> => clear # DOMAIN text
         /\ \A i \in clear : /\ i <= rule.prefix \/ i > Len(text) - rule.suffix
                            /\ shown[i] = text[i]
    [] rule.type = "email" ->
         /\ Len(shown) = Len(text)
         /\ at > 1 => 1..(at - 1) \ clear # {}
         /\ \A i \in clear : (i = 1 \/ i >= at) /\ shown[i] = text[i]

(* A column with a rule is never shown in clear, however the table was     *)
(* altered meanwhile: what the answer shows of each scalar hides what the  *)
(* rule says, and everything else is what MySQL returned.  Arrays and      *)
(* objects are not masked by the code.                                     *)
MaskedInAnswer ==
  \A i \in DOMAIN rows : \A c \in DOMAIN rows[i] :
    IF c \in DOMAIN record.rules /\ raw[i][c].kind = "scalar"
      THEN Hides(record.rules[c], raw[i][c].text, rows[i][c].text)
      ELSE rows[i][c] = raw[i][c]

(* An answer has no more rows than the caller asked for, than the          *)
(* allowlist gives, and than any allowlist may give.                       *)
RowsWithinLimit ==
  answer = "succeeded" =>
    /\ Len(rows) <= Ceiling
    /\ Len(rows) <= record.maxLimit \/ (record.maxLimit < 1 /\ Len(rows) <= 1)
    /\ IF ask.limited THEN Len(rows) <= ask.limit ELSE Len(rows) <= Default

(* The query runs only if the true sum of the plan's estimates is within   *)
(* the allowlist's threshold, and is rejected only if it is not: the       *)
(* saturation of the sum never decides otherwise.                          *)
GateIsExact ==
  /\ answer = "succeeded" => plan > 0 /\ total <= record.maxEstimate
  /\ answer = "rejected" => total > record.maxEstimate

(* The caller asks for nothing that the documents forbid.                  *)
AskInOrder(a, r, actual) ==
  LET asked == a.columns \cup a.where \cup Elements(a.order) IN
  /\ a.table = "valid" /\ a.typed /\ a.scalar
  /\ a.named => a.columns # {}
  /\ asked \cap Malformed = {}
  /\ asked \subseteq actual /\ (r.columns # {} => asked \subseteq r.columns)
  /\ Len(a.order) <= MaxOrder
  /\ \A i, j \in DOMAIN a.order : a.order[i] = a.order[j] => i = j
  /\ a.limited => a.limit \in 1..Lesser(r.maxLimit, Ceiling)

(* A caller is blamed only for arguments of its own that are wrong, as     *)
(* long as the allowlist fits the table.  (Where it lists a column that    *)
(* was dropped, a call that names no columns is called invalid too.)       *)
BlamedForCause ==
  answer = "invalid arguments" /\ record.columns \subseteq columns => ~AskInOrder(ask, record, columns)

===============================================================================
