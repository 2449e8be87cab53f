----------------------------- MODULE MCTableQuery -----------------------------
(* An instance of TableQuery for TLC: four columns, one of them with a     *)
(* name that is no identifier, tables that gain and lose columns, and      *)
(* records and arguments on both sides of each check.                      *)
EXTENDS TableQuery

MCColumn == {"id", "mail", "note", "a-b"}
MCMalformed == {"a-b"}
MCTable == {{"id", "mail"}, {"id", "mail", "note"}, {"id", "a-b"}, {}}

NoRules == [c \in {} |-> [type |-> "full", prefix |-> 0, suffix |-> 0]]
MailRule(type, prefix, suffix) ==
  [c \in {"mail"} |-> [type |-> type, prefix |-> prefix, suffix |-> suffix]]

Entry(listed, maxLimit, maxEstimate, rules) ==
  [enabled |-> TRUE, columns |-> listed, maxLimit |-> maxLimit,
   maxEstimate |-> maxEstimate, rules |-> rules]

MCRecord ==
  {Entry({"id", "mail"}, 1, 2, MailRule("email", 0, 0)),
   Entry({"id", "mail"}, 0, 2, MailRule("partial", 1, 1)),
   Entry({"id", "mail", "note"}, 9, 5, MailRule("full", 0, 0)),
   Entry({}, 2, 3, MailRule("partial", MaxU64, 1)),
   Entry({}, 2, 0, NoRules),
   Entry({}, 2, 3, NoRules),
   Entry({"id", "a-b"}, 2, 3, NoRules),
   Entry({"id", "mail"}, 2, 3, MailRule("unknown", 0, 0)),
   [Entry({"id"}, 2, 3, NoRules) EXCEPT !.enabled = FALSE]}

Any == NoAsk
Named1(set) == [Any EXCEPT !.named = TRUE, !.columns = set]
MCAsk ==
  {Any, Named1({}), Named1({"id"}), Named1({"mail"}), Named1({"note"}), Named1({"a-b"}),
   [Any EXCEPT !.table = "malformed"], [Any EXCEPT !.typed = FALSE],
   [Named1({"mail"}) EXCEPT !.where = {"id"}],
   [Named1({"mail"}) EXCEPT !.where = {"note"}],
   [Named1({"mail"}) EXCEPT !.where = {"mail"}, !.scalar = FALSE],
   [Named1({"id"}) EXCEPT !.order = <<"note", "id">>],
   [Named1({"id"}) EXCEPT !.order = <<"id", "id">>],
   [Named1({"id"}) EXCEPT !.order = <<"id", "mail", "note">>]}
  \cup {[Named1({"mail"}) EXCEPT !.limited = TRUE, !.limit = n] : n \in 0..3}

Text(text) == [kind |-> "scalar", text |-> text]
MCValue ==
  {[kind |-> "null", text |-> <<>>], [kind |-> "nested", text |-> <<"x">>],
   Text(<<>>), Text(<<"a", "b">>), Text(<<"a", "b", "c">>),
   Text(<<"a", "@", "b">>), Text(<<"a", "b", "@", "b">>)}
===============================================================================
