------------------------------- MODULE RedisRead -------------------------------
(***************************************************************************)
(* One call of redis.query_key, src/action-gateway/src/actions.rs: the     *)
(* allowlist and the limit, then TYPE, TTL, the length and the value, each *)
(* a command of its own between which others may change the key.           *)
(*                                                                         *)
(* The content of a key is its type and its items, for a hash its fields   *)
(* with their values.  An item has a size, that of its longest text, and   *)
(* the text it is shown as: bytes that are no text are shown in hex, so    *)
(* that two fields of a hash may be shown alike.                           *)
(***************************************************************************)
EXTENDS Integers, Sequences, FiniteSets, SequencesExt

CONSTANTS
  RedisContent,     \* what the key may hold
  RedisRow,         \* rows of the allowlist of the source
  RedisAsk,         \* arguments of the call: key and limit
  MaxKeyChanges     \* bound: changes of the key while one call reads it

(* A string has one text, a set and a hash have no item twice. *)
IsContent(content) ==
  /\ content.items \in Seq(ToSet(content.items))
  /\ content.type = "none" => content.items = <<>>
  /\ content.type = "string" => Len(content.items) = 1
  /\ content.type \in {"set", "hash"} => IsInjective(content.items)

ASSUME RedisAssumption ==
  /\ \A content \in RedisContent : IsContent(content)
  /\ RedisRow \subseteq Seq([matches : {"whole", "part", "nothing", "invalid"},
                           enabled : BOOLEAN, bytes : Int, members : Int])
  /\ \A ask \in RedisAsk : ask.limit \in {"none", "text", "number"} /\ ask.number \in Int
  /\ MaxKeyChanges \in Nat

VARIABLES
  redisKey,    \* the content of the key in Redis
  redisCall    \* the call under way

redisVars == <<redisKey, redisCall>>

RedisAbsent == [type |-> "none", items |-> <<>>]
NoCall ==
  [pc |-> "idle", bytes |-> 0, limit |-> 0, type |-> "none", count |-> 0,
   status |-> "none", shown |-> {}, truncated |-> FALSE, changes |-> 0]

RedisIdle == redisCall = NoCall /\ redisKey = RedisAbsent

-----------------------------------------------------------------------------
(* Arguments and allowlist *)

Clamp(low, n, high) == IF n < low THEN low ELSE IF n > high THEN high ELSE n

(* A row matches the whole key, a part of it, nothing, or does not parse.  *)
(* The first row that does not parse or matches the whole key decides.     *)
Deciding(rows) ==
  {i \in DOMAIN rows : rows[i].enabled /\ rows[i].matches \in {"whole", "invalid"}}
DecidingRow(rows) == rows[Min(Deciding(rows))]

LoadAllowed(rows) ==
  IF Deciding(rows) = {} THEN "not_allowed"
  ELSE IF DecidingRow(rows).matches = "invalid" THEN "query_failed" ELSE "allowed"

AllowedRow(rows) ==
  LET row == DecidingRow(rows) IN
  [bytes |-> IF row.bytes < 1 THEN 1 ELSE row.bytes,
   members |-> Clamp(1, row.members, 1000)]

(* "none" is a call without a limit, "text" one that is not a number. *)
LimitOf(ask, members) ==
  IF ask.limit = "none" THEN IF members < 100 THEN members ELSE 100
  ELSE ask.number
LimitIsRefused(ask, members) ==
  \/ ask.limit = "text"
  \/ ask.limit = "number" /\ ~(ask.number \in 1..members)

KeyIsRefused(ask) == ask.key \in {"missing", "long", "control"}

EndCall(status) == redisCall' = [redisCall EXCEPT !.pc = "done", !.status = status]

(* The handler up to the first command to Redis. *)
StartRead ==
  /\ RedisIdle
  /\ \E ask \in RedisAsk, rows \in RedisRow, content \in RedisContent :
       LET row == AllowedRow(rows) IN
       /\ redisKey' = content
       /\ IF KeyIsRefused(ask) THEN EndCall("invalid")
          ELSE IF LoadAllowed(rows) # "allowed" THEN EndCall(LoadAllowed(rows))
          ELSE IF LimitIsRefused(ask, row.members) THEN EndCall("invalid")
          ELSE redisCall' = [NoCall EXCEPT !.pc = "type", !.bytes = row.bytes,
                                           !.limit = LimitOf(ask, row.members)]

-----------------------------------------------------------------------------
(* The commands *)

RedisGoesOn(pc) == redisCall' = [redisCall EXCEPT !.pc = pc]

ReadType ==
  /\ redisCall.pc = "type"
  /\ redisCall' = [redisCall EXCEPT !.pc = "ttl", !.type = redisKey.type]
  /\ UNCHANGED redisKey

ReadTtl ==
  /\ redisCall.pc = "ttl"
  /\ IF redisCall.type = "none" THEN EndCall("absent")
     ELSE IF redisCall.type = "stream" THEN EndCall("query_failed")
     ELSE RedisGoesOn("count")
  /\ UNCHANGED redisKey

(* A command for another type fails; a key that is gone counts as empty.   *)
WrongType == redisKey.type \notin {redisCall.type, "none"}

SizeOf(items) == IF items = <<>> THEN 0 ELSE items[1].size
CountOf(content) ==
  IF content.type = "string" THEN SizeOf(content.items) ELSE Len(content.items)

ReadCount ==
  /\ redisCall.pc = "count"
  /\ IF WrongType THEN EndCall("query_failed")
     ELSE IF redisCall.type = "string" /\ CountOf(redisKey) > redisCall.bytes
     THEN EndCall("query_failed")
     ELSE redisCall' = [redisCall EXCEPT !.pc = "value", !.count = CountOf(redisKey)]
  /\ UNCHANGED redisKey

(* Mutants: what was taken is not measured again; the answer is called     *)
(* truncated only if the scan is unfinished.                               *)
FitsUnmeasured(items) == TRUE
TruncatedByCursor(cursor, scanned, returned) == cursor # 0

Fits(items) == \A i \in DOMAIN items : items[i].size <= redisCall.bytes
Truncated(cursor, scanned, returned) ==
  cursor # 0 \/ redisCall.count > returned \/ scanned > returned

(* Of the fields of a hash that are shown alike the last one is kept. *)
KeptItems(type, items) ==
  {i \in DOMAIN items : type # "hash"
     \/ \A j \in DOMAIN items : j > i => items[j].text # items[i].text}

AnswerRead(items, cursor, scanned) ==
  LET kept == KeptItems(redisCall.type, items)
  IN IF ~Fits(items) THEN EndCall("query_failed")
     ELSE redisCall' = [redisCall EXCEPT !.pc = "done", !.status = "succeeded",
            !.shown = {items[i] : i \in kept},
            !.truncated = redisCall.type # "string"
                          /\ Truncated(cursor, scanned, Cardinality(kept))]

Taken(items) == SubSeq(items, 1, Clamp(0, redisCall.limit, Len(items)))

(* GET, LRANGE and ZRANGE *)
ReadValue ==
  /\ redisCall.pc = "value" /\ redisCall.type \in {"string", "list", "zset"}
  /\ LET items == IF redisCall.type = "string" THEN redisKey.items
                  ELSE Taken(redisKey.items)
     IN IF WrongType THEN EndCall("query_failed")
        ELSE AnswerRead(items, 0, Len(items))
  /\ UNCHANGED redisKey

(* HSCAN and SSCAN return some of the items, more or fewer than the limit, *)
(* and all of them if the cursor comes back as 0.                          *)
ScanItems ==
  /\ redisCall.pc = "value" /\ redisCall.type \in {"hash", "set"}
  /\ IF WrongType THEN EndCall("query_failed")
     ELSE \E cursor \in {0, 1}, batch \in SetToAllKPermutations(ToSet(redisKey.items)) :
            /\ cursor = 0 => Len(batch) = Len(redisKey.items)
            /\ AnswerRead(Taken(batch), cursor, Len(batch))
  /\ UNCHANGED redisKey

CommandFails ==
  /\ redisCall.pc \in {"type", "ttl", "count", "value"}
  /\ EndCall("query_failed")
  /\ UNCHANGED redisKey

(* Someone writes, deletes or replaces the key, or it expires. *)
KeyChanges ==
  /\ redisCall.pc \in {"ttl", "count", "value"} /\ redisCall.changes < MaxKeyChanges
  /\ \E content \in RedisContent : content # redisKey /\ redisKey' = content
  /\ redisCall' = [redisCall EXCEPT !.changes = @ + 1]

ForgetRead ==
  /\ redisCall.pc = "done"
  /\ redisCall' = NoCall /\ redisKey' = RedisAbsent

RedisInit == RedisIdle
RedisNext ==
  \/ StartRead \/ ReadType \/ ReadTtl \/ ReadCount \/ ReadValue \/ ScanItems
  \/ CommandFails \/ KeyChanges \/ ForgetRead

-----------------------------------------------------------------------------
(* However the key changes between the commands, an answer shows at most   *)
(* as many items as the limit and none that is longer than the allowlist   *)
(* permits.                                                                *)
ReadIsBounded ==
  redisCall.status = "succeeded" =>
    /\ redisCall.limit \in 1..1000
    /\ Cardinality(redisCall.shown) <= redisCall.limit
    /\ \A item \in redisCall.shown : item.size <= redisCall.bytes

(* An answer that is not called truncated shows the whole key, if nobody   *)
(* changed the key meanwhile: neither the limit, nor a scan that has more, *)
(* nor fields that are shown alike hide an item silently.                  *)
UntruncatedIsWhole ==
  /\ redisCall.status = "succeeded" /\ ~redisCall.truncated
  /\ redisCall.changes = 0
  => redisCall.shown = ToSet(redisKey.items)

==============================================================================
