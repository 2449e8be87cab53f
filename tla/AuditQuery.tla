------------------------------ MODULE AuditQuery ------------------------------
(***************************************************************************)
(* audit.query_approval_events of src/action-gateway/src/audit.rs over the *)
(* events that the store keeps. An event takes its second before it waits  *)
(* for the lock of the store, and events of one second are told apart by   *)
(* their random ids, so that neither the order of the store nor that of    *)
(* the answer is the order in which things happened.                       *)
(***************************************************************************)
EXTENDS Listings, Sequences, SequencesExt

CONSTANTS
  EventId,      \* ids of events, compared as texts
  EventFields,  \* what the filtered fields of an event may be: "none" is null
  AuditAsk,     \* arguments of the tool: filters by field, and the limit
  AuditCap,     \* events that the store keeps
  MaxSecond,    \* bound: seconds that pass
  MaxEvents     \* bound: events recorded before the query

ASSUME AuditAssumption ==
  /\ EventId \subseteq Nat /\ AuditCap \in Nat \ {0} /\ {MaxSecond, MaxEvents} \subseteq Nat
  /\ \A ask \in AuditAsk : ask.limit \subseteq Int

VARIABLES
  trail,      \* audit_events of the store
  clock,      \* the second now
  auditCall   \* ids used so far, the call and its answer

auditVars == <<trail, clock, auditCall>>

NoQuery == [pc |-> "idle", used |-> {}, ask |-> {}, status |-> "none", events |-> <<>>]
AuditIdle == trail = <<>> /\ clock = 0 /\ auditCall = NoQuery

-----------------------------------------------------------------------------
AuditTick ==
  /\ auditCall.pc = "idle" /\ clock < MaxSecond
  /\ clock' = clock + 1 /\ UNCHANGED <<trail, auditCall>>

Kept(events) ==
  SubSeq(events, 1 + (IF Len(events) > AuditCap THEN Len(events) - AuditCap ELSE 0),
         Len(events))

(* The handler may have waited for the lock since it read the clock. *)
AppendEvent ==
  /\ auditCall.pc = "idle" /\ Cardinality(auditCall.used) < MaxEvents
  /\ \E id \in EventId \ auditCall.used, fields \in EventFields, at \in 0..clock :
       /\ clock - at <= 1
       /\ trail' = Kept(Append(trail, [id |-> id, at |-> at, fields |-> fields]))
       /\ auditCall' = [auditCall EXCEPT !.used = @ \cup {id}]
  /\ UNCHANGED clock

-----------------------------------------------------------------------------
FilterIsRefused(text) == text \in {"empty", "long"}
LimitOfQuery(ask) == IF ask.limit = {} THEN 100 ELSE CHOOSE n \in ask.limit : TRUE
QueryIsRefused(ask) ==
  \/ \E field \in DOMAIN ask.filters : FilterIsRefused(ask.filters[field])
  \/ LimitOfQuery(ask) \notin 1..1000

EventMatches(event, filters) ==
  \A field \in DOMAIN filters : event.fields[field] = filters[field]

NewestFirst(a, b) == a.at > b.at \/ (a.at = b.at /\ a.id > b.id)

Newest(found) == Ascending(found, [e \in found |-> {b \in found : NewestFirst(b, e)}])

FirstOf(events, n) == SubSeq(events, 1, IF Len(events) < n THEN Len(events) ELSE n)

(* Mutant: what the limit keeps is chosen before the events are sorted. *)
FetchCutFirst(events, ask) ==
  Newest(ToSet(FirstOf(SelectSeq(events, LAMBDA e : EventMatches(e, ask.filters)),
                       LimitOfQuery(ask))))
Fetch(events, ask) ==
  FirstOf(Newest({e \in ToSet(events) : EventMatches(e, ask.filters)}), LimitOfQuery(ask))

QueryAudit ==
  /\ auditCall.pc = "idle"
  /\ \E ask \in AuditAsk :
       auditCall' = [auditCall EXCEPT !.pc = "done", !.ask = {ask},
                       !.status = IF QueryIsRefused(ask) THEN "invalid" ELSE "succeeded",
                       !.events = IF QueryIsRefused(ask) THEN <<>> ELSE Fetch(trail, ask)]
  /\ UNCHANGED <<trail, clock>>

ForgetQuery ==
  /\ auditCall.pc = "done"
  /\ trail' = <<>> /\ clock' = 0 /\ auditCall' = NoQuery

AuditInit == AuditIdle
AuditNext == AuditTick \/ AppendEvent \/ QueryAudit \/ ForgetQuery

-----------------------------------------------------------------------------
(* An event that matches and is missing from an answer is as old as every  *)
(* one that is shown, or older, and then the limit is full: the newest are *)
(* never lost, whatever order they reached the store in.  Only among the   *)
(* events of one second does the id decide which of them the limit cuts.   *)
AnswerIsNewest ==
  \A ask \in auditCall.ask :
    auditCall.status = "succeeded" =>
      LET shown == ToSet(auditCall.events)
          missing == {e \in ToSet(trail) : EventMatches(e, ask.filters)} \ shown
      IN /\ shown \subseteq ToSet(trail) /\ Len(auditCall.events) = Cardinality(shown)
         /\ \A e \in shown : EventMatches(e, ask.filters)
         /\ \A i, j \in DOMAIN auditCall.events :
              i < j => auditCall.events[i].at >= auditCall.events[j].at
         /\ missing # {} => Cardinality(shown) = LimitOfQuery(ask)
         /\ \A e \in missing, s \in shown : e.at <= s.at

==============================================================================
