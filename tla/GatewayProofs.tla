---------------------------- MODULE GatewayProofs ----------------------------
(***************************************************************************)
(* Proofs about Gateway for every set of requests, principals and keys,    *)
(* every configuration and every cap of the audit log.                     *)
(*                                                                         *)
(* What a request does rests on what it has read; Good says, for each      *)
(* place where it may be, what that was.  Steps of other requests can      *)
(* change the store, but nothing that is already in seen.                  *)
(***************************************************************************)
EXTENDS Gateway, SequenceTheorems, TLAPS

USE GatewayAssumption

-----------------------------------------------------------------------------
(* Types *)

Asks == CallAsk \cup AdminAsk \cup {NoAsk}

TypeInv ==
  /\ active \subseteq Principal /\ granted \subseteq Principal
  /\ keys \in [KeyId -> KeyStates] /\ source \in SourceStates
  /\ pc \in [Request -> Places]
  /\ ask \in [Request -> Asks]
  /\ \A r \in Caller : ask[r] \in CallAsk \/ pc[r] = "new"
  /\ \A r \in Admin : ask[r] \in AdminAsk \/ pc[r] = "new"
  /\ ready \in [Request -> BOOLEAN]
  /\ via \in [Request -> {"none", "source", "default"}]
  /\ outcome \in [Request -> Outcomes]
  /\ ran \in [Request -> {"none", "source", "default", "changed"}]
  /\ seen \in [Request -> SUBSET FactNames]

(* What a step of one request leaves alone: the store's records, and all   *)
(* that belongs to other requests.                                         *)
OthersAlone(r) ==
  \A q \in Request \ {r} :
    /\ pc'[q] = pc[q] /\ ready'[q] = ready[q] /\ via'[q] = via[q]
    /\ outcome'[q] = outcome[q] /\ ran'[q] = ran[q]

Local(r) == UNCHANGED <<config, ask, seen>> /\ OthersAlone(r)

(* The steps of a request that change nothing but its own place, what it   *)
(* has read, and the audit log.                                            *)
LocalStep(r) ==
  \/ Authenticate(r) \/ HandleCall(r) \/ RefuseChange(r) \/ ChangePersisted(r)
  \/ RecordChange(r) \/ Answer(r) \/ UpstreamAnswers(r) \/ Disconnect(r)

(* Their form: the request moves on, and each of its fields is left alone  *)
(* or given a value of its type.                                           *)
Moves(r) ==
  /\ pc[r] # "new"
  /\ \E there \in Places : Goto(r, there)
  /\ UNCHANGED ready \/ \E b \in BOOLEAN : ready' = [ready EXCEPT ![r] = b]
  /\ UNCHANGED via \/ \E v \in {"source", "default"} : via' = [via EXCEPT ![r] = v]
  /\ UNCHANGED outcome \/ \E o \in Outcomes : Report(r, o)
  /\ UNCHANGED ran \/ ran' = [ran EXCEPT ![r] = via[r]]
  /\ UNCHANGED <<config, ask, seen>>

LEMMA MovesTyped ==
  ASSUME TypeInv, NEW r \in Request, Moves(r)
  PROVE  TypeInv' /\ Local(r)
<1> USE DEF TypeInv, Moves
<1>1. PICK there \in Places : pc' = [pc EXCEPT ![r] = there]
  BY DEF Goto
<1>2. pc' \in [Request -> Places] /\ (\A q \in Request \ {r} : pc'[q] = pc[q])
  BY <1>1
<1>3. ready' \in [Request -> BOOLEAN] /\ (\A q \in Request \ {r} : ready'[q] = ready[q])
  OBVIOUS
<1>4. /\ via' \in [Request -> {"none", "source", "default"}]
      /\ \A q \in Request \ {r} : via'[q] = via[q]
  OBVIOUS
<1>5. outcome' \in [Request -> Outcomes] /\ (\A q \in Request \ {r} : outcome'[q] = outcome[q])
  BY DEF Report
<1>6. /\ ran' \in [Request -> {"none", "source", "default", "changed"}]
      /\ \A q \in Request \ {r} : ran'[q] = ran[q]
  OBVIOUS
<1>7. /\ \A q \in Caller : ask'[q] \in CallAsk \/ pc'[q] = "new"
      /\ \A q \in Admin : ask'[q] \in AdminAsk \/ pc'[q] = "new"
  BY <1>2 DEF Request
<1>8. UNCHANGED <<active, granted, keys, source, ask, seen>>
  BY DEF config
<1> QED
  BY <1>2, <1>3, <1>4, <1>5, <1>6, <1>7, <1>8 DEF Local, OthersAlone

LEMMA LocalSteps ==
  ASSUME TypeInv, NEW r \in Request, LocalStep(r)
  PROVE  Moves(r)
<1> USE DEF Moves, At, Places, Outcomes, Busy
<1>1. CASE AdmitUnkeyed(r) \/ RefuseUnkeyed(r) \/ MissKey(r)
  BY <1>1 DEF AdmitUnkeyed, RefuseUnkeyed, MissKey
<1>2. CASE LookUpKey(r)
  <2>1. KeyInOrder(Cred(r)) \in BOOLEAN
    BY DEF KeyInOrder
  <2> QED
    BY <1>2, <2>1 DEF LookUpKey
<1>3. CASE KeyPersisted(r) \/ KeyPersistFails(r)
  BY <1>3 DEF KeyPersisted, KeyPersistFails
<1>4. CASE RecordRefusal(r) \/ Forbid(r) \/ RecordEntry(r)
  BY <1>4 DEF RecordRefusal, Forbid, RecordEntry
<1>5. CASE Serve(r) \/ MissTool(r) \/ Authorize(r) \/ DenyCall(r) \/ CheckAllowlist(r)
  BY <1>5 DEF Serve, MissTool, Authorize, DenyCall, CheckAllowlist, Calling, Authorizing
<1>6. CASE FindSource(r) \/ FallBack(r) \/ MissSource(r) \/ Query(r) \/ RecordCall(r)
  BY <1>6 DEF FindSource, FallBack, MissSource, Query, RecordCall
<1>7. CASE RefuseChange(r) \/ ChangePersisted(r) \/ RecordChange(r)
  BY <1>7 DEF RefuseChange, ChangePersisted, RecordChange
<1>8. CASE Answer(r) \/ UpstreamAnswers(r) \/ Disconnect(r)
  BY <1>8 DEF Answer, UpstreamAnswers, Disconnect
<1> QED
  BY <1>1, <1>2, <1>3, <1>4, <1>5, <1>6, <1>7, <1>8 DEF LocalStep, Authenticate, HandleCall

LEMMA ArriveTyped ==
  ASSUME TypeInv, NEW r \in Request, Arrive(r)
  PROVE  /\ TypeInv' /\ OthersAlone(r) /\ UNCHANGED config
         /\ \A q \in Request \ {r} : ask'[q] = ask[q] /\ seen'[q] = seen[q]
<1>1. PICK a \in IF r \in Caller THEN CallAsk ELSE AdminAsk : ask' = [ask EXCEPT ![r] = a]
  BY DEF Arrive
<1>2. a \in Asks
  BY <1>1 DEF Asks
<1>3. Facts(r)' \in SUBSET FactNames
  <2>1. source' \in SourceStates
    BY DEF TypeInv, Arrive, config
  <2> QED
    BY <2>1 DEF Facts, SourceStates, FactNames
<1> USE DEF TypeInv, OthersAlone
<1>4. /\ pc' \in [Request -> Places] /\ ask' \in [Request -> Asks]
      /\ seen' \in [Request -> SUBSET FactNames]
  BY <1>1, <1>2, <1>3 DEF Arrive, Goto, Places
<1>5. /\ pc'[r] = "arrived" /\ ask'[r] = a
      /\ \A q \in Request \ {r} :
           ask'[q] = ask[q] /\ seen'[q] = seen[q] /\ pc'[q] = pc[q]
  BY <1>1 DEF Arrive, Goto
<1>6. /\ \A q \in Caller : ask'[q] \in CallAsk \/ pc'[q] = "new"
      /\ \A q \in Admin : ask'[q] \in AdminAsk \/ pc'[q] = "new"
  BY <1>1, <1>5 DEF Request
<1> QED
  BY <1>4, <1>5, <1>6 DEF Arrive, config

-----------------------------------------------------------------------------
(* Changes of the store *)

LEMMA ObserveTyped ==
  ASSUME TypeInv, source' \in SourceStates, Observe
  PROVE  /\ seen' \in [Request -> SUBSET FactNames]
         /\ \A q \in Request :
              /\ seen[q] \subseteq seen'[q]
              /\ Busy(q) => Facts(q)' \subseteq seen'[q]
<1>1. \A q \in Request : Facts(q)' \in SUBSET FactNames
  BY DEF Facts, SourceStates, FactNames
<1>2. \A q \in Request :
        seen'[q] = IF Busy(q) THEN seen[q] \cup Facts(q)' ELSE seen[q]
  BY DEF Observe
<1>3. \A q \in Request : seen[q] \in SUBSET FactNames
  BY DEF TypeInv
<1>4. seen' = [q \in Request |-> seen'[q]]
  BY DEF Observe
<1>5. \A q \in Request : seen'[q] \in SUBSET FactNames
  BY <1>1, <1>2, <1>3
<1> QED
  BY <1>2, <1>4, <1>5

LEMMA ChangeTyped ==
  ASSUME TypeInv, NEW r \in Request, ChangeStore(r)
  PROVE  /\ TypeInv' /\ OthersAlone(r) /\ Observe /\ UNCHANGED ask
         /\ pc'[r] = "changed" /\ ready'[r] = ready[r] /\ via'[r] = via[r]
         /\ outcome'[r] = outcome[r] /\ ran'[r] = "changed"
<1>1. ask[r] \in AdminAsk /\ ask[r] \in Writes
  BY DEF TypeInv, ChangeStore, At
<1>2. ask[r].target \in Principal /\ ask[r].key \in KeyId
  BY <1>1 DEF Writes
<1>3. active' \subseteq Principal /\ granted' \subseteq Principal
  BY <1>2 DEF TypeInv, ChangeStore, Apply, Toggled
<1>4. keys' \in [KeyId -> KeyStates] /\ source' \in SourceStates
  BY <1>2 DEF TypeInv, ChangeStore, Apply, KeyStates, SourceStates
<1>5. seen' \in [Request -> SUBSET FactNames]
  BY <1>4, ObserveTyped DEF ChangeStore
<1> QED
  BY <1>3, <1>4, <1>5 DEF TypeInv, OthersAlone, ChangeStore, Goto, At, Places, Request

LEMMA ExpireTyped ==
  ASSUME TypeInv, NEW k \in KeyId, ExpireKey(k)
  PROVE  TypeInv' /\ Observe /\ UNCHANGED <<pc, ask, ready, via, outcome, ran>>
<1>1. keys' \in [KeyId -> KeyStates] /\ source' \in SourceStates
  BY DEF TypeInv, ExpireKey, KeyStates
<1>2. seen' \in [Request -> SUBSET FactNames]
  BY <1>1, ObserveTyped DEF ExpireKey
<1> QED
  BY <1>1, <1>2 DEF TypeInv, ExpireKey

(* Every step is one of these. *)
LEMMA Steps ==
  ASSUME [Next]_vars
  PROVE  \/ \E r \in Request : LocalStep(r) \/ Arrive(r) \/ ChangeStore(r)
         \/ \E k \in KeyId : ExpireKey(k)
         \/ UNCHANGED vars
BY DEF Next, Handle, HandleAdmin, Finished, LocalStep

LEMMA TypeStep == TypeInv /\ [Next]_vars => TypeInv'
<1> SUFFICES ASSUME TypeInv, [Next]_vars PROVE TypeInv'
  OBVIOUS
<1>1. CASE UNCHANGED vars
  BY <1>1 DEF TypeInv, vars, config
<1> QED
  BY <1>1, Steps, LocalSteps, MovesTyped, ArriveTyped, ChangeTyped, ExpireTyped

LEMMA TypeInit == Init => TypeInv
<1> SUFFICES ASSUME Init PROVE TypeInv
  OBVIOUS
<1>1. PICK s \in Start : granted = s.granted /\ keys = s.keys /\ source = s.source
  BY DEF Init
<1>2. granted \subseteq Principal /\ keys \in [KeyId -> KeyStates] /\ source \in SourceStates
  BY <1>1
<1>3. \A r \in Request : pc[r] = "new"
  BY DEF Init
<1>4. /\ pc \in [Request -> Places] /\ ask \in [Request -> Asks]
      /\ ready \in [Request -> BOOLEAN] /\ via \in [Request -> {"none", "source", "default"}]
      /\ outcome \in [Request -> Outcomes]
      /\ ran \in [Request -> {"none", "source", "default", "changed"}]
      /\ seen \in [Request -> SUBSET FactNames]
  BY DEF Init, Asks, Places, Outcomes
<1> QED
  BY <1>2, <1>3, <1>4 DEF Init, TypeInv, Request

-----------------------------------------------------------------------------
(* What a request has read *)

Admitted ==
  {"admitted", "inside", "authorized", "listed", "connected", "querying", "changed"}

Informed(r) == Busy(r) => Facts(r) \subseteq seen[r]

Permitted(r) == Free(r) \/ "granted" \in seen[r]

UpstreamGiven(r) ==
  /\ via[r] \in {"source", "default"}
  /\ via[r] = "source" => "enabled" \in seen[r]
  /\ via[r] = "default" => ask[r].tool = "redis" /\ NoneEnabled(r)

Earned(r) ==
  /\ pc[r] = "new" => ran[r] = "none" /\ outcome[r] = "none"
  /\ pc[r] = "key used" =>
       HasKey(r) /\ (IF ready[r] THEN "ready" ELSE "not ready") \in seen[r]
  /\ pc[r] \in Admitted => Entitled(r)
  /\ pc[r] \in Admitted \ {"admitted"} => MayEnter(r)
  /\ pc[r] \in {"authorized", "listed", "connected", "querying"} =>
       r \in Caller /\ Permitted(r)
  /\ pc[r] \in {"listed", "connected", "querying"} => ask[r].listed
  /\ pc[r] \in {"connected", "querying"} => UpstreamGiven(r)

(* The two properties, of one request. *)
EffectPermitted(r) ==
  ran[r] # "none" =>
    /\ Entitled(r)
    /\ r \in Caller =>
         /\ ask[r].listed /\ Permitted(r)
         /\ ran[r] = "source" => "enabled" \in seen[r]
         /\ ran[r] = "default" => ask[r].tool = "redis" /\ NoneEnabled(r)
    /\ r \in Admin => Free(r) \/ Cred(r) \in AdminScope

RefusalReasoned(r) ==
  r \in Caller =>
    /\ outcome[r] = "unauthorized" /\ HasKey(r) => "not ready" \in seen[r]
    /\ outcome[r] = "rejected" =>
         ~ask[r].listed \/ (~Free(r) /\ "not granted" \in seen[r])

Good(r) == Informed(r) /\ Earned(r) /\ EffectPermitted(r)

(* What a request has earned stays earned while others change the store:   *)
(* it has seen what they change.                                           *)
LEMMA GoodKept ==
  ASSUME NEW q, Good(q),
         pc'[q] = pc[q], ask'[q] = ask[q], ready'[q] = ready[q], via'[q] = via[q],
         outcome'[q] = outcome[q], ran'[q] = ran[q],
         seen[q] \subseteq seen'[q], Busy(q) => Facts(q)' \subseteq seen'[q]
  PROVE  Good(q)'
<1> USE DEF Good
<1>1. Informed(q)'
  BY DEF Informed, Busy
<1>2. /\ Entitled(q) => Entitled(q)'
      /\ MayEnter(q) => MayEnter(q)'
      /\ Permitted(q) => Permitted(q)'
      /\ NoneEnabled(q) => NoneEnabled(q)'
      /\ UpstreamGiven(q) => UpstreamGiven(q)'
  BY DEF Entitled, MayEnter, Permitted, NoneEnabled, UpstreamGiven, Free, AdmittedUnkeyed, HasKey, Cred
<1>3. Earned(q)'
  BY <1>2 DEF Earned, HasKey, Cred
<1>4. EffectPermitted(q)'
  BY <1>2 DEF EffectPermitted, Free, AdmittedUnkeyed, Cred
<1> QED
  BY <1>1, <1>3, <1>4

(* In a step of its own a request reads facts that it has seen, and what   *)
(* it asks and has seen stays.                                             *)
LEMMA OwnFacts ==
  ASSUME NEW r \in Request, Local(r), Informed(r), Busy(r)
  PROVE  /\ Facts(r)' = Facts(r) /\ Facts(r) \subseteq seen[r]
         /\ seen'[r] = seen[r] /\ ask'[r] = ask[r] /\ Cred(r)' = Cred(r)
         /\ Entitled(r)' <=> Entitled(r)
         /\ MayEnter(r)' <=> MayEnter(r)
         /\ Permitted(r)' <=> Permitted(r)
         /\ NoneEnabled(r)' <=> NoneEnabled(r)
         /\ Free(r)' <=> Free(r)
         /\ HasKey(r)' <=> HasKey(r)
<1>1. seen'[r] = seen[r] /\ ask'[r] = ask[r] /\ UNCHANGED <<active, granted, keys, source>>
  BY DEF Local, config
<1>2. Facts(r)' = Facts(r) /\ Facts(r) \subseteq seen[r]
  BY <1>1 DEF Informed, Facts, HasKey, Who, Cred, KeyInOrder
<1> QED
  BY <1>1, <1>2 DEF Entitled, MayEnter, Permitted, NoneEnabled, Free, HasKey, AdmittedUnkeyed, Cred

(* A place where a request relies on nothing any more. *)
Over == {"refused", "served", "recorded", "done", "gone"}

LEMMA OwnStep ==
  ASSUME TypeInv, NEW r \in Request, Good(r), LocalStep(r)
  PROVE  Good(r)'
<1> USE DEF Good, At, Goto
<1>1. Moves(r) /\ Local(r)
  BY LocalSteps, MovesTyped
<1>2. Busy(r)
  BY DEF LocalStep, Authenticate, HandleCall, Busy, AdmitUnkeyed, RefuseUnkeyed, MissKey,
         LookUpKey, KeyPersisted, KeyPersistFails, RecordRefusal, Forbid, RecordEntry,
         Serve, MissTool, Authorize, DenyCall, CheckAllowlist, Calling, Authorizing,
         FindSource, FallBack, MissSource, Query, RecordCall, RefuseChange,
         ChangePersisted, RecordChange, Answer, UpstreamAnswers, Disconnect
<1>3. /\ Facts(r)' = Facts(r) /\ Facts(r) \subseteq seen[r]
      /\ seen'[r] = seen[r] /\ ask'[r] = ask[r] /\ Cred(r)' = Cred(r)
      /\ Entitled(r)' <=> Entitled(r)
      /\ MayEnter(r)' <=> MayEnter(r)
      /\ Permitted(r)' <=> Permitted(r)
      /\ NoneEnabled(r)' <=> NoneEnabled(r)
      /\ Free(r)' <=> Free(r)
      /\ HasKey(r)' <=> HasKey(r)
  BY <1>1, <1>2, OwnFacts
<1>4. Informed(r)'
  BY <1>3 DEF Informed
<1>5. /\ pc \in [Request -> Places] /\ via \in [Request -> {"none", "source", "default"}]
      /\ ready \in [Request -> BOOLEAN]
      /\ ran \in [Request -> {"none", "source", "default", "changed"}]
  BY DEF TypeInv
<1>6. ASSUME ran'[r] = ran[r] PROVE EffectPermitted(r)'
  BY <1>3, <1>6 DEF EffectPermitted
<1>7. ASSUME pc'[r] \in Over, ran'[r] = ran[r] PROVE Good(r)'
  <2>1. Earned(r)'
    BY <1>7 DEF Earned, Over, Admitted
  <2> QED
    BY <2>1, <1>4, <1>6, <1>7
<1>8. CASE AdmitUnkeyed(r)
  <2>1. pc'[r] = "admitted" /\ ran'[r] = ran[r] /\ Entitled(r)
    BY <1>8, <1>5 DEF AdmitUnkeyed, Entitled
  <2>2. Earned(r)'
    BY <2>1, <1>3 DEF Earned, Admitted
  <2> QED
    BY <2>1, <2>2, <1>4, <1>6
<1>9. CASE LookUpKey(r)
  <2>1. /\ pc'[r] = "key used" /\ ran'[r] = ran[r] /\ HasKey(r)
        /\ ready'[r] = KeyInOrder(Cred(r))
    BY <1>9, <1>5 DEF LookUpKey
  <2>2. (IF KeyInOrder(Cred(r)) THEN "ready" ELSE "not ready") \in Facts(r)
    BY <2>1 DEF Facts
  <2>3. (IF ready'[r] THEN "ready" ELSE "not ready") \in seen'[r]
    BY <2>1, <2>2, <1>3
  <2>4. Earned(r)'
    BY <2>1, <2>3, <1>3 DEF Earned, Admitted
  <2> QED
    BY <2>1, <2>4, <1>4, <1>6
<1>10. CASE KeyPersisted(r)
  <2>1. CASE ready[r]
    <3>1. pc'[r] = "admitted" /\ ran'[r] = ran[r]
      BY <1>10, <2>1, <1>5 DEF KeyPersisted
    <3>2. Entitled(r)
      BY <1>10, <2>1 DEF KeyPersisted, Earned, Entitled
    <3>3. Earned(r)'
      BY <3>1, <3>2, <1>3 DEF Earned, Admitted
    <3> QED
      BY <3>1, <3>3, <1>4, <1>6
  <2>2. CASE ~ready[r]
    <3>1. pc'[r] = "refused" /\ ran'[r] = ran[r]
      BY <1>10, <2>2, <1>5 DEF KeyPersisted
    <3> QED
      BY <3>1, <1>7 DEF Over
  <2> QED
    BY <2>1, <2>2
<1>11. CASE RecordEntry(r)
  <2>1. pc'[r] = "inside" /\ ran'[r] = ran[r] /\ Entitled(r) /\ MayEnter(r)
    BY <1>11, <1>5 DEF RecordEntry, Earned, Admitted
  <2>2. Earned(r)'
    BY <2>1, <1>3 DEF Earned, Admitted
  <2> QED
    BY <2>1, <2>2, <1>4, <1>6
<1>12. CASE Authorize(r)
  <2>1. /\ pc'[r] = "authorized" /\ ran'[r] = ran[r] /\ Entitled(r) /\ MayEnter(r)
        /\ r \in Caller /\ (Free(r) \/ Who(r) \in granted)
    BY <1>12, <1>5 DEF Authorize, Authorizing, Calling, Earned, Admitted
  <2>2. Permitted(r)
    BY <2>1, <1>3 DEF Permitted, Facts
  <2>3. Earned(r)'
    BY <2>1, <2>2, <1>3 DEF Earned, Admitted
  <2> QED
    BY <2>1, <2>3, <1>4, <1>6
<1>13. CASE CheckAllowlist(r)
  <2>1. CASE ask[r].listed
    <3>1. /\ pc'[r] = "listed" /\ ran'[r] = ran[r] /\ Entitled(r) /\ MayEnter(r)
          /\ r \in Caller /\ Permitted(r)
      BY <1>13, <2>1, <1>5 DEF CheckAllowlist, Earned, Admitted
    <3>2. Earned(r)'
      BY <3>1, <2>1, <1>3 DEF Earned, Admitted
    <3> QED
      BY <3>1, <3>2, <1>4, <1>6
  <2>2. CASE ~ask[r].listed
    <3>1. pc'[r] = "served" /\ ran'[r] = ran[r]
      BY <1>13, <2>2, <1>5 DEF CheckAllowlist
    <3> QED
      BY <3>1, <1>7 DEF Over
  <2> QED
    BY <2>1, <2>2
<1>14. CASE FindSource(r) \/ FallBack(r)
  <2>1. /\ pc'[r] = "connected" /\ ran'[r] = ran[r] /\ Entitled(r) /\ MayEnter(r)
        /\ r \in Caller /\ Permitted(r) /\ ask[r].listed
    BY <1>14, <1>5 DEF FindSource, FallBack, Earned, Admitted
  <2>2. CASE FindSource(r)
    <3>1. via'[r] = "source" /\ source = "enabled"
      BY <2>2, <1>5 DEF FindSource
    <3>2. UpstreamGiven(r)'
      BY <3>1, <1>3 DEF UpstreamGiven, Facts
    <3> QED
      BY <2>1, <3>2, <1>3, <1>4, <1>6 DEF Earned, Admitted
  <2>3. CASE FallBack(r)
    <3>1. via'[r] = "default" /\ ask[r].tool = "redis" /\ source \in {"absent", "disabled"}
      BY <2>3, <1>5 DEF FallBack, TypeInv, SourceStates
    <3>2. NoneEnabled(r)
      BY <3>1, <1>3 DEF NoneEnabled, Facts
    <3>3. UpstreamGiven(r)'
      BY <3>1, <3>2, <1>3 DEF UpstreamGiven
    <3> QED
      BY <2>1, <3>3, <1>3, <1>4, <1>6 DEF Earned, Admitted
  <2> QED
    BY <1>14, <2>2, <2>3
<1>15. CASE Query(r)
  <2>1. /\ pc'[r] = "querying" /\ Entitled(r) /\ MayEnter(r)
        /\ r \in Caller /\ Permitted(r) /\ ask[r].listed /\ UpstreamGiven(r)
        /\ ran'[r] = via[r] /\ via'[r] = via[r]
    BY <1>15, <1>5 DEF Query, Earned, Admitted
  <2>2. UpstreamGiven(r)'
    BY <2>1, <1>3 DEF UpstreamGiven
  <2>3. Earned(r)'
    BY <2>1, <2>2, <1>3 DEF Earned, Admitted
  <2>4. r \notin Admin
    BY <2>1
  <2>5. EffectPermitted(r)'
    BY <2>1, <2>4, <1>3 DEF EffectPermitted, UpstreamGiven
  <2> QED
    BY <2>3, <2>5, <1>4
<1>16. CASE RefuseUnkeyed(r) \/ MissKey(r) \/ KeyPersistFails(r) \/ RecordRefusal(r) \/ Forbid(r)
  <2>1. pc'[r] \in Over /\ ran'[r] = ran[r]
    BY <1>16, <1>5 DEF RefuseUnkeyed, MissKey, KeyPersistFails, RecordRefusal, Forbid, Over
  <2> QED
    BY <2>1, <1>7
<1>17. CASE \/ Serve(r) \/ MissTool(r) \/ DenyCall(r) \/ MissSource(r) \/ RecordCall(r)
            \/ UpstreamAnswers(r)
  <2>1. pc'[r] \in Over /\ ran'[r] = ran[r]
    BY <1>17, <1>5 DEF Serve, MissTool, DenyCall, MissSource, RecordCall, UpstreamAnswers, Over
  <2> QED
    BY <2>1, <1>7
<1>18. CASE \/ RefuseChange(r) \/ ChangePersisted(r) \/ RecordChange(r) \/ Answer(r)
            \/ Disconnect(r)
  <2>1. pc'[r] \in Over /\ ran'[r] = ran[r]
    BY <1>18, <1>5 DEF RefuseChange, ChangePersisted, RecordChange, Answer, Disconnect, Over
  <2> QED
    BY <2>1, <1>7
<1> QED
  BY <1>8, <1>9, <1>10, <1>11, <1>12, <1>13, <1>14, <1>15, <1>16, <1>17, <1>18
     DEF LocalStep, Authenticate, HandleCall

(* A request that arrives has earned nothing yet. *)
LEMMA ArriveGood ==
  ASSUME TypeInv, NEW r \in Request, Good(r), Arrive(r)
  PROVE  Good(r)'
<1>1. pc[r] = "new" /\ pc'[r] = "arrived" /\ ran'[r] = ran[r] /\ seen'[r] = Facts(r)'
  BY DEF TypeInv, Arrive, At, Goto
<1>2. ran'[r] = "none"
  BY <1>1 DEF Good, Earned
<1> QED
  BY <1>1, <1>2 DEF Good, Informed, Earned, Admitted, EffectPermitted

(* An administrator's change rests on what let it in. *)
LEMMA ChangeGood ==
  ASSUME TypeInv, NEW r \in Request, Good(r), ChangeStore(r)
  PROVE  Good(r)'
<1>1. /\ pc[r] = "inside" /\ pc'[r] = "changed" /\ ran'[r] = "changed"
      /\ ask'[r] = ask[r] /\ r \in Admin /\ r \notin Caller /\ Observe /\ TypeInv'
  BY ChangeTyped DEF ChangeStore, At
<1>2. Busy(r) /\ seen[r] \subseteq seen'[r] /\ Facts(r)' \subseteq seen'[r]
  BY <1>1, ObserveTyped DEF Busy, TypeInv
<1>3. Entitled(r) /\ MayEnter(r)
  BY <1>1 DEF Good, Earned, Admitted
<1>4. Entitled(r)' /\ MayEnter(r)' /\ (Free(r)' \/ Cred(r)' \in AdminScope)
  BY <1>1, <1>2, <1>3 DEF Entitled, MayEnter, Free, AdmittedUnkeyed, HasKey, Cred
<1> QED
  BY <1>1, <1>2, <1>4 DEF Good, Informed, Earned, Admitted, EffectPermitted

PermissionInv == TypeInv /\ \A r \in Request : Good(r)

LEMMA PermissionInit == Init => PermissionInv
<1> SUFFICES ASSUME Init, NEW r \in Request PROVE Good(r)
  BY TypeInit DEF PermissionInv
<1>1. pc[r] = "new" /\ ran[r] = "none" /\ outcome[r] = "none"
  BY DEF Init
<1> QED
  BY <1>1 DEF Good, Informed, Busy, Earned, Admitted, EffectPermitted

LEMMA PermissionStep == PermissionInv /\ [Next]_vars => PermissionInv'
<1> SUFFICES ASSUME PermissionInv, [Next]_vars, NEW q \in Request PROVE Good(q)'
  BY TypeStep DEF PermissionInv
<1> USE DEF PermissionInv
<1>1. ASSUME NEW r \in Request, LocalStep(r) PROVE Good(q)'
  <2>1. Local(r)
    BY <1>1, LocalSteps, MovesTyped
  <2>2. CASE q = r
    BY <1>1, <2>2, OwnStep
  <2>3. CASE q # r
    <3>1. /\ pc'[q] = pc[q] /\ ask'[q] = ask[q] /\ ready'[q] = ready[q]
          /\ via'[q] = via[q] /\ outcome'[q] = outcome[q] /\ ran'[q] = ran[q]
          /\ seen'[q] = seen[q]
      BY <2>1, <2>3 DEF Local, OthersAlone
    <3>2. Busy(q) => Facts(q)' \subseteq seen'[q]
      <4>1. Facts(q)' = Facts(q)
        BY <2>1, <3>1 DEF Local, config, Facts, HasKey, Who, Cred, KeyInOrder
      <4> QED
        BY <4>1, <3>1 DEF Good, Informed
    <3> QED
      BY <3>1, <3>2, GoodKept
  <2> QED
    BY <2>2, <2>3
<1>2. ASSUME NEW r \in Request, Arrive(r) PROVE Good(q)'
  <2>1. CASE q = r
    BY <1>2, <2>1, ArriveGood
  <2>2. CASE q # r
    <3>1. /\ OthersAlone(r) /\ UNCHANGED config
          /\ ask'[q] = ask[q] /\ seen'[q] = seen[q]
      BY <1>2, <2>2, ArriveTyped
    <3>2. /\ pc'[q] = pc[q] /\ ready'[q] = ready[q] /\ via'[q] = via[q]
          /\ outcome'[q] = outcome[q] /\ ran'[q] = ran[q]
      BY <2>2, <3>1 DEF OthersAlone
    <3>3. Busy(q) => Facts(q)' \subseteq seen'[q]
      <4>1. Facts(q)' = Facts(q)
        BY <3>1 DEF config, Facts, HasKey, Who, Cred, KeyInOrder
      <4> QED
        BY <4>1, <3>1 DEF Good, Informed
    <3> QED
      BY <3>1, <3>2, <3>3, GoodKept
  <2> QED
    BY <2>1, <2>2
<1>3. ASSUME NEW r \in Request, ChangeStore(r) PROVE Good(q)'
  <2>1. CASE q = r
    BY <1>3, <2>1, ChangeGood
  <2>2. CASE q # r
    <3>1. OthersAlone(r) /\ Observe /\ UNCHANGED ask /\ TypeInv'
      BY <1>3, ChangeTyped
    <3>2. seen[q] \subseteq seen'[q] /\ (Busy(q) => Facts(q)' \subseteq seen'[q])
      BY <3>1, ObserveTyped DEF TypeInv
    <3> QED
      BY <2>2, <3>1, <3>2, GoodKept DEF OthersAlone
  <2> QED
    BY <2>1, <2>2
<1>4. ASSUME NEW k \in KeyId, ExpireKey(k) PROVE Good(q)'
  <2>1. Observe /\ UNCHANGED <<pc, ask, ready, via, outcome, ran>> /\ TypeInv'
    BY <1>4, ExpireTyped
  <2>2. seen[q] \subseteq seen'[q] /\ (Busy(q) => Facts(q)' \subseteq seen'[q])
    BY <2>1, ObserveTyped DEF TypeInv
  <2> QED
    BY <2>1, <2>2, GoodKept
<1>5. CASE UNCHANGED vars
  <2>1. /\ UNCHANGED <<pc, ask, ready, via, outcome, ran, seen>>
        /\ UNCHANGED <<active, granted, keys, source>>
    BY <1>5 DEF vars, config
  <2>2. Busy(q) => Facts(q)' \subseteq seen'[q]
    BY <2>1 DEF Good, Informed, Facts, HasKey, Who, Cred, KeyInOrder
  <2> QED
    BY <2>1, <2>2, GoodKept
<1> QED
  BY <1>1, <1>2, <1>3, <1>4, <1>5, Steps

(* Whatever other requests and administrators do meanwhile, a request that *)
(* queried or changed something had its key and principal in order, its    *)
(* permission and its upstream at some moment since it arrived.            *)
THEOREM OnlyPermitted == Spec => []OnlyPermittedRun
<1>1. PermissionInv => OnlyPermittedRun
  BY DEF PermissionInv, Good, EffectPermitted, OnlyPermittedRun, Permitted, Request
<1> QED
  BY <1>1, PermissionInit, PermissionStep, PTL DEF Spec

-----------------------------------------------------------------------------
(* Refusals *)

(* Every key has an id that parse_api_key finds in its token. *)
NamesParse == \A k \in KeyId : ParsedId(Token(k)) = Name[k]

LEMMA OwnReason ==
  ASSUME NamesParse, TypeInv, NEW r \in Request, Good(r), RefusalReasoned(r), LocalStep(r)
  PROVE  RefusalReasoned(r)'
<1> USE DEF At, Goto, Report
<1>1. CASE r \notin Caller
  BY <1>1 DEF RefusalReasoned
<1>2. CASE r \in Caller /\ outcome'[r] \notin {"unauthorized", "rejected"}
  BY <1>2 DEF RefusalReasoned
<1>3. CASE r \in Caller /\ outcome'[r] \in {"unauthorized", "rejected"}
  <2>1. Local(r)
    BY LocalSteps, MovesTyped
  <2>2. outcome \in [Request -> Outcomes] /\ ask'[r] = ask[r] /\ seen'[r] = seen[r]
    BY <2>1 DEF TypeInv, Local
  <2>3. ASSUME outcome'[r] = outcome[r] PROVE RefusalReasoned(r)'
    BY <2>2, <2>3 DEF RefusalReasoned, HasKey, Free, AdmittedUnkeyed, Cred
  <2>4. ASSUME Busy(r) PROVE Facts(r) \subseteq seen[r]
    BY <2>4 DEF Good, Informed
  <2>5. CASE RefuseUnkeyed(r)
    <3>1. ~HasKey(r) /\ outcome'[r] = "unauthorized"
      BY <2>5, <2>2 DEF RefuseUnkeyed, HasKey
    <3> QED
      BY <3>1, <2>2 DEF RefusalReasoned, HasKey, Cred
  <2>6. CASE MissKey(r)
    <3>1. HasKey(r) /\ ~Found(Cred(r)) /\ Busy(r) /\ outcome'[r] = "unauthorized"
      BY <2>6, <2>2 DEF MissKey, Busy
    <3>2. keys[Cred(r)] = "absent"
      BY <3>1 DEF Found, HasKey, NamesParse
    <3>3. "not ready" \in seen[r]
      BY <3>1, <3>2, <2>4 DEF Facts, KeyInOrder
    <3> QED
      BY <3>1, <3>3, <2>2 DEF RefusalReasoned
  <2>7. CASE KeyPersisted(r)
    <3>1. CASE ready[r]
      BY <3>1, <2>3, <2>7 DEF KeyPersisted
    <3>2. CASE ~ready[r]
      <4>1. "not ready" \in seen[r] /\ outcome'[r] = "unauthorized"
        BY <2>7, <3>2, <2>2 DEF KeyPersisted, Good, Earned
      <4> QED
        BY <4>1, <2>2 DEF RefusalReasoned
    <3> QED
      BY <3>1, <3>2
  <2>8. CASE DenyCall(r)
    <3>1. ~Free(r) /\ Who(r) \notin granted /\ Busy(r) /\ outcome'[r] = "rejected"
      BY <2>8, <2>2 DEF DenyCall, Authorizing, Calling, Busy
    <3>2. "not granted" \in seen[r]
      BY <3>1, <2>4 DEF Facts
    <3> QED
      BY <3>1, <3>2, <2>2 DEF RefusalReasoned, Free, AdmittedUnkeyed, Cred
  <2>9. CASE CheckAllowlist(r)
    <3>1. CASE ask[r].listed
      BY <3>1, <2>3, <2>9 DEF CheckAllowlist
    <3>2. CASE ~ask[r].listed
      <4>1. outcome'[r] = "rejected"
        BY <2>9, <3>2, <2>2 DEF CheckAllowlist
      <4> QED
        BY <3>2, <4>1, <2>2 DEF RefusalReasoned
    <3> QED
      BY <3>1, <3>2
  <2>10. CASE \/ AdmitUnkeyed(r) \/ LookUpKey(r) \/ RecordRefusal(r) \/ RecordEntry(r)
              \/ Authorize(r) \/ FindSource(r) \/ FallBack(r) \/ Query(r) \/ RecordCall(r)
              \/ RecordChange(r) \/ Answer(r) \/ Disconnect(r)
    BY <2>3, <2>10 DEF AdmitUnkeyed, LookUpKey, RecordRefusal, RecordEntry, Authorize,
       FindSource, FallBack, Query, RecordCall, RecordChange, Answer, Disconnect
  <2>11. CASE \/ KeyPersistFails(r) \/ Forbid(r) \/ Serve(r) \/ MissTool(r) \/ MissSource(r)
              \/ UpstreamAnswers(r) \/ RefuseChange(r) \/ ChangePersisted(r)
    <3>1. outcome'[r] \notin {"unauthorized", "rejected"}
      BY <1>3, <2>2, <2>11 DEF KeyPersistFails, Forbid, Serve, MissTool, MissSource,
         UpstreamAnswers, RefuseChange, ChangePersisted
    <3> QED
      BY <3>1, <1>3
  <2> QED
    BY <2>5, <2>6, <2>7, <2>8, <2>9, <2>10, <2>11 DEF LocalStep, Authenticate, HandleCall
<1> QED
  BY <1>1, <1>2, <1>3

LEMMA ReasonKept ==
  ASSUME NEW q, RefusalReasoned(q), ask'[q] = ask[q], outcome'[q] = outcome[q],
         seen[q] \subseteq seen'[q]
  PROVE  RefusalReasoned(q)'
BY DEF RefusalReasoned, HasKey, Free, AdmittedUnkeyed, Cred

ReasonInv == PermissionInv /\ \A r \in Request : RefusalReasoned(r)

LEMMA ReasonStep ==
  ASSUME NamesParse
  PROVE  ReasonInv /\ [Next]_vars => ReasonInv'
<1> SUFFICES ASSUME ReasonInv, [Next]_vars, NEW q \in Request PROVE RefusalReasoned(q)'
  BY PermissionStep DEF ReasonInv
<1> USE DEF ReasonInv, PermissionInv
<1>1. ASSUME NEW r \in Request, LocalStep(r) PROVE RefusalReasoned(q)'
  <2>1. Local(r)
    BY <1>1, LocalSteps, MovesTyped
  <2>2. CASE q = r
    BY <1>1, <2>2, OwnReason
  <2>3. CASE q # r
    BY <2>1, <2>3, ReasonKept DEF Local, OthersAlone
  <2> QED
    BY <2>2, <2>3
<1>2. ASSUME NEW r \in Request, Arrive(r) PROVE RefusalReasoned(q)'
  <2>1. CASE q = r
    <3>1. outcome'[q] = "none"
      BY <1>2, <2>1 DEF Arrive, At, Good, Earned
    <3> QED
      BY <3>1 DEF RefusalReasoned
  <2>2. CASE q # r
    BY <1>2, <2>2, ArriveTyped, ReasonKept DEF OthersAlone
  <2> QED
    BY <2>1, <2>2
<1>3. ASSUME NEW r \in Request, ChangeStore(r) PROVE RefusalReasoned(q)'
  <2>1. UNCHANGED ask /\ Observe /\ TypeInv' /\ outcome'[q] = outcome[q]
    BY <1>3, ChangeTyped DEF OthersAlone
  <2>2. seen[q] \subseteq seen'[q]
    BY <2>1, ObserveTyped DEF TypeInv
  <2> QED
    BY <2>1, <2>2, ReasonKept
<1>4. ASSUME NEW k \in KeyId, ExpireKey(k) PROVE RefusalReasoned(q)'
  <2>1. UNCHANGED <<ask, outcome>> /\ Observe /\ TypeInv'
    BY <1>4, ExpireTyped
  <2>2. seen[q] \subseteq seen'[q]
    BY <2>1, ObserveTyped DEF TypeInv
  <2> QED
    BY <2>1, <2>2, ReasonKept
<1>5. CASE UNCHANGED vars
  BY <1>5, ReasonKept DEF vars
<1> QED
  BY <1>1, <1>2, <1>3, <1>4, <1>5, Steps

(* Where every key has an id that its token can be parsed for, a caller is *)
(* refused only for a reason that held while its request was under way.    *)
THEOREM RefusalHasReason ==
  ASSUME NamesParse
  PROVE  Spec => []RefusedWithReason
<1>1. Init => ReasonInv
  <2> SUFFICES ASSUME Init, NEW r \in Request PROVE RefusalReasoned(r)
    BY PermissionInit DEF ReasonInv
  <2>1. outcome[r] = "none"
    BY DEF Init
  <2> QED
    BY <2>1 DEF RefusalReasoned
<1>2. ReasonInv /\ [Next]_vars => ReasonInv'
  BY ReasonStep
<1>3. ReasonInv => RefusedWithReason
  BY DEF ReasonInv, RefusalReasoned, RefusedWithReason, KeyInOrderIsAccepted, Request
<1> QED
  BY <1>1, <1>2, <1>3, PTL DEF Spec

-----------------------------------------------------------------------------
(* The audit log *)

EventType ==
  [by : Request, kind : {"auth", "call", "config"}, status : Outcomes]

(* The store holds the newest events, as many as the cap allows, in order. *)
AuditIsTail ==
  LET over == Len(log) - Len(audit) IN
  /\ Len(audit) = Cap \/ Len(audit) = Len(log)
  /\ \A i \in DOMAIN audit : audit[i] = log[i + over]

AuditInv ==
  /\ log \in Seq(EventType) /\ audit \in Seq(EventType)
  /\ Len(audit) <= Cap /\ Len(audit) <= Len(log)
  /\ AuditIsTail

(* A step of a request appends at most one event. *)
LEMMA EventsStep ==
  ASSUME TypeInv, [Next]_vars
  PROVE  UNCHANGED events \/ \E e \in EventType : Record(e)
<1>1. ASSUME NEW r \in Request, NEW kind \in {"auth", "call", "config"},
             NEW status \in Outcomes, Record(Event(r, kind, status))
      PROVE  \E e \in EventType : Record(e)
  BY <1>1 DEF EventType, Event
<1>2. ASSUME NEW r \in Request, LocalStep(r)
      PROVE  UNCHANGED events \/ \E e \in EventType : Record(e)
  <2>1. outcome[r] \in Outcomes /\ {"none", "failed", "succeeded"} \subseteq Outcomes
    BY DEF TypeInv, Outcomes
  <2>2. CASE RecordRefusal(r) \/ RecordEntry(r) \/ RecordCall(r) \/ RecordChange(r)
    BY <1>1, <2>1, <2>2 DEF RecordRefusal, RecordEntry, RecordCall, RecordChange
  <2>3. CASE \/ AdmitUnkeyed(r) \/ RefuseUnkeyed(r) \/ MissKey(r) \/ LookUpKey(r)
             \/ KeyPersisted(r) \/ KeyPersistFails(r) \/ Forbid(r)
    BY <2>3 DEF AdmitUnkeyed, RefuseUnkeyed, MissKey, LookUpKey, KeyPersisted,
       KeyPersistFails, Forbid
  <2>4. CASE \/ Serve(r) \/ MissTool(r) \/ Authorize(r) \/ DenyCall(r) \/ CheckAllowlist(r)
             \/ FindSource(r) \/ FallBack(r) \/ MissSource(r) \/ Query(r)
    BY <2>4 DEF Serve, MissTool, Authorize, DenyCall, CheckAllowlist, FindSource,
       FallBack, MissSource, Query
  <2>5. CASE \/ RefuseChange(r) \/ ChangePersisted(r) \/ Answer(r) \/ UpstreamAnswers(r)
             \/ Disconnect(r)
    BY <2>5 DEF RefuseChange, ChangePersisted, Answer, UpstreamAnswers, Disconnect
  <2> QED
    BY <1>2, <2>2, <2>3, <2>4, <2>5 DEF LocalStep, Authenticate, HandleCall
<1>3. ASSUME NEW r \in Request, Arrive(r) \/ ChangeStore(r) PROVE UNCHANGED events
  BY <1>3 DEF Arrive, ChangeStore
<1>4. ASSUME NEW k \in KeyId, ExpireKey(k) PROVE UNCHANGED events
  BY <1>4 DEF ExpireKey
<1>5. CASE UNCHANGED vars
  BY <1>5 DEF vars
<1> QED
  BY <1>2, <1>3, <1>4, <1>5, Steps

(* What is drained is what is too much, from the old end. *)
LEMMA DrainedTail ==
  ASSUME NEW S, NEW list \in Seq(S), Len(list) <= Cap + 1
  PROVE  /\ Drained(list) \in Seq(S)
         /\ Len(Drained(list)) = IF Len(list) > Cap THEN Cap ELSE Len(list)
         /\ \A i \in 1..Len(Drained(list)) :
              Drained(list)[i] = list[i + Len(list) - Len(Drained(list))]
<1>1. CASE Len(list) <= Cap
  <2>1. Drained(list) = list
    BY <1>1 DEF Drained
  <2> QED
    BY <1>1, <2>1
<1>2. CASE Len(list) = Cap + 1
  <2> DEFINE rest == SubSeq(list, 2, Len(list))
  <2>1. Drained(list) = rest
    BY <1>2 DEF Drained
  <2>2. /\ rest \in Seq(S) /\ Len(rest) = Cap
        /\ \A i \in 1..Cap : rest[i] = list[i + 1]
    BY <1>2
  <2> QED
    BY <1>2, <2>1, <2>2
<1> QED
  BY <1>1, <1>2

LEMMA RecordTail ==
  ASSUME AuditInv, NEW e \in EventType, Record(e)
  PROVE  AuditInv'
<1> DEFINE list == Append(audit, e)
           over == Len(log) - Len(audit)
<1>1. /\ log \in Seq(EventType) /\ audit \in Seq(EventType)
      /\ Len(audit) <= Cap /\ Len(audit) <= Len(log)
      /\ Len(audit) = Cap \/ Len(audit) = Len(log)
      /\ \A i \in 1..Len(audit) : audit[i] = log[i + over]
  BY DEF AuditInv, AuditIsTail
<1>2. /\ list \in Seq(EventType) /\ Len(list) = Len(audit) + 1
      /\ \A i \in 1..Len(audit) : list[i] = audit[i]
      /\ list[Len(audit) + 1] = e
  BY <1>1
<1>3. /\ log' \in Seq(EventType) /\ Len(log') = Len(log) + 1
      /\ \A i \in 1..Len(log) : log'[i] = log[i]
      /\ log'[Len(log) + 1] = e
  BY <1>1 DEF Record
<1>4. over >= 0 /\ Len(log) \in Nat /\ Len(audit) \in Nat
  BY <1>1
<1>5. \A i \in 1..Len(list) : list[i] = log'[i + over]
  <2> SUFFICES ASSUME NEW i \in 1..Len(list) PROVE list[i] = log'[i + over]
    OBVIOUS
  <2>1. CASE i \in 1..Len(audit)
    <3>1. i + over \in 1..Len(log) /\ list[i] = audit[i] /\ audit[i] = log[i + over]
      BY <1>1, <1>2, <1>4, <2>1
    <3> QED
      BY <1>3, <3>1
  <2>2. CASE i = Len(audit) + 1
    <3>1. i + over = Len(log) + 1 /\ list[i] = e
      BY <1>2, <1>4, <2>2
    <3> QED
      BY <1>3, <3>1
  <2> QED
    BY <1>2, <1>4, <2>1, <2>2
<1>6. /\ audit' \in Seq(EventType)
      /\ Len(audit') = IF Len(list) > Cap THEN Cap ELSE Len(list)
      /\ \A i \in 1..Len(audit') : audit'[i] = list[i + Len(list) - Len(audit')]
  <2>1. audit' = Drained(list)
    BY DEF Record
  <2> HIDE DEF list
  <2> QED
    BY <1>1, <1>2, <2>1, DrainedTail
<1>7. \A i \in 1..Len(audit') : audit'[i] = log'[i + Len(log') - Len(audit')]
  <2> SUFFICES ASSUME NEW i \in 1..Len(audit')
               PROVE  audit'[i] = log'[i + Len(log') - Len(audit')]
    OBVIOUS
  <2> HIDE DEF list
  <2>1. Len(audit') \in Nat /\ Len(list) \in Nat /\ Len(audit') <= Len(list)
    BY <1>2, <1>4, <1>6
  <2>2. /\ i + Len(list) - Len(audit') \in 1..Len(list)
        /\ i + Len(list) - Len(audit') + over = i + Len(log') - Len(audit')
    BY <1>2, <1>3, <1>4, <2>1
  <2> QED
    BY <1>5, <1>6, <2>2
<1>8. Len(audit') <= Cap /\ Len(audit') <= Len(log')
  <2> HIDE DEF list
  <2> QED
    BY <1>1, <1>2, <1>3, <1>4, <1>6
<1>9. Len(audit') = Cap \/ Len(audit') = Len(log')
  <2> HIDE DEF list
  <2> QED
    BY <1>1, <1>2, <1>3, <1>4, <1>6
<1>10. AuditIsTail'
  <2>1. audit' \in Seq(EventType) /\ log' \in Seq(EventType)
    BY <1>3, <1>6
  <2>2. DOMAIN audit' = 1..Len(audit')
    BY <2>1
  <2>3. Len(audit') \in Nat /\ Len(log') \in Nat
    BY <2>1
  <2>4. \A i \in 1..Len(audit') : i + Len(log') - Len(audit') = i + (Len(log') - Len(audit'))
    BY <2>3
  <2> QED
    BY <1>7, <1>9, <2>2, <2>4 DEF AuditIsTail
<1> QED
  BY <1>3, <1>6, <1>8, <1>10 DEF AuditInv

AuditTypeInv == TypeInv /\ AuditInv

LEMMA AuditInit == Init => AuditTypeInv
BY TypeInit DEF Init, AuditTypeInv, AuditInv, AuditIsTail

LEMMA AuditStep == AuditTypeInv /\ [Next]_vars => AuditTypeInv'
<1> SUFFICES ASSUME AuditTypeInv, [Next]_vars PROVE AuditInv'
  BY TypeStep DEF AuditTypeInv
<1>1. CASE UNCHANGED events
  BY <1>1 DEF AuditTypeInv, AuditInv, AuditIsTail, events
<1> QED
  BY <1>1, EventsStep, RecordTail DEF AuditTypeInv

(* Every variable keeps to its type, and the audit log to its cap. *)
THEOREM TypeCorrect == Spec => []TypeOK
<1>1. AuditTypeInv => TypeOK
  BY DEF AuditTypeInv, AuditInv, TypeInv, TypeOK
<1> QED
  BY <1>1, AuditInit, AuditStep, PTL DEF Spec

(* However many requests record at once, the store holds the newest events *)
(* of all that were ever appended, as many as the cap allows, in order.    *)
THEOREM AuditHoldsTail == Spec => []AuditIsTail
<1>1. AuditTypeInv => AuditIsTail
  BY DEF AuditTypeInv, AuditInv
<1> QED
  BY <1>1, AuditInit, AuditStep, PTL DEF Spec

-----------------------------------------------------------------------------
(* What the log says of each request *)

(* Which events a step records, and of whom. *)
LEMMA OwnEvents ==
  ASSUME TypeInv, NEW r \in Request, LocalStep(r)
  PROVE  \/ UNCHANGED log
         \/ \E e \in EventType : e.by = r /\ log' = Append(log, e)
<1>1. outcome[r] \in Outcomes /\ {"none", "failed", "succeeded"} \subseteq Outcomes
  BY DEF TypeInv, Outcomes
<1>2. CASE RecordRefusal(r) \/ RecordEntry(r) \/ RecordCall(r) \/ RecordChange(r)
  <2>1. PICK kind \in {"auth", "call", "config"}, status \in Outcomes :
          log' = Append(log, Event(r, kind, status))
    BY <1>1, <1>2 DEF RecordRefusal, RecordEntry, RecordCall, RecordChange, Record
  <2>2. Event(r, kind, status) \in EventType /\ Event(r, kind, status).by = r
    BY DEF EventType, Event
  <2> QED
    BY <2>1, <2>2
<1>3. CASE \/ AdmitUnkeyed(r) \/ RefuseUnkeyed(r) \/ MissKey(r) \/ LookUpKey(r)
           \/ KeyPersisted(r) \/ KeyPersistFails(r) \/ Forbid(r)
  BY <1>3 DEF AdmitUnkeyed, RefuseUnkeyed, MissKey, LookUpKey, KeyPersisted,
     KeyPersistFails, Forbid, events
<1>4. CASE \/ Serve(r) \/ MissTool(r) \/ Authorize(r) \/ DenyCall(r) \/ CheckAllowlist(r)
           \/ FindSource(r) \/ FallBack(r) \/ MissSource(r) \/ Query(r)
  BY <1>4 DEF Serve, MissTool, Authorize, DenyCall, CheckAllowlist, FindSource,
     FallBack, MissSource, Query, events
<1>5. CASE \/ RefuseChange(r) \/ ChangePersisted(r) \/ Answer(r) \/ UpstreamAnswers(r)
           \/ Disconnect(r)
  BY <1>5 DEF RefuseChange, ChangePersisted, Answer, UpstreamAnswers, Disconnect, events
<1> QED
  BY <1>2, <1>3, <1>4, <1>5 DEF LocalStep, Authenticate, HandleCall

Entry(r) == Event(r, "auth", "succeeded")

EnteredFirst(r) ==
  \E first \in Of(r) : log[first] = Entry(r) /\ \A i \in Of(r) : first <= i

(* An event of another request changes nothing of a request's trail. *)
LEMMA TrailKept ==
  ASSUME log \in Seq(EventType), NEW q,
         \/ UNCHANGED log
         \/ \E e \in EventType : e.by # q /\ log' = Append(log, e)
  PROVE  /\ \A due : TrailIs(q, due) => TrailIs(q, due)'
         /\ EnteredFirst(q) => EnteredFirst(q)'
<1>1. CASE UNCHANGED log
  BY <1>1 DEF TrailIs, EnteredFirst, Of
<1>2. CASE \E e \in EventType : e.by # q /\ log' = Append(log, e)
  <2>1. PICK e \in EventType : e.by # q /\ log' = Append(log, e)
    BY <1>2
  <2>2. /\ DOMAIN log = 1..Len(log) /\ DOMAIN log' = 1..(Len(log) + 1)
        /\ \A i \in 1..Len(log) : log'[i] = log[i]
        /\ log'[Len(log) + 1] = e /\ Len(log) \in Nat
    BY <2>1
  <2>3. Of(q)' = Of(q) /\ \A i \in Of(q) : log'[i] = log[i]
    <3>1. \A i \in 1..(Len(log) + 1) : i \in 1..Len(log) \/ i = Len(log) + 1
      BY <2>2
    <3>2. \A i \in Of(q) : i \in 1..Len(log)
      BY <2>2 DEF Of
    <3>3. \A i \in Of(q)' : i \in 1..Len(log)
      BY <2>1, <2>2, <3>1 DEF Of
    <3> QED
      BY <2>2, <3>2, <3>3 DEF Of
  <2>4. ASSUME NEW due, TrailIs(q, due) PROVE TrailIs(q, due)'
    <3>1. PICK at \in [DOMAIN due -> Of(q)] :
            /\ \A i, j \in DOMAIN due : i < j => at[i] < at[j]
            /\ \A p \in Of(q) : \E i \in DOMAIN due : at[i] = p
            /\ \A i \in DOMAIN due : log[at[i]] = due[i]
      BY <2>4 DEF TrailIs
    <3>2. at \in [DOMAIN due -> Of(q)'] /\ \A i \in DOMAIN due : log'[at[i]] = due[i]
      BY <2>3, <3>1
    <3> QED
      BY <2>3, <3>1, <3>2 DEF TrailIs
  <2>5. EnteredFirst(q) => EnteredFirst(q)'
    BY <2>3 DEF EnteredFirst, Entry, Event
  <2> QED
    BY <2>4, <2>5
<1> QED
  BY <1>1, <1>2

(* An event of its own is the last of its trail. *)
LEMMA TrailGrows ==
  ASSUME log \in Seq(EventType), NEW q, NEW e \in EventType, e.by = q,
         log' = Append(log, e)
  PROVE  /\ \A due \in Seq(EventType) : TrailIs(q, due) => TrailIs(q, Append(due, e))'
         /\ EnteredFirst(q) => EnteredFirst(q)'
<1> DEFINE n == Len(log)
<1>1. /\ DOMAIN log = 1..n /\ DOMAIN log' = 1..(n + 1) /\ n \in Nat
      /\ \A i \in 1..n : log'[i] = log[i]
      /\ log'[n + 1] = e
  OBVIOUS
<1>2. /\ Of(q)' = Of(q) \cup {n + 1}
      /\ \A i \in Of(q) : i \in 1..n /\ log'[i] = log[i]
  BY <1>1 DEF Of
<1> HIDE DEF n
<1>3. ASSUME NEW due \in Seq(EventType), TrailIs(q, due)
      PROVE  TrailIs(q, Append(due, e))'
  <2> DEFINE m == Len(due)
             more == Append(due, e)
  <2>1. PICK at \in [DOMAIN due -> Of(q)] :
          /\ \A i, j \in DOMAIN due : i < j => at[i] < at[j]
          /\ \A p \in Of(q) : \E i \in DOMAIN due : at[i] = p
          /\ \A i \in DOMAIN due : log[at[i]] = due[i]
    BY <1>3 DEF TrailIs
  <2>2. /\ DOMAIN due = 1..m /\ m \in Nat /\ DOMAIN more = 1..(m + 1)
        /\ \A i \in 1..m : more[i] = due[i]
        /\ more[m + 1] = e
    OBVIOUS
  <2> HIDE DEF m, more
  <2> DEFINE ext == [i \in 1..(m + 1) |-> IF i = m + 1 THEN n + 1 ELSE at[i]]
  <2>3. ext[m + 1] = n + 1 /\ \A i \in 1..m : ext[i] = at[i] /\ ext[i] \in Of(q)
    BY <2>1, <2>2
  <2>4. ext \in [DOMAIN more -> Of(q)']
    BY <1>2, <2>1, <2>2
  <2> HIDE DEF ext
  <2>5. \A i, j \in DOMAIN more : i < j => ext[i] < ext[j]
    <3> SUFFICES ASSUME NEW i \in 1..(m + 1), NEW j \in 1..(m + 1), i < j
                 PROVE  ext[i] < ext[j]
      BY <2>2
    <3>1. i \in 1..m
      BY <2>2
    <3>2. CASE j = m + 1
      BY <1>1, <1>2, <2>3, <3>1, <3>2
    <3>3. CASE j \in 1..m
      BY <2>1, <2>2, <2>3, <3>1, <3>3
    <3> QED
      BY <2>2, <3>2, <3>3
  <2>6. \A p \in Of(q)' : \E i \in DOMAIN more : ext[i] = p
    <3> SUFFICES ASSUME NEW p \in Of(q)' PROVE \E i \in 1..(m + 1) : ext[i] = p
      BY <2>2
    <3>1. CASE p = n + 1
      BY <2>2, <2>3, <3>1
    <3>2. CASE p \in Of(q)
      <4>1. PICK i \in 1..m : at[i] = p
        BY <2>1, <2>2, <3>2
      <4> QED
        BY <2>2, <2>3, <4>1
    <3> QED
      BY <1>2, <3>1, <3>2
  <2>7. \A i \in DOMAIN more : log'[ext[i]] = more[i]
    <3> SUFFICES ASSUME NEW i \in 1..(m + 1) PROVE log'[ext[i]] = more[i]
      BY <2>2
    <3>1. CASE i = m + 1
      BY <1>1, <2>2, <2>3, <3>1
    <3>2. CASE i \in 1..m
      <4>1. at[i] \in Of(q) /\ ext[i] = at[i] /\ log[at[i]] = due[i] /\ more[i] = due[i]
        BY <2>1, <2>2, <2>3, <3>2
      <4>2. log'[at[i]] = log[at[i]]
        BY <1>2, <4>1
      <4> QED
        BY <4>1, <4>2
    <3>3. i = m + 1 \/ i \in 1..m
      BY <2>2
    <3> QED
      BY <3>1, <3>2, <3>3
  <2> QED
    BY <2>4, <2>5, <2>6, <2>7 DEF TrailIs, more
<1>4. ASSUME EnteredFirst(q) PROVE EnteredFirst(q)'
  <2>1. PICK first \in Of(q) : log[first] = Entry(q) /\ \A i \in Of(q) : first <= i
    BY <1>4 DEF EnteredFirst
  <2>2. first \in Of(q)' /\ log'[first] = Entry(q)' /\ \A i \in Of(q)' : first <= i
    BY <1>1, <1>2, <2>1 DEF Entry, Event
  <2> QED
    BY <2>2 DEF EnteredFirst
<1> QED
  BY <1>3, <1>4

Silent == {"new", "arrived", "key used", "refused", "admitted"}
Serving == {"inside", "authorized", "listed", "connected", "querying", "changed", "served"}
Effective == {"querying", "changed", "served"}

(* What the log holds of a request at each place, and what that place says *)
(* of its outcome and its effect.                                          *)
Trailed(r) ==
  /\ pc[r] \in Silent => TrailIs(r, <<>>)
  /\ pc[r] \in Serving => TrailIs(r, <<Entry(r)>>)
  /\ pc[r] \in {"recorded", "done"} => TrailIs(r, DueTrail(r))
  /\ ran[r] # "none" => EnteredFirst(r)

Reported(r) ==
  /\ pc[r] \in (Silent \cup Serving) \ Effective => ran[r] = "none"
  /\ pc[r] \in {"querying", "changed"} => ran[r] # "none"
  /\ pc[r] \in {"authorized", "listed", "connected", "querying"} =>
       r \in Caller /\ ask[r].method # "other"
  /\ pc[r] = "changed" => r \in Admin
  /\ pc[r] = "refused" => outcome[r] \in {"unauthorized", "unavailable"}
  /\ pc[r] = "served" =>
       /\ outcome[r] \notin {"unauthorized", "unavailable", "forbidden"}
       /\ r \in Caller => ask[r].method # "other"
       /\ outcome[r] = "succeeded" => ran[r] # "none"
       /\ outcome[r] = "rejected" => ran[r] = "none"

(* An event does not say more than happened. *)
EventIsTrue(e) ==
  /\ e.kind \in {"call", "config"} /\ e.status = "succeeded" => ran[e.by] # "none"
  /\ e.status = "rejected" => ran[e.by] = "none"

LogIsTrue == \A i \in DOMAIN log : EventIsTrue(log[i])

TrailInv ==
  /\ PermissionInv /\ log \in Seq(EventType)
  /\ \A r \in Request : Trailed(r) /\ Reported(r)
  /\ LogIsTrue

LEMMA ReportedStep ==
  ASSUME TypeInv, NEW r \in Request, Good(r), Reported(r), LocalStep(r)
  PROVE  Reported(r)'
<1> USE DEF At, Goto, Report, Reported
<1>1. /\ pc \in [Request -> Places] /\ via \in [Request -> {"none", "source", "default"}]
      /\ outcome \in [Request -> Outcomes]
      /\ ran \in [Request -> {"none", "source", "default", "changed"}]
  BY DEF TypeInv
<1>2. ask' = ask
  BY LocalSteps, MovesTyped DEF Local
<1> USE DEF Silent, Serving, Effective
<1>3. CASE \/ AdmitUnkeyed(r) \/ RefuseUnkeyed(r) \/ MissKey(r) \/ LookUpKey(r)
           \/ KeyPersistFails(r) \/ RecordRefusal(r) \/ Forbid(r) \/ RecordEntry(r)
  BY <1>1, <1>2, <1>3 DEF AdmitUnkeyed, RefuseUnkeyed, MissKey, LookUpKey,
     KeyPersistFails, RecordRefusal, Forbid, RecordEntry
<1>4. CASE KeyPersisted(r)
  BY <1>1, <1>2, <1>4 DEF KeyPersisted
<1>5. CASE Serve(r) \/ MissTool(r) \/ Authorize(r) \/ DenyCall(r)
  BY <1>1, <1>2, <1>5 DEF Serve, MissTool, Authorize, DenyCall, Calling, Authorizing
<1>6. CASE CheckAllowlist(r)
  BY <1>1, <1>2, <1>6 DEF CheckAllowlist
<1>7. CASE FindSource(r) \/ FallBack(r) \/ MissSource(r)
  BY <1>1, <1>2, <1>7 DEF FindSource, FallBack, MissSource
<1>8. CASE Query(r)
  <2>1. via[r] # "none"
    BY <1>8 DEF Query, Good, Earned, UpstreamGiven
  <2> QED
    BY <1>1, <1>2, <1>8, <2>1 DEF Query
<1>9. CASE UpstreamAnswers(r) \/ RecordCall(r)
  BY <1>1, <1>2, <1>9 DEF UpstreamAnswers, RecordCall
<1>10. CASE RefuseChange(r) \/ ChangePersisted(r) \/ RecordChange(r)
  <2>1. ChangePersisted(r) => r \notin Caller
    BY DEF ChangePersisted
  <2> QED
    BY <1>1, <1>2, <1>10, <2>1 DEF RefuseChange, ChangePersisted, RecordChange
<1>11. CASE Answer(r) \/ Disconnect(r)
  BY <1>1, <1>2, <1>11 DEF Answer, Disconnect
<1> QED
  BY <1>3, <1>4, <1>5, <1>6, <1>7, <1>8, <1>9, <1>10, <1>11
     DEF LocalStep, Authenticate, HandleCall

LEMMA DueKept ==
  ASSUME NEW q, ask'[q] = ask[q], outcome'[q] = outcome[q]
  PROVE  DueTrail(q)' = DueTrail(q)
BY DEF DueTrail, Event

(* A trail that starts with the entry has the entry as its first event. *)
LEMMA EntryIsFirst ==
  ASSUME log \in Seq(EventType), NEW q, TrailIs(q, <<Entry(q)>>)
  PROVE  EnteredFirst(q)
<1>1. DOMAIN <<Entry(q)>> = {1} /\ <<Entry(q)>>[1] = Entry(q)
  OBVIOUS
<1>2. PICK at \in [{1} -> Of(q)] :
        /\ \A p \in Of(q) : \E i \in {1} : at[i] = p
        /\ \A i \in {1} : log[at[i]] = <<Entry(q)>>[i]
  BY <1>1 DEF TrailIs
<1>3. at[1] \in Of(q) /\ log[at[1]] = Entry(q) /\ \A p \in Of(q) : at[1] = p
  BY <1>1, <1>2
<1>4. \A p \in Of(q) : p \in Nat
  BY DEF Of
<1> QED
  BY <1>3, <1>4 DEF EnteredFirst

LEMMA SingleAppend ==
  ASSUME NEW S, NEW a \in S, NEW b \in S
  PROVE  Append(<<>>, a) = <<a>> /\ Append(<<a>>, b) = <<a, b>>
<1>1. /\ <<a>> \in Seq(S) /\ <<a, b>> \in Seq(S) /\ <<>> \in Seq(S)
      /\ Len(<<a>>) = 1 /\ Len(<<a, b>>) = 2 /\ Len(<<>>) = 0
      /\ <<a>>[1] = a /\ <<a, b>>[1] = a /\ <<a, b>>[2] = b
  OBVIOUS
<1>2. Append(<<>>, a) = <<a>>
  BY <1>1, AppendProperties, SeqEqual
<1>3. Append(<<a>>, b) = <<a, b>>
  <2> DEFINE more == Append(<<a>>, b)
  <2>1. more \in Seq(S) /\ Len(more) = 2 /\ more[1] = a /\ more[2] = b
    BY <1>1
  <2> HIDE DEF more
  <2>2. \A i \in 1..Len(more) : more[i] = <<a, b>>[i]
    <3>1. \A i \in 1..Len(more) : i = 1 \/ i = 2
      BY <2>1
    <3> QED
      BY <1>1, <2>1, <3>1
  <2>3. more = <<a, b>>
    BY <1>1, <2>1, <2>2, SeqEqual
  <2> QED
    BY <2>3 DEF more
<1> QED
  BY <1>2, <1>3

LEMMA TrailedStep ==
  ASSUME TypeInv, log \in Seq(EventType), NEW r \in Request, Good(r), Reported(r),
         Trailed(r), LocalStep(r)
  PROVE  Trailed(r)'
<1> USE DEF At, Goto, Report
<1>1. /\ pc \in [Request -> Places] /\ outcome \in [Request -> Outcomes]
      /\ ran \in [Request -> {"none", "source", "default", "changed"}]
  BY DEF TypeInv
<1>2. ask' = ask
  BY LocalSteps, MovesTyped DEF Local
<1>3. ASSUME NEW due, TrailIs(r, due)', DueTrail(r)' = due
      PROVE  TrailIs(r, DueTrail(r))'
  BY <1>3 DEF TrailIs
<1>4. Entry(r)' = Entry(r)
  BY DEF Entry, Event
<1>5. ASSUME UNCHANGED log,
             pc'[r] \in Silent => pc[r] \in Silent,
             pc'[r] \in Serving => pc[r] \in Serving,
             pc'[r] \in {"recorded", "done"} => TrailIs(r, DueTrail(r)'),
             ran'[r] # "none" => EnteredFirst(r)
      PROVE  Trailed(r)'
  <2>1. /\ \A due : TrailIs(r, due) => TrailIs(r, due)'
        /\ EnteredFirst(r) => EnteredFirst(r)'
    BY <1>5, TrailKept
  <2>2. pc'[r] \in {"recorded", "done"} => TrailIs(r, DueTrail(r))'
    BY <1>3, <1>5, <2>1
  <2>3. pc'[r] \in Silent => TrailIs(r, <<>>)'
    BY <1>5, <2>1 DEF Trailed
  <2>4. pc'[r] \in Serving => TrailIs(r, <<Entry(r)>>)'
    <3>1. TrailIs(r, <<Entry(r)>>) => TrailIs(r, <<Entry(r)>>)'
      BY <1>4, <2>1
    <3> QED
      BY <1>5, <3>1 DEF Trailed
  <2> QED
    BY <1>5, <2>1, <2>2, <2>3, <2>4 DEF Trailed
<1>6. ASSUME NEW due \in Seq(EventType), TrailIs(r, due), NEW e \in EventType, e.by = r,
             Record(e), UNCHANGED ran,
             pc'[r] = "inside" => Append(due, e) = <<Entry(r)>>,
             pc'[r] # "inside" => pc'[r] = "recorded" /\ DueTrail(r)' = Append(due, e)
      PROVE  Trailed(r)'
  <2>1. TrailIs(r, Append(due, e))' /\ (EnteredFirst(r) => EnteredFirst(r)')
    BY <1>6, TrailGrows DEF Record
  <2>2. CASE pc'[r] = "inside"
    <3>1. TrailIs(r, <<Entry(r)>>)'
      BY <1>4, <1>6, <2>1, <2>2
    <3> QED
      BY <1>6, <2>1, <2>2, <3>1 DEF Trailed, Silent
  <2>3. CASE pc'[r] # "inside"
    <3>1. TrailIs(r, DueTrail(r))'
      BY <1>3, <1>6, <2>1, <2>3
    <3> QED
      BY <1>6, <2>1, <2>3, <3>1 DEF Trailed, Silent, Serving
  <2> QED
    BY <2>2, <2>3
<1> USE DEF Silent, Serving
<1>7. CASE \/ AdmitUnkeyed(r) \/ RefuseUnkeyed(r) \/ MissKey(r) \/ LookUpKey(r)
           \/ KeyPersistFails(r)
  BY <1>1, <1>5, <1>7 DEF AdmitUnkeyed, RefuseUnkeyed, MissKey, LookUpKey,
     KeyPersistFails, Trailed, events
<1>8. CASE KeyPersisted(r)
  BY <1>1, <1>5, <1>8 DEF KeyPersisted, Trailed, events
<1>9. CASE Forbid(r)
  <2>1. DueTrail(r)' = <<>>
    BY <1>1, <1>9 DEF Forbid, DueTrail
  <2> QED
    BY <1>1, <1>5, <1>9, <2>1 DEF Forbid, Trailed, events
<1>10. CASE Serve(r)
  <2>1. outcome'[r] = "succeeded" /\ r \notin Admin /\ ask'[r].method = "other"
    BY <1>1, <1>2, <1>10 DEF Serve
  <2>2. DueTrail(r)' = <<Entry(r)>>
    BY <2>1 DEF DueTrail, Entry, Event
  <2> QED
    BY <1>1, <1>5, <1>10, <2>2 DEF Serve, Trailed, events
<1>11. CASE MissTool(r) \/ Authorize(r) \/ DenyCall(r)
  BY <1>1, <1>5, <1>11 DEF MissTool, Authorize, DenyCall, Calling, Authorizing, Trailed, events
<1>12. CASE CheckAllowlist(r)
  BY <1>1, <1>5, <1>12 DEF CheckAllowlist, Trailed, events
<1>13. CASE FindSource(r) \/ FallBack(r) \/ MissSource(r) \/ UpstreamAnswers(r)
  BY <1>1, <1>5, <1>13 DEF FindSource, FallBack, MissSource, UpstreamAnswers, Trailed, events
<1>14. CASE Query(r)
  BY <1>1, <1>5, <1>14, EntryIsFirst DEF Query, Trailed, events
<1>15. CASE RefuseChange(r) \/ ChangePersisted(r) \/ Disconnect(r)
  BY <1>1, <1>5, <1>15 DEF RefuseChange, ChangePersisted, Disconnect, Trailed, events
<1>16. CASE Answer(r)
  <2>1. DueTrail(r)' = DueTrail(r)
    BY <1>16, DueKept DEF Answer
  <2> QED
    BY <1>1, <1>5, <1>16, <2>1 DEF Answer, Trailed, events
<1>17. CASE RecordRefusal(r)
  <2> DEFINE e == Event(r, "auth", "failed")
  <2>1. e \in EventType /\ e.by = r
    BY DEF Event, EventType, Outcomes
  <2>2. outcome'[r] \in {"unauthorized", "unavailable"}
    BY <1>17 DEF RecordRefusal, Reported
  <2>3. DueTrail(r)' = Append(<<>>, e)
    BY <2>2 DEF DueTrail, Event
  <2>4. TrailIs(r, <<>>) /\ Record(e) /\ UNCHANGED ran /\ pc'[r] = "recorded"
    BY <1>1, <1>17 DEF RecordRefusal, Trailed
  <2>5. <<>> \in Seq(EventType)
    OBVIOUS
  <2> HIDE DEF e
  <2>6. pc'[r] # "inside"
    BY <2>4
  <2> QED
    BY <1>6, <2>1, <2>3, <2>4, <2>5, <2>6
<1>18. CASE RecordEntry(r)
  <2>1. Entry(r) \in EventType /\ Entry(r).by = r
    BY DEF Entry, Event, EventType, Outcomes
  <2>2. TrailIs(r, <<>>) /\ Record(Entry(r)) /\ UNCHANGED ran /\ pc'[r] = "inside"
    BY <1>1, <1>18 DEF RecordEntry, Trailed, Entry
  <2>3. Append(<<>>, Entry(r)) = <<Entry(r)>>
    BY <2>1, SingleAppend
  <2>4. <<>> \in Seq(EventType)
    OBVIOUS
  <2> QED
    BY <1>6, <2>1, <2>2, <2>3, <2>4
<1>19. CASE RecordCall(r) \/ RecordChange(r)
  <2> DEFINE kind == IF r \in Caller THEN "call" ELSE "config"
             status == IF r \in Caller /\ ask[r].method # "call" THEN "none" ELSE outcome[r]
             e == Event(r, kind, status)
  <2>1. e \in EventType /\ e.by = r /\ Entry(r) \in EventType
    BY <1>1 DEF Event, EventType, Outcomes, Entry
  <2>2. /\ outcome'[r] = outcome[r] /\ pc[r] = "served"
        /\ outcome[r] \notin {"unauthorized", "unavailable", "forbidden"}
        /\ r \in Caller => ask[r].method # "other"
    BY <1>19 DEF RecordCall, RecordChange, Reported
  <2>3. r \in Caller => ask[r].method \in {"call", "notify"}
    <3>1. r \in Caller => ask[r] \in Calls
      BY <2>2 DEF TypeInv
    <3> QED
      BY <2>2, <3>1 DEF Calls
  <2>4. TrailIs(r, <<Entry(r)>>) /\ Record(e) /\ UNCHANGED ran /\ pc'[r] = "recorded"
    BY <1>1, <1>19, <2>2 DEF RecordCall, RecordChange, Trailed
  <2>5. Append(<<Entry(r)>>, e) = <<Entry(r), e>>
    <3> HIDE DEF e
    <3> QED
      BY <2>1, SingleAppend
  <2>6. DueTrail(r)' = <<Entry(r), e>>
    <3>1. CASE r \in Admin
      BY <2>2, <3>1 DEF DueTrail, Entry, Event
    <3>2. CASE r \in Caller
      BY <1>2, <2>2, <2>3, <3>2 DEF DueTrail, Entry, Event
    <3> QED
      BY <3>1, <3>2 DEF Request
  <2>7. <<Entry(r)>> \in Seq(EventType)
    BY <2>1
  <2> HIDE DEF e
  <2> QED
    BY <1>6, <2>1, <2>4, <2>5, <2>6, <2>7
<1> QED
  BY <1>7, <1>8, <1>9, <1>10, <1>11, <1>12, <1>13, <1>14, <1>15, <1>16, <1>17, <1>18, <1>19
     DEF LocalStep, Authenticate, HandleCall

(* What is recorded of a request is true of it. *)
LEMMA OwnEventsTrue ==
  ASSUME TypeInv, NEW r \in Request, Reported(r), LocalStep(r)
  PROVE  \/ UNCHANGED <<log, ran>>
         \/ /\ UNCHANGED ran
            /\ \E e \in EventType : e.by = r /\ EventIsTrue(e) /\ log' = Append(log, e)
         \/ Query(r)
<1>1. CASE RecordRefusal(r) \/ RecordEntry(r)
  <2>1. PICK status \in {"failed", "succeeded"} :
          log' = Append(log, Event(r, "auth", status)) /\ UNCHANGED ran
    BY <1>1 DEF RecordRefusal, RecordEntry, Record
  <2>2. /\ Event(r, "auth", status) \in EventType /\ Event(r, "auth", status).by = r
        /\ EventIsTrue(Event(r, "auth", status))
    BY DEF EventType, Event, Outcomes, EventIsTrue
  <2> QED
    BY <2>1, <2>2
<1>2. CASE RecordCall(r) \/ RecordChange(r)
  <2>1. PICK kind \in {"call", "config"}, status \in {"none", outcome[r]} :
          log' = Append(log, Event(r, kind, status)) /\ UNCHANGED ran
    BY <1>2 DEF RecordCall, RecordChange, Record
  <2>2. /\ Event(r, kind, status) \in EventType /\ Event(r, kind, status).by = r
    BY DEF TypeInv, EventType, Event, Outcomes
  <2>3. /\ outcome[r] = "succeeded" => ran[r] # "none"
        /\ outcome[r] = "rejected" => ran[r] = "none"
    BY <1>2 DEF RecordCall, RecordChange, Reported, At
  <2>4. EventIsTrue(Event(r, kind, status))
    BY <2>3 DEF EventIsTrue, Event
  <2> QED
    BY <2>1, <2>2, <2>4
<1>3. CASE \/ AdmitUnkeyed(r) \/ RefuseUnkeyed(r) \/ MissKey(r) \/ LookUpKey(r)
           \/ KeyPersisted(r) \/ KeyPersistFails(r) \/ Forbid(r)
  BY <1>3 DEF AdmitUnkeyed, RefuseUnkeyed, MissKey, LookUpKey, KeyPersisted,
     KeyPersistFails, Forbid, events
<1>4. CASE \/ Serve(r) \/ MissTool(r) \/ Authorize(r) \/ DenyCall(r) \/ CheckAllowlist(r)
           \/ FindSource(r) \/ FallBack(r) \/ MissSource(r)
  BY <1>4 DEF Serve, MissTool, Authorize, DenyCall, CheckAllowlist, FindSource,
     FallBack, MissSource, events
<1>5. CASE \/ RefuseChange(r) \/ ChangePersisted(r) \/ Answer(r) \/ UpstreamAnswers(r)
           \/ Disconnect(r)
  BY <1>5 DEF RefuseChange, ChangePersisted, Answer, UpstreamAnswers, Disconnect, events
<1> QED
  BY <1>1, <1>2, <1>3, <1>4, <1>5 DEF LocalStep, Authenticate, HandleCall

(* A request that is about to have its effect has left nothing but its     *)
(* entry in the log.                                                       *)
LEMMA LogTrueAtEffect ==
  ASSUME log \in Seq(EventType), LogIsTrue, NEW r \in Request, TrailIs(r, <<Entry(r)>>),
         UNCHANGED log, \A q \in Request \ {r} : ran'[q] = ran[q]
  PROVE  LogIsTrue'
<1> SUFFICES ASSUME NEW i \in DOMAIN log PROVE EventIsTrue(log[i])'
  BY DEF LogIsTrue
<1>0. log[i] \in EventType /\ log'[i] = log[i]
  OBVIOUS
<1>1. log[i] \in EventType /\ log[i].by \in Request /\ log'[i] = log[i]
  BY <1>0 DEF EventType
<1>2. EventIsTrue(log[i])
  BY DEF LogIsTrue
<1>3. CASE log[i].by # r
  BY <1>1, <1>2, <1>3 DEF EventIsTrue
<1>4. CASE log[i].by = r
  <2>1. i \in Of(r)
    BY <1>4 DEF Of
  <2>2. DOMAIN <<Entry(r)>> = {1} /\ <<Entry(r)>>[1] = Entry(r)
    OBVIOUS
  <2>3. log[i] = Entry(r)
    BY <2>1, <2>2 DEF TrailIs
  <2> QED
    BY <1>1, <2>3 DEF EventIsTrue, Entry, Event
<1> QED
  BY <1>3, <1>4

LEMMA LogTrueKept ==
  ASSUME log \in Seq(EventType), LogIsTrue, UNCHANGED ran,
         \/ UNCHANGED log
         \/ \E e \in EventType : EventIsTrue(e) /\ log' = Append(log, e)
  PROVE  LogIsTrue'
<1>1. CASE UNCHANGED log
  BY <1>1 DEF LogIsTrue, EventIsTrue
<1>2. CASE \E e \in EventType : EventIsTrue(e) /\ log' = Append(log, e)
  <2>1. PICK e \in EventType : EventIsTrue(e) /\ log' = Append(log, e)
    BY <1>2
  <2>2. /\ DOMAIN log = 1..Len(log) /\ DOMAIN log' = 1..(Len(log) + 1)
        /\ \A i \in 1..Len(log) : log'[i] = log[i]
        /\ log'[Len(log) + 1] = e /\ Len(log) \in Nat
    BY <2>1
  <2>3. \A i \in 1..(Len(log) + 1) : i \in 1..Len(log) \/ i = Len(log) + 1
    BY <2>2
  <2>4. \A i \in DOMAIN log' : EventIsTrue(log'[i])
    BY <2>1, <2>2, <2>3 DEF LogIsTrue
  <2> QED
    BY <2>4 DEF LogIsTrue, EventIsTrue
<1> QED
  BY <1>1, <1>2

(* What others do leaves a request's trail and its report alone. *)
LEMMA TrailedKept ==
  ASSUME log \in Seq(EventType), NEW q, Trailed(q), Reported(q),
         pc'[q] = pc[q], ask'[q] = ask[q], outcome'[q] = outcome[q], ran'[q] = ran[q],
         \/ UNCHANGED log
         \/ \E e \in EventType : e.by # q /\ log' = Append(log, e)
  PROVE  Trailed(q)' /\ Reported(q)'
<1>1. /\ \A due : TrailIs(q, due) => TrailIs(q, due)'
      /\ EnteredFirst(q) => EnteredFirst(q)'
  BY TrailKept
<1>2. TrailIs(q, DueTrail(q)) => TrailIs(q, DueTrail(q))'
  <2>1. DueTrail(q)' = DueTrail(q)
    BY DueKept
  <2>2. ASSUME NEW due, TrailIs(q, due)', DueTrail(q)' = due
        PROVE  TrailIs(q, DueTrail(q))'
    BY <2>2 DEF TrailIs
  <2> QED
    BY <1>1, <2>1, <2>2
<1>3. TrailIs(q, <<Entry(q)>>) => TrailIs(q, <<Entry(q)>>)'
  BY <1>1 DEF Entry, Event
<1>4. TrailIs(q, <<>>) => TrailIs(q, <<>>)'
  BY <1>1
<1>5. Trailed(q)'
  BY <1>1, <1>2, <1>3, <1>4 DEF Trailed
<1>6. Reported(q)'
  BY DEF Reported
<1> QED
  BY <1>5, <1>6

LEMMA TrailInit == Init => TrailInv
<1> SUFFICES ASSUME Init PROVE TrailInv
  OBVIOUS
<1>1. log = <<>> /\ log \in Seq(EventType) /\ DOMAIN log = {} /\ DOMAIN <<>> = {}
  BY DEF Init
<1>2. ASSUME NEW r \in Request PROVE Trailed(r) /\ Reported(r)
  <2>1. pc[r] = "new" /\ ran[r] = "none"
    BY DEF Init
  <2>2. Of(r) = {}
    BY <1>1 DEF Of
  <2>3. <<>> \in [{} -> {}]
    BY <1>1
  <2>4. TrailIs(r, <<>>)
    BY <1>1, <2>2, <2>3 DEF TrailIs
  <2> QED
    BY <2>1, <2>4 DEF Trailed, Reported, Silent, Serving
<1> QED
  BY <1>1, <1>2, PermissionInit DEF TrailInv, LogIsTrue

LEMMA TrailStep == TrailInv /\ [Next]_vars => TrailInv'
<1> SUFFICES ASSUME TrailInv, [Next]_vars
             PROVE  /\ log' \in Seq(EventType) /\ LogIsTrue'
                    /\ \A q \in Request : Trailed(q)' /\ Reported(q)'
  BY PermissionStep DEF TrailInv
<1> USE DEF TrailInv, PermissionInv
<1>1. ASSUME NEW r \in Request, LocalStep(r)
      PROVE  /\ log' \in Seq(EventType) /\ LogIsTrue'
             /\ \A q \in Request : Trailed(q)' /\ Reported(q)'
  <2>1. Local(r)
    BY <1>1, LocalSteps, MovesTyped
  <2>2. UNCHANGED log \/ \E e \in EventType : e.by = r /\ log' = Append(log, e)
    BY <1>1, OwnEvents
  <2>3. ASSUME NEW q \in Request PROVE Trailed(q)' /\ Reported(q)'
    <3>1. CASE q = r
      BY <1>1, <3>1, TrailedStep, ReportedStep
    <3>2. CASE q # r
      <4>1. /\ pc'[q] = pc[q] /\ ask'[q] = ask[q]
            /\ outcome'[q] = outcome[q] /\ ran'[q] = ran[q]
        BY <2>1, <3>2 DEF Local, OthersAlone
      <4>2. UNCHANGED log \/ \E e \in EventType : e.by # q /\ log' = Append(log, e)
        BY <2>2, <3>2
      <4> QED
        BY <4>1, <4>2, TrailedKept
    <3> QED
      BY <3>1, <3>2
  <2>4. CASE Query(r)
    <3>1. UNCHANGED log /\ pc[r] = "connected"
      BY <2>4 DEF Query, At, events
    <3>2. TrailIs(r, <<Entry(r)>>)
      BY <3>1 DEF Trailed, Serving
    <3>3. \A q \in Request \ {r} : ran'[q] = ran[q]
      BY <2>1 DEF Local, OthersAlone
    <3> QED
      BY <2>3, <3>1, <3>2, <3>3, LogTrueAtEffect
  <2>5. CASE UNCHANGED <<log, ran>>
    BY <2>3, <2>5, LogTrueKept
  <2>6. CASE /\ UNCHANGED ran
             /\ \E e \in EventType : e.by = r /\ EventIsTrue(e) /\ log' = Append(log, e)
    BY <2>2, <2>3, <2>6, LogTrueKept
  <2> QED
    BY <1>1, <2>4, <2>5, <2>6, OwnEventsTrue
<1>2. ASSUME NEW r \in Request, Arrive(r)
      PROVE  /\ log' \in Seq(EventType) /\ LogIsTrue'
             /\ \A q \in Request : Trailed(q)' /\ Reported(q)'
  <2>1. UNCHANGED <<log, ran, outcome>> /\ pc[r] = "new" /\ pc'[r] = "arrived"
    BY <1>2 DEF Arrive, At, Goto, events, TypeInv
  <2>2. LogIsTrue'
    BY <2>1, LogTrueKept
  <2>3. ASSUME NEW q \in Request, q # r PROVE Trailed(q)' /\ Reported(q)'
    <3>1. /\ pc'[q] = pc[q] /\ ask'[q] = ask[q]
          /\ outcome'[q] = outcome[q] /\ ran'[q] = ran[q]
      BY <1>2, <2>3, ArriveTyped DEF OthersAlone
    <3> QED
      BY <2>1, <3>1, TrailedKept
  <2>4. Trailed(r)' /\ Reported(r)'
    <3>1. TrailIs(r, <<>>)' /\ ran'[r] = "none"
      BY <2>1, TrailKept DEF Trailed, Silent, Reported, Effective
    <3> QED
      BY <2>1, <3>1 DEF Trailed, Reported, Silent, Serving
  <2> QED
    BY <2>1, <2>2, <2>3, <2>4
<1>3. ASSUME NEW r \in Request, ChangeStore(r)
      PROVE  /\ log' \in Seq(EventType) /\ LogIsTrue'
             /\ \A q \in Request : Trailed(q)' /\ Reported(q)'
  <2>1. /\ UNCHANGED <<log, ask, outcome>> /\ r \in Admin
        /\ pc[r] = "inside" /\ pc'[r] = "changed" /\ ran'[r] = "changed"
    BY <1>3, ChangeTyped DEF ChangeStore, At, events
  <2>2. TrailIs(r, <<Entry(r)>>)
    BY <2>1 DEF Trailed, Serving
  <2>3. ASSUME NEW q \in Request, q # r
        PROVE  pc'[q] = pc[q] /\ outcome'[q] = outcome[q] /\ ran'[q] = ran[q]
    BY <1>3, <2>3, ChangeTyped DEF OthersAlone
  <2>4. LogIsTrue'
    BY <2>1, <2>2, <2>3, LogTrueAtEffect
  <2>5. ASSUME NEW q \in Request, q # r PROVE Trailed(q)' /\ Reported(q)'
    BY <2>1, <2>3, <2>5, TrailedKept
  <2>6. Trailed(r)' /\ Reported(r)'
    <3>1. EnteredFirst(r)
      BY <2>2, EntryIsFirst
    <3>2. TrailIs(r, <<Entry(r)>>)' /\ EnteredFirst(r)'
      BY <2>1, <2>2, <3>1, TrailKept DEF Entry, Event
    <3> QED
      BY <2>1, <3>2 DEF Trailed, Reported, Silent, Serving, Effective
  <2> QED
    BY <2>1, <2>4, <2>5, <2>6
<1>4. CASE (\E k \in KeyId : ExpireKey(k)) \/ UNCHANGED vars
  <2>1. UNCHANGED <<log, pc, ask, outcome, ran>>
    BY <1>4 DEF ExpireKey, vars, events
  <2> QED
    BY <2>1, LogTrueKept, TrailedKept
<1> QED
  BY <1>1, <1>2, <1>3, <1>4, Steps

(* No answer overtakes its audit events: of a request that was answered    *)
(* the log holds exactly the events due, in order, with what was reported, *)
(* however the events of other requests fall between them.                 *)
THEOREM AnswersRecorded == Spec => []AnsweredIsRecorded
<1>1. TrailInv => AnsweredIsRecorded
  BY DEF TrailInv, Trailed, AnsweredIsRecorded
<1> QED
  BY <1>1, TrailInit, TrailStep, PTL DEF Spec

(* No effect comes before the event of the entry, a success is recorded    *)
(* only of what had its effect and a rejection only of what had none.      *)
THEOREM TrailTells == Spec => []TrailIsTrue
<1>1. TrailInv => TrailIsTrue
  BY DEF TrailInv, Trailed, EnteredFirst, Entry, LogIsTrue, EventIsTrue, TrailIsTrue
<1> QED
  BY <1>1, TrailInit, TrailStep, PTL DEF Spec

===============================================================================
