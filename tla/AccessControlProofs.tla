------------------------- MODULE AccessControlProofs -------------------------
(***************************************************************************)
(* Proofs about AccessControl for every set of policies, callers, scopes   *)
(* and patterns.  ScanInv says what the loop has established when it looks *)
(* at a row; the properties follow from it and the order of the rows.      *)
(***************************************************************************)
EXTENDS AccessControl, FiniteSetTheorems, TLAPS

USE PolicyAssumption

(* A position in the store holds a policy. *)
LEMMA StoreEntry ==
  ASSUME policies \in Stores, NEW i \in DOMAIN policies
  PROVE  /\ policies[i] \in Policy
         /\ DOMAIN policies \subseteq 1..MaxPolicies
         /\ policies[i].specificity \in Int
BY DEF Stores

(* The list that the store hands out is a sequence of positions. *)
LEMMA ListIsSequence ==
  ASSUME policies \in Stores, NEW list \in [1..Cardinality(Applicable) -> Applicable]
  PROVE  list \in Seq(Applicable) /\ list \in Seq(DOMAIN policies)
<1>1. Applicable \subseteq DOMAIN policies
  BY DEF Applicable
<1>2. PICK n \in 0..MaxPolicies : DOMAIN policies = 1..n
  BY DEF Stores
<1>3. IsFiniteSet(Applicable)
  BY <1>1, <1>2, FS_Interval, FS_Subset
<1>4. Cardinality(Applicable) \in Nat
  BY <1>3, FS_CardinalityType
<1> QED
  BY <1>1, <1>4

-----------------------------------------------------------------------------
(* Every step keeps the decision procedure within its types. *)
THEOREM TypeCorrect == DecisionSpec => []TypeOK
<1>1. DecisionInit => TypeOK
  BY DEF DecisionInit, TypeOK, Decisions, Undecided
<1>2. TypeOK /\ [DecisionNext]_decisionVars => TypeOK'
  <2> SUFFICES ASSUME TypeOK, [DecisionNext]_decisionVars PROVE TypeOK'
    OBVIOUS
  <2> USE DEF TypeOK
  <2>1. CASE AllowUnrestricted
    BY <2>1 DEF AllowUnrestricted, Decide, Decisions
  <2>2. CASE ListPolicies
    <3>2. policyRows' \in Seq(DOMAIN policies) /\ next' = 1
      BY <2>2, ListIsSequence DEF ListPolicies
    <3>3. Len(policyRows') \in Nat
      BY <3>2
    <3> QED
      BY <2>2, <3>2, <3>3 DEF ListPolicies
  <2>3. CASE SkipRow
    BY <2>3 DEF SkipRow, Scanning
  <2>4. CASE DenyByRow \/ AllowByRow
    <3>1. policyRows[next] \in DOMAIN policies
      BY <2>4 DEF DenyByRow, AllowByRow, Scanning
    <3>2. policyRows[next] \in 0..MaxPolicies
      BY <3>1, StoreEntry
    <3> QED
      BY <2>4, <3>2 DEF DenyByRow, AllowByRow, Decide, Decisions
  <2>5. CASE DenyByDefault
    BY <2>5 DEF DenyByDefault, Decide, Decisions
  <2>6. CASE UNCHANGED decisionVars
    BY <2>6 DEF decisionVars
  <2> QED
    BY <2>1, <2>2, <2>3, <2>4, <2>5, <2>6 DEF DecisionNext, Decided
<1> QED
  BY <1>1, <1>2, PTL DEF DecisionSpec

-----------------------------------------------------------------------------
(* ScanInv is inductive. *)
LEMMA ScanInductive == TypeOK /\ ScanInv /\ [DecisionNext]_decisionVars => ScanInv'
<1> SUFFICES ASSUME TypeOK, ScanInv, [DecisionNext]_decisionVars PROVE ScanInv'
  OBVIOUS
<1>0. policyRows \in Seq(DOMAIN policies) /\ Len(policyRows) \in Nat /\ next \in Nat
  BY DEF TypeOK
<1>1. CASE AllowUnrestricted
  BY <1>0, <1>1 DEF AllowUnrestricted, Decide, ScanInv, Prefix, Silent
<1>2. CASE ListPolicies
  <2>1. Sorted(policyRows)' /\ next' = 1 /\ decision' = decision /\ decision = Undecided
    BY <1>2 DEF ListPolicies, Sorted, Applicable, Precedes
  <2>2. DOMAIN policyRows' = 1..Cardinality(Applicable)
    BY <1>2 DEF ListPolicies
  <2>3. policyRows' \in Seq(Applicable)
    BY <1>2, ListIsSequence DEF ListPolicies, TypeOK
  <2>4. Prefix'
    BY <2>1, <2>3 DEF Prefix
  <2> QED
    BY <2>1, <2>4 DEF ScanInv, Undecided
<1>3. CASE SkipRow
  <2>1. Sorted(policyRows)'
    BY <1>0, <1>3 DEF SkipRow, Scanning, ScanInv, Sorted, Applicable, Precedes
  <2>2. Silent(policyRows[next])
    BY <1>3 DEF SkipRow, Silent
  <2>3. Prefix'
    BY <1>0, <1>3, <2>2 DEF SkipRow, Scanning, ScanInv, Prefix, Silent
  <2> QED
    BY <1>0, <1>3, <2>1, <2>3 DEF SkipRow, Scanning, ScanInv, Undecided
<1>4. CASE DenyByRow \/ AllowByRow
  <2>1. UNCHANGED <<policies, caller, scope, policyRows, next>> /\ next \in DOMAIN policyRows
    BY <1>4 DEF DenyByRow, AllowByRow, Decide, Scanning
  <2>2. Sorted(policyRows)'
    BY <1>0, <2>1 DEF ScanInv, Sorted, Applicable, Precedes
  <2>3. Prefix'
    BY <2>1 DEF ScanInv, Prefix, Silent
  <2> QED
    BY <1>0, <1>4, <2>1, <2>2, <2>3 DEF DenyByRow, AllowByRow, Decide, ScanInv, FromRow
<1>5. CASE DenyByDefault
  <2>1. UNCHANGED <<policies, caller, scope, policyRows, next>>
    BY <1>5 DEF DenyByDefault, Decide
  <2>2. Prefix'
    BY <2>1 DEF ScanInv, Prefix, Silent
  <2>3. Sorted(policyRows)'
    BY <1>0, <1>5, <2>1 DEF DenyByDefault, ScanInv, Sorted, Applicable, Precedes
  <2> QED
    BY <1>0, <1>5, <2>2, <2>3 DEF DenyByDefault, Decide, ScanInv
<1>6. CASE UNCHANGED decisionVars
  <2>1. (Sorted(policyRows) <=> Sorted(policyRows)') /\ (Prefix <=> Prefix')
    BY <1>6 DEF decisionVars, Sorted, Applicable, Precedes, Prefix, Silent
  <2> QED
    BY <1>6, <2>1 DEF decisionVars, ScanInv, FromRow
<1> QED
  BY <1>1, <1>2, <1>3, <1>4, <1>5, <1>6 DEF DecisionNext, Decided

LEMMA ScanHolds == DecisionSpec => [](TypeOK /\ ScanInv)
<1>1. DecisionInit => ScanInv
  BY DEF DecisionInit, ScanInv, Prefix, Undecided
<1> QED
  BY <1>1, ScanInductive, TypeCorrect, PTL DEF DecisionSpec

-----------------------------------------------------------------------------
(* The row that decides is the first in the order, among those that match. *)
LEMMA FirstMatch ==
  ASSUME TypeOK, ScanInv, NEW effect \in {"deny", "allow"}, FromRow(effect),
         NEW other \in {"deny", "allow"}, NEW i \in Matching(other)
  PROVE  i = decision.by \/ Precedes(decision.by, i)
<1>1. PICK n \in DOMAIN policyRows : policyRows[n] = i
  BY DEF ScanInv, FromRow, Sorted, Matching, TypeOK
<1>2. n \in Nat /\ next \in Nat /\ next \in DOMAIN policyRows /\ Sorted(policyRows)
  BY DEF TypeOK, FromRow, ScanInv
<1>3. ~(n < next)
  BY <1>1 DEF ScanInv, Prefix, Silent, Matching
<1>4. CASE n = next
  BY <1>1, <1>4 DEF FromRow
<1>5. CASE next < n
  BY <1>1, <1>2, <1>5 DEF Sorted, FromRow
<1> QED
  BY <1>2, <1>3, <1>4, <1>5

(* The row that decides is one of those that match. *)
LEMMA DeciderMatches ==
  ASSUME TypeOK, ScanInv, NEW effect \in {"deny", "allow"}, FromRow(effect)
  PROVE  decision.by \in Matching(effect)
BY DEF TypeOK, ScanInv, FromRow, Sorted, Matching

(* A row that decides nothing at the end of the loop: nothing matched. *)
LEMMA NothingMatched ==
  ASSUME TypeOK, ScanInv, decision.outcome = "default",
         NEW effect \in {"deny", "allow"}
  PROVE  Matching(effect) = {}
<1> SUFFICES ASSUME NEW i \in Matching(effect) PROVE FALSE
  OBVIOUS
<1>1. next > Len(policyRows) /\ next > 0 /\ Sorted(policyRows) /\ Len(policyRows) \in Nat
  BY DEF TypeOK, ScanInv
<1>2. PICK n \in DOMAIN policyRows : policyRows[n] = i
  BY <1>1 DEF Sorted, Matching
<1>3. n < next
  BY <1>1 DEF TypeOK
<1> QED
  BY <1>2, <1>3 DEF ScanInv, Prefix, Silent, Matching

-----------------------------------------------------------------------------
(* A matching deny wins over every allow, in whatever order the store      *)
(* holds the policies, and an allowed call has a policy that allows it.    *)
THEOREM DenyWins == DecisionSpec => []DenyOverrides
<1>1. TypeOK /\ ScanInv => DenyOverrides
  <2> SUFFICES ASSUME TypeOK, ScanInv, decision.outcome = "allowed"
               PROVE  Matching("deny") = {} /\ Matching("allow") # {}
    BY DEF DenyOverrides
  <2>1. FromRow("allow")
    BY DEF ScanInv
  <2>2. decision.by \in Matching("allow")
    BY <2>1, DeciderMatches
  <2>3. ASSUME NEW i \in Matching("deny") PROVE FALSE
    <3>1. policies[i].effect = "deny" /\ policies[decision.by].effect = "allow"
      BY <2>2 DEF Matching
    <3>2. i = decision.by \/ Precedes(decision.by, i)
      BY <2>1, <2>3, FirstMatch
    <3> QED
      BY <3>1, <3>2 DEF Precedes
  <2> QED
    BY <2>2, <2>3
<1> QED
  BY <1>1, ScanHolds, PTL

(* A call is refused only by a deny that matches, or because no allow does. *)
THEOREM RefusalJustified == DecisionSpec => []RefusalsJustified
<1>1. TypeOK /\ ScanInv => RefusalsJustified
  <2> SUFFICES ASSUME TypeOK, ScanInv PROVE RefusalsJustified
    OBVIOUS
  <2>1. decision.outcome = "denied" => Matching("deny") # {}
    <3>1. ASSUME decision.outcome = "denied" PROVE decision.by \in Matching("deny")
      BY <3>1, DeciderMatches DEF ScanInv
    <3> QED
      BY <3>1
  <2>2. decision.outcome = "default" =>
          Matching("deny") = {} /\ Matching("allow") = {}
    BY NothingMatched
  <2> QED
    BY <2>1, <2>2 DEF RefusalsJustified
<1> QED
  BY <1>1, ScanHolds, PTL

(* The policy that the answer names has the highest specificity of those   *)
(* of its effect that match.                                               *)
THEOREM StrongestNamed == DecisionSpec => []NamesStrongest
<1>1. TypeOK /\ ScanInv => NamesStrongest
  <2> SUFFICES ASSUME TypeOK, ScanInv, NEW effect \in {"deny", "allow"},
                      FromRow(effect)
               PROVE  /\ decision.by \in Matching(effect)
                      /\ \A i \in Matching(effect) :
                           policies[i].specificity <= policies[decision.by].specificity
    BY DEF NamesStrongest, ScanInv
  <2>1. decision.by \in Matching(effect)
    BY DeciderMatches
  <2>2. ASSUME NEW i \in Matching(effect)
        PROVE  policies[i].specificity <= policies[decision.by].specificity
    <3>1. /\ policies[i].effect = policies[decision.by].effect
          /\ i \in DOMAIN policies /\ decision.by \in DOMAIN policies
      BY <2>1 DEF Matching, Applicable
    <3>2. policies[i].specificity \in Int /\ policies[decision.by].specificity \in Int
      BY <3>1, StoreEntry DEF TypeOK
    <3>3. i = decision.by \/ Precedes(decision.by, i)
      BY FirstMatch
    <3> QED
      BY <3>1, <3>2, <3>3 DEF Precedes
  <2> QED
    BY <2>1, <2>2
<1> QED
  BY <1>1, ScanHolds, PTL

(* A tool that the caller can call is one that tools/list shows it. *)
THEOREM CallableShown == DecisionSpec => []CallableIsVisible
<1>1. TypeOK /\ ScanInv => CallableIsVisible
  <2> SUFFICES ASSUME TypeOK, ScanInv, FromRow("allow")
               PROVE  Visible(scope.tool)
    BY DEF CallableIsVisible, ScanInv, Visible
  <2>1. decision.by \in Matching("allow")
    BY DeciderMatches
  <2> QED
    BY <2>1 DEF Matching, Visible, AllowRows, Matches, OptionalMatch
<1> QED
  BY <1>1, ScanHolds, PTL

=============================================================================
