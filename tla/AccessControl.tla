---------------------------- MODULE AccessControl ----------------------------
(***************************************************************************)
(* The decision on one tool call: authorize_tool in                        *)
(* src/action-gateway/src/control_plane.rs and the policy list that the    *)
(* store hands it (store.rs).  The store filters the enabled policies of   *)
(* the caller and sorts them: deny before allow, then the higher           *)
(* specificity, then the older.  The sort is stable, so policies that tie  *)
(* stay in the order of the store.  The first row that matches the scope   *)
(* of the call decides.                                                    *)
(*                                                                         *)
(* A field of a policy that is Absent was left out of it.  Matching a      *)
(* pattern with a resource name is a relation here; module Wildcard models *)
(* it.                                                                     *)
(***************************************************************************)
EXTENDS Integers, Sequences, FiniteSets

CONSTANTS
  Absent,       \* an absent field
  Policy,       \* the policies that the store may hold
  Caller,       \* authenticated callers
  Scope,        \* scopes of tool calls
  Covers,       \* pairs <<pattern, resource name>> that match
  MaxPolicies   \* bound: policies in the store

ASSUME PolicyAssumption ==
  /\ MaxPolicies \in Nat
  /\ \A p \in Policy : p.specificity \in Int /\ p.created \in Int

VARIABLES
  policies,   \* access_policies of the store, in the order of the file
  caller,     \* the authenticated caller
  scope,      \* what the call asks for; resource is Absent if it names none
  policyRows, \* the sorted list, as positions in policies
  next,       \* the row that the loop looks at
  decision    \* of the call, once it is taken

decisionVars == <<policies, caller, scope, policyRows, next, decision>>

Undecided == [outcome |-> "none", by |-> 0]
Decisions ==
  [outcome : {"none", "unrestricted", "denied", "allowed", "default"},
   by : 0..MaxPolicies]

-----------------------------------------------------------------------------
(* The store's list *)

Applies(p, c) ==
  /\ p.enabled
  /\ \/ p.principal = c.principal
     \/ c.key # Absent /\ p.key = c.key

Applicable == {i \in DOMAIN policies : Applies(policies[i], caller)}

(* Mutants: deny rows do not come first; the lower specificity comes first. *)
PrecedesBySpecificity(i, j) ==
  LET p == policies[i]  q == policies[j] IN
  \/ p.specificity > q.specificity
  \/ p.specificity = q.specificity /\ i < j

PrecedesWeakFirst(i, j) ==
  LET p == policies[i]  q == policies[j] IN
  \/ p.effect = "deny" /\ q.effect # "deny"
  \/ /\ p.effect = "deny" <=> q.effect = "deny"
     /\ \/ p.specificity < q.specificity
        \/ p.specificity = q.specificity /\ i < j

(* The comparator of the sort, with the position for a stable sort.        *)
Precedes(i, j) ==
  LET p == policies[i]  q == policies[j] IN
  \/ p.effect = "deny" /\ q.effect # "deny"
  \/ /\ p.effect = "deny" <=> q.effect = "deny"
     /\ \/ p.specificity > q.specificity
        \/ /\ p.specificity = q.specificity
           /\ \/ p.created < q.created
              \/ p.created = q.created /\ i < j

Sorted(list) ==
  /\ {list[n] : n \in DOMAIN list} = Applicable
  /\ \A m, n \in DOMAIN list : m < n => Precedes(list[m], list[n])

-----------------------------------------------------------------------------
(* Matching *)

OptionalMatch(field, actual) == field = Absent \/ field = actual

ResourceMatches(pattern, resource) ==
  \/ pattern \in {Absent, "*"}
  \/ resource # Absent /\ <<pattern, resource>> \in Covers

Matches(p, s) ==
  /\ OptionalMatch(p.source, s.source)
  /\ OptionalMatch(p.tool, s.tool)
  /\ OptionalMatch(p.action, s.action)
  /\ OptionalMatch(p.type, s.type)
  /\ ResourceMatches(p.pattern, s.resource)

-----------------------------------------------------------------------------
Stores == UNION {[1..n -> Policy] : n \in 0..MaxPolicies}

DecisionIdle ==
  /\ policies = <<>> /\ policyRows = <<>> /\ next = 0 /\ decision = Undecided
  /\ caller = (CHOOSE c \in Caller : TRUE) /\ scope = (CHOOSE s \in Scope : TRUE)

DecisionInit ==
  /\ policies \in Stores /\ caller \in Caller /\ scope \in Scope
  /\ policyRows = <<>> /\ next = 0 /\ decision = Undecided

Decide(outcome, by) ==
  /\ decision' = [outcome |-> outcome, by |-> by]
  /\ UNCHANGED <<policies, caller, scope, policyRows, next>>

AllowUnrestricted ==
  /\ decision = Undecided /\ next = 0
  /\ caller.unrestricted
  /\ Decide("unrestricted", 0)

ListPolicies ==
  /\ decision = Undecided /\ next = 0
  /\ ~caller.unrestricted
  /\ policyRows' \in [1..Cardinality(Applicable) -> Applicable] /\ Sorted(policyRows')
  /\ next' = 1
  /\ UNCHANGED <<policies, caller, scope, decision>>

Scanning == decision = Undecided /\ next \in DOMAIN policyRows

SkipRow ==
  /\ Scanning
  /\ \/ ~Matches(policies[policyRows[next]], scope)
     \/ policies[policyRows[next]].effect \notin {"deny", "allow"}
  /\ next' = next + 1
  /\ UNCHANGED <<policies, caller, scope, policyRows, decision>>

DenyByRow ==
  /\ Scanning
  /\ Matches(policies[policyRows[next]], scope)
  /\ policies[policyRows[next]].effect = "deny"
  /\ Decide("denied", policyRows[next])

AllowByRow ==
  /\ Scanning
  /\ Matches(policies[policyRows[next]], scope)
  /\ policies[policyRows[next]].effect = "allow"
  /\ Decide("allowed", policyRows[next])

(* Mutant: the last row is not looked at. *)
DenyByDefaultEarly ==
  /\ decision = Undecided /\ next > 0 /\ next >= Len(policyRows)
  /\ Decide("default", 0)

DenyByDefault ==
  /\ decision = Undecided /\ next > 0 /\ next > Len(policyRows)
  /\ Decide("default", 0)

Decided == decision # Undecided /\ UNCHANGED decisionVars

DecisionNext ==
  \/ AllowUnrestricted \/ ListPolicies \/ SkipRow \/ DenyByRow \/ AllowByRow
  \/ DenyByDefault \/ Decided

DecisionSpec == DecisionInit /\ [][DecisionNext]_decisionVars

-----------------------------------------------------------------------------
(* What tools/list shows the caller: Absent stands for every tool.         *)
AllowRows == {i \in Applicable : policies[i].effect = "allow"}

(* Mutant: a policy for all tools names none of them. *)
VisibleByName(tool) ==
  caller.unrestricted \/ \E i \in AllowRows : policies[i].tool = tool

Visible(tool) ==
  \/ caller.unrestricted
  \/ \E i \in AllowRows : policies[i].tool = Absent
  \/ \E i \in AllowRows : policies[i].tool = tool

-----------------------------------------------------------------------------
TypeOK ==
  /\ policies \in Stores /\ caller \in Caller /\ scope \in Scope
  /\ policyRows \in Seq(DOMAIN policies)
  /\ next \in 0..(Len(policyRows) + 1)
  /\ decision \in Decisions

Matching(effect) ==
  {i \in Applicable : policies[i].effect = effect /\ Matches(policies[i], scope)}

(* No order of the policies in the store and no specificity lets an allow  *)
(* outweigh a deny that matches, and nothing is allowed by omission.       *)
DenyOverrides ==
  decision.outcome = "allowed" =>
    Matching("deny") = {} /\ Matching("allow") # {}

(* The other direction: a call is refused only for a reason, and never     *)
(* because the loop stopped before a row that allows it.                   *)
RefusalsJustified ==
  /\ decision.outcome = "denied" => Matching("deny") # {}
  /\ decision.outcome = "default" =>
       Matching("deny") = {} /\ Matching("allow") = {}

(* The policy that the answer and the audit event name is the strongest of *)
(* those that matched, whatever the order in the store.                    *)
NamesStrongest ==
  LET effect == IF decision.outcome = "denied" THEN "deny" ELSE "allow" IN
  decision.outcome \in {"denied", "allowed"} =>
    /\ decision.by \in Matching(effect)
    /\ \A i \in Matching(effect) :
         policies[i].specificity <= policies[decision.by].specificity

(* tools/list and tools/call use different code over the policies: a tool  *)
(* that can be called is always shown.                                     *)
CallableIsVisible ==
  decision.outcome \in {"allowed", "unrestricted"} => Visible(scope.tool)

-----------------------------------------------------------------------------
(* What makes the properties inductive: the rows before the one that the   *)
(* loop looks at decided nothing, and a decision comes from that row.      *)
Silent(i) ==
  \/ ~Matches(policies[i], scope)
  \/ policies[i].effect \notin {"deny", "allow"}

Prefix == next <= Len(policyRows) + 1 /\ (\A n \in DOMAIN policyRows : n < next => Silent(policyRows[n]))

FromRow(effect) ==
  /\ next \in DOMAIN policyRows /\ decision.by = policyRows[next]
  /\ Matches(policies[policyRows[next]], scope)
  /\ policies[policyRows[next]].effect = effect

ScanInv ==
  /\ next = 0 => policyRows = <<>> /\ decision.outcome \in {"none", "unrestricted"}
  /\ next > 0 => Sorted(policyRows)
  /\ Prefix
  /\ decision.outcome = "denied" => FromRow("deny")
  /\ decision.outcome = "allowed" => FromRow("allow")
  /\ decision.outcome = "default" => next > Len(policyRows)
  /\ decision.outcome = "unrestricted" => caller.unrestricted

=============================================================================
