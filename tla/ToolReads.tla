------------------------------- MODULE ToolReads -------------------------------
(***************************************************************************)
(* The decision on a call and the tools that read, side by side: one of    *)
(* them works at a time, because they share nothing but the store, which   *)
(* the modules take as given.                                              *)
(***************************************************************************)
EXTENDS AccessControl, Wildcard, RedisRead, KubernetesTools, SlsQuery, AuditQuery

toolVars == <<decisionVars, match, redisVars, kubeVars, slsVars, auditVars>>

OthersIdle(mine) ==
  /\ mine = "decision" \/ (DecisionIdle /\ UNCHANGED decisionVars)
  /\ mine = "wildcard" \/ (WildcardIdle /\ UNCHANGED match)
  /\ mine = "redis" \/ (RedisIdle /\ UNCHANGED redisVars)
  /\ mine = "kubernetes" \/ (KubeIdle /\ UNCHANGED kubeVars)
  /\ mine = "sls" \/ (SlsIdle /\ UNCHANGED slsVars)
  /\ mine = "audit" \/ (AuditIdle /\ UNCHANGED auditVars)

Init == DecisionInit /\ WildcardInit /\ RedisInit /\ KubeInit /\ SlsInit /\ AuditInit
Next ==
  \/ OthersIdle("decision") /\ DecisionNext
  \/ OthersIdle("wildcard") /\ WildcardNext
  \/ OthersIdle("redis") /\ RedisNext
  \/ OthersIdle("kubernetes") /\ KubeNext
  \/ OthersIdle("sls") /\ SlsNext
  \/ OthersIdle("audit") /\ AuditNext

Spec == Init /\ [][Next]_toolVars

==============================================================================
