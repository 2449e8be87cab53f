CONSTANTS
  Absent = Absent
  Policy <- MCPolicy
  Caller <- MCCaller
  Scope <- MCScope
  Covers <- MCCovers
  MaxPolicies = 3
  Star = "*"
  Char = {"*", "a", "b"}
  MaxText = 4
  RedisContent <- MCRedisContent
  RedisRow <- MCRedisRow
  RedisAsk <- MCRedisAsk
  MaxKeyChanges = 2
  KubeName <- MCKubeName
  KubeRows <- MCKubeRows
  KubeAsk <- MCKubeAsk
  KubectlValued <- MCKubectlValued
  RawEnabled = TRUE
  SlsSource <- MCSlsSource
  SlsAsk <- MCSlsAsk
  SlsResponse <- MCSlsResponse
  EventId = {1, 2, 3, 4}
  EventFields <- MCEventFields
  AuditAsk <- MCAuditAsk
  AuditCap = 2
  MaxSecond = 2
  MaxEvents = 3
SPECIFICATION Spec
INVARIANTS DenyOverrides RefusalsJustified NamesStrongest CallableIsVisible MatchesAreMeant ReadIsBounded UntruncatedIsWhole  SignedIsSent LogsAreTheServices AnswerIsNewest
