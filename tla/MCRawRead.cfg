CONSTANTS
  Absent = Absent
  Policy <- MCPolicy
  Caller <- MCCaller
  Scope <- MCScope
  Covers <- MCCovers
  MaxPolicies = 0
  Star = "*"
  Char = {"*", "a", "b"}
  MaxText = 1
  RedisContent <- MCRedisContent
  RedisRow <- MCRedisRow
  RedisAsk <- MCRedisAsk
  MaxKeyChanges = 0
  KubeName <- MCKubeName
  KubeRows <- RawRows
  KubeAsk <- RawAsks
  KubectlValued <- MCKubectlValued
  RawEnabled = TRUE
  SlsSource <- MCSlsSource
  SlsAsk <- MCSlsAsk
  SlsResponse <- MCSlsResponse
  EventId = {1, 2, 3, 4}
  EventFields <- MCEventFields
  AuditAsk <- MCAuditAsk
  AuditCap = 2
  MaxSecond = 2
  MaxEvents = 0
SPECIFICATION Spec
INVARIANTS RawReadGoverns
