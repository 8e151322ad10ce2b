SPECIFICATION HandlerSpec
CONSTANTS
  r1 = r1
  r2 = r2
  r3 = r3
  acme = acme
  p1 = p1
  p2 = p2
  Replicas <- MCReplicas
  Requests <- MCReq2
  ReplicaOf <- MCReplicaOf2
  Tenants <- MCOneTenant
  TenantOf <- MCTenantOf2
  Capped <- MCOneTenant
  Uncapped <- MCNone
  FailOpen <- MCNone
  Limit <- MCLimitLow
  Estimates = {1}
  Costs = {1, 2}
  MaxMonth = 0
  MaxAttempts = 2
  Faults <- MCRepeatFaults
INVARIANTS
  TypeOK
  FailClosedReserved
  CapBound
  NoUndercount
  SpendWithinCap
PROPERTIES
  RedisNeverBlocks
  ImplementsLedger
