SPECIFICATION Spec
CONSTANTS
  r1 = r1
  r2 = r2
  r3 = r3
  acme = acme
  p1 = p1
  p2 = p2
  Requests <- MCReq3
  Replicas <- MCReplicas
  ReplicaOf <- MCReplicaOf3
  Tenants <- MCOneTenant
  TenantOf <- MCTenantOf3
  Capped <- MCOneTenant
  Uncapped <- MCNone
  FailOpen <- MCNone
  Limit <- MCLimitOne
  Estimates = {1, 2}
  Costs = {0, 1}
  MaxMonth = 0
  MaxAttempts = 2
  Faults <- MCTimeout
INVARIANTS
  NeverPastCap
