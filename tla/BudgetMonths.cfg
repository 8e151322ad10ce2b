SPECIFICATION FairSpec
CONSTANTS
  r1 = r1
  r2 = r2
  r3 = r3
  acme = acme
  p1 = p1
  p2 = p2
  Replicas <- MCReplicas
  Requests <- MCReq2
  ReplicaOf <- MCReplicaOf2
  Tenants <- MCOneTenant
  TenantOf <- MCTenantOf2
  Capped <- MCOneTenant
  Uncapped <- MCOneTenant
  FailOpen <- MCOneTenant
  Limit <- MCLimitOne
  Estimates = {1, 2}
  Costs = {2, 3}
  MaxMonth = 2
  MaxAttempts = 1
  Faults <- MCLossFaults
INVARIANTS
  ExactWhenSettled
PROPERTIES
  EventuallySettled
