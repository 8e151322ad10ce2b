SPECIFICATION FairSpec
CONSTANTS
  e1 = e1
  e2 = e2
  acme = acme
  globex = globex
  Events <- MCEvents
  Tenants <- MCTenants
  TenantOf <- MCTenantOf
  BatchSize = 2
  Window = 0
  MaxTime = 1
  MaxErrors = 1
INVARIANTS
  TypeOK
  SummaryNotTorn
  NothingVanishes
PROPERTIES
  EventuallyShown
  HandlerReleased
  ShutdownPasses
