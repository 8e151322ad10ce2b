SPECIFICATION FairSpec
CONSTANTS
  r1 = r1
  r2 = r2
  acme = acme
  Requests <- MCRequests
  Tenants <- MCTenants
  TenantOf <- MCTenantOf
  Capped <- MCTenants
  Uncapped <- MCTenants
  FailOpen <- MCTenants
  FailClosed <- MCTenants
  Limit <- MCLimit
  Priced <- MCPriced
  InPrice <- MCInPrice
  OutPrice <- MCOutPrice
  Scale = 2
  MaxInt = 12
  DefaultOutput = 1
  Asks <- MCAsks
  Replies <- MCReplies
  BufferSize = 1
  BatchSize = 1
  MaxCost = 5
  MaxFaults = 0
  MaxMonth = 1
INVARIANTS
  EstimateCovers
PROPERTIES
  EventuallyBooked
