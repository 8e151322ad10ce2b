SPECIFICATION FairSpec
CONSTANTS
  MaxLines = 4
  alias = alias
  snapshot = snapshot
  Exchanges <- MCAnyStream
  Priced <- MCPriced
INVARIANTS
  TypeOK
  PassedThrough
  MeteredAsReported
PROPERTIES
  AlwaysMetered
