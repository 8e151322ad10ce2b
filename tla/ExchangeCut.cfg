SPECIFICATION Spec
CONSTANTS
  MaxLines = 4
  alias = alias
  snapshot = snapshot
  Exchanges <- MCFixtures
  Priced <- MCPriced
INVARIANTS
  InjectedNeverShown
