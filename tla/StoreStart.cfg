SPECIFICATION FairSpec
CONSTANTS
  p1 = p1
  p2 = p2
  job = job
  Servers <- MCServers
  Migrators <- MCMigrators
  Last = 2
  MaxStops = 2
INVARIANTS
  TypeOK
  LedgerLagsByOne
  ServesMigrated
PROPERTIES
  StartsUnlessOrphaned
