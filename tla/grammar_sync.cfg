\* Every stream of four records over the small record set.
SPECIFICATION MCSpec
CONSTANTS
  NLit = 2
  MaxSyms = 5
  MaxRecords = 4
  SeedTables <- MCSeedTables
  Records <- MCRecords
INVARIANTS
  TypeOK
  InSync
