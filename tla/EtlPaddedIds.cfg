SPECIFICATION Spec
CONSTANTS
  Runs = {r1, r2}
  Tenants = {t1}
  Rows <- MCRows
  IdOf <- MCIdOf
  Padded <- MCPadded
  Faulty <- MCFaulty
  Sparse <- MCSparse
  Named <- MCNamed
  Files <- AllFiles
  InsertBatch = 2
  LookupBatch = 1
  MaxActive = 1
INVARIANT CleanIdsUniquePerTenant
CHECK_DEADLOCK FALSE
