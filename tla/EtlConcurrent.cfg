SPECIFICATION Spec
CONSTANTS
  Runs = {r1, r2}
  Tenants = {t1, t2}
  Rows <- MCRows
  IdOf <- MCIdOf
  Padded <- MCPadded
  Faulty <- MCFaulty
  Sparse <- MCSparse
  Named <- MCNamed
  Files <- AllFiles
  InsertBatch = 2
  LookupBatch = 1
  MaxActive = 2
INVARIANTS TypeOK IssueFactsExplained FactsTraceable CleanIdsUnique RoutedOnce SuccessIsAudited UndisturbedReloadIsExact
PROPERTIES AuditTrailGrows OnlyReloadsChange LedgerSpec
CHECK_DEADLOCK FALSE
