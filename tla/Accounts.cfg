SPECIFICATION Spec
CONSTANTS
  alpha = alpha
  beta = beta
  gamma = gamma
  admin = admin
  eve = eve
  EVE = EVE
  demo = demo
  other = other
  None = None
  Clients = {c1, c2}
  Containers = {k1, k2}
  Slugs <- MCSlugs
  Emails <- MCEmails
  Normalized <- MCNormalized
  Passwords <- MCPasswords
  SeedTenants <- MCSeedTenants
  SeedAccounts <- MCSeedAccounts
  SeedPassword = demo
  SeedEnabled = TRUE
  ScriptTenants <- MCScriptTenants
  ScriptAccounts <- MCScriptAccounts
  Requests <- MCRequests
  MaxRequests = 3
SYMMETRY Symmetry
INVARIANTS TypeOK SeedIsWhole ServingIsSeeded AdminsStayHome RefusalsAreRight
PROPERTIES RegistrySpec
CHECK_DEADLOCK FALSE
