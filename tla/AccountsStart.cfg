SPECIFICATION FairSpec
CONSTANTS
  alpha = alpha
  beta = beta
  gamma = gamma
  admin = admin
  eve = eve
  EVE = EVE
  demo = demo
  other = other
  None = None
  Clients = {c1}
  Containers = {k1, k2, k3}
  Slugs <- MCSlugs
  Emails <- MCEmails
  Normalized <- MCNormalized
  Passwords <- MCPasswords
  SeedTenants <- MCSeedTenants
  SeedAccounts <- MCSeedAccounts
  SeedPassword = demo
  SeedEnabled = TRUE
  ScriptTenants <- MCScriptTenants
  ScriptAccounts <- MCScriptAccounts
  Requests <- MCRequests
  MaxRequests = 0
PROPERTIES StartsSettle
CHECK_DEADLOCK FALSE
