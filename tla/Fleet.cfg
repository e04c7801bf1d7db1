SPECIFICATION FleetSpec
CONSTANTS
  None = None
  r1 = r1  r2 = r2  x = x  y = y  z = z
  v1 = v1  v2 = v2  k1 = k1  k2 = k2  c1 = c1  c2 = c2  n1 = n1
  m1 = m1  m2 = m2
  Machines = {m1, m2}
  EnrollmentTokens = {1, 2}
  TokenTerms <- MCTokenTerms
  MaxUses = 2
  MaxExpiry = 2
  InstallerTTL = 1
  Handlers = {1, 2}
  Releases = {r1, r2}
  Agents = {x, y, z}
  ReleaseTerms <- MCReleaseTerms
  Percents = {5, 50, 100}
  MaxDispatch = 1
  Bucket <- MCBucket
  Endpoint <- MCEndpoint
  InitialVersion <- MCInitialVersion
  Silent = {z}
  Slots = {1, 2}
  Budgets <- MCBudgets
  Regions = {"eu", "us"}
  RelayKeys = {k1, k2}
  CommandKeys = {c1, c2}
  Listing <- MCListing
  RegionOf <- MCRegionOf
  FirstKey <- MCFirstKey
  EnrolledKey = c1
  Nonces = {n1}
  ClockSkew = 1
  MaxForwardAge = 2
  ReceiptRetention = 3
  MaxStall = 1
  ManifestTTL = 2
  MaxRoutes = 2
  KeyLifetimes = {4}
  CooldownInitial = 1
  CooldownMax = 2
INVARIANTS
  OneUpdatePerAgent
  FailuresHalt
  ForwardedOnce
  AgentInReach
  EnrollmentsAccounted
PROPERTIES
  HaltHolds
CHECK_DEADLOCK FALSE
