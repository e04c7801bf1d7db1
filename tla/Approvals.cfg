SPECIFICATION Spec
CONSTANTS
  None = None
  ann = ann  bob = bob  cyd = cyd
  a1 = a1  s1 = s1  c1 = c1  p1 = p1  t1 = t1  t2 = t2
  Operators <- MCOperators
  Agents = {a1}
  Payloads = {p1}
  Kinds <- MCKinds
  SiteOf <- MCSiteOf
  ClientOf <- MCClientOf
  InitialAccount <- MCInitialAccount
  MayBecome <- MCMayBecome
  PolicyTerms <- MCPolicyTerms
  MaxOpenRequests = 1
  MaxOpenOverrides = 1
  MaxOutstanding = 1
  OverrideTtl = 1
  InitialPolicies <- MCInitialPolicies
  Askers = {ann}
  Slots <- MCSlots
  MaxClock = 1
  Bounds <- MCBounds
INVARIANTS
  AuthorizedCommand
PROPERTIES
  NeverRevived
CHECK_DEADLOCK FALSE
SYMMETRY Symmetry
