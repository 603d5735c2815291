SPECIFICATION Spec
CONSTANTS
  k1 = k1  k2 = k2  acme = acme  beta = beta  s1 = s1  s2 = s2  s3 = s3
  a1 = a1  a2 = a2  blank = blank  none = none
  Ids <- MCIds
  Tenants <- MCTenants
  Secrets <- MCSecrets
  Blank = blank
  None = none
  StaticKeys = {}
  CoarseMtime = FALSE
  Admins <- MCOneAdmin
  Requests <- MCBlankRequests
  InitContents <- MCInitContents
  Faults = TRUE
INVARIANTS TypeOK RevokedStaysRevoked
PROPERTIES ImplementsRegistry
