SPECIFICATION Spec
CONSTANTS
  k1 = k1  acme = acme  root = root  s0 = s0  s1 = s1  s2 = s2
  w1 = w1  w2 = w2  a1 = a1  blank = blank  none = none
  Ids <- MCIds
  Tenants <- MCTenants
  Secrets <- MCSecrets
  Blank = blank
  None = none
  StaticKeys <- MCStatic
  CoarseMtime = FALSE
  Workers <- MCWorkers
  Supplied <- MCSupplied
  Admins <- MCAdmins
  Requests <- MCRequests
  InitContents <- MCInitContents
  Faults = TRUE
  MaxMtime = 3
INVARIANTS RevokedKeyRefused ValidKeyAccepted
SYMMETRY Threads
