SPECIFICATION FairSpec
CONSTANTS
  k1 = k1  acme = acme  root = root  s0 = s0  s1 = s1
  w1 = w1  w2 = w2  blank = blank  none = none
  Ids <- MCIds
  Tenants <- MCTenants
  Secrets <- MCSecrets
  Blank = blank
  None = none
  StaticKeys <- MCStatic
  CoarseMtime = FALSE
  Workers <- MCWorkers
  Contents <- MCContents
  Supplied <- MCSupplied
  MaxMtime = 2
INVARIANTS TypeOK AcceptJustified DenyJustified FreshWhenMtimeMatches IInv
PROPERTIES Converges
