SPECIFICATION Spec
CONSTANTS
  k = k  j = j  old = old  new = new  idp = idp  us = us  acme = acme
  w1 = w1  w2 = w2  none = none
  Workers <- MCWorkers
  Contents <- MCContents
  Tokens <- MCTokens
  Issuer = idp
  Audience = us
  Second = 1
  MaxMtime = 2
  MaxClock = 1
  None = none
INVARIANTS TypeOK
PROPERTIES AcceptJustified RefusalJustified RaiseJustified Converges
