SPECIFICATION Spec
CHECK_DEADLOCK FALSE
CONSTANTS
  t1 = t1  t2 = t2  m1 = m1  m2 = m2  m3 = m3  b1 = b1  b2 = b2  none = none
  chat = chat  list = list
  None = none
  Listing = list
  Configs <- MCConfigs
  Requests <- MCRequests
INVARIANTS RequiredLinks DenialsAreDue RulesAreObeyed ListedIsRedacted
