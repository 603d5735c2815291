SPECIFICATION Spec
CHECK_DEADLOCK FALSE
CONSTANTS
  none = none
  None = none
  KnownCodes <- MCKnownCodes
  Requests <- MCRequests
  BackendKey = TRUE
  Redaction = TRUE
  Quotas <- MCQuotas
  AccessLog = TRUE
  AuditFile = TRUE
INVARIANTS TypeOK RecordsAreTrue PatientClientIsAnswered EveryEndIsRecorded QuotaIsDue BackendSeesNoSecret
