SPECIFICATION Spec
CONSTANTS
  None = None
  Tokens = {k1, k2}
  Logicals = {l1, l2}
  Instances = {i1}
  MaxFailover = 2
  MaxAttempts = 1
  MaxRetry = 1
  MaxFaults = 1
  RejectCodes = {"VENDOR_UNAVAILABLE", "VENDOR_REJECTED"}
  PollCodes = {"VENDOR_UNAVAILABLE", "VENDOR_REJECTED"}
SYMMETRY Symmetry
INVARIANTS
  TypeOK
  AtMostOncePerInvocation
  KeysDistinct
  TerminalSettlesLedger
  SuccessHasResult
  RecordedJobsAccountedFor
PROPERTIES
  LeaseFences
  SettledOnce
CHECK_DEADLOCK FALSE
