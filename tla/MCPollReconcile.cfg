SPECIFICATION Spec
CONSTANTS
  None = None
  Tokens = {k1, k2}
  Logicals = {l1}
  Instances = {i1}
  MaxFailover = 1
  MaxAttempts = 0
  MaxRetry = 0
  MaxFaults = 1
  RejectCodes = {"VENDOR_UNAVAILABLE", "VENDOR_REJECTED"}
  PollCodes = {"VENDOR_UNAVAILABLE", "VENDOR_REJECTED"}
INVARIANT PollCanReconcile
CHECK_DEADLOCK FALSE
