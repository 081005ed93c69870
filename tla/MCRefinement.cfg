SPECIFICATION Spec
CONSTANTS
  None = None
  Tokens = {k1, k2}
  Logicals = {l1, l2}
  Instances = {i1}
  MaxFailover = 1
  MaxAttempts = 1
  MaxRetry = 1
  MaxFaults = 2
  RejectCodes = {"VENDOR_UNAVAILABLE", "VENDOR_REJECTED"}
  PollCodes = {"VENDOR_UNAVAILABLE", "VENDOR_REJECTED"}
SYMMETRY Symmetry
PROPERTIES ImplementsTaskMachine
CHECK_DEADLOCK FALSE
