SPECIFICATION FairSpec
CONSTANTS
  None = None
  Tokens = {k1, k2}
  Logicals = {l1, l2}
  Instances = {i1}
  MaxFailover = 1
  MaxAttempts = 1
  MaxRetry = 0
  MaxFaults = 1
  RejectCodes = {"VENDOR_UNAVAILABLE"}
  PollCodes = {"VENDOR_UNAVAILABLE"}
PROPERTIES
  OrphansResolved
  InvocationsDecided
CHECK_DEADLOCK FALSE
