SPECIFICATION Spec
CONSTANTS
    None = None
    Requests = {p1, p2}
    Tokens = {t1, t2}
    Devices = {d1}
    MaxDevices = 1
    Ttl = 2
    CacheTtl = 2
    MaxTime = 3
    Crashes = FALSE
    MaxChallenges = 2
    MaxAttempts = 2
    MaxRecent = 1
    i1 = i1
    i2 = i2
    Rows = {r1}
    MaxId = 2
    Generated = generated
    Given = {given}
    Configs = {c1, c2}
    Secrets = {s1, s2}
    SuperRole = SuperRole
    Admin = Admin
    Auditor = Auditor
    read = read
    edit = edit
    MaxFailover = 3
    MaxRetries = 2
SYMMETRY Symmetry
INVARIANTS
    RevocationInstant
CHECK_DEADLOCK FALSE
