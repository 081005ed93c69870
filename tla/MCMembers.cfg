SPECIFICATION Spec
CONSTANTS
    None = None
    Scopes = {"identity", "admin"}
    Users = {u1, u2, u3}
    Requests = {p1, p2}
    Instances = {i1, i2}
    MaxRows = 2
    Merges = TRUE
    SuperRole = SuperRole
    email = email
    mini = mini
    web = web
    Password = password
    WeChat = wechat
SYMMETRY Symmetry
INVARIANTS
    TypeOK
    GateOpensWithOwner
PROPERTIES
    LostOnlyWhenOvertaken
    SuperAdminKept
CHECK_DEADLOCK FALSE
