SPECIFICATION Spec
CONSTANTS
    None = None
    Scopes = {"admin"}
    Users = {u1, u2, u3}
    Requests = {p1, p2}
    Instances = {i1, i2}
    MaxRows = 1
    Merges = TRUE
    SuperRole = SuperRole
    email = email
    mini = mini
    web = web
    Password = password
    WeChat = wechat
SYMMETRY Symmetry
PROPERTIES
    MergeKeepsSuperAdmin
CHECK_DEADLOCK FALSE
