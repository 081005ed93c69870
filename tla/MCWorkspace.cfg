SPECIFICATION Spec
CONSTANTS
    None = None
    Nodes = {n1, n2}
    n1 = n1
    n2 = n2
    Clients = {b1, b2}
    Editor = b1
    MaxVersion = 2
    Tasks = {t1, t2, t3}
    Savers = {b1}
    Clicked = {t1, t2}
    MaxGeneration = 2
    MaxVisits = 2
    Requests = {p1, p2}
    Cleaners = {k1}
    Declared = {o1, o2}
    bad = bad
    Poster = poster
    Instances = {i1, i2}
    Providers = {p, op}
    Channels = {c, oc}
    Models = {m, f, om, on}
    Owner <- SmallOwner
    RateOf <- SmallRateOf
    Name <- SmallName
    Official = {op, oc, om, on, rom, ron}
    Bundles <- SmallBundles
    Adapters = {"a", "b"}
    AuthMethods = {"key"}
    Bundle <- SmallBundle
    InUse <- SmallInUse
    i1 = i1
    i2 = i2
    op = op
    oc = oc
    om = om
    on = on
    p = p
    c = c
    m = m
    f = f
    rm = rm
    rf = rf
    rom = rom
    ron = ron
    MaxEpoch = 3
    MaxHead = 3
    Works = {w1, w2, w3}
    Concurrency = 2
    Convs = {v1, v2}
    v1 = v1
    Turns = {q1, q2}
    MaxLoads = 2
INVARIANTS
    TypeOK
    AcyclicUnlessRaced
    
    NewestResultShown
    LiveTaskFollowed
    ObjectsAccountedFor
    CatalogServes
    ChatAgrees
    CapKept
PROPERTIES
    ShownMovesForward
    ExpiredStaysExpired
CHECK_DEADLOCK FALSE
