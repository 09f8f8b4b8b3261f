CONSTANTS
    None = None
    Blank = Blank
    r1 = r1
    r2 = r2
    c1 = c1
    c2 = c2
    x1 = x1
    k1 = k1
    k2 = k2
    e1 = e1
    p1 = p1
    Names = {r1, r2}
    Consumers = {c1, c2}
    ClientIds = {}
    SecretNames = {k1, k2}
    DefaultSecret <- MCDefaultSecret
    ClientSecrets = {p1, p2, p3, p4, p5, p6, p7}
    Fqdns = {f1}
    ServiceIds = {i1, i2, i3}
    Operators = {o1}
    LateWrites = FALSE
    MaxFaults = 0
    UserSpecs <- PairSpecs
    Deletable = {r1}
    UserData = {}
    UserSecretTypes = {"Opaque"}
    Resyncs = FALSE
    MaxBirths = 1
    MaxGen = 1
    MaxTampers = 0
    MaxCrashes = 0
SPECIFICATION Spec
INVARIANTS QuiescentConsistent
PROPERTIES ControlNotStolen WritesOwnService
CHECK_DEADLOCK FALSE
