CONSTANTS
    None = None
    Blank = Blank
    r1 = r1
    r2 = r2
    c1 = c1
    c2 = c2
    x1 = x1
    k1 = k1
    k2 = k2
    e1 = e1
    p1 = p1
    Names = {r1}
    Consumers = {c1}
    ClientIds = {x1}
    SecretNames = {k1, e1}
    DefaultSecret <- MCDefaultSecret
    ClientSecrets = {p1, p2, p3, p4, p5, p6, p7}
    Fqdns = {f1}
    ServiceIds = {i1, i2, i3}
    Operators = {o1}
    LateWrites = FALSE
    MaxFaults = 1
    UserSpecs <- SwitchSecretSpecs
    Deletable = {r1}
    UserData = {}
    UserSecretTypes = {"Opaque"}
    Resyncs = TRUE
    MaxBirths = 1
    MaxGen = 2
    MaxTampers = 0
    MaxCrashes = 0
SPECIFICATION Spec
INVARIANTS ResultUsable NoOrphanedService QuiescentConsistent
CHECK_DEADLOCK FALSE
