CONSTANTS
    None = None
    Blank = Blank
    r1 = r1
    r2 = r2
    c1 = c1
    c2 = c2
    x1 = x1
    k1 = k1
    k2 = k2
    e1 = e1
    p1 = p1
    Names = {r1}
    Consumers = {c1}
    ClientIds = {}
    SecretNames = {k1}
    DefaultSecret <- MCDefaultSecret
    ClientSecrets = {p1, p2, p3, p4, p5, p6, p7}
    Fqdns = {f1, f2}
    ServiceIds = {i1, i2, i3}
    Operators = {o1}
    LateWrites = FALSE
    MaxFaults = 0
    UserSpecs <- LiveSpecs
    Deletable = {r1}
    UserData = {}
    UserSecretTypes = {}
    Resyncs = TRUE
    MaxBirths = 1
    MaxGen = 2
    MaxTampers = 1
    MaxCrashes = 0
SPECIFICATION FairSpec
INVARIANTS TypeOK
PROPERTIES DeletionCompletes FqdnFollowed RejectionReported
CHECK_DEADLOCK FALSE
