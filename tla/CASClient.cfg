CONSTANTS
    None = None
    Blank = Blank
    Error = Error
    Worker = Worker
    a1 = a1
    a2 = a2
    c1 = c1
    c2 = c2
    j1 = j1
    j2 = j2
    j3 = j3
    Names = {r1}
    Consumers = {c1, c2}
    ClientIds = {}
    SecretNames = {k1}
    DefaultSecret <- MCDefaultSecret
    ClientSecrets = {p1}
    Fqdns = {f1}
    ServiceIds = {i1, i2, i3}
    Requests <- MCRequests
    ForeignServices <- MCForeignServices
    MaxFaults = 1
SPECIFICATION Spec
INVARIANTS ListDecodable ParamsRegistered
PROPERTIES ImplementsBackend
