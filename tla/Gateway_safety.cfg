SPECIFICATION GatewaySpec
CONSTANTS
    u1 = u1
    u2 = u2
    i1 = i1
    i2 = i2
    k1 = k1
    k2 = k2
    k3 = k3
    r1 = r1
    r2 = r2
    Users = {u1, u2}
    Signing = {u1}
    PublicIds = {i1, i2}
    Tokens = {k1, k2, k3}
    Requests = {r1, r2}
    NoToken = NoToken
    NoId = NoId
    NoUser = NoUser
    AccessTtl = 1
    RefreshTtl = 1
    Attempts = 2
    MaxTime = 1
    Served <- MCServed
    Max <- MCMax
SYMMETRY Symmetry
INVARIANTS
    GatewayTypeOK
    OneLiveToken
    NoErrorIsUnknown
PROPERTIES
    LifecycleSpec
    PublicIdsStay
    StrangersSpendNothing
