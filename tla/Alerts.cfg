SPECIFICATION MCSpec
CONSTANTS
    r1 = r1
    r2 = r2
    h1 = h1
    a1 = a1
    a2 = a2
    cpu = cpu
    Rules = {r1, r2}
    Configs <- BothNames
    Hosts = {h1}
    Metrics = {cpu}
    Values = {0, 1, 2}
    Thresholds <- Above
    AlertIds = {a1, a2}
    AllHosts = AllHosts
    MaxTime = 6
    None = None
SYMMETRY RowSymmetry
INVARIANTS
    
    OpenWhileBreached
PROPERTIES
    NoticesInOrder
    OpensAfterBreach
    ResolvesAfterCalm
