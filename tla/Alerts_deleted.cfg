SPECIFICATION DeletedSpec
CONSTANTS
    r1 = r1
    r2 = r2
    h1 = h1
    a1 = a1
    a2 = a2
    cpu = cpu
    Rules = {r1}
    Configs <- OneName
    Hosts = {h1}
    Metrics = {cpu}
    Values = {0, 1, 2}
    Thresholds <- Above
    AlertIds = {a1, a2}
    AllHosts = AllHosts
    MaxTime = 5
    None = None
SYMMETRY AlertSymmetry
INVARIANT NoOrphans
