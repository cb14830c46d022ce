SPECIFICATION FairSpec
CONSTANTS
    Hosts = {web1}
    Tokens = {tok}
    Calls = {c1, c2}
    Uses = 2
    Versions = {1, 2}
    MaxTime = 2
    MaxKeys = 3
    MaxCrashes = 1
    None = None
INVARIANTS
    TokenUses
    KeyOnMachine
PROPERTIES
    ClearsWhenInstalled
    UpdateSettles
