SPECIFICATION MCSpec
CONSTANTS
    Hosts = {h1, h2}
    Pods = {p1}
    StaleAfter = 1
    Window = 1
    Trigger = 1
    MaxLate = 1
    MaxRestarts = 1
    ChangesWithRule = 0
    MaxChanges = 2
    MaxTime = 4
    None = None
INVARIANTS
    NeverOvercounted
PROPERTIES
    
    GoneResolves
