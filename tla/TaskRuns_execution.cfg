SPECIFICATION FairSpec
CONSTANTS
    RunIds = {r1}
    Calls = {k1}
    Names = {backup}
    Commands = {c1, c2}
    Timeouts = {1}
    PickupWindow = 1
    LostAfter = 1
    EndTries = 2
    OutputLimit = 2
    MaxPrinted = 3
    NoRun = NoRun
    NoCall = NoCall
    NoOffer = NoOffer
INVARIANTS
    CompleteOrTruncated
PROPERTIES
    
    UpdateSparesTask
    ActiveRunsEnd
