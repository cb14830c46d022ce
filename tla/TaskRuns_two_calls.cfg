SPECIFICATION StaticSpec
CONSTANTS
    RunIds = {r1}
    Calls = {k1, k2}
    Names = {backup}
    Commands = {c1}
    Timeouts = {1}
    PickupWindow = 1
    LostAfter = 1
    EndTries = 1
    OutputLimit = 1
    MaxPrinted = 0
    NoRun = NoRun
    NoCall = NoCall
    NoOffer = NoOffer
PROPERTIES
    ClaimedOverRunsAreOver
