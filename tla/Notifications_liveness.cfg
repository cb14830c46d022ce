SPECIFICATION LiveSpec
CONSTANTS
    a1 = a1
    a2 = a2
    AlertIds = {a1, a2}
    Channels = {1}
    Kind <- OneSlack
    Options <- OnOrOff
    RetryWaits <- OneWait
    Batch = 1
    MaxRows = 2
    None = None
CHECK_DEADLOCK FALSE
PROPERTY EverySettles
