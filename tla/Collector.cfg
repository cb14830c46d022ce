CONSTANTS
    Collectors = {c1, c2}
    Migrations = 3
    Tables = 3
    FileRules = {fromFile}
    Heartbeats = {}
    Heartbeat = heartbeat
    MaxFailures = 2
    RuleNames = {site, api}
    URLs = {u1, u2}
    NoRule = NoRule
    MaxClock = 2
    Names = {alice, bob}
    Checks = {k1, k2, k3}
    LoginLimit = 3
    LoginWindow = 3
    PruneAbove = 1
    NoCheck = NoCheck
    Readings <- MCReadings
    Versions = {v1}
    UpWindow = 1
    CustomWindow = 1
    MaxTicks = 4
    MaxMoved = 2
    MaxSent = 2
    Unread = Unread
    Absent = Absent
    Samples = {p1, p2}
    Days = {1, 2, 3, 5}
    Minute = 2
    Hour = 5
    Day = 10
    MinuteWindow = 1
    HourWindow = 3
    MaxAge = 6
    MaxPoints = 4
    DefaultMaxPoints = 3
    NotGiven = NotGiven
    ChartEnds = {1, 3, 7, 12}
    m1 = m1
    m2 = m2
    m3 = m3
    d1 = d1
    d2 = d2
    DeviceOf <- MCDeviceOf
    Fits <- MCFits
    MinSamples = 2
    Horizon = 8
    ForecastTTL = 2
    NotFilling = NotFilling
    ErrNotFound = ErrNotFound
    NodeNames = {n1}
    WorkloadIds <- MCWorkloadIds
    PodIds <- MCPodIds
    NodeForms <- MCNodeForms
    WorkloadForms <- MCWorkloadForms
    PodForms <- MCPodForms
    NotSet = NotSet
    NotThere = NotThere

SPECIFICATION MCSpec
INVARIANTS
    MigratedInOrder
    DeletedStaysDeleted
    
    
    RatesTrue
    PagesShowNewest
    ChartShows
    ForecastsAgree
    RulesSeePage
PROPERTIES
    StartsServe

CHECK_DEADLOCK FALSE
