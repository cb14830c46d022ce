SPECIFICATION AdminsSpec
CONSTANTS
    Users = {ann}
    Tokens = {t1, t2}
    Calls = {k1, k2}
    SessionTTL = 2
    CacheTTL = 1
    CallTime = 0
    MaxPasswords = 2
    MaxTime = 2
    None = None
    disk = disk
    up = up
    ops = ops
    s1 = s1
    s2 = s2
    Slots = {k1, k2}
    RuleForms <- MCRuleForms
    ChannelForms <- TwoSecrets
    Blank = Blank
    MaxRules = 2
    MaxChannels = 2
PROPERTY SecretsKept
