\* Two channels, reconfigured, commanded and read in every order.
SPECIFICATION FairSpec
CONSTANTS
    NumChannels = 2
    TagName = {2}
    ConditionTag = {2}
    Setpoint = {0}
    Unavailable = Null
    None = None
    Configs <- TwoChannels
INVARIANTS Inv ValuesFollow
PROPERTIES ForcedIsPutOut
CHECK_DEADLOCK TRUE
