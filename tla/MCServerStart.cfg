SPECIFICATION Spec
CONSTANTS
    NumChannels = 2
    Analog = {0}
    channel1 = channel1
    channel2 = channel2
    Tag = {channel1, channel2}
    Item = {"default", "edited"}
    Calibration = {"good", "bad"}
    Unusable = {"bad"}
    Configs <- Configurations
    Request = {r1, r2}
    MaxRequests = 2
    None = None
    Migration = {1, 2}
    Fragile = {2}
    Needed = {1, 2}
    DefaultTag <- DefaultTags
    DefaultItem = "default"
    DefaultConfig <- Default
    MaxCrashes = 2
CHECK_DEADLOCK FALSE
INVARIANT Inv
PROPERTIES MutationsAreExact StartKeepsData IntactServerServes
