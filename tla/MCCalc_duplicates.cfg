SPECIFICATION CalcSpec
CONSTANTS
    Coordinate <- Grid
    MaxPoints = 3
    Reading <- Beyond
    ConditionTag = {t1, t2}
    Setpoint = {0}
    Unavailable = Unavailable
    MaxConditions = 0
    TagNumber <- Numbers
INVARIANT DuplicatesAreRemoved
