SPECIFICATION CalcSpec
CONSTANTS
    Coordinate <- Grid
    MaxPoints = 3
    Reading <- Beyond
    ConditionTag = {t1, t2}
    Setpoint = {0}
    Unavailable = Unavailable
    MaxConditions = 3
    TagNumber <- Numbers
INVARIANTS CalibrationIsSound
PROPERTY KnownIsFinal
