\* Two configurations, two mutations at a time, one version that is invalid.
SPECIFICATION FairSpec
CONSTANTS
    Id = {i1, i2}
    Request = {r1, r2}
    MaxVersion = 5
    Invalid = {2}
INVARIANTS Inv SettledAgrees
PROPERTIES DeadStayDown RouterCatchesUp
CHECK_DEADLOCK FALSE
