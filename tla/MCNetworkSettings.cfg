SPECIFICATION NetworkSpec
CONSTANTS
    Call = {c1, c2}
    Address = {a1}
    Nothing = Nothing
    Other = {"lo", "wlan"}
    InitFiles <- Files
    MaxCalls = 3
SYMMETRY Symmetry
INVARIANTS FileIsSound LiveIsConfigured
CHECK_DEADLOCK FALSE
