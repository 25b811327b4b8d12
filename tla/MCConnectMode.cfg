SPECIFICATION Spec
CONSTANTS
    Debounce = 1
    StaticHold = 2
    DHCPHold = 4
    ModeTimeout = 5
    MaxPresses = 3
    MaxTime = 9
    Jumps <- ForwardAndBack
    None = None
INVARIANTS Inv CommandsInOrder
PROPERTY PressIsNotMissed
