CONSTANTS
    MaxItems = 0
    MaxSound = 3
    MaxCutItems = 0
SPECIFICATION PathSpec
INVARIANT MaxPowerIsMilliamps
CHECK_DEADLOCK FALSE
