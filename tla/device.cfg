CONSTANTS
    MaxItems = 3
    MaxSound = 6
    MaxCutItems = 1
SPECIFICATION PathSpec
INVARIANTS ReadsStayInside ParsedAsLaidOut CallsNameTheirTarget
PROPERTIES WalkEnds
CHECK_DEADLOCK FALSE
