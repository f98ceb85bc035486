SPECIFICATION Spec
CONSTANTS
    MaxConns = 2
    MaxCommands = 3
CHECK_DEADLOCK FALSE
INVARIANT LossIsShown
