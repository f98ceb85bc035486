SPECIFICATION FairSpec
CONSTANTS
    MaxConns = 2
    MaxCommands = 3
CHECK_DEADLOCK FALSE
INVARIANTS AgreeUnlessCrossed
PROPERTIES StaleTeardownSpares NoLossAfterClose LossNoticed
