SPECIFICATION MCSpec
CONSTANTS
    o1 = o1
    o2 = o2
    s1 = s1
    s2 = s2
    p1 = p1
    r1 = r1
    r2 = r2
    None = None
    Offers = {o1, o2}
    Shares = {s1, s2}
    Paths = {p1}
    Rooms = {r1, r2}
    MaxTasks = 2
CHECK_DEADLOCK FALSE
INVARIANTS DoneIsWhole NothingLeftOver
PROPERTIES FinalIsFinal TransfersEnd
