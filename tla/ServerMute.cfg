SPECIFICATION MCSpec
CONSTANTS
    Root = Root
    a = a
    b = b
    s1 = s1
    s2 = s2
    m1 = m1
    Rooms = {Root, a, b}
    Sessions = {s1, s2}
    Admins = {m1}
    AclWords <- MCWords
INVARIANTS ManualMuteHolds 
