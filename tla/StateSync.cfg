SPECIFICATION MCSpec
CONSTANTS
    Root = Root
    r = r
    u = u
    h1 = h1
    l1 = l1
    l2 = l2
    Me = Me
    Own = Own
    None = None
    Rooms = {r}
    NoSpeak = {r}
    Others = {u}
    Labels = {l1, l2}
    Groups = {g}
    Bits = {bits}
    Handlers = {h1}
    Capacity = 2
    MaxOps = 2
CHECK_DEADLOCK FALSE
INVARIANTS Healed AudioFollows
PROPERTY Settles
