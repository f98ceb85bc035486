SPECIFICATION FairSpec
CONSTANTS
    u1 = u1
    u2 = u2
    f1 = f1
    d1 = d1
    i1 = i1
    i2 = i2
    r1 = r1
    r2 = r2
    Sweeper = Sweeper
    NoFile = NoFile
    Uploads = {u1, u2}
    Fetches = {f1}
    Leavers = {d1}
    Ids = {i1}
    Rooms = {r1, r2}
    MaxFile = 2
    MaxTotal = 2
CHECK_DEADLOCK FALSE
INVARIANTS Accounted
PROPERTIES KeepsBudget ServedFromItsRoom ExpiredGo
