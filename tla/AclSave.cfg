SPECIFICATION FairSaveSpec
CONSTANTS
    Root = Root
    r = r
    d = d
    x = x
    e1 = e1
    e2 = e2
    Free = Free
    NoAcl = NoAcl
    Unversioned = Unversioned
    Editors = {e1, e2}
    Rooms = {Root, r}
    Configs = {d, x}
    Default = d
    Crashable = TRUE
INVARIANTS Lockstep AnnouncedIsStored
PROPERTIES NoLostUpdate SaveAnswered
