SPECIFICATION MCSpec
CONSTANTS
    Root = Root
    r1 = r1
    r2 = r2
    r3 = r3
    RoomIds = {Root, r1, r2, r3}
    Users = {u1}
    Offline = Offline
    Labels = {old, new}
    NewLabel = old
    Tasks = {t1, t2}
SYMMETRY RoomSymmetry
INVARIANTS HealthyUnlessRaced SerialReload SerialDurable
PROPERTY OnlyLeavesVanish
