SPECIFICATION MCSpec
CONSTANTS
    k = k
    g = g
    c1 = c1
    c2 = c2
    a1 = a1
    Banned = Banned
    Sweeper = Sweeper
    Keys = {k}
    Groups = {g, Banned}
    Conns = {c1, c2}
    KeyOf <- OneKey
    Admins = {a1}
    MaxTime = 2
    MaxJobs = 2
    MaxRequests = 3
    Crashes = TRUE
INVARIANTS DecisionsKept NoDanglingMembership SessionsFollow
PROPERTIES BannedStayOut SweepTakesAll
