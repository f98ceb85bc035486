SPECIFICATION MCSpec
CONSTANTS
    c1 = c1
    c2 = c2
    p = p
    q = q
    None = None
    Conns = {c1, c2}
    Controllers = {c1}
    Superusers = {c2}
    Parts = {p, q}
    Identity <- SameIdentity
CHECK_DEADLOCK FALSE
INVARIANTS PluginsToldOnce SoundUnlessCollided SoleUnlessCollided
PROPERTY ClosedGoes
