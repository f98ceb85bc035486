SPECIFICATION Spec
CONSTANTS
    Root = Root
    a = a
    b = b
    Unknown = Unknown
    traverse = traverse
    speak = speak
    kick = kick
    default = default
    staff = staff
    RoomIds = {Root, a, b}
    Groups = {default, staff}
    Default = default
    RoomPerms = {traverse, speak}
    ServerPerms = {kick}
    Traverse = traverse
    Trees <- MCTrees
    Acls <- MCAcls
    Masks <- MCMasks
INVARIANTS LastWordWins EffectiveIsReference
PROPERTY EvaluationEnds
CHECK_DEADLOCK FALSE
