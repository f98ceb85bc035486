---------------------------------- MODULE Acl ----------------------------------
(***************************************************************************)
(* Permission evaluation: acl::evaluate_identity_permissions builds the    *)
(* room chain from Root to the target over a snapshot of the rooms, and    *)
(* permissions::effective_permissions walks it.  Both are loops; the model *)
(* runs one iteration per step on an input chosen in the initial state, so *)
(* that what holds half-way through a loop can be stated too.              *)
(*                                                                         *)
(* A u32 bit mask is the set of its bits; `granted |= grant` then          *)
(* `granted &= !deny` is union then difference.                            *)
(***************************************************************************)
EXTENDS Integers, Sequences, FiniteSets

CONSTANTS
    RoomIds, Root,      \* rooms of the snapshot
    Unknown,            \* an id no room of the snapshot has
    Groups, Default,    \* group names, "default" among them
    RoomPerms,          \* ALL_ROOM_SCOPED
    ServerPerms,        \* ALL_SERVER_SCOPED
    Traverse,           \* the TRAVERSE bit
    Trees,              \* the parent links to consider, malformed ones too
    Acls,               \* the room ACLs to consider
    Masks               \* the group table: the groups that have one, and their masks

ALL == RoomPerms \cup ServerPerms
Entry == [group : Groups, grant : SUBSET ALL, deny : SUBSET ALL, here : BOOLEAN, subs : BOOLEAN]

ASSUME AclConstants ==
    /\ Root \in RoomIds /\ Unknown \notin RoomIds /\ IsFiniteSet(RoomIds)
    /\ Default \in Groups
    /\ Traverse \in RoomPerms
    /\ Trees \subseteq [RoomIds -> RoomIds \cup {Unknown}]
    /\ \A a \in Acls : /\ a.inherit \in BOOLEAN
                       /\ Len(a.entries) \in Nat
                       /\ \A k \in 1..Len(a.entries) : a.entries[k] \in Entry
    /\ \A g \in DOMAIN Masks : Masks[g] \subseteq ALL

VARIABLES
    parent,     \* input: the rooms' parent links
    acl,        \* input: the persisted ACL of each room
    groups,     \* input: the groups of the evaluated identity
    superuser,  \* input: is_superuser
    target,     \* input: the room asked about
    phase,      \* "climb", "walk" or "done"
    path,       \* rooms climbed so far (from the target up), then the chain
    i, j,       \* the chain position and the entry looked at next
    granted     \* the running permission set, the result once "done"

input == <<parent, acl, groups, superuser, target>>
vars == <<input, phase, path, i, j, granted>>

\* Step 2: the union over the user's groups that have a table entry.
Base == UNION {Masks[g] : g \in groups \cap DOMAIN Masks}

\* Everyone is in "default"; the assigned groups and the verified username
\* come on top.
Init ==
    /\ parent \in Trees
    /\ acl \in [RoomIds -> Acls]
    /\ groups \in {G \in SUBSET Groups : Default \in G}
    /\ superuser \in BOOLEAN
    /\ target \in RoomIds \cup {Unknown}
    /\ phase = "climb" /\ path = <<target>> /\ i = 1 /\ j = 1 /\ granted = {}

-----------------------------------------------------------------------------
(* build_room_chain_owned *)

\* Vec::dedup: the positions that differ from the one before are kept.
Dedup(s) ==
    LET kept == {k \in 1..Len(s) : k = 1 \/ s[k] # s[k - 1]}
    IN  [m \in 1..Cardinality(kept) |->
            s[CHOOSE k \in kept : Cardinality({x \in kept : x <= k}) = m]]

\* Root to target, with Root in front of a chain that did not reach it.
Chain(climbed) ==
    LET down == [k \in 1..Len(climbed) |-> climbed[Len(climbed) + 1 - k]]
    IN  Dedup(IF down[1] = Root THEN down ELSE <<Root>> \o down)

Top == path[Len(path)]
AtTop == Top = Root \/ Top \notin RoomIds
TooLong == Len(path) > Cardinality(RoomIds) + 1

\* One round of the climb.
Climb ==
    /\ phase = "climb" /\ ~superuser
    /\ ~AtTop /\ ~TooLong
    /\ path' = Append(path, parent[Top])
    /\ UNCHANGED <<input, phase, i, j, granted>>

\* Faulty variant: the bound does not end the climb.
ClimbEndsAtRoot ==
    /\ phase = "climb" /\ ~superuser
    /\ AtTop
    /\ path' = Chain(path) /\ phase' = "walk" /\ granted' = Base
    /\ UNCHANGED <<input, i, j>>

\* The climb stops at Root, at an unknown room, or - on a cycle - at the
\* bound; the walk starts from the base permissions.
ClimbEnds ==
    /\ phase = "climb" /\ ~superuser
    /\ AtTop \/ TooLong
    /\ path' = Chain(path) /\ phase' = "walk" /\ granted' = Base
    /\ UNCHANGED <<input, i, j>>

-----------------------------------------------------------------------------
(* effective_permissions *)

\* A room without a stored ACL changes nothing.
AclOf(room) == IF room \in RoomIds THEN acl[room] ELSE [inherit |-> TRUE, entries |-> <<>>]
EntriesOf(k) == AclOf(path[k]).entries
Inherits(k) == AclOf(path[k]).inherit
Applies(e, k) == e.group \in groups /\ (IF k = Len(path) THEN e.here ELSE e.subs)

\* Step 1: the superuser bypass.
Bypass ==
    /\ phase = "climb" /\ superuser
    /\ phase' = "done" /\ granted' = ALL
    /\ UNCHANGED <<input, path, i, j>>

\* Faulty variant: the deny mask is applied before the grant.
GrantLast(e) == (granted \ e.deny) \cup e.grant
Delta(e) == (granted \cup e.grant) \ e.deny

\* One round of the entry loop.
ApplyEntry ==
    /\ phase = "walk"
    /\ j <= Len(EntriesOf(i))
    /\ granted' = IF Applies(EntriesOf(i)[j], i) THEN Delta(EntriesOf(i)[j]) ELSE granted
    /\ j' = j + 1
    /\ UNCHANGED <<input, phase, path, i>>

\* On to the next room, which resets to the base unless it inherits.
NextRoom ==
    /\ phase = "walk"
    /\ j > Len(EntriesOf(i)) /\ i < Len(path)
    /\ Traverse \in granted
    /\ granted' = IF Inherits(i + 1) THEN granted ELSE Base
    /\ i' = i + 1 /\ j' = 1
    /\ UNCHANGED <<input, phase, path>>

\* A room on the way that may not be traversed ends it with nothing.
NotTraversed ==
    /\ phase = "walk"
    /\ j > Len(EntriesOf(i)) /\ i < Len(path)
    /\ Traverse \notin granted
    /\ granted' = {} /\ phase' = "done"
    /\ UNCHANGED <<input, path, i, j>>

\* Faulty variant: the server-scoped bits are kept below Root.
ArriveUnstripped ==
    /\ phase = "walk"
    /\ j > Len(EntriesOf(i)) /\ i = Len(path)
    /\ phase' = "done"
    /\ UNCHANGED <<input, path, i, j, granted>>

\* The target: server-scoped permissions count only at Root.
Arrive ==
    /\ phase = "walk"
    /\ j > Len(EntriesOf(i)) /\ i = Len(path)
    /\ granted' = IF Len(path) > 1 THEN granted \ ServerPerms ELSE granted
    /\ phase' = "done"
    /\ UNCHANGED <<input, path, i, j>>

Next == Climb \/ ClimbEnds \/ Bypass \/ ApplyEntry \/ NextRoom \/ NotTraversed \/ Arrive

Spec == Init /\ [][Next]_vars /\ WF_vars(Next)

-----------------------------------------------------------------------------
(* What the loops compute, said without a loop *)

\* Entry l of room k says something about p and still counts in room n:
\* none of the rooms below k, down to n, has cut its inheritance.
Speaks(k, l, p, n) ==
    /\ l \in 1..Len(EntriesOf(k))
    /\ Applies(EntriesOf(k)[l], k)
    /\ p \in EntriesOf(k)[l].grant \cup EntriesOf(k)[l].deny
    /\ \A m \in k + 1..n : Inherits(m)

\* p is held before entry l of room n: the last entry that speaks about it
\* does not deny it, or nobody speaks and it is a base permission.
Earlier(k, l, n, m) == k < n \/ (k = n /\ l < m)
HeldAt(p, n, m) ==
    \/ /\ p \in Base
       /\ \A k \in 1..n : \A l \in 1..Len(EntriesOf(k)) :
             Earlier(k, l, n, m) => ~Speaks(k, l, p, n)
    \/ \E k \in 1..n : \E l \in 1..Len(EntriesOf(k)) :
          /\ Earlier(k, l, n, m) /\ Speaks(k, l, p, n)
          /\ p \notin EntriesOf(k)[l].deny
          /\ \A x \in 1..n : \A y \in 1..Len(EntriesOf(x)) :
                Earlier(k, l, x, y) /\ Earlier(x, y, n, m) => ~Speaks(x, y, p, n)
HeldAfter(p, n) == HeldAt(p, n, Len(EntriesOf(n)) + 1)

\* Half-way through: the running set is what the entries read so far say.
\* The last entry that speaks about a permission decides it, a deny wins
\* over a grant of the same entry, and inherit_acl = false forgets the
\* rooms above.
LastWordWins ==
    phase = "walk" =>
        \A p \in ALL : p \in granted <=> HeldAt(p, i, j)

\* The result: nothing if a room on the way may not be traversed, the
\* permissions held at the target otherwise, without the server-scoped ones
\* unless the target is Root.
EffectiveIsReference ==
    phase = "done" /\ ~superuser =>
        LET n == Len(path) IN
        granted = IF \A k \in 1..n - 1 : HeldAfter(Traverse, k)
                  THEN {p \in ALL : HeldAfter(p, n) /\ (n = 1 \/ p \notin ServerPerms)}
                  ELSE {}

\* Every evaluation ends, on a cyclic tree too.
EvaluationEnds == <>(phase = "done")
================================================================================
