------------------------------- MODULE RoomTree -------------------------------
(***************************************************************************)
(* The room tree of the server: the rooms and memberships of ServerState   *)
(* (state.rs), the rooms tree of the sled store (persistence.rs), and the  *)
(* room handlers (handlers.rs, ops.rs) that change both.                   *)
(*                                                                         *)
(* Every method of ServerState takes the state_data lock once and is one   *)
(* atomic step.  A handler calls several of them with awaits in between,   *)
(* so a handler is a task that takes several steps, and the tasks of two   *)
(* connections (or of a connection and the web admin API) interleave.      *)
(* Each sled call is one atomic step as well: get_room and save_room are   *)
(* two calls.  The server may crash between any two steps.                 *)
(***************************************************************************)
EXTENDS Naturals, FiniteSets

CONSTANTS
    RoomIds,      \* the UUIDs that may be drawn, Root included
    Root,         \* ROOT_ROOM_UUID
    Users,        \* users that may be online
    Offline,      \* "no membership entry"
    Labels,       \* names and descriptions a room may carry
    NewLabel,     \* the label Root and new rooms start with
    Tasks         \* connections and admin calls that run handlers

ASSUME RootIsRoom == Root \in RoomIds
ASSUME LabelAssumption == NewLabel \in Labels
ASSUME OfflineIsNoRoom == Offline \notin RoomIds

VARIABLES
    parent,   \* data.rooms: live room -> its parent (Root is its own parent)
    label,    \* data.rooms: live room -> name/description
    member,   \* data.memberships: user -> room, or Offline
    store,    \* the sled "rooms" tree: room -> persisted record
    lastRoom, \* the last_room field of a registered user's record
    used,     \* UUIDs already drawn (Uuid::new_v4 never repeats one)
    task,     \* the handler each task is in, and how far it got
    raced,    \* history: a move or delete has overlapped another handler, or
              \* the server died after handlers of whatever kind overlapped
    lapped,   \* history: two handlers, of whatever kind, have overlapped
    misplaced \* history: a move took Root away or went to an unknown parent

vars == <<parent, label, member, store, lastRoom, used, task, raced, lapped, misplaced>>
memory == <<parent, label, member>>
history == <<raced, lapped, misplaced>>

Live == DOMAIN parent
Record == [parent : RoomIds, label : Labels]

(* A task's local variables.  "room" and "to" are the handler's two room   *)
(* arguments, "kids" the child snapshot of a delete, "key" the room whose  *)
(* record is being rewritten and "rec" that record, "text" the new label,  *)
(* "who" the user entering a room.                                         *)
Ops == {"idle", "create", "rename", "move", "delete", "join", "login"}
Points == {"start", "insert", "apply", "load", "save", "erase", "enter", "last"}
TaskState ==
    [op : Ops, at : Points, room : RoomIds, to : RoomIds, kids : SUBSET RoomIds,
     key : RoomIds, rec : Record, text : Labels, who : Users \cup {Offline}]
BlankRecord == [parent |-> Root, label |-> NewLabel]
IdleTask ==
    [op |-> "idle", at |-> "start", room |-> Root, to |-> Root, kids |-> {},
     key |-> Root, rec |-> BlankRecord, text |-> NewLabel, who |-> Offline]

TypeOK ==
    /\ Live \subseteq RoomIds /\ Root \in Live
    /\ parent \in [Live -> RoomIds]
    /\ label \in [Live -> Labels]
    /\ member \in [Users -> RoomIds \cup {Offline}]
    /\ DOMAIN store \subseteq RoomIds
    /\ store \in [DOMAIN store -> Record]
    /\ lastRoom \in [Users -> RoomIds]
    /\ used \subseteq RoomIds
    /\ task \in [Tasks -> TaskState]
    /\ raced \in BOOLEAN /\ lapped \in BOOLEAN /\ misplaced \in BOOLEAN

Init ==
    /\ parent = [r \in {Root} |-> Root]
    /\ label = [r \in {Root} |-> NewLabel]
    /\ member = [u \in Users |-> Offline]
    /\ store = [r \in {} |-> BlankRecord]
    /\ lastRoom = [u \in Users |-> Root]
    /\ used = {Root}
    /\ task = [t \in Tasks |-> IdleTask]
    /\ raced = FALSE /\ lapped = FALSE /\ misplaced = FALSE

-----------------------------------------------------------------------------
(* Scheduling: any two handlers may overlap.                               *)

Structural == {"move", "delete"}
Idle(t) == task[t].op = "idle"
Alone(t) == \A s \in Tasks \ {t} : Idle(s)

\* Task t takes up a request; the history notes an overlap, and a structural one.
Start(t, request) ==
    /\ Idle(t)
    /\ task' = [task EXCEPT ![t] = request]
    /\ raced' = (raced \/ /\ ~Alone(t)
                          /\ \E s \in Tasks : task'[s].op \in Structural)
    /\ lapped' = (lapped \/ ~Alone(t))
    /\ UNCHANGED misplaced

Goto(t, point) == task' = [task EXCEPT ![t].at = point]
Done(t) == task' = [task EXCEPT ![t] = IdleTask]

-----------------------------------------------------------------------------
(* CreateRoom *)

\* What Uuid::new_v4 may draw: never an id drawn before or one a room names.
Fresh == {r \in RoomIds \ used : \A x \in Live : parent[x] # r}

\* The bound on rooms: a create starts only while an id is left for it.
IdLeft == Cardinality({s \in Tasks : task[s].at = "insert"}) < Cardinality(Fresh)

\* Faulty variant: the parent is taken as given.
CreateUncheckedParent(t, p) ==
    /\ IdLeft
    /\ Start(t, [IdleTask EXCEPT !.op = "create", !.at = "insert", !.to = p])
    /\ UNCHANGED <<memory, store, lastRoom, used>>

\* room_exists(parent) holds; an unknown parent is refused without effect.
CreateCheckParent(t, p) ==
    /\ p \in Live
    /\ IdLeft
    /\ Start(t, [IdleTask EXCEPT !.op = "create", !.at = "insert", !.to = p])
    /\ UNCHANGED <<memory, store, lastRoom, used>>

\* create_room_with_parent_desc: a fresh UUID under the parent checked earlier.
CreateInsert(t, r) ==
    /\ task[t].op = "create" /\ task[t].at = "insert"
    /\ r \in Fresh
    /\ parent' = [x \in Live \cup {r} |-> IF x = r THEN task[t].to ELSE parent[x]]
    /\ label' = [x \in Live \cup {r} |-> IF x = r THEN NewLabel ELSE label[x]]
    /\ used' = used \cup {r}
    /\ task' = [task EXCEPT ![t].key = r, ![t].at = "save",
                            ![t].rec = [parent |-> task[t].to, label |-> NewLabel]]
    /\ UNCHANGED <<member, store, lastRoom, history>>

-----------------------------------------------------------------------------
(* RenameRoom and SetRoomDescription *)

RenameApply(t, r, l) ==
    /\ r \in Live
    /\ label' = [label EXCEPT ![r] = l]
    /\ Start(t, [IdleTask EXCEPT !.op = "rename", !.at = "load", !.key = r, !.text = l])
    /\ UNCHANGED <<parent, member, store, lastRoom, used>>

-----------------------------------------------------------------------------
(* MoveRoom *)

\* The upward walk of the cycle check: parent links are followed from "from"
\* until a room is unknown or its parent is Root; it passes exactly the rooms
\* that every set closed under such links and holding "from" contains.
WalkClosed(S) == \A x \in S : x \in Live /\ parent[x] # Root => parent[x] \in S

\* Faulty variant: only the new parent itself is looked at.
WalkOneStep(from, to) == from = to

WalkReaches(from, to) ==
    \A S \in SUBSET RoomIds : from \in S /\ WalkClosed(S) => to \in S

\* The refusals come first: into itself, or into its own descendant.  That
\* the room is not Root and the new parent exists is not looked at.
MoveCheck(t, r, p) ==
    /\ p # r
    /\ ~WalkReaches(p, r)
    /\ Start(t, [IdleTask EXCEPT !.op = "move", !.at = "apply", !.room = r, !.to = p])
    /\ UNCHANGED <<memory, store, lastRoom, used>>

\* ServerState::move_room, which takes any parent for any listed room, Root
\* included; "Room not found" ends the handler.
MoveApply(t) ==
    /\ task[t].op = "move" /\ task[t].at = "apply"
    /\ \/ /\ task[t].room \in Live
          /\ parent' = [parent EXCEPT ![task[t].room] = task[t].to]
          /\ task' = [task EXCEPT ![t].at = "load", ![t].key = task[t].room]
          /\ misplaced' = (misplaced \/ task[t].room = Root \/ task[t].to \notin Live)
       \/ /\ task[t].room \notin Live
          /\ UNCHANGED <<parent, misplaced>>
          /\ Done(t)
    /\ UNCHANGED <<label, member, store, lastRoom, used, raced, lapped>>

-----------------------------------------------------------------------------
(* DeleteRoom *)

\* Faulty variant: the children are forgotten.
DeleteNoChildren(t, r) ==
    /\ r \in Live \ {Root}
    /\ Start(t, [IdleTask EXCEPT !.op = "delete", !.at = "apply", !.room = r, !.to = parent[r]])
    /\ UNCHANGED <<memory, store, lastRoom, used>>

\* room_parent_and_children: the snapshot the reparenting loop works from.
DeleteSnapshot(t, r) ==
    /\ r \in Live \ {Root}
    /\ Start(t, [IdleTask EXCEPT !.op = "delete", !.at = "apply", !.room = r,
                    !.to = parent[r], !.kids = {c \in Live : parent[c] = r}])
    /\ UNCHANGED <<memory, store, lastRoom, used>>

\* One round of the loop: move_room(child, new_parent), whose result the
\* code ignores, and then the child's persisted record.
DeleteMoveChild(t, c) ==
    /\ task[t].op = "delete" /\ task[t].at = "apply"
    /\ c \in task[t].kids
    /\ parent' = [x \in Live |-> IF x = c THEN task[t].to ELSE parent[x]]
    /\ task' = [task EXCEPT ![t].at = "load", ![t].key = c]
    /\ UNCHANGED <<label, member, store, lastRoom, used, history>>

\* ServerState::delete_room: drops the room and moves its members to Root.
DeleteApply(t) ==
    LET r == task[t].room IN
    /\ task[t].op = "delete" /\ task[t].at = "apply" /\ task[t].kids = {}
    /\ \/ /\ r \in Live
          /\ parent' = [x \in Live \ {r} |-> parent[x]]
          /\ label' = [x \in Live \ {r} |-> label[x]]
          /\ member' = [u \in Users |-> IF member[u] = r THEN Root ELSE member[u]]
          /\ Goto(t, "erase")
       \/ /\ r \notin Live
          /\ UNCHANGED memory
          /\ Done(t)
    /\ UNCHANGED <<store, lastRoom, used, history>>

\* Faulty variant: the record stays in the store.
DeleteKeepsRecord(t) ==
    /\ task[t].at = "erase"
    /\ Done(t)
    /\ UNCHANGED <<memory, store, lastRoom, used, history>>

\* Persistence::delete_room
DeleteErase(t) ==
    /\ task[t].at = "erase"
    /\ store' = [x \in DOMAIN store \ {task[t].room} |-> store[x]]
    /\ Done(t)
    /\ UNCHANGED <<memory, lastRoom, used, history>>

-----------------------------------------------------------------------------
(* The read-modify-write of a persisted record, and JoinRoom *)

\* What follows the record: the next child of a delete, or the end.
AfterRecord(t) ==
    \/ /\ task[t].op = "delete"
       /\ task' = [task EXCEPT ![t].at = "apply", ![t].kids = @ \ {task[t].key}]
    \/ /\ task[t].op # "delete"
       /\ Done(t)

Patched(t) ==
    IF task[t].op = "rename" THEN [store[task[t].key] EXCEPT !.label = task[t].text]
                             ELSE [store[task[t].key] EXCEPT !.parent = task[t].to]

\* Faulty variant: a delete does not rewrite its children's records.
LoadSkipsChildren(t) ==
    /\ task[t].at = "load"
    /\ \/ /\ task[t].key \in DOMAIN store /\ task[t].op # "delete"
          /\ task' = [task EXCEPT ![t].at = "save", ![t].rec = Patched(t)]
       \/ /\ task[t].key \notin DOMAIN store \/ task[t].op = "delete"
          /\ AfterRecord(t)
    /\ UNCHANGED <<memory, store, lastRoom, used, history>>

\* Persistence::get_room; a room without a record (Root) is not written.
LoadRecord(t) ==
    /\ task[t].at = "load"
    /\ \/ /\ task[t].key \in DOMAIN store
          /\ task' = [task EXCEPT ![t].at = "save", ![t].rec = Patched(t)]
       \/ /\ task[t].key \notin DOMAIN store
          /\ AfterRecord(t)
    /\ UNCHANGED <<memory, store, lastRoom, used, history>>

\* Persistence::save_room
SaveRecord(t) ==
    /\ task[t].at = "save"
    /\ store' = [x \in DOMAIN store \cup {task[t].key} |->
                    IF x = task[t].key THEN task[t].rec ELSE store[x]]
    /\ AfterRecord(t)
    /\ UNCHANGED <<memory, lastRoom, used, history>>

\* The target is looked up in a snapshot of the rooms.
JoinCheck(t, u, r) ==
    /\ member[u] # Offline
    /\ r \in Live
    /\ Start(t, [IdleTask EXCEPT !.op = "join", !.at = "enter", !.room = r, !.who = u])
    /\ UNCHANGED <<memory, store, lastRoom, used>>

\* Authentication picks the first room: the persisted last room while it
\* is still listed, Root otherwise.
LoginCheck(t, u) ==
    /\ member[u] = Offline
    /\ Start(t, [IdleTask EXCEPT !.op = "login", !.at = "enter", !.who = u,
                    !.room = IF lastRoom[u] \in Live THEN lastRoom[u] ELSE Root])
    /\ UNCHANGED <<memory, store, lastRoom, used>>

\* ServerState::set_user_room
Enter(t) ==
    /\ task[t].at = "enter"
    /\ member' = [member EXCEPT ![task[t].who] = task[t].room]
    /\ \/ task[t].op = "join" /\ Goto(t, "last")
       \/ task[t].op = "login" /\ Done(t)
    /\ UNCHANGED <<parent, label, store, lastRoom, used, history>>

\* Persistence::update_user_last_room, for a registered user
RememberRoom(t) ==
    /\ task[t].at = "last"
    /\ \/ lastRoom' = [lastRoom EXCEPT ![task[t].who] = task[t].room]
       \/ UNCHANGED lastRoom
    /\ Done(t)
    /\ UNCHANGED <<memory, store, used, history>>

\* The membership goes when the connection is cleaned up.
Leave(u) ==
    /\ member[u] # Offline
    /\ member' = [member EXCEPT ![u] = Offline]
    /\ UNCHANGED <<parent, label, store, lastRoom, used, task, history>>

-----------------------------------------------------------------------------
(* Crash and restart: load_persisted_rooms over a fresh ServerState. *)

LoadedParent ==
    [r \in DOMAIN store \cup {Root} |-> IF r = Root THEN Root ELSE store[r].parent]
LoadedLabel ==
    [r \in DOMAIN store \cup {Root} |-> IF r = Root THEN NewLabel ELSE store[r].label]

Restart ==
    /\ parent' = LoadedParent
    /\ label' = LoadedLabel
    /\ member' = [u \in Users |-> Offline]
    /\ task' = [t \in Tasks |-> IdleTask]
    /\ raced' = (raced \/ lapped)
    /\ UNCHANGED <<store, lastRoom, used, lapped, misplaced>>

Step(t) ==
    \/ \E r \in RoomIds : CreateInsert(t, r)
    \/ MoveApply(t)
    \/ \E c \in RoomIds : DeleteMoveChild(t, c)
    \/ DeleteApply(t)
    \/ DeleteErase(t)
    \/ LoadRecord(t)
    \/ SaveRecord(t)
    \/ Enter(t)
    \/ RememberRoom(t)

Begin(t) ==
    \/ \E p \in RoomIds : CreateCheckParent(t, p)
    \/ \E r \in RoomIds, l \in Labels : RenameApply(t, r, l)
    \/ \E r, p \in RoomIds : MoveCheck(t, r, p)
    \/ \E r \in RoomIds : DeleteSnapshot(t, r)
    \/ \E u \in Users, r \in RoomIds : JoinCheck(t, u, r)
    \/ \E u \in Users : LoginCheck(t, u)

Next ==
    \/ Restart
    \/ \E u \in Users : Leave(u)
    \/ \E t \in Tasks : Begin(t) \/ Step(t)

Spec == Init /\ [][Next]_vars

-----------------------------------------------------------------------------
(* Properties *)

\* No set of rooms besides Root is closed under the parent link: every room
\* leads to Root or to a parent that does not exist.
Acyclic(par) ==
    \A S \in SUBSET (DOMAIN par \ {Root}) : S # {} => \E r \in S : par[r] \notin S
NoDangling(par) == \A r \in DOMAIN par : par[r] \in DOMAIN par
Healthy(par) == par[Root] = Root /\ NoDangling(par) /\ Acyclic(par)

\* The live tree (the comment of handle_move_room, and the "heal the tree" of
\* apply_delete_room).  The walk of a move keeps out every cycle that does not pass Root,
\* whatever rooms moves name; that is all of health that outlives a move of
\* Root or to an unknown parent, which the handler accepts.
Rooted(par) == Acyclic(par) /\ (~misplaced => Healthy(par))
TreeRooted == Rooted(parent)

\* Creates, renames, joins and logins may overlap freely: as long as no move
\* or delete overlapped another handler (and the server did not die after
\* other overlaps) the tree is rooted and whoever is online is in a room that
\* exists.
MembersPlaced == \A u \in Users : member[u] # Offline => member[u] \in Live
HealthyUnlessRaced == ~raced => TreeRooted /\ MembersPlaced

\* What makes it inductive: while no such overlap happened, a move or delete
\* is alone in flight, so what a task checked is still true when it acts.
TaskSound(t) ==
    /\ task[t].op = "create" /\ task[t].at = "insert" => task[t].to \in Live
    /\ task[t].op \in {"join", "login"} /\ task[t].at = "enter" => task[t].room \in Live
    /\ task[t].op = "move" /\ task[t].at = "apply" => ~WalkReaches(task[t].to, task[t].room)
    /\ task[t].op = "delete" /\ task[t].at \in {"apply", "load", "save"} =>
          /\ task[t].room \in Live \ {Root} /\ task[t].to = parent[task[t].room]
          /\ {c \in Live : parent[c] = task[t].room} =
                IF task[t].at = "apply" THEN task[t].kids ELSE task[t].kids \ {task[t].key}
Solo == \A t \in Tasks : task[t].op \in Structural => Alone(t)
HealthInv ==
    ~raced => TreeRooted /\ MembersPlaced /\ Solo /\ \A t \in Tasks : TaskSound(t)

\* What a crash at this very moment would come back with is a tree too: the
\* records are written child by child and the deleted room's goes last.  Two
\* creates are enough to spoil it: the inner room's record may go first.
ReloadRooted == Rooted(LoadedParent)
SerialReload == ~lapped => ReloadRooted

\* Once no handler is in flight the store holds what the memory holds, so a
\* restart changes no room.  Root alone is not stored: its name, its
\* description and the parent a move may have given it are forgotten.
QuiescentDurable ==
    (\A t \in Tasks : Idle(t)) =>
        /\ DOMAIN LoadedParent = Live
        /\ \A r \in Live \ {Root} : LoadedParent[r] = parent[r] /\ LoadedLabel[r] = label[r]
        /\ ~misplaced => LoadedParent = parent
SerialDurable == ~lapped => QuiescentDurable

\* What makes them inductive: a room's record is the room as the memory has it,
\* except for the one room whose record the handler in flight is rewriting; that
\* handler already holds the record to be, and only a room being erased has a
\* record and no place in the memory.
Current(r) == [parent |-> parent[r], label |-> label[r]]
Writing(t) == task[t].at \in {"load", "save"}
StoreFollows ==
    /\ \A r \in Live \ {Root} :
          (\A t \in Tasks : ~(Writing(t) /\ task[t].key = r)) =>
              r \in DOMAIN store /\ store[r] = Current(r)
    /\ \A r \in DOMAIN store \ Live : \E t \in Tasks : task[t].at = "erase" /\ task[t].room = r
RecordSound(t) ==
    /\ Idle(t) => task[t] = IdleTask
    /\ Writing(t) => task[t].key \in Live
    /\ task[t].at = "load" =>
          /\ task[t].op # "create"
          /\ task[t].key # Root => task[t].key \in DOMAIN store /\ Patched(t) = Current(task[t].key)
    /\ task[t].at = "save" => task[t].rec = Current(task[t].key)
    /\ task[t].at = "erase" => task[t].op = "delete" /\ task[t].room \notin Live
OneHandler == \A s, t \in Tasks : s = t \/ Idle(s) \/ Idle(t)
SerialInv ==
    /\ raced => lapped
    /\ ~lapped => /\ TreeRooted /\ MembersPlaced /\ OneHandler /\ ReloadRooted /\ StoreFollows
                  /\ \A t \in Tasks : TaskSound(t) /\ RecordSound(t)

\* Every room in memory or in the store was drawn once, and Root, which
\* load_persisted_rooms skips, is neither written to the store nor deleted.
StoreSound ==
    /\ Live \subseteq used
    /\ DOMAIN store \subseteq used \ {Root}
    /\ \A t \in Tasks : task[t].at = "save" => task[t].key \in used \ {Root}
    /\ \A t \in Tasks : task[t].op = "delete" => task[t].room # Root

\* Unless a move or delete was overlapped, a step never takes away a room
\* that still has children: apply_delete_room moved all of them up before.
\* A restart (every task idle again) may drop a room that was not saved yet.
OnlyLeavesVanish ==
    [][~raced' => \A r \in Live \ DOMAIN parent' :
          \/ \A t \in Tasks : task'[t] = IdleTask
          \/ \A c \in Live : parent[c] # r]_vars
=============================================================================
