------------------------------- MODULE StateSync -------------------------------
(***************************************************************************)
(* How a client keeps a copy of the server's rooms, users and groups.      *)
(*                                                                         *)
(* Server: a handler changes the state, then hashes the rooms and users,   *)
(* then sends the change and the hash; several handlers do so at once and  *)
(* no lock spans the three steps.  A client that asks for it is sent the   *)
(* whole state, read and sent in the same way.                             *)
(*                                                                         *)
(* Client: the receiver task turns each frame into events on the room      *)
(* channel, a ring that drops its oldest event when full; the projection   *)
(* task applies them, compares hashes and asks for the whole state when    *)
(* they differ or events were dropped.  Connection events travel on a      *)
(* channel of their own, in no order with the room events.                 *)
(*                                                                         *)
(* One client, Me, is followed.  A room's label stands for its name,       *)
(* parent, description and rules, a user's record for room and server      *)
(* mute.  Hashes are the hashed values themselves.                         *)
(***************************************************************************)
EXTENDS Naturals, Sequences, FiniteSets

CONSTANTS
    Root, Rooms,    \* the room that always exists, the other rooms
    NoSpeak,        \* rooms whose rules deny SPEAK
    Me, Others,     \* user_ids: the client followed, other clients
    Labels,         \* what a room may look like
    Groups, Bits,   \* group names, permission sets
    Handlers,       \* tasks that serve other clients and the web admin
    Own,            \* the task that serves Me
    Capacity,       \* EVENT_BROADCAST_CAPACITY
    MaxOps,         \* bound: operations the handlers carry out
    None            \* absent user or group, unknown room

ASSUME SyncConstants ==
    /\ Root \notin Rooms /\ NoSpeak \subseteq Rooms /\ Me \notin Others
    /\ Own \notin Handlers /\ Capacity \in Nat \ {0} /\ MaxOps \in Nat
    /\ None \notin Rooms \cup {Root} /\ None \notin Bits /\ IsFiniteSet(Others)

RoomIds == {Root} \cup Rooms
Users == {Me} \cup Others
Tasks == {Own} \cup Handlers
User == [room : RoomIds, muted : BOOLEAN]

ASSUME NoneIsNoUser == None \notin User

VARIABLES
    srv,        \* the server's rooms, users and groups
    job,        \* per task: updates still to send, what it has read, what it sends
    asked,      \* RequestStateSync messages on their way to the server
    wire,       \* frames on their way to Me
    phase,      \* "auth" while the client waits for its first ServerState
    connected,  \* Connected is waiting on the connection channel
    bus,        \* the room channel
    lagged,     \* events were dropped since the projection last received
    view,       \* State: rooms, users, group_definitions
    me,         \* my_user_id is known; my_room_id
    audio,      \* what the audio task was told: room members, server mute
    ops,        \* operations started, counted from any number to bound some runs more
    early,      \* history: a room event was applied before Connected
    strays,     \* history: users the audio task was told of although State has not got
                \* them, since it was last told the whole list
    settled,    \* history: the last operation began with nothing in flight
    raced       \* history: two operations, or an operation and a snapshot, overlapped

server == <<srv, job, ops, settled, raced>>
client == <<bus, lagged, view, me, audio, connected, early, strays>>
vars == <<srv, job, asked, wire, phase, connected, bus, lagged, view, me, audio, ops,
          early, strays, settled, raced>>

Idle == [todo |-> <<>>, pc |-> "idle", read |-> <<>>]
Copy == [rooms : [RoomIds -> Seq(Labels)], users : [Users -> User \cup {None}],
         groups : [Groups -> Bits \cup {None}]]
HashOf == [rooms : [RoomIds -> Seq(Labels)], users : [Users -> User \cup {None}]]

\* What is announced: an arrival is never muted, and only others leave.
Update ==
    [kind : {"RoomAdded", "RoomEdited"}, room : RoomIds, label : Labels]
        \cup [kind : {"RoomRemoved"}, room : RoomIds]
        \cup [kind : {"UserJoined"}, user : Users, as : [room : RoomIds, muted : {FALSE}]]
        \cup [kind : {"UserLeft"}, user : Others]
        \cup [kind : {"UserMoved"}, user : Users, room : RoomIds]
        \cup [kind : {"Status"}, user : Users, muted : BOOLEAN]
        \cup [kind : {"Group"}, group : Groups, bits : Bits \cup {None}]

\* A snapshot is read for a client that is in a room.
Snapshot == {c \in Copy : c.users[Me] # None}
Frame == [kind : {"update"}, update : Update, hash : HashOf] \cup [kind : {"state"}, state : Snapshot]
Event ==
    Update \cup [kind : {"Full"}, state : Snapshot] \cup [kind : {"SelfMoved"}, room : RoomIds]
        \cup [kind : {"Checkpoint"}, hash : HashOf]
Job == [todo : Seq(Update), pc : {"idle", "send", "place", "full", "state"},
        read : {<<>>} \cup HashOf \cup Copy]

\* A handler holds what it read until it is sent; only Own sends snapshots.
JobSound(t) ==
    /\ job[t].pc = "idle" => job[t].read = <<>>
    /\ job[t].pc = "send" => job[t].read \in HashOf /\ job[t].todo # <<>>
    /\ job[t].pc = "state" => job[t].read \in Snapshot
    /\ job[t].pc \in {"place", "full", "state"} => t = Own

TypeOK ==
    /\ srv \in Copy /\ job \in [Tasks -> Job] /\ \A t \in Tasks : JobSound(t)
    /\ job[Own].pc # "place" => srv.users[Me] # None
    /\ asked \in Nat /\ wire \in Seq(Frame) /\ phase \in {"auth", "up"}
    /\ bus \in Seq(Event) /\ view \in Copy
    /\ me \in [known : BOOLEAN, room : RoomIds \cup {None}]
    /\ audio \in [members : SUBSET Users, muted : BOOLEAN]
    /\ ops \in Nat /\ strays \subseteq Users
    /\ {connected, lagged, early, settled, raced} \subseteq BOOLEAN

\* Nothing is on its way between the server and the client's State.
Quiet ==
    /\ \A t \in Tasks : job[t] = Idle
    /\ asked = 0 /\ wire = <<>> /\ bus = <<>> /\ ~lagged /\ ~connected

\* A room change as it appears in a list of rooms: ids stay unique unless a
\* RoomAdded meets a room that is already there.
Present(s, r) == s.rooms[r] # <<>>
SetFirst(q, l) == IF q = <<>> THEN q ELSE <<l>> \o Tail(q)

\* compute_server_state_hash, state_hash_input: neither groups nor the server's commands are hashed.
HashInput(v) == [rooms |-> v.rooms, users |-> v.users]

Empty ==
    [rooms |-> [r \in RoomIds |-> <<>>], users |-> [u \in Users |-> None],
     groups |-> [g \in Groups |-> None]]

Init ==
    /\ \E l \in Labels, b \in Bits, here \in {{}, Rooms}, on \in SUBSET Others :
          srv = [rooms |-> [r \in RoomIds |-> IF r \in here \cup {Root} THEN <<l>> ELSE <<>>],
                 users |-> [u \in Users |->
                     IF u \in on THEN [room |-> Root, muted |-> FALSE] ELSE None],
                 groups |-> [g \in Groups |-> b]]
    /\ job = [t \in Tasks |-> IF t = Own THEN [Idle EXCEPT !.pc = "place"] ELSE Idle]
    /\ asked = 0 /\ wire = <<>> /\ phase = "auth" /\ connected = FALSE
    /\ bus = <<>> /\ lagged = FALSE
    /\ view = Empty
    /\ me = [known |-> FALSE, room |-> None]
    /\ audio = [members |-> {}, muted |-> FALSE]
    /\ ops \in 0..MaxOps /\ early = FALSE /\ strays = {} /\ settled = TRUE /\ raced = FALSE

-----------------------------------------------------------------------------
(* Server: what the handlers do to the state.  Each Begin action is the part
   of a handler up to its first broadcast; todo are the broadcasts it makes. *)
Begin(t, new, todo) ==
    /\ job[t] = Idle /\ ops < MaxOps
    /\ srv' = new
    /\ job' = [job EXCEPT ![t].todo = todo]
    /\ ops' = ops + 1
    /\ settled' = Quiet
    /\ raced' = (raced \/ \E o \in Tasks \ {t} : job[o] # Idle)
    /\ UNCHANGED <<asked, wire, phase, client>>

CreateRoom(t, r, l) ==
    /\ ~Present(srv, r)
    /\ Begin(t, [srv EXCEPT !.rooms[r] = <<l>>], <<[kind |-> "RoomAdded", room |-> r, label |-> l]>>)

\* Rename, move, description and rules of a room differ in nothing but the label.
EditRoom(t, r, l) ==
    /\ Present(srv, r) /\ srv.rooms[r] # <<l>>
    /\ Begin(t, [srv EXCEPT !.rooms[r] = <<l>>], <<[kind |-> "RoomEdited", room |-> r, label |-> l]>>)

\* The members move to Root, where they may speak; only the room's removal and
\* the change of their mute are announced.
DeleteRoom(t, r) ==
    LET inside == {u \in Users : srv.users[u] # None /\ srv.users[u].room = r}
        unmuted == {u \in inside : srv.users[u].muted}
    IN  /\ Present(srv, r)
        /\ \E order \in [1..Cardinality(unmuted) -> unmuted] :
              /\ \A u \in unmuted : \E i \in DOMAIN order : order[i] = u
              /\ Begin(t, [srv EXCEPT !.rooms[r] = <<>>,
                                      !.users = [u \in Users |->
                                          IF u \in inside THEN [room |-> Root, muted |-> FALSE]
                                                          ELSE srv.users[u]]],
                       <<[kind |-> "RoomRemoved", room |-> r]>> \o
                       [i \in DOMAIN order |-> [kind |-> "Status", user |-> order[i], muted |-> FALSE]])

\* A changed mute is announced before the move that changed it.
JoinRoom(t, u, r) ==
    LET m == r \in NoSpeak
        moved == [kind |-> "UserMoved", user |-> u, room |-> r]
    IN  /\ srv.users[u] # None /\ srv.users[u].room # r /\ Present(srv, r)
        /\ Begin(t, [srv EXCEPT !.users[u] = [room |-> r, muted |-> m]],
                 IF m = srv.users[u].muted THEN <<moved>>
                 ELSE <<[kind |-> "Status", user |-> u, muted |-> m], moved>>)

Arrive(t, u) ==
    LET new == [room |-> Root, muted |-> FALSE]
    IN  /\ srv.users[u] = None
        /\ Begin(t, [srv EXCEPT !.users[u] = new], <<[kind |-> "UserJoined", user |-> u, as |-> new]>>)

Leave(t, u) ==
    /\ srv.users[u] # None
    /\ Begin(t, [srv EXCEPT !.users[u] = None], <<[kind |-> "UserLeft", user |-> u]>>)

ChangeGroup(t, g, b) ==
    /\ srv.groups[g] # b
    /\ Begin(t, [srv EXCEPT !.groups[g] = b], <<[kind |-> "Group", group |-> g, bits |-> b]>>)

\* broadcast_state_update reads and hashes the rooms and users (two locks taken
\* one after the other, here one step) ...
Hash(t) ==
    /\ job[t].pc = "idle" /\ job[t].todo # <<>>
    /\ job' = [job EXCEPT ![t].pc = "send", ![t].read = HashInput(srv)]
    /\ UNCHANGED <<srv, ops, settled, raced, asked, wire, phase, client>>

\* ... and the frame is written whenever the client's stream takes it.
SendUpdate(t) ==
    LET j == job[t]
    IN  /\ j.pc = "send"
        /\ wire' = Append(wire, [kind |-> "update", update |-> Head(j.todo),
                                 hash |-> j.read])
        /\ job' = [job EXCEPT ![t] = [Idle EXCEPT !.todo = Tail(j.todo)]]
        /\ UNCHANGED <<srv, ops, settled, raced, asked, phase, client>>

-----------------------------------------------------------------------------
(* Server: the whole state, for a new client and for one that asked *)
\* The end of handle_authenticate puts the user in a room first.
Place ==
    /\ job[Own].pc = "place"
    /\ \E r \in RoomIds :
          /\ Present(srv, r)
          /\ LET new == [room |-> r, muted |-> FALSE]
             IN  /\ srv' = [srv EXCEPT !.users[Me] = new]
                 /\ job' = [job EXCEPT ![Own].pc = "full",
                                       ![Own].todo = <<[kind |-> "UserJoined", user |-> Me, as |-> new]>>]
    /\ raced' = (raced \/ \E o \in Handlers : job[o] # Idle)
    /\ settled' = Quiet
    /\ UNCHANGED <<ops, asked, wire, phase, client>>

HandleRequestStateSync ==
    /\ job[Own] = Idle /\ asked > 0
    /\ asked' = asked - 1
    /\ job' = [job EXCEPT ![Own].pc = "full"]
    /\ raced' = (raced \/ \E o \in Handlers : job[o] # Idle)
    /\ UNCHANGED <<srv, ops, settled, wire, phase, client>>

ReadState ==
    /\ job[Own].pc = "full"
    /\ job' = [job EXCEPT ![Own].pc = "state", ![Own].read = srv]
    /\ UNCHANGED <<srv, ops, settled, raced, asked, wire, phase, client>>

SendState ==
    LET j == job[Own]
    IN  /\ j.pc = "state"
        /\ wire' = Append(wire, [kind |-> "state", state |-> j.read])
        /\ job' = [job EXCEPT ![Own] = [Idle EXCEPT !.todo = j.todo]]
        /\ UNCHANGED <<srv, ops, settled, raced, asked, phase, client>>

-----------------------------------------------------------------------------
(* Client: the handshake and the receiver task put events on the channels *)
Emit(events) ==
    LET all == bus \o events
        over == IF Len(all) > Capacity THEN Len(all) - Capacity ELSE 0
    IN  /\ bus' = SubSeq(all, over + 1, Len(all))
        /\ lagged' = (lagged \/ over > 0)

\* wait_for_auth_result passes over every frame before the first ServerState.
AwaitState ==
    LET f == Head(wire)
    IN  /\ phase = "auth" /\ wire # <<>>
        /\ wire' = Tail(wire)
        /\ IF f.kind = "state"
           THEN /\ phase' = "up" /\ connected' = TRUE
                /\ Emit(<<[kind |-> "Full", state |-> f.state],
                          [kind |-> "SelfMoved",
                           room |-> IF f.state.users[Me] = None THEN Root ELSE f.state.users[Me].room]>>)
           ELSE UNCHANGED <<phase, connected, bus, lagged>>
        /\ UNCHANGED <<server, asked, view, me, audio, early, strays>>

\* Mutant of Receive: a full state is verified as well, against a hash over its groups too
ReceiveVerifying ==
    LET f == Head(wire)
    IN  /\ phase = "up" /\ wire # <<>>
        /\ wire' = Tail(wire)
        /\ IF f.kind = "state"
           THEN Emit(<<[kind |-> "Full", state |-> f.state], [kind |-> "Checkpoint", hash |-> f.state]>>)
           ELSE Emit(<<f.update, [kind |-> "Checkpoint", hash |-> f.hash]>>)
        /\ UNCHANGED <<server, asked, phase, view, me, audio, connected, early, strays>>

\* handle_server_message and apply_state_update: a pure translation
Receive ==
    LET f == Head(wire)
    IN  /\ phase = "up" /\ wire # <<>>
        /\ wire' = Tail(wire)
        /\ IF f.kind = "state" THEN Emit(<<[kind |-> "Full", state |-> f.state]>>)
           ELSE Emit(<<f.update, [kind |-> "Checkpoint", hash |-> f.hash]>>)
        /\ UNCHANGED <<server, asked, phase, view, me, audio, connected, early, strays>>

-----------------------------------------------------------------------------
(* Client: the projection task *)
InRoom(users, r) == {u \in Users : users[u] # None /\ users[u].room = r}

\* room_user_ids leaves out this client, once it knows its user_id.
Peers(users, r) == InRoom(users, r) \ (IF me.known THEN {Me} ELSE {})

\* What a room event does to the lists of State
Applied(v, e) ==
    CASE e.kind = "Full"        -> e.state
      [] e.kind = "RoomAdded"   -> [v EXCEPT !.rooms[e.room] = Append(@, e.label)]
      [] e.kind = "RoomRemoved" -> [v EXCEPT !.rooms[e.room] = <<>>]
      [] e.kind = "RoomEdited"  -> [v EXCEPT !.rooms[e.room] = SetFirst(@, e.label)]
      [] e.kind = "UserJoined"  -> [v EXCEPT !.users[e.user] = IF @ = None THEN e.as ELSE @]
      [] e.kind = "UserLeft"    -> [v EXCEPT !.users[e.user] = None]
      [] e.kind = "UserMoved"   -> [v EXCEPT !.users[e.user] =
                                       IF @ = None THEN @ ELSE [room |-> e.room, muted |-> @.muted]]
      [] e.kind = "Status"      -> [v EXCEPT !.users[e.user] =
                                       IF @ = None THEN @ ELSE [room |-> @.room, muted |-> e.muted]]
      [] e.kind = "Group"       -> [v EXCEPT !.groups[e.group] = e.bits]
      [] OTHER                  -> v

\* The event moves this client: my_room_id
MovesSelf(e) == e.kind = "SelfMoved" \/ (e.kind = "UserMoved" /\ e.user = Me /\ me.known)
SelfRoom(e) == IF MovesSelf(e) THEN e.room ELSE me.room

\* Mutant of Told: a full state does not tell the audio task its room again
ToldDeltasOnly(v, w, e) ==
    CASE e.kind = "SelfMoved" -> [audio EXCEPT !.members = Peers(w.users, e.room)]
      [] e.kind = "UserJoined" /\ v.users[e.user] = None /\ e.as.room = me.room ->
            [audio EXCEPT !.members = @ \cup {e.user}]
      [] e.kind = "UserLeft" -> [audio EXCEPT !.members = @ \ {e.user}]
      [] OTHER -> audio

\* After a full state: everyone in the client's room, and its mute
ToldAll(w) ==
    [members |-> IF me.room # None THEN Peers(w.users, me.room) ELSE audio.members,
     muted   |-> IF me.known /\ w.users[Me] # None THEN w.users[Me].muted ELSE audio.muted]

\* What the audio task is told: v is State before the event, w after it
Told(v, w, e) ==
    LET here == me.room # None
        was(u) == v.users[u] # None /\ v.users[u].room = me.room
        join(u) == [audio EXCEPT !.members = @ \cup {u}]
        drop(u) == [audio EXCEPT !.members = @ \ {u}]
    IN  CASE e.kind = "Full" -> ToldAll(w)
          [] MovesSelf(e) -> [audio EXCEPT !.members = Peers(w.users, e.room)]
          [] e.kind = "UserJoined" /\ v.users[e.user] = None /\ here /\ e.as.room = me.room -> join(e.user)
          [] e.kind = "UserLeft" /\ here /\ was(e.user) -> drop(e.user)
          [] e.kind = "UserMoved" /\ ~MovesSelf(e) /\ here /\ e.room = me.room -> join(e.user)
          [] e.kind = "UserMoved" /\ ~MovesSelf(e) /\ here /\ e.room # me.room /\ was(e.user) -> drop(e.user)
          [] e.kind = "Status" /\ e.user = Me /\ me.known /\ v.users[Me] # None /\ v.users[Me].muted # e.muted ->
                [audio EXCEPT !.muted = e.muted]
          [] OTHER -> audio

\* apply_room for an event that changes State
ApplyEvent ==
    LET e == Head(bus) w == Applied(view, e)
    IN  /\ ~lagged /\ bus # <<>> /\ e.kind # "Checkpoint"
        /\ bus' = Tail(bus)
        /\ view' = w
        /\ audio' = Told(view, w, e)
        /\ me' = [me EXCEPT !.room = SelfRoom(e)]
        /\ early' = (early \/ ~me.known)
        /\ strays' = IF e.kind = "Full" \/ MovesSelf(e) THEN {}
                     ELSE IF e.kind = "UserMoved" /\ view.users[e.user] = None /\ e.room = me.room
                          THEN strays \cup {e.user} ELSE strays
        /\ UNCHANGED <<server, asked, wire, phase, lagged, connected>>

\* Mutant of VerifyHash: a mismatch is only logged
VerifyHashLogging ==
    /\ ~lagged /\ bus # <<>> /\ Head(bus).kind = "Checkpoint"
    /\ bus' = Tail(bus)
    /\ UNCHANGED <<server, asked, wire, phase, lagged, view, me, audio, connected, early, strays>>

\* verify_state_hash
VerifyHash ==
    /\ ~lagged /\ bus # <<>> /\ Head(bus).kind = "Checkpoint"
    /\ bus' = Tail(bus)
    /\ asked' = IF HashInput(view) = Head(bus).hash THEN asked ELSE asked + 1
    /\ UNCHANGED <<server, wire, phase, lagged, view, me, audio, connected, early, strays>>

\* RecvError::Lagged
OnLag ==
    /\ lagged
    /\ lagged' = FALSE
    /\ asked' = asked + 1
    /\ UNCHANGED <<server, wire, phase, bus, view, me, audio, connected, early, strays>>

\* apply_connection: Connected
ApplyConnected ==
    /\ connected
    /\ connected' = FALSE
    /\ me' = [me EXCEPT !.known = TRUE]
    /\ UNCHANGED <<server, asked, wire, phase, bus, lagged, view, audio, early, strays>>

-----------------------------------------------------------------------------
Operation(t) ==
    \/ \E r \in Rooms, l \in Labels : CreateRoom(t, r, l) \/ EditRoom(t, r, l)
    \/ \E r \in Rooms : DeleteRoom(t, r)
    \/ \E u \in Others : Arrive(t, u) \/ Leave(t, u) \/ \E r \in RoomIds : JoinRoom(t, u, r)
    \/ \E g \in Groups, b \in Bits \cup {None} : ChangeGroup(t, g, b)

OwnOperation == \E r \in RoomIds : JoinRoom(Own, Me, r)

OwnStep == Place \/ HandleRequestStateSync \/ ReadState \/ SendState
Broadcast(t) == Hash(t) \/ SendUpdate(t)
Receiver == AwaitState \/ Receive
Consume == ApplyEvent \/ VerifyHash

Next ==
    \/ \E t \in Handlers : Operation(t)
    \/ OwnOperation \/ OwnStep
    \/ \E t \in Tasks : Broadcast(t)
    \/ Receiver \/ Consume \/ OnLag \/ ApplyConnected

\* The runtimes run every task that is ready, and QUIC delivers what was sent.
\* Consume is strongly fair: a Lagged result moves the reader to the oldest event
\* left, and the next poll takes it unless the ring was overrun once more in
\* between.  Nothing obliges anyone to start another operation.
Fairness ==
    /\ WF_vars(OwnStep) /\ \A t \in Tasks : WF_vars(Broadcast(t))
    /\ WF_vars(Receiver) /\ SF_vars(Consume) /\ WF_vars(OnLag) /\ WF_vars(ApplyConnected)

Spec == Init /\ [][Next]_vars /\ Fairness

-----------------------------------------------------------------------------
\* Divergence heals: once the server carried out an operation with nothing else
\* in flight, and everything it caused has arrived, the client's rooms and users
\* are the server's, whatever went wrong before; and groups, which no hash
\* covers, agree as long as handlers never overlapped (broadcast_state_update,
\* verify_state_hash, handle_request_state_sync).
Healed ==
    Quiet /\ phase = "up" =>
        /\ settled => HashInput(view) = HashInput(srv)
        /\ ~raced => view.groups = srv.groups

\* The audio task's room members are the users the client shows in its room,
\* and it holds the mute the client shows, although it is told of changes only
\* (apply_room's AudioCommands), in whatever order, twice or not at all the
\* changes come.  Two exceptions: a UserMoved is told although State has not got
\* the user, and the mute is right only if the client knew its user_id before
\* the first snapshot, which names the user the mute is read from.
AudioFollows ==
    me.room # None =>
        /\ audio.members \ ({Me} \cup strays) = InRoom(view.users, me.room) \ ({Me} \cup strays)
        /\ ~early /\ view.users[Me] # None => audio.muted = view.users[Me].muted

\* What makes them inductive.  Before its first snapshot the audio task is not
\* muted, as the arrival that comes before it, if at all, is not.
AudioInv ==
    /\ AudioFollows
    /\ ~early /\ view.users[Me] = None => ~audio.muted
    /\ ~early /\ view.users[Me] # None => audio.muted = view.users[Me].muted

\* While the client waits for its first snapshot, that snapshot is on its way.
Awaited ==
    phase = "auth" => \/ job[Own].pc \in {"place", "full", "state"}
                      \/ \E i \in 1..Len(wire) : wire[i].kind = "state"

\* An operation that began with nothing in flight is followed by frames and
\* events that speak of the state it left, and whatever the client applies last
\* either is that state or is checked against it.
JobFresh(j) == (j.pc = "send" => j.read = HashInput(srv)) /\ (j.pc = "state" => j.read = srv)
FrameFresh(f) == IF f.kind = "state" THEN f.state = srv ELSE f.hash = HashInput(srv)
EventFresh(e) == (e.kind = "Full" => e.state = srv) /\ (e.kind = "Checkpoint" => e.hash = HashInput(srv))
Fresh ==
    settled /\ phase = "up" =>
        /\ \A t \in Tasks : JobFresh(job[t])
        /\ \A i \in 1..Len(wire) : FrameFresh(wire[i])
        /\ \A i \in 1..Len(bus) : EventFresh(bus[i])
        /\ bus # <<>> => bus[Len(bus)].kind \in {"Full", "Checkpoint"}
BeforeLogin ==
    settled /\ phase = "auth" =>
        wire = <<>> /\ job[Own].pc = "place" /\ \A t \in Handlers : job[t] = Idle
Still == (\A t \in Tasks : job[t] = Idle) /\ asked = 0 /\ wire = <<>> /\ bus = <<>> /\ ~lagged
Matches == settled /\ phase = "up" /\ Still => HashInput(view) = HashInput(srv)
HashInv == Awaited /\ Fresh /\ BeforeLogin /\ Matches

\* Groups: the last frame or event on its way that says something of group g, or
\* State if there is none, has what the server has, unless a snapshot is to come.
InTodo(g) ==
    \E t \in Tasks : \E i \in 1..Len(job[t].todo) : job[t].todo[i].kind = "Group" /\ job[t].todo[i].group = g
Frames(f, g) == f.kind = "state" \/ (f.update.kind = "Group" /\ f.update.group = g)
Events(e, g) == e.kind = "Full" \/ (e.kind = "Group" /\ e.group = g)
FrameSays(f, g) == IF f.kind = "state" THEN f.state.groups[g] ELSE f.update.bits
EventSays(e, g) == IF e.kind = "Full" THEN e.state.groups[g] ELSE e.bits
InWire(g) == \E i \in 1..Len(wire) : Frames(wire[i], g)
InBus(g) == \E i \in 1..Len(bus) : Events(bus[i], g)
SnapshotDue == lagged \/ asked > 0 \/ job[Own].pc \in {"place", "full", "state"}
LastFrame(i, g) == Frames(wire[i], g) /\ \A k \in 1..Len(wire) : k > i => ~Frames(wire[k], g)
LastEvent(i, g) == Events(bus[i], g) /\ \A k \in 1..Len(bus) : k > i => ~Events(bus[k], g)
Follows(g) ==
    /\ ~InTodo(g) => \A i \in 1..Len(wire) : LastFrame(i, g) => FrameSays(wire[i], g) = srv.groups[g]
    /\ ~InTodo(g) /\ ~InWire(g) =>
           \A i \in 1..Len(bus) : LastEvent(i, g) => EventSays(bus[i], g) = srv.groups[g]
    /\ ~InTodo(g) /\ ~InWire(g) /\ ~InBus(g) => view.groups[g] = srv.groups[g]
GroupInv ==
    ~raced =>
        /\ \A t, o \in Tasks : job[t] # Idle /\ job[o] # Idle => t = o
        /\ \A t \in Tasks : \A i \in 1..Len(job[t].todo) :
              job[t].todo[i].kind = "Group" => job[t].todo[i].bits = srv.groups[job[t].todo[i].group]
        /\ job[Own].pc = "state" => job[Own].read.groups = srv.groups
        /\ ~SnapshotDue => \A g \in Groups : Follows(g)

\* A mismatch is answered and not asked about again: once no more operations
\* start, the exchange between client and server comes to rest.
Settles == <>[]Quiet
================================================================================
