# Rumble: a TLA+ verification of the server and client core

Rumble is a voice-chat system: a QUIC server, a desktop client, a web admin
page and a bridge that lets Mumble clients in. This directory holds TLA+ models
of the parts where several connections, background tasks, threads, the store, the
network and a restart meet, the TLC runs that check them, and the theorems that
TLAPS proves about them. `PROJECT.json` lists components, runs, mutants,
findings, hazards and theorems, and maps every definition to the source lines it
models.

Contents: [the system](#the-system) · [modules](#modules) · [runs](#runs) ·
[disagreements with the code's own words](#disagreements) · [proofs](#proofs) ·
[what is not modelled](#what-is-not-modelled) · [how to run](#how-to-run)

## The system

### How the server works

Every connection has a task that accepts streams and one that reads its control
stream (`server.rs`). The latter decodes an envelope and awaits its handler
(`handlers.rs`), so the handlers of one stream run one after another, and, unless the
client opens a second envelope stream, those of its connection, while
those of different connections interleave at every `await`. The web admin API
calls the same operations (`ops.rs`) from its own tasks, one background task
sweeps expired bans and memberships every minute, and plugins (the file relay)
run a task per stream and a sweep of their own.

State is in four places:

- `ServerState` (`state.rs`): rooms, room memberships and user statuses under one
  `RwLock`; the member table and the sessions in concurrent maps. **Each method
  takes its lock once**, so each method is one atomic step, and a handler is
  several of them.
- `ClientHandle`: per-connection atomics (`authenticated`, `torn_down`,
  `is_controller`, `server_muted`, `manually_server_muted`) and the identity with
  its cached groups.
- `Persistence` (`persistence.rs`): sled trees for rooms, room ACLs, groups,
  memberships, their expiries, bans and registrations. Each sled call is atomic;
  two calls are two steps, and a crash may come between them.
- the file relay's map of files and its atomic byte counter (`relay_plugin.rs`).

What makes this hard to test is the same everywhere: a handler checks something,
lets go of the lock, and acts on what it saw.

### How the client works

`run_connection_task` (`handle.rs`) owns the transport and serves the user's
commands; each connection has a receiver task that turns frames into events on
broadcast channels, and outlives its transport by the lines it runs when the
stream ends. A projection task (`projection.rs`) applies the events to the `State`
the UI draws, compares the server's hash with its own and asks for a full copy
when they differ. `run_audio_task` (`audio_task.rs`) owns the devices and the
encoder; its capture callback runs on a thread of the audio backend. The file
transfer plugin (`file_transfer_relay.rs`) has a table under a lock, a task per
transfer and a watcher per upload. All of them meet only through channels, flags
and that table.

### Inventory

| Component | State | Operations | Meets | Hard because | Correct when |
|---|---|---|---|---|---|
| Room tree | rooms, parents, names, memberships; rooms tree of the store; last room | create, delete (children go to the grandparent), rename, describe, move, join, login's room choice, load at start | ACL walks, mute, broadcast | check-then-act across awaits; several store writes per handler; crash | parents form a tree under Root in memory and in what a restart loads; members are in rooms that exist; the store catches up |
| Permission evaluation | none (a snapshot) | `build_room_chain_owned`, `effective_permissions` | every permission check | must end and be safe on trees that a race has damaged | equals "the last word on the way from Root wins", cut by TRAVERSE |
| Room ACL saving | ACLs in memory and store, write gate, editors' base versions | save, delete room, restart | mute, broadcast | stale editors, failing writes, deletes, crash | no unseen ACL is overwritten; memory = store = what was announced |
| Server mute | two atomics per session | join, SetServerMute, ACL edit, room delete and move, login, group change | ACLs, rooms, voice relay | cached function of four inputs, two atomics | flag = override or no SPEAK |
| Session lifecycle | link, pending auth, member table, sessions, memberships, `torn_down`, owners of participants | hello, authenticate (again, too), takeover, kick, controller hello, (un)register participant, second streams, teardown | plugins, broadcast, rooms | four parties race for one teardown, and with the handlers that are still running | nothing is left behind, one UserLeft, plugins told exactly once, one session per identity |
| Groups and bans | groups, memberships, expiries, ban records, cached groups | set group (timed), ban, create/delete group, login's checks, listing, sweep | sessions, ACLs | time, lazy and eager expiry, two-write operations, crash | the store keeps the latest decision for as long as it was made; sessions follow |
| State broadcast and client projection | server state; the client's copy, its event ring and what its audio task was told | change, hash, send; snapshot; apply, verify, resync | everything | updates reordered against each other and against snapshots; a ring that drops | the copy heals, the audio task agrees with it, the exchange of resyncs ends |
| File relay plugin | files, byte counter | upload, fetch, evict, sweep | sessions, rooms | reservations against eviction and failure; two look-ups of one id | counter = bytes held, within the budget; a fetch serves the room it was allowed |
| Client connection | task, transport, close flag, generation, plugin and its copy, `State.connection` | connect, accept/reject certificate, disconnect, send, teardown, probe, shutdown | audio, projection, UI | receivers that end late; silence that may be a loss | all parts agree on the one connection there is; a loss is noticed, a close is not reported as one |
| Client audio (capture) | wishes, streams, retry flags, baseline, light, queue | every command, health tick, stream errors, send arm, callback | connection, devices | a callback on another thread; devices that come and go | the microphone is live exactly when it may be; receivers hear of the end of a spurt; devices come back |
| Desktop file transfers | table, files on disk, tasks, watchers | download, upload, cancel, room change, announce | file relay, rooms | a name is chosen, recorded and then created; cancels at any point | what is done is whole, nothing is left over, what is final stays |
| Registration; voice relay; chat; elevation; web admin; bridge; UI | see [what is not modelled](#what-is-not-modelled) | | | | |

## Modules

An action is one step of one handler, task or callback: the code between two
points where another task may run. A handler in progress is a record (`task`, `job`,
`save`, `up`, `fetch`, `evict`) with the step it is at and the local variables it
still needs. History variables are named as such in the declarations and are never
read by a guard. A definition that starts with "Faulty variant" is not part of the
specification: it is a plausible slip, used to see that a property notices it.

Each component has its module and an `MC` module that instantiates it for TLC; all
but `Acl` have proofs, in eight modules. `GroupsProofs` extends both `Groups` and
`AclSave`, and `ServerMuteProofs` both `ServerMute` and `Capture`, whose specifications
are therefore named `SaveSpec` and `CaptureSpec`; the two of a pair share no variable.
Where one component has two kinds of
behaviour that would be too many states together, its `MC` module chooses the kind
in the initial state (`mode`, `about`, `side`) and leaves the module's actions as
they are.

**RoomTree** (`MCRoomTree`, `RoomTreeProofs`). `parent`, `label`, `member` are
`ServerState`'s rooms and memberships, `store` the rooms tree, `task` the handlers.
Creates check the parent and insert; moves walk up from the new parent (stopping
below Root, as the code does) and then write; deletes take a snapshot of the
children, promote them one at a time (memory, read record, write record), take the
room away and erase its record. Names and descriptions are one `label`. `Restart`
is a crash followed by `load_persisted_rooms`, which keeps dangling parents as they
are. Permission checks are left free: any request may be allowed. A `MoveRoom` names
any two ids: that the room exists is all the code asks, so a move of Root under another
room, and one to a parent that does not exist, are accepted and stored, although the
comment above the walk (`handlers.rs`, 1334) says that cycles are rejected.
`misplaced` records such a move. What outlives it is what the walk does keep out,
every cycle that does not pass Root (`Rooted`); until it the tree is healthy.
`raced` records that a move or delete overlapped another handler, or that the server
died after handlers of any kind had, `lapped` that any two handlers overlapped.

**Acl** (`MCAcl`). The two loops as a machine: climb from the target to Root with
the visited check, then walk the chain entry by entry. Masks are sets of bits. The
inputs are small trees, among them cycles, self-parents and unknown parents
(which overlapping moves can produce).

**AclSave** (`MCAclSave`, proofs in `GroupsProofs`). `Open` copies what the editor is shown,
`Submit` sends it any time later, `Lock`, `Compare`, `Apply`, `Persist`/`PersistFails`
and `Announce` are `apply_set_room_acl`. A configuration is its own version: the
hash is taken to be injective. Deletes and restarts run against it.

**ServerMute** (`MCServerMute`, `ServerMuteProofs`). `manual` and `muted` are the two
atomics. A recomputation reads SPEAK, reads the override, writes the flag: three
steps. What an ACL says of SPEAK is one word for the room and one for its sub-rooms,
and the rooms on the way from Root have their say in turn (`Above`, `Climbed`). Rooms
move, and a deletion hands a room's children to its parent one by one, takes the room
and its ACL away and visits the members it had listed.
`unchecked` records the sessions whose SPEAK changed in a way after which the code
recomputes nothing: a login, a group change, an ACL edit above their room, a move of
their room or of one above it, a promotion to another parent, the end of a room they
came to late. `crossed` records the sessions at whom two handlers were at
once, or whose mute another handler changed the basis of.

**Session** (`MCSession`, `SessionProofs`). Tasks are `Read(c)`, `Accept(c)` and
`Kick(c)`; a takeover runs in the new connection's read task. `call` is the step of the
`cleanup_client` call a task is in. `told` counts `on_disconnect`, `left` counts
`UserLeft`, `shown` is what the announcements add up to. `Side(c)` is a second envelope
stream: the same handlers with the same `user_id`, but with a handle and an
`is_controller` flag (`ctrl2`) of its own, which no teardown reads. A client may say
hello and authenticate as often as it likes; a refused attempt closes the connection
(`AuthFails`). `collided` records connections whose teardown began while a handler of
theirs was running, handshakes of one identity that overlapped, connections that had a
request handled on a second stream, and controllers that authenticated again.
A connection has one second stream at a time, and authenticates again as the same
identity. A `PendingAuth` is taken only by an `Authenticate`; one that is left when its
connection ends after the hello stays, so `Gone` does not speak of it.

**Groups** (`MCGroups`, `GroupsProofs`). `held`, `expiry`, `banEnd`, `exists` are four sled trees,
`cache` the groups of each connection. Adding, banning, removing, deleting, listing,
logging in and sweeping are jobs over those trees. `now` is the wall clock in units
the expiries use; a job takes the time once, as the code does. `want` records the
latest decision on each key and group, `disputed` the pairs that two jobs or a crash
worked on at once, `blurred` the connections whose key two jobs worked on at once.
"banned" is taken to carry BANNED, whoever created it.

**StateSync** (`MCStateSync`, `StateSyncProofs`). Server side: an operation changes `srv`, and its
updates are hashed and sent in later steps (`broadcast_state_update`), while other
handlers do the same; a snapshot is read and sent by the client's own task. Client
side: `wire` (in order), the receiver, `bus` (the room channel, a ring of `Capacity`
events that drops its oldest), the projection, which keeps `view` and `me`, compares
hashes, asks for the state again, and tells the audio task only differences.
`Connected` travels on a channel of its own. Hashes are the hashed values; groups are
not among them, as in the code. `settled`, `raced`, `early` and
`strays` are history; the last holds the users the audio task was told of while `State`
had not got them.

**ClientConn** (`MCClientConn`, `ClientConnProofs`). A connection is its generation.
`task` is where `run_connection_task` is (it also awaits handshakes), `receiver[g]`
where the receiver of `g` is between the end of its stream and its last line. A link
is up, wedged (kept alive, but the server neither reads nor sends), mute in one direction,
finished by the server, dead, or closed from here. A send on a wedged link goes into a
buffer or waits (task "sending") for as long as the link stays so: it has no timeout.
`audio`, `rooms`, `ft` and `slot` name the connection each part believes in. `crossed`
records that a task fell a whole handshake behind, `hushed` that a teardown was served
before its receiver looked at the flag.

**Capture** (`MCCapture`, proofs in `ServerMuteProofs`). The arms of `run_audio_task` that change
what is captured or played, `sync_transmission` included in every one that ends with
it; opening, reopening and the health tick's recovery of both devices; the queue of
encoded messages with its end-of-spurt markers and the send arm; and the capture
callback, whose look at the active flag, verdict, edge and enqueue are separate steps.
An arm that drops a stream takes two steps, since the drop waits for the callback.
`input_refused` and `output_refused` record a deliberate open that failed while no retry
was due; `output_left` that an undeafen without a connection opened nothing.

**FileRelay, Quota** (`MCFileRelay`, `FileRelayProofs`). Every access to the map and
every load and compare-exchange of the counter is a step. Uploads reserve, read the
body, commit or refund; a refused upload holds its map shard until its client has read
the answer or is gone; fetches
look a file up, await the permission check and look again; the sweep and a disconnect
remove and release. `Quota` is the abstract specification: a budget claimed, handed
over and given back in single steps. `FileRelay` implements it under the mapping
`Held`, which says who accounts for which bytes at each step.

**Transfers** (`MCTransfers`, `TransfersProofs`). The client's table of transfers, downloads from the
click through the choice of a name, `File::create` and the body to the end, uploads
with their watchers, cancel, and room changes. A task that waits for the server
(`FetchWaits`, `UploadWaits`) may wait for ever, unless its token fires. A file on disk is
partial or whole. A
cut-off `File::create` may still make its file later (`late`). `doubled` and `lost` are
history: an offer fetched twice at once; a name deleted, cut off or chosen twice.

### How the modules meet

`ServerMute` takes from `Acl` its result (the last word decides); `RoomTree` takes the
outcome of permission checks as free; `Groups` takes from `Session` only "a connection
has a session or not"; `StateSync` takes the operations of the server as atomic
changes followed by broadcasts, which is what the room, session and mute handlers do;
`Capture` takes connection changes as commands that may come at any time, which covers
whatever `ClientConn` sends; `Transfers` and `FileRelay` meet through answers and
bodies that may end well or badly. The shared state is small enough that composing
them further adds states and no new question; the composition that matters, the same
object worked on by several handlers, is inside each module.

## Runs

| Run | Instance | Checks | Shows |
|---|---|---|---|
| `rooms` | serial: 4 rooms, 2 labels, one handler at a time, a crash anywhere; overlap: 3 rooms, 2 tasks interleaved | `HealthyUnlessRaced`, `SerialReload`, `SerialDurable`, `OnlyLeavesVanish` | a handler keeps the tree a tree at each of its steps, a crash at any of them loads as a tree, and the store has caught up when it ends, but for a move of Root or to an unknown parent, after which there is still no cycle beside Root; creates, renames, joins and logins may overlap, and only moves and deletes that overlap something can hurt |
| `acl_eval` | 3 rooms, 2 groups, 3 bits, five trees of which three are damaged, seven ACLs | `LastWordWins`, `EffectiveIsReference`, `EvaluationEnds` | the evaluation equals its reference and ends, on damaged trees too |
| `acl_save` | 2 editors, 2 rooms, 2 configurations, crashes, failing writes | `Lockstep`, `AnnouncedIsStored`, `NoLostUpdate`, `SaveAnswered` | optimistic concurrency works; the gate is never kept |
| `session` | takeover: 2 connections of one identity, one unkickable; again: the first of them authenticates again; ends: 1 controller, 2 participants; second: 1 connection with a second stream, 1 participant | `PluginsToldOnce`, `SoundUnlessCollided`, `SoleUnlessCollided`, `ClosedGoes` | the teardown race is settled once; nothing is left and one session stays unless a handler was running, a second stream was used or a controller authenticated again; a closed connection's member goes and plugins hear of it |
| `groups` | 1 key, 1 group and "banned", 1 admin, the sweeper, 2 jobs at once, 2 instants; overlap: 1 connection, 3 requests or crashes; return: a second connection after the first is gone, 2 requests or crashes | `DecisionsKept`, `NoDanglingMembership`, `SessionsFollow`, `BannedStayOut`, `SweepTakesAll` | outside collisions on one pair, the store, the sessions and the door follow the latest decision, also for a client that comes back after a `BanUser`, within its term or after it |
| `sync` | 1 client followed, 1 other user, Root and a room without SPEAK, ring of 2, a login during one operation or two operations | `Healed`, `AudioFollows`, `Settles` | whatever was reordered or dropped before, an operation that ran undisturbed leaves the copy equal to the server; the audio task follows; resyncs come to rest |
| `mute` | 1 moderator, Root and 2 rooms, 3 ACLs; serial: 1 session, every operation, any tree; overlap: 2 sessions, 2 handlers at once, one room moved under the other and back | `MuteIsExact`, `ManualMuteHolds` | flag = override or no SPEAK, unless two handlers were at one session or nothing recomputes |
| `relay` | 2 uploads that do not fit together, 1 fetch, 1 disconnect, the sweep, 1 id, 2 rooms, sizes to 2, budget 2 | `Accounted`, `KeepsBudget`, `ServedFromItsRoom`, `ExpiredGo` | the relay implements the atomic budget; expired files go, unless an answer that is never read holds the sweep up |
| `client_conn` | 2 connections, 3 commands, three kinds of link failure and a wedged server | `AgreeUnlessCrossed`, `StaleTeardownSpares`, `NoLossAfterClose`, `LossNoticed` | all parts of the client agree at rest; links that fail are noticed, closes are quiet |
| `client_silent_loss` | the same | `LossIsShown` (violated) | a loss may be taken for a close |
| `capture` | queue of 2 | `MicFollows`, `SilenceIsTold`, `DevicesRecover` | the microphone follows the wishes through any order of commands and faults; devices come back, but for a deliberate open that failed and an undeafen without a connection |
| `transfers` | 2 offers and 2 fetch tasks, or 2 shares of 1 file and 2 rooms | `DoneIsWhole`, `NothingLeftOver`, `FinalIsFinal`, `TransfersEnd` | downloads end whole or clean, whichever of cancel, failure and end comes first; a transfer ends unless its task waits for the server for ever, a cancelled one even then |

**Why these bounds.** A cycle needs two rooms besides Root, a promotion of a child
to a room other than Root needs three; a lost update needs two editors and a second
configuration; a takeover needs two connections, and the parties that race for one
teardown (read loop, accept loop, kick, takeover) are all present with two. The bounds of
`MCSession` limit what clients and kickers do, never the server's tasks. A ban is met by
the connection it closes and by the next one of its key. An expiry
is before, at, or after the instant looked at with two instants and "never". Three
requests are enough for grant, revoke and grant again, for a ban over a timed grant
and for deleting and re-creating a group. Two jobs at once is all that a race between a
check and an act needs. Two operations are what it takes to reorder updates, and a ring
of two overflows on the third event, while one snapshot is several. A reconnect needs
two connections; three commands are connect, disconnect or reconnect, and one more. A
queue of two holds a frame and its end of spurt. Two uploads of a budget's size compete
for it at its limit; one id suffices for an upload refused for a duplicate, an eviction
and a re-upload. Two downloads of one name, or two clicks on one offer, need two tasks.
The theorems below remove most of these bounds for the properties they state.
Symmetry is used in `rooms` only (over the ids other than Root, and over the tasks),
which checks no liveness.

**Deadlock** is checked except where the system may stop: an evaluation ends
(`acl_eval`), connections and transfers are used once (`session`, `client_conn`,
`transfers`), operations are bounded (`sync`), and a client may shut down or do nothing
(`relay`, `client_conn`, `capture`).

**Fairness.** Nothing is assumed of users, clients, admins, networks and devices:
they need not connect, close, click, fail, come back, read what they are sent or answer.
Where the code waits for one of them without a timeout, the property is conditional on
that wait ending, and says so.

- `session`, `acl_save`: weak fairness of each server task. tokio polls a task that can
  go on, and every send in these handlers fails on a closed connection or is bounded by
  `BROADCAST_SEND_TIMEOUT`. Taking the ACL gate is strongly fair: a tokio mutex serves
  its waiters in order.
- `sync`: tasks run and QUIC delivers what was sent; `Consume` is strongly fair, since a
  `Lagged` result moves the reader to the oldest event left.
- `client_conn`, `capture`: `select!` picks at random among its ready branches, so an arm
  that is ready again and again is served: strong fairness of teardown, probe, receive
  timeout, health tick and send. A callback that has begun returns. A send on a wedged link
  need not end.
- `relay`: handlers run, a body that does not come times out, the sweep wakes. That the
  client reads the answer of a refused upload is not assumed: its write has no timeout
  and holds a shard, so `ExpiredGo` is conditional on every shard being free again and
  again. The compare-exchange loop of a release is strongly fair: its load and exchange are
  neighbouring instructions, which others do not disturb for ever.
- `transfers`: spawned tasks run, a fired token wakes its task, watchers poll. The server
  need not answer and a body need neither go on nor fail (`do_fetch` and `do_upload` have no
  timeout): only steps that do not wait for it are fair (`FetchGoesOn`, `UploadGoesOn`).
- `acl_eval`: the loop runs.

**Exemptions.** Several properties exempt what follows a known race (`raced`,
`lapped`, `collided`, `disputed`, `blurred`, `crossed`, `hushed`, `failed`, `recycled`,
`doubled`, `lost`, `early`, `strays`) or a known gap that needs no race (`misplaced`,
`unchecked`, `collided` again, `input_refused`, `output_refused`, `output_left`, the link
state `wedged`). This is deliberate: they say that *only* those do harm, which is what
whoever fixes one needs to know. Each history variable is set only by the event it
names, and the list below says what that does.

## Disagreements

One run violates what the code says of itself; `PROJECT.json` quotes the line.

- **A silent loss.** `run_receiver_task` asks for the teardown and looks at `local_close`
  afterwards. The connection task may serve the request in between and raise the flag:
  the receiver takes the loss for a close of our own, and `State` shows Connected with
  no transport, against the comment of the teardown arm.

Met while modelling; the properties exempt them through history variables, or the
model keeps the behaviour as it is:

- *Rooms.* Two overlapping moves close a cycle; a delete that overlaps a create, move or
  join leaves an orphan; two read-modify-writes of one record lose one. A single
  `MoveRoom` of Root under a room closes a cycle through Root, which a restart opens again
  since Root has no record; one to an unknown parent is stored and reloaded; the comment
  at `handlers.rs` 1334-1336 says that moves which would create a parent cycle are rejected.
- *Sessions.* A handshake overtaken by its connection's teardown leaves a session and a
  membership; two handshakes of one identity may both stay; a participant registered
  while its controller is cleaned up stays. A participant registered by a
  `ControllerHello` on a second stream stays when the connection ends; a controller that
  authenticates again is shown again and gets no `UserLeft`; a hello without an
  `Authenticate` leaves its `PendingAuth`. A login evaluates neither ENTER nor SPEAK in
  the last room.
- *Mute.* A `SetServerMute` between a join's read of the override and its write is lost.
  A move of a room, the promotion of a deleted room's children, an ACL edit above a room, a
  group change and a login may change SPEAK and recompute nobody's mute.
- *Groups.* A listing drops a lapsed membership behind the live session's back; the sweep
  may take a membership that was just extended; a ban record left behind by a manual
  unban lifts a later permanent one.
- *Broadcast.* The status update of a `JoinRoom` is hashed together with the move, so that
  the first frame already asks for a resync; `RoomMoved` does not recompute permissions;
  `RoomDeleted` ignores the `fallback_room_id` it carries; a `Connected` applied after the
  first snapshot leaves the audio task without the initial mute; groups are not hashed. A
  kick runs in the admin's task and a `JoinRoom` in the user's own, so that `UserLeft` may
  overtake `UserMoved`: the projection then tells the audio task `UserJoinedRoom` of a user
  `State` has not got, and as the hashes agree this stays until the next full list (the
  attempt to prove `AudioFollows` without `strays` found this).
- *Client connection.* Rejecting a certificate reports Disconnected whatever there is; a
  receiver a handshake behind clears the newer connection's audio and plugin slot; a
  failed reconnect keeps the old rooms; a wedged server behind a live connection is not
  noticed, since the probe does not fail, although the comment on `RECV_TIMEOUT`'s use
  (`handle.rs` 2413-2415) says that it is detected as a loss; mute and deafen commands read the projected
  state, which may be stale.
- *Audio.* A callback in flight at deactivation leaves the light on or a spurt without
  its end; a device the user chose and that failed to open is not retried; frames encoded
  for an old connection are sent on the new one; an unmute while deafened captures; an
  undeafen without a connection leaves playback closed (`audio_task.rs` 1433), although
  output "runs even while disconnected" (2000) and "undeafen will re-open" (2038).
- *File relay.* A fetch serves a re-used id to a caller who was checked for its
  predecessor; a refused upload whose client does not read holds a map shard, and with it
  the sweep, for as long as the connection lives; bytes handed to a fetch outlive their eviction uncounted; an upload may finish into an emptied room.
- *Transfers.* Two downloads may choose one name; a double click shares one entry; a
  cut-off create leaves an empty file; an upload is announced in the room of the moment; a
  server that does not answer leaves a transfer active until it is cancelled.

## Proofs

The theorems hold for every value of the constants that satisfies the named
assumptions of the modules: sets of rooms, users, tasks, sessions, connections,
streams, files and configurations of any size, queues of any length, any number of
commands. Each rests on an inductive invariant, since none of the properties is
inductive as it stands.

- **RoomTreeProofs.** `TypeCorrect`: types, and that the store never gets Root or an
  uncreated room, under every interleaving, with crashes. The two are inductive
  together. `TreeStaysHealthy` and `NoOrphans`: `HealthyUnlessRaced` and
  `OnlyLeavesVanish`, with crashes and with moves of any room to any id. `HealthInv` says
  that, until a race, a task in a move or delete is alone (`Solo`), that what a task has
  checked is still true (`TaskSound`) and that the tree is `Rooted`: it has no cycle
  beside Root, and is a tree as long as no move was `misplaced`. The tree part rests on
  lemmas on parent functions (adding a leaf, removing one, re-parenting, promoting a
  child). Acyclicity is stated without recursion: no non-empty set of rooms without Root
  is closed under "has its parent in the set", and "the walk reaches" is membership in
  every closed set. `CrashKeepsATree`, `QuietStoreIsCurrent` and `TreeSurvivesCrashes`:
  `SerialReload`, `SerialDurable` and the shape of the tree in every life of the server,
  while handlers do not overlap.
  `SerialInv` adds to the above that one handler is in flight at most (`OneHandler`), that
  every room's record is as memory has it but for the one being rewritten
  (`StoreFollows`), and that what the handler is about to write is what memory has
  (`RecordSound`). What a crash would load is kept `Rooted` as a conjunct of its own
  (`ReloadRooted`), since between a change in memory and its record the two are
  different trees; Root, which has no record, comes back in its place.
- **SessionProofs.** `TornDownOnce`: `PluginsToldOnce`. `TeardownInv`: nobody is told about
  a connection whose teardown is unclaimed, whoever is about to tell has claimed it and
  nobody was told yet, and the two loops are never about to tell both. `SoleSession`:
  `SoleUnlessCollided`, that of two sessions of one identity one is being torn down.
  `SoleInv` follows a handshake through its steps: of two connections of one identity
  that did not collide at most one is between its proof and its session, and it has
  the other's live session on its eviction list until it has begun that one's teardown.
  It needs to know what a teardown has already removed (`Removed`)
  and that a connection without a link has nothing (`Fresh`).
  `NothingIsLeft`: `SoundUnlessCollided`, one `UserLeft` per departure and nothing left of
  a connection, or of its participants, once its tasks are over. `SoundInv` says of a
  connection that did not collide that no handler of it runs once its teardown has begun,
  that whatever is still in a table has a task at it that will take it out, that a task
  in the middle of `cleanup_client` has every participant left on its list, and that at
  most one task is about to announce each end. While nobody tears the connection down
  it reduces to `Lively`, a statement about its read loop alone; once no handler runs it
  reduces to `Front` and `Back`, about the tasks that clean up; each action is proved on
  the side it belongs to. A second stream at work has its connection recorded (`Sided`), so
  that its steps (`SideWork`) need only leave the other connections alone (`AtPart`); an
  authentication that is repeated keeps `Lively`, unless it is a controller's.
- **GroupsProofs.** `DecisionsAreKept`, `NoneDangles`, `TheBannedStayOut`,
  `SweepIsThorough` and `SessionsAreTold`: all five properties of the run, with crashes,
  for any number of keys, groups, connections, admins and requests (and `GroupsTyped`).
  There is at least one connection, which is what makes the value of an unused field a
  connection. The argument goes pair by pair: at a key and a group that is not
  disputed one job is at work at most, so its view can be an invariant. `PairInv`
  says of the only job at a pair (`Good`) that the store has what was decided (`Kept`)
  or the job is between the writes that a decision takes (`Pending`); that what it is
  about to remove is over or revoked (`Condemned`); that what a listing found active or
  has still to look at is all that is in force (`Duty`); and that a grant's group exists.
  A job keeps this by touching no pair but those it is at (`Local`), and `PairMove` turns
  that into a step of the invariant. `SweepInv` adds what a sweep has still to take, from
  the fact that no step makes an end that is already over (`Mild`). `CacheInv` is the same
  idea for sessions: while one job at most is at the key of a connection, its cached
  groups are what was decided or that job owes them a visit (`Owes`); it needs that the
  list of clients a mirror takes contains every session, and what a mirror read is still
  there when it writes (`Mirrors`).
- **GroupsProofs, on AclSave** (the other half of what a permission is evaluated from).
  `VersionedSavesLoseNothing`, `SavesAreDurable`, `WriteThroughKeepsLockstep`, with crashes
  and failing writes. `SaveInv`: only the holder of the gate is past it, what the holder
  compared is still so, and a room being deleted is gone from memory.
- **ServerMuteProofs.** `FlagIsExact` and `OverrideHolds`: `MuteIsExact` and
  `ManualMuteHolds`, under every interleaving. `MuteInv` has, for each session that was
  not crossed, `Sound` (the room a handler evaluates in is still the session's, what it
  has read still holds), `Exact` (a flag that is out of date has a handler at it) and
  `Hold` (an override that the flag does not show yet has its handler about to write it).
  That others leave this alone is what "not crossed" gives (`Uncrossed`, `OthersSound`);
  what an ACL edit, a move or a promotion can change is whoever it turns, and they are
  recorded unless a visit to them is due.
- **FileRelayProofs.** `BudgetHolds`: types, and the counter never exceeds
  `max_total_size`, however the compare-exchange rounds interleave. `FetchesStayInRoom`:
  `ServedFromItsRoom`; a fetch between its two look-ups still finds the file it saw, or
  the id was removed (`Watched`). `CounterExact`: `Accounted`, the counter is the sum of
  what uploads reserve, the map holds and evictors have still to release, so that the
  saturating subtraction never cuts. `RelayRefinesQuota`: `KeepsBudget`, every step of the
  relay is a claim, a hand-over, a release or a stutter of `Quota` under the mapping
  `Held`. Each action is first described by how it moves entries of that ledger
  (`LedgerStep`), and the lemmas on sums do the rest. They concern sums over finite sets:
  streams, ids and leavers are assumed finite, since a server has met finitely many of
  them at any moment. What a sum over a changed ledger is comes from the
  well-foundedness of strict inclusion, as the absence of a minimal counterexample.
- **ClientConnProofs.** `TeardownsAreScoped` and `ClosesAreQuiet`: `StaleTeardownSpares` and
  `NoLossAfterClose`. `ConnInv`: the transport held is the newest generation and its flag
  is held with it, a teardown request names a connection whose stream had ended, and
  every connection closed from here has its flag raised. `PartsAgree`:
  `AgreeUnlessCrossed`. At rest all parts name one connection; in between each lags in its
  own way, so `InStep` says for each part which message it still waits for: what the last
  event on the way to the projection will show (`Sight`), which receiver may still speak
  (`Alone`, `Waits`), and that what a finished receiver left behind has its teardown
  request queued (`Released`).
- **ServerMuteProofs, on Capture** (the client's end of the mute). `MicAlwaysFollows` and
  `SilenceIsAlwaysTold`: `MicFollows` and `SilenceIsTold`. `CaptureInv`: while an arm is between its two steps capture is off, and
  while capture is off with no race no callback runs and the last message queued or sent
  ended the spurt.
- **TransfersProofs.** `TransfersTyped`, `DoneFilesAreWhole`, `NoPartialsLeft` and
  `FinalStagesStay`: types, `DoneIsWhole`, `NothingLeftOver` and `FinalIsFinal`.
  `TransferInv`: an entry names the task that serves it (`EntryServed`); until an offer is
  fetched twice at once a running task's entry records the name the task writes to and
  nobody else has that name (`TaskOwns`), no task writes to the file of a finished download
  (`DoneOwns`), and a partial file has a task that will finish or delete it
  (`PartialOwned`), but for the names in `lost`; what a cut-off creation will still make is
  in `lost`.
- **StateSyncProofs.** `SyncTyped`; `AudioAlwaysFollows`: `AudioFollows`, in every state and
  not only at rest; `DivergenceHeals`: `Healed`. For any capacity of the ring, any number of
  rooms, finitely many users, any number of handlers and operations. `AudioInv` adds what
  the audio task holds before the first snapshot; the work is one case per event, by what
  the audio task is told and whether the user was in the room before. The healing half of
  `Healed` is `HashInv`: after an operation that began with nothing in flight, all that
  handlers have read and all frames and events speak of the state it left, and the last
  event is a snapshot or a comparison (`Fresh`), so that when nothing is left the copy is
  the state, was compared with it, or a request is on its way (`Matches`, with `Awaited`
  and `BeforeLogin` for the login). The groups, which no hash covers, need `GroupInv`: of
  everything on its way that speaks of a group the last has the server's word (`Follows`),
  or a snapshot is due (`SnapshotDue`). Fairness is not used.

Only model-checked: the liveness properties (`EvaluationEnds`, `SaveAnswered`, `ClosedGoes`,
`Settles`, `ExpiredGo`, `LossNoticed`, `DevicesRecover`, `TransfersEnd`), since fairness and
ENABLED are out of the prover's reach; and `LastWordWins` and `EffectiveIsReference` of
`Acl`, whose result is a recursion over the chain of rooms and would need induction over
sequences.

## What is not modelled

- **User registration and ModifyGroup**: check-then-write pairs on names and records,
  listed as a hazard without a property.
- **Voice relay and rate limit**: stateless per packet but for a one-second byte window
  (listed as a hazard); the flag it reads is `ServerMute`'s, its recipients are
  `RoomTree`'s memberships.
- **Chat, direct messages, link cleaning**: no state on the server; text processing.
- **Elevation and known keys**: one comparison and one flag, which `Session` has as its
  set of superusers.
- **Web admin API**: the same `apply_*` operations from one more task; the rest is HTTP.
- **Mumble bridge**: one sequential task; on the server it is a controller with
  participants, which `Session` has. Framing, TLS and codecs are byte formats.
- **Desktop UI and shell, video, audio devices, configuration**: rendering, operating
  system and GPU interfaces, options read once. What the UI adds to a protocol is in the
  models: the ACL editor's base version, the certificate dialog, the download button.
- **Audio processing**: decoding, the jitter buffer, mixing and effects are numeric.
- **The ten-second cut-off** of a client that does not read in the middle of a broadcast;
  it appears only as the bound that justifies fairness.
- Encodings, signatures, certificates, TLS and QUIC; sled's own durability (a call that
  returned is durable); store errors except in `AclSave`; permission checks as guards of
  the room handlers; permission bits of groups.

## How to run

    tlc -workers 2 -config Groups.cfg MCGroups     # one run
    tlapm ServerMuteProofs.tla                     # one proof module

A run takes from a second to a few minutes on two cores.
