-------------------------------- MODULE Session --------------------------------
(***************************************************************************)
(* The life of a connection: handshake, takeover of an older session of    *)
(* the same identity, controller mode and its participants, kick, and the  *)
(* teardown that the control stream's read loop, the accept loop, a kick   *)
(* and a takeover race for.                                                *)
(*                                                                         *)
(* Every connection has two tasks of its own, the read loop of its control *)
(* stream and the accept loop; a kick runs in the kicker's task, a         *)
(* takeover in the read loop of the new connection.  Each of them may run  *)
(* cleanup_client, so a job is what its task is at (pc) and the step of a  *)
(* cleanup_client call in progress (call).                                 *)
(*                                                                         *)
(* A client may open a second envelope stream.  Its task has a handle of   *)
(* its own (is_controller is not shared), runs the same handlers beside    *)
(* the read loop of the first stream, and tears nothing down when it ends. *)
(* One such stream is open at a time.                                      *)
(*                                                                         *)
(* user_ids are never reused.  A client may say hello and authenticate     *)
(* again; it then does so as the same identity.                            *)
(***************************************************************************)
EXTENDS Naturals, FiniteSets

CONSTANTS
    Conns,      \* connections, standing for their user_id
    Parts,      \* user_ids for participants
    Identity,   \* Conns -> key and name the client logs in with
    Controllers,\* connections whose identity holds MANAGE_PARTICIPANTS
    Superusers, \* connections that may not be kicked
    None        \* no owner, no target

ASSUME SessionConstants ==
    /\ None \notin Conns /\ None \notin Parts /\ Conns \cap Parts = {}
    /\ DOMAIN Identity = Conns /\ Controllers \subseteq Conns /\ Superusers \subseteq Conns
    /\ IsFiniteSet(Conns) /\ IsFiniteSet(Parts)

Ids == Conns \cup Parts
Actors == {"read", "side", "accept", "kick"} \X Conns

VARIABLES
    link,       \* the QUIC connection: "none", "open", "closed"
    pending,    \* connections with a PendingAuth
    authed,     \* ClientHandle::authenticated
    torn,       \* ClientHandle::torn_down
    ctrl,       \* ClientHandle::is_controller of the first stream's handle
    ctrl2,      \* ... of the second stream's handle
    members,    \* the member table
    owner,      \* the connection that drives a participant, None if unused
    placed,     \* user_ids with a room membership
    sessions,   \* connections with a SessionEntry
    shown,      \* what the broadcast UserJoined and UserLeft add up to
    left,       \* how often UserLeft was broadcast
    told,       \* how often the plugins' on_disconnect ran
    job,        \* what each task is at
    collided    \* history: connections torn down in the middle of a handler, whose
                \* handshake met another of their identity, that authenticated again as
                \* a controller, or that had a request handled on a second stream

conn == <<link, pending, authed>>
table == <<members, owner, placed, sessions>>
seen == <<shown, left, told>>
vars == <<conn, torn, ctrl, ctrl2, table, seen, job, collided>>

NoJob == [pc |-> "none", call |-> "no", target |-> None, ctl |-> FALSE,
          parts |-> {}, part |-> None, present |-> FALSE, old |-> {}]

Read(c) == <<"read", c>>
Side(c) == <<"side", c>>
Accept(c) == <<"accept", c>>
Kick(c) == <<"kick", c>>
Streams(c) == {Read(c), Side(c)}
Controls(x, c) == (x = Read(c) /\ c \in ctrl) \/ (x = Side(c) /\ c \in ctrl2)

Handling(c) == job[Read(c)].pc \notin {"none", "idle", "plugins", "close", "done"}
Cleaning(c) == \E x \in Actors : job[x].call # "no" /\ job[x].target = c
Ending(c) == c \in torn \/ c \notin members \/ Cleaning(c)

JobStates ==
    [pc : {"none", "idle", "evict", "evicting", "session", "place", "send", "joined",
           "hide", "hidden", "mint", "minted", "drop", "dropping", "dropped",
           "wait", "kick", "plugins", "close", "done"},
     call : {"no", "start", "parts", "unplace", "leave", "member", "room", "session", "bye"},
     target : Conns \cup {None}, ctl : BOOLEAN, parts : SUBSET Parts,
     part : Parts \cup {None}, present : BOOLEAN, old : SUBSET Conns]

\* Types; and only an authenticated connection has a session or a room.
TypeOK ==
    /\ link \in [Conns -> {"none", "open", "closed"}]
    /\ pending \subseteq Conns /\ authed \subseteq Conns
    /\ torn \subseteq Conns /\ ctrl \subseteq Conns /\ ctrl2 \subseteq Conns
    /\ members \subseteq Ids /\ placed \subseteq Ids /\ sessions \subseteq Conns
    /\ sessions \cup (placed \cap Conns) \subseteq authed
    /\ owner \in [Parts -> Conns \cup {None}]
    /\ shown \subseteq Ids
    /\ left \in [Ids -> Nat] /\ told \in [Conns -> Nat]
    /\ collided \subseteq Conns
    /\ job \in [Actors -> JobStates]

Init ==
    /\ link = [c \in Conns |-> "none"]
    /\ pending = {} /\ authed = {} /\ torn = {} /\ ctrl = {} /\ ctrl2 = {}
    /\ members = {} /\ placed = {} /\ sessions = {}
    /\ owner = [p \in Parts |-> None]
    /\ shown = {}
    /\ left = [i \in Ids |-> 0] /\ told = [c \in Conns |-> 0]
    /\ job = [x \in Actors |-> NoJob]
    /\ collided = {}

\* broadcast_state_update, as far as the roster is concerned
BroadcastJoined(i) == shown' = shown \cup {i} /\ UNCHANGED <<left, told>>
BroadcastLeft(i) ==
    /\ shown' = shown \ {i}
    /\ left' = [left EXCEPT ![i] = @ + 1]
    /\ UNCHANGED told

Goto(x, pc) == job' = [job EXCEPT ![x].pc = pc]
Ends(x, pc) == job' = [job EXCEPT ![x] = [NoJob EXCEPT !.pc = pc]]

\* A handler of c starts on stream x.  After c's teardown began, or on the second
\* stream, its steps interleave with others that know nothing of it.
Begins(x, c) ==
    /\ job[x].pc = "idle"
    /\ collided' = IF Ending(c) \/ x = Side(c) THEN collided \cup {c} ELSE collided

-----------------------------------------------------------------------------
(* handle_connection: the first stream registers the client *)
Connect(c) ==
    /\ link[c] = "none"
    /\ link' = [link EXCEPT ![c] = "open"]
    /\ members' = members \cup {c}
    /\ job' = [job EXCEPT ![Read(c)].pc = "idle", ![Accept(c)].pc = "wait", ![Kick(c)].pc = "idle"]
    /\ UNCHANGED <<pending, authed, torn, ctrl, ctrl2, owner, placed, sessions, seen, collided>>

\* The peer goes away, or the QUIC idle timeout ends the connection.
Close(c) ==
    /\ link[c] = "open"
    /\ link' = [link EXCEPT ![c] = "closed"]
    /\ UNCHANGED <<pending, authed, torn, ctrl, ctrl2, table, seen, job, collided>>

\* dispatch_secondary_stream: a handle with the connection's user_id and its
\* shared state, but its own flags.
SecondStream(c) ==
    /\ link[c] = "open" /\ job[Side(c)].pc = "none"
    /\ Goto(Side(c), "idle")
    /\ ctrl2' = ctrl2 \ {c}
    /\ UNCHANGED <<conn, torn, ctrl, table, seen, collided>>

\* Its read loop ends; it is not the primary one, so nothing is torn down.
SecondEnds(c) ==
    /\ job[Side(c)].pc = "idle"
    /\ Goto(Side(c), "none")
    /\ UNCHANGED <<conn, torn, ctrl, ctrl2, table, seen, collided>>

-----------------------------------------------------------------------------
(* handle_client_hello, handle_authenticate, on stream x of c.  This and the
   requests below may be read from the buffer after the connection has closed. *)
ClientHello(x, c) ==
    /\ Begins(x, c)
    /\ pending' = pending \cup {c}
    /\ UNCHANGED <<link, authed, torn, ctrl, ctrl2, table, seen, job>>

\* send_auth_failed: a hello or an Authenticate that is refused closes the
\* connection, before or after take_pending_auth.
AuthFails(x, c) ==
    /\ Begins(x, c)
    /\ pending' \in {pending, pending \ {c}}
    /\ link' = [link EXCEPT ![c] = "closed"]
    /\ UNCHANGED <<authed, torn, ctrl, ctrl2, table, seen, job>>

Rivals(c) == {d \in Conns \ {c} : Identity[d] = Identity[c]
                                  /\ job[Read(d)].pc \in {"evict", "evicting", "session"}}

\* The signature is good: authenticated is set.  Two handshakes of one
\* identity that overlap before either has a session are recorded, and so is
\* that of a controller, which is shown to everybody again.
Authenticate(x, c) ==
    /\ job[x].pc = "idle" /\ c \in pending
    /\ pending' = pending \ {c}
    /\ authed' = authed \cup {c}
    /\ Goto(x, "evict")
    /\ collided' = collided \cup Rivals(c)
                     \cup (IF Ending(c) \/ Rivals(c) # {} \/ c \in ctrl \/ x = Side(c)
                           THEN {c} ELSE {})
    /\ UNCHANGED <<link, torn, ctrl, ctrl2, table, seen>>

\* Faulty variant: the sessions of the key are not looked up.
ListNothing(x, c) ==
    /\ job[x].pc = "evict"
    /\ job' = [job EXCEPT ![x].pc = "evicting", ![x].old = {}]
    /\ UNCHANGED <<conn, torn, ctrl, ctrl2, table, seen, collided>>

\* user_ids_with_key
ListSuperseded(x, c) ==
    /\ job[x].pc = "evict"
    /\ job' = [job EXCEPT ![x].pc = "evicting",
                          ![x].old = {d \in sessions \ {c} : Identity[d] = Identity[c]}]
    /\ UNCHANGED <<conn, torn, ctrl, ctrl2, table, seen, collided>>

\* One round of evict_superseded_sessions: a session that is gone or whose
\* teardown is claimed is skipped, another is closed and torn down here.
Evict(x, c, d) ==
    /\ job[x].pc = "evicting" /\ job[x].call = "no" /\ d \in job[x].old
    /\ IF d \in members /\ d \notin torn
       THEN /\ torn' = torn \cup {d}
            /\ link' = [link EXCEPT ![d] = "closed"]
            /\ told' = [told EXCEPT ![d] = @ + 1]
            /\ collided' = IF Handling(d) THEN collided \cup {d} ELSE collided
            /\ job' = [job EXCEPT ![x].old = job[x].old \ {d},
                                  ![x].call = "start", ![x].target = d]
       ELSE /\ job' = [job EXCEPT ![x].old = job[x].old \ {d}]
            /\ UNCHANGED <<link, torn, told, collided>>
    /\ UNCHANGED <<pending, authed, ctrl, ctrl2, table, shown, left>>

Evicted(x, c) ==
    /\ job[x].pc = "evicting" /\ job[x].call = "no" /\ job[x].old = {}
    /\ Goto(x, "session")
    /\ UNCHANGED <<conn, torn, ctrl, ctrl2, table, seen, collided>>

AddSession(x, c) ==
    /\ job[x].pc = "session"
    /\ sessions' = sessions \cup {c}
    /\ Goto(x, "place")
    /\ UNCHANGED <<conn, torn, ctrl, ctrl2, members, owner, placed, seen, collided>>

SetUserRoom(x, c) ==
    /\ job[x].pc = "place"
    /\ placed' = placed \cup {c}
    /\ Goto(x, "send")
    /\ UNCHANGED <<conn, torn, ctrl, ctrl2, members, owner, sessions, seen, collided>>

\* The send of the state fails on a closed connection and ends the handler.
SendState(x, c) ==
    /\ job[x].pc = "send"
    /\ Goto(x, IF link[c] = "open" THEN "joined" ELSE "idle")
    /\ UNCHANGED <<conn, torn, ctrl, ctrl2, table, seen, collided>>

AnnounceJoined(x, c) ==
    /\ job[x].pc = "joined"
    /\ BroadcastJoined(c)
    /\ Goto(x, "idle")
    /\ UNCHANGED <<conn, torn, ctrl, ctrl2, table, collided>>

-----------------------------------------------------------------------------
(* handle_controller_hello: the flag of the handle, then the roster *)
ControllerHello(x, c) ==
    /\ Begins(x, c) /\ c \in authed \cap Controllers /\ ~Controls(x, c)
    /\ IF x = Read(c) THEN ctrl' = ctrl \cup {c} /\ UNCHANGED ctrl2
                      ELSE ctrl2' = ctrl2 \cup {c} /\ UNCHANGED ctrl
    /\ Goto(x, "hide")
    /\ UNCHANGED <<conn, torn, table, seen>>

HideController(x, c) ==
    /\ job[x].pc = "hide"
    /\ placed' = placed \ {c}
    /\ Goto(x, "hidden")
    /\ UNCHANGED <<conn, torn, ctrl, ctrl2, members, owner, sessions, seen, collided>>

AnnounceHidden(x, c) ==
    /\ job[x].pc = "hidden"
    /\ BroadcastLeft(c)
    /\ Goto(x, "idle")
    /\ UNCHANGED <<conn, torn, ctrl, ctrl2, table, collided>>

(* handle_register_participant, create_participant *)
RegisterParticipant(x, c, p) ==
    /\ Begins(x, c) /\ c \in authed /\ Controls(x, c) /\ owner[p] = None
    /\ owner' = [owner EXCEPT ![p] = c]
    /\ members' = members \cup {p}
    /\ job' = [job EXCEPT ![x].pc = "mint", ![x].part = p]
    /\ UNCHANGED <<conn, torn, ctrl, ctrl2, placed, sessions, seen>>

PlaceParticipant(x, c) ==
    /\ job[x].pc = "mint"
    /\ placed' = placed \cup {job[x].part}
    /\ Goto(x, "minted")
    /\ UNCHANGED <<conn, torn, ctrl, ctrl2, members, owner, sessions, seen, collided>>

AnnounceParticipant(x, c) ==
    /\ job[x].pc = "minted"
    /\ BroadcastJoined(job[x].part)
    /\ Ends(x, "idle")
    /\ UNCHANGED <<conn, torn, ctrl, ctrl2, table, collided>>

(* handle_unregister_participant, remove_participant *)
UnregisterParticipant(x, c, p) ==
    /\ Begins(x, c) /\ c \in authed /\ Controls(x, c) /\ p \in members /\ owner[p] = c
    /\ job' = [job EXCEPT ![x].pc = "drop", ![x].part = p,
                          ![x].present = p \in placed]
    /\ UNCHANGED <<conn, torn, ctrl, ctrl2, table, seen>>

DropParticipant(x, c) ==
    /\ job[x].pc = "drop"
    /\ members' = members \ {job[x].part}
    /\ Goto(x, "dropping")
    /\ UNCHANGED <<conn, torn, ctrl, ctrl2, owner, placed, sessions, seen, collided>>

UnplaceParticipant(x, c) ==
    /\ job[x].pc = "dropping"
    /\ placed' = placed \ {job[x].part}
    /\ Goto(x, "dropped")
    /\ UNCHANGED <<conn, torn, ctrl, ctrl2, members, owner, sessions, seen, collided>>

AnnounceDropped(x, c) ==
    /\ job[x].pc = "dropped"
    /\ IF job[x].present THEN BroadcastLeft(job[x].part) ELSE UNCHANGED seen
    /\ Ends(x, "idle")
    /\ UNCHANGED <<conn, torn, ctrl, ctrl2, table, collided>>

-----------------------------------------------------------------------------
(* The two ends of a connection race for its teardown *)

\* Faulty variant: begin_teardown lets everybody through.
ClaimAlways(x, c) ==
    /\ torn' = torn \cup {c}
    /\ Goto(x, "plugins")
    /\ collided' = IF x # Read(c) /\ Handling(c) THEN collided \cup {c} ELSE collided

\* begin_teardown: the compare-and-swap decides who goes on.
Claim(x, c) ==
    /\ torn' = torn \cup {c}
    /\ Goto(x, IF c \in torn THEN "done" ELSE "plugins")
    /\ collided' = IF c \notin torn /\ x # Read(c) /\ Handling(c)
                   THEN collided \cup {c} ELSE collided

\* The read loop ends: on a closed connection, at the end of the stream or at
\* an oversized frame.
ReadEnds(c) ==
    /\ job[Read(c)].pc = "idle"
    /\ Claim(Read(c), c)
    /\ UNCHANGED <<conn, ctrl, ctrl2, table, seen>>

\* Faulty variant: the accept loop leaves the teardown to the read loop.
AcceptReturns(c) ==
    /\ job[Accept(c)].pc = "wait" /\ link[c] = "closed"
    /\ Goto(Accept(c), "done")
    /\ UNCHANGED <<conn, torn, ctrl, ctrl2, table, seen, collided>>

\* The accept loop ends when the connection is closed.
AcceptEnds(c) ==
    /\ job[Accept(c)].pc = "wait" /\ link[c] = "closed"
    /\ Claim(Accept(c), c)
    /\ UNCHANGED <<conn, ctrl, ctrl2, table, seen>>

\* plugin.on_disconnect, then cleanup_client
TellPlugins(x, c) ==
    /\ job[x].pc = "plugins"
    /\ told' = [told EXCEPT ![c] = @ + 1]
    /\ job' = [job EXCEPT ![x].pc = "close", ![x].call = "start", ![x].target = c]
    /\ UNCHANGED <<conn, torn, ctrl, ctrl2, table, shown, left, collided>>

TornDown(x) ==
    /\ job[x].pc = "close" /\ job[x].call = "no"
    /\ Ends(x, "done")
    /\ UNCHANGED <<conn, torn, ctrl, ctrl2, table, seen, collided>>

(* apply_kick: superusers and controllers are refused; the CAS is not claimed *)
KickCheck(c) ==
    /\ job[Kick(c)].pc = "idle"
    /\ c \in members \ (ctrl \cup Superusers)
    /\ Goto(Kick(c), "kick")
    /\ UNCHANGED <<conn, torn, ctrl, ctrl2, table, seen, collided>>

KickClose(c) ==
    /\ job[Kick(c)].pc = "kick"
    /\ link' = [link EXCEPT ![c] = "closed"]
    /\ job' = [job EXCEPT ![Kick(c)].pc = "close", ![Kick(c)].call = "start", ![Kick(c)].target = c]
    /\ collided' = IF Handling(c) THEN collided \cup {c} ELSE collided
    /\ UNCHANGED <<pending, authed, torn, ctrl, ctrl2, table, seen>>

-----------------------------------------------------------------------------
(* cleanup_client, called by x on its target *)
Call(x, step) == job' = [job EXCEPT ![x].call = step]

CleanStart(x) ==
    /\ job[x].call = "start"
    /\ LET t == job[x].target IN
       job' = [job EXCEPT ![x].call = IF t \in ctrl THEN "parts" ELSE "member",
                          ![x].ctl = t \in ctrl,
                          ![x].parts = IF t \in ctrl
                                       THEN {p \in Parts \cap members : owner[p] = t} ELSE {}]
    /\ UNCHANGED <<conn, torn, ctrl, ctrl2, table, seen, collided>>

\* One participant; one that somebody else removed is skipped.
CleanPart(x) ==
    /\ job[x].call = "parts"
    /\ \/ /\ job[x].parts = {}
          /\ Call(x, "member") /\ UNCHANGED members
       \/ \E p \in job[x].parts :
             /\ job' = [job EXCEPT ![x].parts = job[x].parts \ {p}, ![x].part = p,
                                   ![x].call = IF p \in members THEN "unplace" ELSE "parts"]
             /\ members' = members \ {p}
    /\ UNCHANGED <<conn, torn, ctrl, ctrl2, owner, placed, sessions, seen, collided>>

UnplacePart(x) ==
    /\ job[x].call = "unplace"
    /\ placed' = placed \ {job[x].part}
    /\ Call(x, "leave")
    /\ UNCHANGED <<conn, torn, ctrl, ctrl2, members, owner, sessions, seen, collided>>

AnnouncePart(x) ==
    /\ job[x].call = "leave"
    /\ BroadcastLeft(job[x].part)
    /\ Call(x, "parts")
    /\ UNCHANGED <<conn, torn, ctrl, ctrl2, table, collided>>

\* Faulty variant: UserLeft does not depend on who removed the member.
CleanMemberAlways(x) ==
    /\ job[x].call = "member"
    /\ members' = members \ {job[x].target}
    /\ job' = [job EXCEPT ![x].call = "room", ![x].present = TRUE]
    /\ UNCHANGED <<conn, torn, ctrl, ctrl2, owner, placed, sessions, seen, collided>>

\* remove_client_by_handle says who removed the member.
CleanMember(x) ==
    /\ job[x].call = "member"
    /\ members' = members \ {job[x].target}
    /\ job' = [job EXCEPT ![x].call = "room", ![x].present = job[x].target \in members]
    /\ UNCHANGED <<conn, torn, ctrl, ctrl2, owner, placed, sessions, seen, collided>>

CleanRoom(x) ==
    /\ job[x].call = "room"
    /\ placed' = placed \ {job[x].target}
    /\ Call(x, "session")
    /\ UNCHANGED <<conn, torn, ctrl, ctrl2, members, owner, sessions, seen, collided>>

CleanSession(x) ==
    /\ job[x].call = "session"
    /\ sessions' = sessions \ {job[x].target}
    /\ Call(x, "bye")
    /\ UNCHANGED <<conn, torn, ctrl, ctrl2, members, owner, placed, seen, collided>>

CleanBye(x) ==
    /\ job[x].call = "bye"
    /\ IF job[x].present /\ job[x].target \in authed /\ ~job[x].ctl
       THEN BroadcastLeft(job[x].target) ELSE UNCHANGED seen
    /\ job' = [job EXCEPT ![x] = [NoJob EXCEPT !.pc = job[x].pc, !.old = job[x].old]]
    /\ UNCHANGED <<conn, torn, ctrl, ctrl2, table, collided>>

-----------------------------------------------------------------------------
Cleanup(x) ==
    \/ CleanStart(x) \/ CleanPart(x) \/ UnplacePart(x) \/ AnnouncePart(x)
    \/ CleanMember(x) \/ CleanRoom(x) \/ CleanSession(x) \/ CleanBye(x)

\* What a task does by itself once it is at it.
HandlerStep(x, c) ==
    \/ ListSuperseded(x, c) \/ (\E d \in Conns : Evict(x, c, d)) \/ Evicted(x, c)
    \/ AddSession(x, c) \/ SetUserRoom(x, c) \/ SendState(x, c) \/ AnnounceJoined(x, c)
    \/ HideController(x, c) \/ AnnounceHidden(x, c)
    \/ PlaceParticipant(x, c) \/ AnnounceParticipant(x, c)
    \/ DropParticipant(x, c) \/ UnplaceParticipant(x, c) \/ AnnounceDropped(x, c)
ReadStep(c) ==
    HandlerStep(Read(c), c) \/ TellPlugins(Read(c), c) \/ TornDown(Read(c)) \/ Cleanup(Read(c))
SideStep(c) == HandlerStep(Side(c), c) \/ Cleanup(Side(c))
AcceptStep(c) ==
    AcceptEnds(c) \/ TellPlugins(Accept(c), c) \/ TornDown(Accept(c)) \/ Cleanup(Accept(c))
KickStep(c) == KickClose(c) \/ TornDown(Kick(c)) \/ Cleanup(Kick(c))

\* What a client asks for on a stream.
Request(x, c) ==
    \/ ClientHello(x, c) \/ AuthFails(x, c) \/ Authenticate(x, c) \/ ControllerHello(x, c)
    \/ \E p \in Parts : RegisterParticipant(x, c, p) \/ UnregisterParticipant(x, c, p)

Next ==
    \E c \in Conns :
        \/ Connect(c) \/ Close(c) \/ ReadEnds(c) \/ SecondStream(c) \/ SecondEnds(c) \/ KickCheck(c)
        \/ Request(Read(c), c) \/ Request(Side(c), c)
        \/ ReadStep(c) \/ SideStep(c) \/ AcceptStep(c) \/ KickStep(c)

\* tokio runs a task that can go on; every send in these handlers fails on a
\* closed connection or is bounded by BROADCAST_SEND_TIMEOUT.  Nothing is
\* assumed of the clients.
Fairness ==
    \A c \in Conns : /\ WF_vars(ReadStep(c)) /\ WF_vars(SideStep(c))
                      /\ WF_vars(AcceptStep(c)) /\ WF_vars(KickStep(c))

Spec == Init /\ [][Next]_vars
FairSpec == Spec /\ Fairness

-----------------------------------------------------------------------------
(* Properties *)

\* "the non-idempotent parts of teardown fire exactly once": on_disconnect
\* never runs twice for a connection, whoever tears it down.
PluginsToldOnce == \A c \in Conns : told[c] <= 1

\* ... and it does run, and the member goes, on every connection that is closed,
\* whatever it was doing and whoever closed it, a kick too.
ClosedGoes == \A c \in Conns : link[c] = "closed" ~> told[c] = 1 /\ c \notin members

Over(c) ==
    /\ job[Read(c)].pc = "done" /\ job[Accept(c)].pc = "done"
    /\ job[Kick(c)].pc \in {"idle", "done"}
    /\ ~Cleaning(c)
\* No table names i.  PendingAuth is not among them: only an Authenticate takes
\* it, so it outlives a connection that ends after its hello.
Gone(i) == i \notin members \cup placed \cup sessions \cup shown

\* "exactly one UserLeft per departure", for clients and participants, and
\* nothing left behind: for connections that no teardown met in mid-handler, that
\* used no second stream and did not authenticate again as controllers.
SoundUnlessCollided ==
    \A c \in Conns \ collided :
        /\ left[c] <= 1 /\ \A p \in Parts : owner[p] = c => left[p] <= 1
        /\ Over(c) => Gone(c) /\ \A p \in Parts : owner[p] = c => Gone(p)

\* "Session takeover: evict any stale connection holding the same identity":
\* two sessions never share an identity unless the teardown of one has begun, for
\* connections whose handshake met no other and no teardown and that used no
\* second stream.
SoleUnlessCollided ==
    \A c, d \in (sessions \cap members) \ collided :
        c # d /\ Identity[c] = Identity[d] => Ending(c) \/ Ending(d)
================================================================================
