------------------------------- MODULE ServerMute -------------------------------
(***************************************************************************)
(* The server mute of a session: `server_muted` is what the voice relay    *)
(* checks, `manually_server_muted` is the moderator's override, and the    *)
(* former should be the latter or a missing SPEAK permission.  The two are *)
(* separate atomics, and the handlers that keep them in step read, await   *)
(* and write: handle_join_room, handle_set_server_mute, apply_set_room_acl *)
(* and apply_delete_room through reevaluate_member_mute.  Others change    *)
(* what SPEAK depends on and write neither: handle_authenticate, apply_    *)
(* set_user_group, handle_move_room and the children a delete moves up.    *)
(*                                                                         *)
(* A session is used once: a client that reconnects is another session.    *)
(* What an ACL says about SPEAK is a word for the room itself and one for  *)
(* its sub-rooms; the word nearest to the room decides (module Acl).       *)
(***************************************************************************)
EXTENDS Naturals, Sequences, FiniteSets

CONSTANTS
    Sessions,       \* client sessions
    Admins,         \* connections of moderators and admins
    Rooms, Root,
    AclWords        \* the ACLs to consider: [here, subs], each a Word

Word == {"silent", "grant", "deny"}

ASSUME MuteConstants ==
    /\ IsFiniteSet(Rooms) /\ Root \in Rooms /\ Sessions # {}
    /\ AclWords \subseteq [here : Word, subs : Word]
    /\ [here |-> "silent", subs |-> "silent"] \in AclWords

VARIABLES
    live,       \* existing rooms
    parent,     \* room -> its parent
    acl,        \* the stored ACLs
    grouped,    \* the sessions whose groups carry SPEAK
    online,     \* logged-in sessions
    fresh,      \* sessions still to log in
    room,       \* the room a session is in
    manual,     \* manually_server_muted
    muted,      \* server_muted
    job,        \* the handler each connection is in
    unchecked,  \* history: sessions whose SPEAK a login, a change of groups, an
                \* ACL above their room, a move of a room or the end of a room
                \* they came to late has set without a recomputation
    crossed     \* history: sessions a handler was at while another one was at
                \* them too, or changed what their mute depends on

state == <<live, parent, acl, grouped, online, fresh, room, manual, muted, job, unchecked>>
vars == <<state, crossed>>
place == <<live, parent, online, fresh, room>>
flags == <<manual, muted>>

Actors == Sessions \cup Admins

\* pc: the step; who, room: the session being worked on and the room its
\* SPEAK is evaluated in; todo: the members still to be visited; kids, to: the
\* children a delete has still to move, and where; gate: the handler holds
\* acl_write_gate; denied, manual: what it has read.
NoJob == [pc |-> "idle", who |-> CHOOSE s \in Sessions : TRUE, room |-> Root, todo |-> {},
          kids |-> {}, to |-> Root, gate |-> FALSE, denied |-> FALSE, manual |-> FALSE]
Job(pc, s, r, todo) == [NoJob EXCEPT !.pc = pc, !.who = s, !.room = r, !.todo = todo]

JobStates ==
    [pc : {"idle", "eval", "load", "store", "next", "speak", "set", "members",
           "promote", "remove"},
     who : Sessions, room : Rooms, todo : SUBSET Sessions, kids : SUBSET Rooms, to : Rooms,
     gate : BOOLEAN, denied : BOOLEAN, manual : BOOLEAN]

TypeOK ==
    /\ live \subseteq Rooms /\ Root \in live
    /\ parent \in [Rooms -> Rooms]
    /\ acl \in [Rooms -> AclWords]
    /\ grouped \subseteq Sessions /\ online \subseteq Sessions /\ fresh \subseteq Sessions
    /\ room \in [Sessions -> Rooms]
    /\ manual \in [Sessions -> BOOLEAN] /\ muted \in [Sessions -> BOOLEAN]
    /\ job \in [Actors -> JobStates]
    /\ unchecked \subseteq Sessions /\ crossed \subseteq Sessions

\* build_room_chain_owned: the rooms passed on the way up.  The climb ends at
\* Root, at an unknown room, which Root then precedes in the chain, or, on a
\* cycle, at the bound, past which Root comes too.
Silence == [here |-> "silent", subs |-> "silent"]
Above == [q \in Rooms |-> IF q = Root \/ q \notin live THEN Root ELSE parent[q]]
Climbed(up, r, n) == LET at[k \in Nat] == IF k = 0 THEN r ELSE up[at[k - 1]] IN at[n]
MaxClimb == Cardinality(Rooms)

\* acl::evaluate_user_permissions, asked for SPEAK: the word the room says of
\* itself, or the n-th room above it of its sub-rooms.  A room that is its own
\* parent is in the chain once (Vec::dedup), and so is Root.
AclOf(q) == IF q \in Rooms THEN acl[q] ELSE Silence
Words(r) ==
    [n \in 0..MaxClimb |->
        IF n = 0 THEN AclOf(r).here
        ELSE IF r = Root \/ (n < MaxClimb /\ Above[r] = r) THEN "silent"
        ELSE AclOf(IF n = MaxClimb THEN Root ELSE Climbed(Above, r, n)).subs]
SpeakDenied(s, r) ==
    LET said == Words(r) IN
    \/ s \notin grouped /\ \A n \in 0..MaxClimb : said[n] = "silent"
    \/ \E n \in 0..MaxClimb : said[n] = "deny" /\ \A m \in 0..MaxClimb : m < n => said[m] = "silent"

\* Whose SPEAK a step changes where they are.
Turned == {s \in Sessions : SpeakDenied(s, room[s])' # SpeakDenied(s, room[s])}

Members(r) == {s \in online : room[s] = r}

Start(late) ==
    /\ live = Rooms
    /\ parent = [r \in Rooms |-> Root]
    /\ acl = [r \in Rooms |-> Silence]
    /\ grouped = Sessions
    /\ online = Sessions \ late /\ fresh = late
    /\ room = [s \in Sessions |-> Root]
    /\ manual = [s \in Sessions |-> FALSE]
    /\ muted = [s \in Sessions |-> FALSE]
    /\ job = [x \in Actors |-> NoJob]
    /\ unchecked = {} /\ crossed = {}

Init == \E late \in SUBSET Sessions : Start(late)

Starts(x) == job[x].pc = "idle"

-----------------------------------------------------------------------------
(* handle_authenticate: the session is put in its last room, or in Root, with
   fresh flags and nothing evaluated. *)
Login(s) ==
    /\ Starts(s) /\ s \in fresh
    /\ fresh' = fresh \ {s} /\ online' = online \cup {s}
    /\ \E r \in live : room' = [room EXCEPT ![s] = r]
    /\ unchecked' = unchecked \cup {s}
    /\ UNCHANGED <<live, parent, acl, grouped, flags, job>>

Logout(s) ==
    /\ s \in online /\ job[s].pc = "idle"
    /\ online' = online \ {s}
    /\ UNCHANGED <<live, parent, acl, grouped, fresh, room, flags, job, unchecked>>

(* handle_join_room: the session moves, then its SPEAK is evaluated. *)
Join(s, r) ==
    /\ Starts(s) /\ s \in online /\ r \in live
    /\ room' = [room EXCEPT ![s] = r]
    /\ job' = [job EXCEPT ![s] = Job("eval", s, r, {})]
    /\ UNCHANGED <<live, parent, acl, grouped, online, fresh, flags, unchecked>>

-----------------------------------------------------------------------------
(* The steps that recompute a mute, in handle_join_room and in
   reevaluate_member_mute: evaluate SPEAK in the given room, read the
   override, write the result. *)
Evaluate(x) ==
    /\ job[x].pc = "eval"
    /\ job' = [job EXCEPT ![x].pc = "load", ![x].denied = SpeakDenied(job[x].who, job[x].room)]
    /\ UNCHANGED <<place, acl, grouped, flags, unchecked>>

\* Faulty variant: the override is not looked at.
LoadNoManual(x) ==
    /\ job[x].pc = "load"
    /\ job' = [job EXCEPT ![x].pc = "store", ![x].manual = FALSE]
    /\ UNCHANGED <<place, acl, grouped, flags, unchecked>>

LoadManual(x) ==
    /\ job[x].pc = "load"
    /\ job' = [job EXCEPT ![x].pc = "store", ![x].manual = manual[job[x].who]]
    /\ UNCHANGED <<place, acl, grouped, flags, unchecked>>

Store(x) ==
    /\ job[x].pc = "store"
    /\ muted' = [muted EXCEPT ![job[x].who] = job[x].denied \/ job[x].manual]
    /\ job' = [job EXCEPT ![x].pc = "next", ![x].denied = FALSE, ![x].manual = FALSE]
    /\ unchecked' = unchecked \ {job[x].who}
    /\ UNCHANGED <<place, acl, grouped, manual>>

\* The loop over the members; one without a live connection is skipped.
VisitNext(x) ==
    /\ job[x].pc = "next"
    /\ \/ job[x].todo = {} /\ job' = [job EXCEPT ![x] = NoJob]
       \/ \E s \in job[x].todo :
             job' = [job EXCEPT ![x].todo = job[x].todo \ {s}, ![x].who = s,
                                ![x].pc = IF s \in online THEN "eval" ELSE "next"]
    /\ UNCHANGED <<place, acl, grouped, flags, unchecked>>

-----------------------------------------------------------------------------
(* handle_set_server_mute *)
SetServerMute(x, s) ==
    /\ Starts(x) /\ s \in online
    /\ manual' = [manual EXCEPT ![s] = TRUE]
    /\ job' = [job EXCEPT ![x] = [Job("set", s, Root, {}) EXCEPT !.denied = TRUE]]
    /\ UNCHANGED <<place, acl, grouped, muted, unchecked>>

\* Faulty variant: an unmute is written without asking for SPEAK.
UnmuteAtOnce(x, s) ==
    /\ Starts(x) /\ s \in online
    /\ manual' = [manual EXCEPT ![s] = FALSE]
    /\ job' = [job EXCEPT ![x] = Job("set", s, Root, {})]
    /\ UNCHANGED <<place, acl, grouped, muted, unchecked>>

UnsetServerMute(x, s) ==
    /\ Starts(x) /\ s \in online
    /\ manual' = [manual EXCEPT ![s] = FALSE]
    /\ job' = [job EXCEPT ![x] = Job("speak", s, Root, {})]
    /\ UNCHANGED <<place, acl, grouped, muted, unchecked>>

\* On an unmute, SPEAK is evaluated in the room the session is in by now
\* (Root if it has left).
EvaluateUnmute(x) ==
    /\ job[x].pc = "speak"
    /\ LET s == job[x].who
           r == IF s \in online THEN room[s] ELSE Root
       IN  job' = [job EXCEPT ![x].pc = "set", ![x].denied = SpeakDenied(s, r)]
    /\ UNCHANGED <<place, acl, grouped, flags, unchecked>>

StoreEffective(x) ==
    /\ job[x].pc = "set"
    /\ muted' = [muted EXCEPT ![job[x].who] = job[x].denied]
    /\ job' = [job EXCEPT ![x] = NoJob]
    /\ unchecked' = unchecked \ {job[x].who}
    /\ UNCHANGED <<place, acl, grouped, manual>>

-----------------------------------------------------------------------------
(* apply_set_room_acl (its writes are in module AclSave) and the visit of the
   room's members, all under the gate *)
SetRoomAcl(x, r, w) ==
    /\ Starts(x) /\ r \in live
    /\ \A y \in Actors : ~job[y].gate
    /\ acl' = [acl EXCEPT ![r] = w]
    /\ job' = [job EXCEPT ![x] = [Job("members", NoJob.who, r, {}) EXCEPT !.gate = TRUE]]
    /\ UNCHANGED <<place, grouped, flags>>
    /\ unchecked' = unchecked \cup {s \in Turned : room[s] # r}

ListMembers(x) ==
    /\ job[x].pc = "members"
    /\ job' = [job EXCEPT ![x].pc = "next", ![x].todo = Members(job[x].room)]
    /\ UNCHANGED <<place, acl, grouped, flags, unchecked>>

(* apply_delete_room: the children go to the room's own parent one by one, the
   members are listed, the room and its ACL go and whoever is in it then moves
   to Root, and the listed members are visited.  Nobody in or below a child is. *)
DeleteRoom(x, r) ==
    /\ Starts(x) /\ r \in live \ {Root}
    /\ job' = [job EXCEPT ![x] = [Job("promote", NoJob.who, r, {}) EXCEPT
                  !.kids = {c \in live : parent[c] = r}, !.to = parent[r]]]
    /\ UNCHANGED <<place, acl, grouped, flags, unchecked>>

PromoteChild(x, c) ==
    /\ job[x].pc = "promote" /\ c \in job[x].kids
    /\ parent' = IF c \in live THEN [parent EXCEPT ![c] = job[x].to] ELSE parent
    /\ job' = [job EXCEPT ![x].kids = job[x].kids \ {c}]
    /\ UNCHANGED <<live, acl, grouped, online, fresh, room, flags>>
    /\ unchecked' = unchecked \cup Turned

ListDisplaced(x) ==
    /\ job[x].pc = "promote" /\ job[x].kids = {}
    /\ job' = [job EXCEPT ![x].pc = "remove", ![x].todo = Members(job[x].room)]
    /\ UNCHANGED <<place, acl, grouped, flags, unchecked>>

\* Members that came after the listing move to Root unvisited.
RemoveRoom(x) ==
    /\ job[x].pc = "remove"
    /\ LET r == job[x].room IN
       \/ /\ r \in live
          /\ live' = live \ {r}
          /\ acl' = [acl EXCEPT ![r] = Silence]
          /\ room' = [s \in Sessions |-> IF room[s] = r THEN Root ELSE room[s]]
          /\ job' = [job EXCEPT ![x].pc = "next", ![x].room = Root]
          /\ UNCHANGED <<parent, online, fresh, grouped, flags>>
          /\ unchecked' = unchecked \cup ((Members(r) \cup Turned) \ job[x].todo)
       \/ /\ r \notin live
          /\ job' = [job EXCEPT ![x] = NoJob]
          /\ UNCHANGED <<place, acl, grouped, flags, unchecked>>

(* handle_move_room, which recomputes nobody's mute.  Its refusal of a room's
   own descendants, which two moves at once escape, is in RoomTree: here any
   room may go to any other, unknown ones included. *)
MoveRoom(x, r, p) ==
    /\ Starts(x) /\ r \in live /\ p # r
    /\ parent' = [parent EXCEPT ![r] = p]
    /\ UNCHANGED <<live, acl, grouped, online, fresh, room, flags, job>>
    /\ unchecked' = unchecked \cup Turned

(* apply_set_user_group on a group that carries SPEAK *)
SetUserGroup(x, s) ==
    /\ Starts(x) /\ s \in online
    /\ grouped' = IF s \in grouped THEN grouped \ {s} ELSE grouped \cup {s}
    /\ unchecked' = unchecked \cup {s}
    /\ UNCHANGED <<place, acl, flags, job>>

-----------------------------------------------------------------------------
Step ==
    \/ \E s \in Sessions : Login(s) \/ Logout(s) \/ \E r \in Rooms : Join(s, r)
    \/ \E x \in Actors : Evaluate(x) \/ LoadManual(x) \/ Store(x) \/ VisitNext(x)
    \/ \E x \in Admins :
          \/ \E s \in Sessions : SetServerMute(x, s) \/ UnsetServerMute(x, s) \/ SetUserGroup(x, s)
          \/ \E r \in Rooms : \/ DeleteRoom(x, r) \/ PromoteChild(x, r)
                             \/ \E w \in AclWords : SetRoomAcl(x, r, w)
                             \/ \E p \in Rooms : MoveRoom(x, r, p)
          \/ EvaluateUnmute(x) \/ StoreEffective(x) \/ ListMembers(x) \/ ListDisplaced(x)
          \/ RemoveRoom(x)

\* The sessions a handler is at: the one it recomputes and those to come.
At(x) ==
    IF job[x].pc \in {"eval", "load", "store", "speak", "set"} THEN {job[x].who} \cup job[x].todo
    ELSE IF job[x].pc = "members" THEN Members(job[x].room)
    ELSE job[x].todo

\* What the mute of s should follow
Basis(s) == <<room[s], manual[s], SpeakDenied(s, room[s])>>

Next ==
    /\ Step
    /\ crossed' = crossed \cup
          {s \in Sessions :
              \/ \E x, y \in Actors : x # y /\ s \in At(x)' \cap At(y)'
              \/ Basis(s)' # Basis(s) /\ \E x \in Actors : s \in At(x) /\ job'[x] = job[x]}

Spec == Init /\ [][Next]_vars

-----------------------------------------------------------------------------
(* Properties.  They are about the moments when no handler is at work, and
   about sessions that never had two handlers at them at once: a SetServerMute
   between a join's read of the override and its write is lost. *)
Quiet == \A x \in Actors : job[x].pc = "idle"

\* "should_server_mute = speak_denied || manually_muted": the flag the relay
\* checks is the override or the missing permission, in both directions,
\* however the joins, mutes, ACL edits, room moves and room deletions of other
\* sessions interleave, except for sessions whose SPEAK changed in one of the ways that
\* recompute nothing.
MuteIsExact ==
    Quiet => \A s \in online \ (unchecked \cup crossed) :
                muted[s] = (manual[s] \/ SpeakDenied(s, room[s]))

\* A moderator's mute holds until a moderator lifts it, whichever handlers
\* recompute the flag afterwards, however SPEAK came to be what it is.
ManualMuteHolds == Quiet => \A s \in online \ crossed : manual[s] => muted[s]
================================================================================
