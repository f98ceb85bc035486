---------------------------- MODULE ServerMuteProofs ----------------------------
(***************************************************************************)
(* The server mute is exact for every set of sessions, moderators, rooms   *)
(* and ACLs.                                                               *)
(*                                                                         *)
(* What the flag is at rest follows from what a handler knows on its way:  *)
(* the room it evaluates in is still the session's room, what it has read  *)
(* still holds, and a flag that is out of date has a handler at it that    *)
(* will write it.  That is inductive for a session that no second handler  *)
(* crosses, since then nobody else changes what its mute depends on.       *)
(*                                                                         *)
(* The other end of that mute, the microphone of the client that is told   *)
(* of it (Capture, whose variables are its own), follows after it.         *)
(***************************************************************************)
EXTENDS ServerMute, Capture, TLAPS

\* Who may not speak where they are
Denied == [s \in Sessions |-> SpeakDenied(s, room[s])]

Placed == \A s \in Sessions : room[s] \in live
Apart == /\ \A s \in online : s \notin fresh
         /\ \A x \in Actors : \A s \in At(x) : s \notin fresh
Shape == \A x \in Actors :
            /\ job[x].pc \in {"idle", "speak", "set", "promote"} => job[x].todo = {}
            /\ job[x].pc \in {"promote", "remove"} => job[x].room # Root
Base == TypeOK /\ Placed /\ Apart /\ Shape

Recomputes == {"eval", "load", "store", "next", "remove", "members"}

\* What handler x has read of s still holds.
Sound(s, x) ==
    /\ s \in At(x) /\ job[x].pc \in Recomputes => room[s] = job[x].room
    /\ job[x].who = s =>
          /\ job[x].pc \in {"load", "store"} => job[x].denied = Denied[s]
          /\ job[x].pc = "store" => job[x].manual = manual[s]
          /\ job[x].pc = "speak" => ~manual[s]
          /\ job[x].pc = "set" => /\ s \in online => job[x].denied = (manual[s] \/ Denied[s])
                                  /\ manual[s] => job[x].denied

Settled(s) == muted[s] = (manual[s] \/ Denied[s])
Sets(s, x) == job[x].pc = "set" /\ job[x].who = s

Exact(s) == s \in online /\ s \notin unchecked => Settled(s) \/ \E x \in Actors : s \in At(x)
Hold(s) == manual[s] => muted[s] \/ \E x \in Actors : Sets(s, x)

MuteInv ==
    /\ Base
    /\ \A s \in Sessions \ crossed : Exact(s) /\ Hold(s) /\ \A x \in Actors : Sound(s, x)

Crossing ==
    crossed' = crossed \cup
        {s \in Sessions :
            \/ \E x, y \in Actors : x # y /\ s \in At(x)' \cap At(y)'
            \/ Basis(s)' # Basis(s) /\ \E x \in Actors : s \in At(x) /\ job'[x] = job[x]}

-----------------------------------------------------------------------------
(* What SPEAK depends on *)
LEMMA DeniedType == Denied \in [Sessions -> BOOLEAN]
  BY DEF Denied, SpeakDenied

LEMMA SpeakSame ==
  ASSUME NEW s \in Sessions, NEW q, Words(q)' = Words(q), s \in grouped' <=> s \in grouped,
         room[s] = q, room'[s] = q
  PROVE  Denied'[s] = Denied[s]
  <1>1. SpeakDenied(s, q)' = SpeakDenied(s, q)
    BY Zenon DEF SpeakDenied
  <1>2. Denied[s] = SpeakDenied(s, q)
    BY DEF Denied
  <1>3. Denied'[s] = SpeakDenied(s, q)'
    BY Zenon DEF Denied
  <1> QED
    BY <1>1, <1>2, <1>3

LEMMA DeniedFrame ==
  ASSUME NEW s \in Sessions, room'[s] = room[s], acl' = acl, live' = live, parent' = parent,
         s \in grouped' <=> s \in grouped
  PROVE  Denied'[s] = Denied[s]
  <1>1. PICK q : q = room[s]
    OBVIOUS
  <1>2. Above' = Above
    BY DEF Above
  <1>3. Words(q)' = Words(q)
    BY <1>2 DEF Words, AclOf
  <1> QED
    BY <1>1, <1>3, SpeakSame

\* Whoever stays where they are and is not counted has the SPEAK they had.
LEMMA DeniedUnturned ==
  ASSUME NEW s \in Sessions, s \notin Turned, room'[s] = room[s]
  PROVE  Denied'[s] = Denied[s]
  <1>1. SpeakDenied(s, room[s])' = SpeakDenied(s, room[s])
    BY DEF Turned
  <1> QED
    BY <1>1 DEF Denied

\* What it takes not to be crossed by a step
LEMMA Uncrossed ==
  ASSUME Crossing, NEW s \in Sessions, s \notin crossed'
  PROVE  /\ s \notin crossed
         /\ \A x, y \in Actors : x # y => ~(s \in At(x)' /\ s \in At(y)')
         /\ \A x \in Actors : s \in At(x) /\ job'[x] = job[x] =>
               room'[s] = room[s] /\ manual'[s] = manual[s] /\ Denied'[s] = Denied[s]
  <1>1. s \notin crossed /\ \A x, y \in Actors : x # y => ~(s \in At(x)' /\ s \in At(y)')
    BY DEF Crossing
  <1>2. ASSUME NEW x \in Actors, s \in At(x), job'[x] = job[x]
        PROVE  room'[s] = room[s] /\ manual'[s] = manual[s] /\ Denied'[s] = Denied[s]
    <2>1. Basis(s)' = Basis(s)
      BY <1>2 DEF Crossing
    <2> QED
      BY <2>1 DEF Basis, Denied
  <1> QED
    BY <1>1, <1>2

-----------------------------------------------------------------------------
(* Handlers *)
LEMMA NoJobType == NoJob \in JobStates /\ NoJob.pc = "idle" /\ NoJob.todo = {}
  BY MuteConstants DEF NoJob, JobStates

LEMMA JobType ==
  ASSUME NEW s \in Sessions, NEW r \in Rooms, NEW todo \in SUBSET Sessions,
         NEW pc \in {"eval", "speak", "set", "members", "promote"}
  PROVE  /\ Job(pc, s, r, todo) \in JobStates
         /\ Job(pc, s, r, todo).pc = pc /\ Job(pc, s, r, todo).who = s
         /\ Job(pc, s, r, todo).room = r /\ Job(pc, s, r, todo).todo = todo
  BY NoJobType DEF Job, JobStates

LEMMA ActorTypes == Sessions \subseteq Actors /\ Admins \subseteq Actors
  BY DEF Actors

LEMMA JobUpdate ==
  ASSUME TypeOK, NEW x \in Actors, NEW j \in JobStates, job' = [job EXCEPT ![x] = j]
  PROVE  /\ job' \in [Actors -> JobStates]
         /\ job'[x] = j
         /\ \A y \in Actors \ {x} : job'[y] = job[y]
  BY DEF TypeOK

\* Whom a handler is at follows from its own state, except while it lists the
\* members of its room.
LEMMA AtFrame ==
  ASSUME NEW y \in Actors, job'[y] = job[y], NEW s,
         room'[s] = room[s] \/ job[y].pc # "members",
         (s \in online' <=> s \in online) \/ job[y].pc # "members"
  PROVE  s \in At(y)' <=> s \in At(y)
  BY DEF At, Members

LEMMA AtSessionsNext ==
  ASSUME TypeOK', NEW x \in Actors PROVE At(x)' \subseteq Sessions
  <1>1. job'[x] \in JobStates
    BY DEF TypeOK
  <1> QED
    BY <1>1 DEF At, JobStates, Members, TypeOK

-----------------------------------------------------------------------------
(* A step of handler x, or of none: what has to be shown of x alone. *)
LEMMA OthersSound ==
  ASSUME MuteInv, Crossing, NEW s \in Sessions, s \notin crossed',
         NEW y \in Actors, job'[y] = job[y], s \in online' => s \in online \/ s \in fresh
  PROVE  Sound(s, y)'
  <1>1. s \notin crossed /\ Sound(s, y)
    BY Uncrossed DEF MuteInv
  <1>2. s \in At(y) => /\ room'[s] = room[s] /\ manual'[s] = manual[s] /\ Denied'[s] = Denied[s]
                       /\ s \notin fresh
    BY Uncrossed DEF MuteInv, Base, Apart
  <1>3. s \in At(y)' /\ job[y].pc \in Recomputes => room'[s] = job[y].room
    <2>1. CASE job[y].pc = "members"
      BY <2>1 DEF At, Members
    <2>2. CASE job[y].pc # "members"
      BY <2>2, <1>1, <1>2, AtFrame DEF Sound
    <2> QED
      BY <2>1, <2>2
  <1>4. job[y].who = s /\ job[y].pc \in {"load", "store", "speak", "set"} => s \in At(y)
    BY DEF At
  <1>5. Denied[s] \in BOOLEAN
    BY DeniedType
  <1> QED
    BY <1>1, <1>2, <1>3, <1>4, <1>5 DEF Sound

ExactStep(s, x) ==
    s \in online' /\ s \notin unchecked' =>
        \/ s \in At(x)' \/ Settled(s)'
        \/ /\ s \in online /\ s \notin unchecked /\ s \notin At(x)
           /\ room'[s] = room[s] /\ manual'[s] = manual[s] /\ muted'[s] = muted[s]
           /\ Denied'[s] = Denied[s]

HoldStep(s, x) ==
    manual'[s] => \/ muted'[s] \/ Sets(s, x)'
                  \/ manual[s] /\ muted'[s] = muted[s] /\ ~Sets(s, x)

LEMMA StepInv ==
  ASSUME MuteInv, Base', Crossing, NEW x \in Actors,
         \A y \in Actors \ {x} : job'[y] = job[y],
         \A s \in online' : s \in online \/ s \in fresh,
         \A s \in Sessions \ crossed' : Sound(s, x)' /\ ExactStep(s, x) /\ HoldStep(s, x)
  PROVE  MuteInv'
  <1>1. ASSUME NEW s \in Sessions \ crossed' PROVE Exact(s)' /\ Hold(s)' /\ \A y \in Actors : Sound(s, y)'
    <2>1. s \notin crossed /\ Exact(s) /\ Hold(s)
      BY Uncrossed DEF MuteInv
    <2>2. ASSUME NEW y \in Actors PROVE Sound(s, y)'
      BY OthersSound
    <2>3. Exact(s)'
      <3>1. SUFFICES ASSUME s \in online', s \notin unchecked', ~Settled(s)', s \notin At(x)'
                     PROVE  \E y \in Actors : s \in At(y)'
        BY DEF Exact
      <3>2. /\ s \in online /\ s \notin unchecked /\ s \notin At(x)
            /\ room'[s] = room[s] /\ manual'[s] = manual[s] /\ muted'[s] = muted[s]
            /\ Denied'[s] = Denied[s]
        BY <3>1 DEF ExactStep
      <3>3. ~Settled(s)
        BY <3>1, <3>2 DEF Settled
      <3>4. PICK y \in Actors : s \in At(y)
        BY <2>1, <3>2, <3>3 DEF Exact
      <3>5. job'[y] = job[y]
        BY <3>2, <3>4
      <3> QED
        BY <3>1, <3>2, <3>4, <3>5, AtFrame
    <2>4. Hold(s)'
      <3>1. SUFFICES ASSUME manual'[s], ~muted'[s], ~Sets(s, x)'
                     PROVE  \E y \in Actors : Sets(s, y)'
        BY DEF Hold
      <3>2. manual[s] /\ muted'[s] = muted[s] /\ ~Sets(s, x)
        BY <3>1 DEF HoldStep
      <3>3. PICK y \in Actors : Sets(s, y)
        BY <2>1, <3>1, <3>2 DEF Hold
      <3> QED
        BY <3>2, <3>3 DEF Sets
    <2> QED
      BY <2>2, <2>3, <2>4
  <1> QED
    BY <1>1 DEF MuteInv

-----------------------------------------------------------------------------
(* The common parts of the actions *)
ShapeOf(j) == /\ j.pc \in {"idle", "speak", "set", "promote"} => j.todo = {}
              /\ j.pc \in {"promote", "remove"} => j.room # Root

LEMMA CrossedType == ASSUME Base, Crossing PROVE crossed' \subseteq Sessions
  BY DEF Base, TypeOK, Crossing

LEMMA BaseReparent ==
  ASSUME Base, Crossing, NEW x \in Actors, NEW j \in JobStates, job' = [job EXCEPT ![x] = j],
         UNCHANGED <<live, online, fresh, room, grouped>>, parent' \in [Rooms -> Rooms],
         acl' \in [Rooms -> AclWords], manual' \in [Sessions -> BOOLEAN],
         muted' \in [Sessions -> BOOLEAN], unchecked' \subseteq Sessions,
         ShapeOf(j), \A s \in At(x)' : s \notin fresh
  PROVE  Base'
  <1>1. TypeOK /\ Placed /\ Apart /\ Shape
    BY DEF Base
  <1>2. /\ job' \in [Actors -> JobStates] /\ job'[x] = j
        /\ \A y \in Actors \ {x} : job'[y] = job[y]
    BY <1>1, JobUpdate
  <1>3. TypeOK'
    BY <1>1, <1>2, CrossedType DEF TypeOK
  <1>4. Placed'
    BY <1>1 DEF Placed
  <1>5. Apart'
    <2>1. ASSUME NEW y \in Actors, NEW s \in At(y)' PROVE s \notin fresh
      <3>1. CASE y # x
        <4>1. s \in At(y)
          BY <3>1, <1>2, AtFrame
        <4> QED
          BY <4>1, <1>1 DEF Apart
      <3> QED
        BY <3>1
    <2> QED
      BY <2>1, <1>1 DEF Apart
  <1>6. Shape'
    BY <1>1, <1>2 DEF Shape, ShapeOf
  <1> QED
    BY <1>3, <1>4, <1>5, <1>6 DEF Base

LEMMA BaseMove ==
  ASSUME Base, Crossing, NEW x \in Actors, NEW j \in JobStates, job' = [job EXCEPT ![x] = j],
         UNCHANGED <<place, grouped>>,
         acl' \in [Rooms -> AclWords], manual' \in [Sessions -> BOOLEAN],
         muted' \in [Sessions -> BOOLEAN], unchecked' \subseteq Sessions,
         ShapeOf(j), \A s \in At(x)' : s \notin fresh
  PROVE  Base'
  <1>1. UNCHANGED <<live, online, fresh, room, grouped>> /\ parent' \in [Rooms -> Rooms]
    BY DEF place, Base, TypeOK
  <1> QED
    BY <1>1, BaseReparent

\* A step that changes nothing but the handler's own state
LEMMA ReadInv ==
  ASSUME MuteInv, Crossing, NEW x \in Actors, NEW j \in JobStates, job' = [job EXCEPT ![x] = j],
         UNCHANGED <<place, acl, grouped, flags, unchecked>>, ShapeOf(j), job[x].pc # "set",
         \A s \in At(x)' : s \in At(x) \/ s \in online,
         \A s \in Sessions \ crossed' : /\ s \in At(x) /\ s \in online => s \in At(x)'
                                        /\ Sound(s, x)'
  PROVE  MuteInv'
  <1>1. Base /\ TypeOK /\ Apart
    BY DEF MuteInv, Base
  <1>2. \A s \in At(x)' : s \notin fresh
    BY <1>1 DEF Apart
  <1>3. Base'
    BY <1>1, <1>2, BaseMove DEF TypeOK, flags
  <1>4. \A y \in Actors \ {x} : job'[y] = job[y]
    BY <1>1, JobUpdate
  <1>5. ASSUME NEW s \in Sessions \ crossed' PROVE ExactStep(s, x) /\ HoldStep(s, x)
    <2>1. Denied'[s] = Denied[s]
      BY DeniedFrame DEF place
    <2> QED
      BY <2>1 DEF ExactStep, HoldStep, Sets, place, flags
  <1> QED
    BY <1>3, <1>4, <1>5, StepInv DEF place

-----------------------------------------------------------------------------
(* The actions *)
LEMMA EvaluateInv ==
  ASSUME MuteInv, Crossing, NEW x \in Actors, Evaluate(x) PROVE MuteInv'
  <1> DEFINE d == SpeakDenied(job[x].who, job[x].room)
             j == [job[x] EXCEPT !.pc = "load", !.denied = d]
  <1>1. TypeOK /\ job[x] \in JobStates
    BY DEF MuteInv, Base, TypeOK
  <1>2. d \in BOOLEAN
    BY DEF SpeakDenied
  <1>3. job' = [job EXCEPT ![x] = j]
    BY DEF Evaluate
  <1>d. job[x].who \in Sessions /\ (room[job[x].who] = job[x].room => d = Denied[job[x].who])
    BY <1>1 DEF JobStates, Denied
  <1> HIDE DEF d
  <1>4. /\ j \in JobStates /\ j.pc = "load" /\ j.who = job[x].who /\ j.room = job[x].room
        /\ j.todo = job[x].todo /\ j.denied = d
    BY <1>1, <1>2 DEF JobStates
  <1> HIDE DEF j
  <1>5. job'[x] = j /\ job[x].pc = "eval"
    BY <1>1, <1>3, <1>4, JobUpdate DEF Evaluate
  <1>6. UNCHANGED <<place, acl, grouped, flags, unchecked>>
    BY DEF Evaluate
  <1>7. \A s : s \in At(x)' <=> s \in At(x)
    BY <1>4, <1>5 DEF At
  <1>8. ASSUME NEW s \in Sessions \ crossed' PROVE Sound(s, x)'
    <2>1. Sound(s, x)
      BY Uncrossed DEF MuteInv
    <2>2. Denied'[s] = Denied[s] /\ room'[s] = room[s]
      BY <1>6, DeniedFrame DEF place
    <2>3. s \in At(x) => room[s] = job[x].room
      BY <2>1, <1>5 DEF Sound, Recomputes
    <2>4. job[x].who \in At(x)
      BY <1>5 DEF At
    <2> QED
      BY <2>2, <2>3, <2>4, <1>4, <1>5, <1>7, <1>d DEF Sound
  <1> QED
    BY <1>3, <1>4, <1>5, <1>6, <1>7, <1>8, ReadInv DEF ShapeOf

LEMMA LoadManualInv ==
  ASSUME MuteInv, Crossing, NEW x \in Actors, LoadManual(x) PROVE MuteInv'
  <1> DEFINE j == [job[x] EXCEPT !.pc = "store", !.manual = manual[job[x].who]]
  <1>1. TypeOK /\ job[x] \in JobStates
    BY DEF MuteInv, Base, TypeOK
  <1>2. manual[job[x].who] \in BOOLEAN
    BY <1>1 DEF JobStates, TypeOK
  <1>3. job' = [job EXCEPT ![x] = j]
    BY DEF LoadManual
  <1>4. /\ j \in JobStates /\ j.pc = "store" /\ j.who = job[x].who /\ j.room = job[x].room
        /\ j.todo = job[x].todo /\ j.denied = job[x].denied /\ j.manual = manual[job[x].who]
    BY <1>1, <1>2 DEF JobStates
  <1> HIDE DEF j
  <1>5. job'[x] = j /\ job[x].pc = "load"
    BY <1>1, <1>3, <1>4, JobUpdate DEF LoadManual
  <1>6. UNCHANGED <<place, acl, grouped, flags, unchecked>>
    BY DEF LoadManual
  <1>7. \A s : s \in At(x)' <=> s \in At(x)
    BY <1>4, <1>5 DEF At
  <1>8. ASSUME NEW s \in Sessions \ crossed' PROVE Sound(s, x)'
    <2>1. Sound(s, x)
      BY Uncrossed DEF MuteInv
    <2>2. Denied'[s] = Denied[s] /\ room'[s] = room[s] /\ manual'[s] = manual[s]
      BY <1>6, DeniedFrame DEF place, flags
    <2> QED
      BY <2>1, <2>2, <1>4, <1>5, <1>7 DEF Sound, Recomputes
  <1> QED
    BY <1>3, <1>4, <1>5, <1>6, <1>7, <1>8, ReadInv DEF ShapeOf

\* A handler that is at nobody any more is done.
LEMMA DoneInv ==
  ASSUME MuteInv, Crossing, NEW x \in Actors, job' = [job EXCEPT ![x] = NoJob],
         UNCHANGED <<place, acl, grouped, flags, unchecked>>, job[x].pc # "set",
         \A s \in Sessions \ crossed' : s \notin At(x)
  PROVE  MuteInv'
  <1>1. TypeOK
    BY DEF MuteInv, Base
  <1>2. job'[x] = NoJob
    BY <1>1, JobUpdate, NoJobType
  <1>3. \A s : s \notin At(x)'
    BY <1>2, NoJobType DEF At
  <1>4. \A s \in Sessions : Sound(s, x)'
    BY <1>2, <1>3, NoJobType DEF Sound
  <1> QED
    BY <1>3, <1>4, NoJobType, ReadInv DEF ShapeOf

LEMMA VisitNextInv ==
  ASSUME MuteInv, Crossing, NEW x \in Actors, VisitNext(x) PROVE MuteInv'
  <1>1. TypeOK /\ job[x] \in JobStates
    BY DEF MuteInv, Base, TypeOK
  <1>2. job[x].pc = "next" /\ UNCHANGED <<place, acl, grouped, flags, unchecked>>
    BY DEF VisitNext
  <1>3. \A s : s \in At(x) <=> s \in job[x].todo
    BY <1>2 DEF At
  <1>4. CASE job[x].todo = {} /\ job' = [job EXCEPT ![x] = NoJob]
    BY <1>2, <1>3, <1>4, DoneInv
  <1>5. ASSUME NEW v \in job[x].todo,
               job' = [job EXCEPT ![x].todo = job[x].todo \ {v}, ![x].who = v,
                                  ![x].pc = IF v \in online THEN "eval" ELSE "next"]
        PROVE  MuteInv'
    <2> DEFINE p == IF v \in online THEN "eval" ELSE "next"
               j == [job[x] EXCEPT !.todo = job[x].todo \ {v}, !.who = v, !.pc = p]
    <2>1. job' = [job EXCEPT ![x] = j]
      BY <1>5
    <2>2. v \in Sessions /\ p \in {"eval", "next"}
      BY <1>1, <1>5 DEF JobStates
    <2>p. p = "eval" <=> v \in online
      OBVIOUS
    <2> HIDE DEF p
    <2>3. /\ j \in JobStates /\ j.pc = p /\ j.who = v /\ j.room = job[x].room
          /\ j.todo = job[x].todo \ {v}
      BY <1>1, <2>2 DEF JobStates
    <2> HIDE DEF j
    <2>4. job'[x] = j
      BY <1>1, <2>1, <2>3, JobUpdate
    <2>5. \A s : s \in At(x)' <=> s \in job[x].todo /\ (s # v \/ v \in online)
      BY <2>2, <2>p, <2>3, <2>4, <1>5 DEF At
    <2>6. ASSUME NEW s \in Sessions \ crossed' PROVE Sound(s, x)'
      <3>1. Sound(s, x)
        BY Uncrossed DEF MuteInv
      <3>2. s \in At(x)' => room'[s] = job[x].room
        BY <3>1, <2>5, <1>2, <1>3 DEF Sound, Recomputes, place
      <3> QED
        BY <3>2, <2>2, <2>3, <2>4 DEF Sound
    <2> QED
      BY <2>1, <2>2, <2>3, <2>5, <2>6, <1>2, <1>3, ReadInv DEF ShapeOf
  <1> QED
    BY <1>4, <1>5 DEF VisitNext

LEMMA EvaluateUnmuteInv ==
  ASSUME MuteInv, Crossing, NEW x \in Actors, EvaluateUnmute(x) PROVE MuteInv'
  <1> DEFINE v == job[x].who
             d == SpeakDenied(v, IF v \in online THEN room[v] ELSE Root)
             j == [job[x] EXCEPT !.pc = "set", !.denied = d]
  <1>1. TypeOK /\ job[x] \in JobStates /\ Shape
    BY DEF MuteInv, Base, TypeOK
  <1>2. d \in BOOLEAN
    BY DEF SpeakDenied
  <1>3. job' = [job EXCEPT ![x] = j]
    BY DEF EvaluateUnmute
  <1>d. v \in Sessions /\ (v \in online => d = Denied[v])
    BY <1>1 DEF JobStates, Denied
  <1> HIDE DEF d
  <1>4. /\ j \in JobStates /\ j.pc = "set" /\ j.who = v /\ j.todo = job[x].todo /\ j.denied = d
    BY <1>1, <1>2 DEF JobStates
  <1> HIDE DEF j
  <1>5. job'[x] = j /\ job[x].pc = "speak"
    BY <1>1, <1>3, <1>4, JobUpdate DEF EvaluateUnmute
  <1>6. UNCHANGED <<place, acl, grouped, flags, unchecked>>
    BY DEF EvaluateUnmute
  <1>7. \A s : s \in At(x)' <=> s \in At(x)
    BY <1>4, <1>5 DEF At
  <1>8. ASSUME NEW s \in Sessions \ crossed' PROVE Sound(s, x)'
    <2>1. Sound(s, x)
      BY Uncrossed DEF MuteInv
    <2>2. /\ Denied'[s] = Denied[s] /\ manual'[s] = manual[s] /\ online' = online
          /\ Denied[s] \in BOOLEAN
      BY <1>6, DeniedFrame, DeniedType DEF place, flags
    <2>3. v = s => ~manual[s]
      BY <2>1, <1>5 DEF Sound
    <2> QED
      BY <2>2, <2>3, <1>2, <1>4, <1>5, <1>d DEF Sound, Recomputes
  <1>9. ShapeOf(j)
    BY <1>1, <1>4, <1>5 DEF Shape, ShapeOf
  <1> QED
    BY <1>3, <1>4, <1>5, <1>6, <1>7, <1>8, <1>9, ReadInv

LEMMA ListMembersInv ==
  ASSUME MuteInv, Crossing, NEW x \in Actors, ListMembers(x) PROVE MuteInv'
  <1> DEFINE m == Members(job[x].room)
             j == [job[x] EXCEPT !.pc = "next", !.todo = m]
  <1>1. TypeOK /\ job[x] \in JobStates
    BY DEF MuteInv, Base, TypeOK
  <1>2. m \in SUBSET Sessions /\ \A s : s \in m <=> s \in online /\ room[s] = job[x].room
    BY <1>1 DEF Members, TypeOK
  <1>3. job' = [job EXCEPT ![x] = j] /\ UNCHANGED <<place, acl, grouped, flags, unchecked>>
    BY DEF ListMembers
  <1>a. job[x].pc = "members" /\ \A s : s \in At(x) <=> s \in m
    BY DEF At, ListMembers
  <1> HIDE DEF m
  <1>4. /\ j \in JobStates /\ j.pc = "next" /\ j.room = job[x].room /\ j.todo = m
    BY <1>1, <1>2 DEF JobStates
  <1> HIDE DEF j
  <1>5. job'[x] = j
    BY <1>1, <1>3, <1>4, JobUpdate
  <1>6. \A s : s \in At(x)' <=> s \in m
    BY <1>4, <1>5 DEF At
  <1>7. ASSUME NEW s \in Sessions PROVE Sound(s, x)'
    BY <1>2, <1>3, <1>4, <1>5, <1>6 DEF Sound, place
  <1> QED
    BY <1>a, <1>3, <1>4, <1>5, <1>6, <1>7, ReadInv DEF ShapeOf

LEMMA DeleteRoomInv ==
  ASSUME MuteInv, Crossing, NEW x \in Actors, NEW r \in Rooms, DeleteRoom(x, r) PROVE MuteInv'
  <1> DEFINE k == Job("promote", NoJob.who, r, {})
             kids == {c \in live : parent[c] = r}
             j == [k EXCEPT !.kids = kids, !.to = parent[r]]
  <1>1. TypeOK /\ Shape
    BY DEF MuteInv, Base
  <1>2. kids \in SUBSET Rooms /\ parent[r] \in Rooms
    BY <1>1 DEF TypeOK
  <1>3. /\ job' = [job EXCEPT ![x] = j] /\ UNCHANGED <<place, acl, grouped, flags, unchecked>>
        /\ job[x].pc = "idle" /\ r # Root
    BY DEF DeleteRoom, Starts
  <1>n. NoJob.who \in Sessions
    BY NoJobType DEF JobStates
  <1>k. k \in JobStates /\ k.pc = "promote" /\ k.room = r /\ k.todo = {}
    BY <1>n, JobType
  <1> HIDE DEF k, kids
  <1>4. j \in JobStates /\ j.pc = "promote" /\ j.room = r /\ j.todo = {}
    BY <1>2, <1>k DEF JobStates
  <1> HIDE DEF j
  <1>5. job'[x] = j
    BY <1>1, <1>3, <1>4, JobUpdate
  <1>6. \A s : s \notin At(x)' /\ s \notin At(x)
    BY <1>1, <1>3, <1>4, <1>5 DEF At, Shape
  <1>7. ASSUME NEW s \in Sessions PROVE Sound(s, x)'
    BY <1>4, <1>5, <1>6 DEF Sound
  <1> QED
    BY <1>3, <1>4, <1>6, <1>7, ReadInv DEF ShapeOf

LEMMA ListDisplacedInv ==
  ASSUME MuteInv, Crossing, NEW x \in Actors, ListDisplaced(x) PROVE MuteInv'
  <1> DEFINE m == Members(job[x].room)
             j == [job[x] EXCEPT !.pc = "remove", !.todo = m]
  <1>1. TypeOK /\ Shape /\ job[x] \in JobStates
    BY DEF MuteInv, Base, TypeOK
  <1>2. m \in SUBSET Sessions /\ \A s : s \in m <=> s \in online /\ room[s] = job[x].room
    BY <1>1 DEF Members, TypeOK
  <1>3. /\ job' = [job EXCEPT ![x] = j] /\ UNCHANGED <<place, acl, grouped, flags, unchecked>>
        /\ job[x].pc = "promote"
    BY DEF ListDisplaced
  <1> HIDE DEF m
  <1>4. /\ j \in JobStates /\ j.pc = "remove" /\ j.room = job[x].room /\ j.todo = m
    BY <1>1, <1>2 DEF JobStates
  <1> HIDE DEF j
  <1>5. job'[x] = j
    BY <1>1, <1>3, <1>4, JobUpdate
  <1>6. /\ \A s : s \in At(x)' <=> s \in m
        /\ \A s : s \notin At(x)
    BY <1>1, <1>3, <1>4, <1>5 DEF At, Shape
  <1>7. ASSUME NEW s \in Sessions PROVE Sound(s, x)'
    BY <1>2, <1>3, <1>4, <1>5, <1>6 DEF Sound, place
  <1>8. ShapeOf(j)
    BY <1>1, <1>3, <1>4 DEF Shape, ShapeOf
  <1> QED
    BY <1>2, <1>3, <1>4, <1>5, <1>6, <1>7, <1>8, ReadInv

\* A room goes elsewhere, by a handler that is at nobody.
LEMMA ReparentInv ==
  ASSUME MuteInv, Crossing, NEW x \in Actors, NEW j \in JobStates, job' = [job EXCEPT ![x] = j],
         UNCHANGED <<live, acl, grouped, online, fresh, room, flags>>,
         parent' \in [Rooms -> Rooms], unchecked' = unchecked \cup Turned,
         ShapeOf(j), j.pc \in {"idle", "promote"}, job[x].pc \in {"idle", "promote"}
  PROVE  MuteInv'
  <1>1. Base /\ TypeOK /\ Apart /\ Shape
    BY DEF MuteInv, Base
  <1>2. job'[x] = j /\ \A y \in Actors \ {x} : job'[y] = job[y]
    BY <1>1, JobUpdate
  <1>3. \A s : s \notin At(x)' /\ s \notin At(x)
    BY <1>1, <1>2 DEF At, Shape, ShapeOf
  <1>4. Base'
    <2>1. unchecked' \subseteq Sessions
      BY <1>1 DEF TypeOK, Turned
    <2>2. /\ acl' \in [Rooms -> AclWords] /\ manual' \in [Sessions -> BOOLEAN]
          /\ muted' \in [Sessions -> BOOLEAN]
      BY <1>1 DEF TypeOK, flags
    <2> QED
      BY <1>1, <1>3, <2>1, <2>2, BaseReparent
  <1>5. ASSUME NEW s \in Sessions \ crossed'
        PROVE  Sound(s, x)' /\ ExactStep(s, x) /\ HoldStep(s, x)
    <2>1. room'[s] = room[s] /\ manual'[s] = manual[s] /\ muted'[s] = muted[s] /\ online' = online
      BY DEF flags
    <2>2. Sound(s, x)'
      BY <1>2, <1>3 DEF Sound
    <2>3. s \notin unchecked' => s \notin unchecked /\ Denied'[s] = Denied[s]
      BY <2>1, DeniedUnturned
    <2>4. ~Sets(s, x)
      BY DEF Sets
    <2> QED
      BY <2>1, <2>2, <2>3, <2>4, <1>3 DEF ExactStep, HoldStep
  <1> QED
    BY <1>2, <1>4, <1>5, StepInv

LEMMA PromoteChildInv ==
  ASSUME MuteInv, Crossing, NEW x \in Actors, NEW c \in Rooms, PromoteChild(x, c) PROVE MuteInv'
  <1> DEFINE j == [job[x] EXCEPT !.kids = job[x].kids \ {c}]
  <1>1. TypeOK /\ Shape /\ job[x] \in JobStates
    BY DEF MuteInv, Base, TypeOK
  <1>2. /\ job' = [job EXCEPT ![x] = j] /\ job[x].pc = "promote"
        /\ UNCHANGED <<live, acl, grouped, online, fresh, room, flags>>
        /\ unchecked' = unchecked \cup Turned
    BY DEF PromoteChild
  <1>3. j \in JobStates /\ j.pc = "promote" /\ j.room = job[x].room /\ j.todo = job[x].todo
    BY <1>1, <1>2 DEF JobStates
  <1>4. parent' \in [Rooms -> Rooms]
    <2>1. job[x].to \in Rooms /\ parent \in [Rooms -> Rooms]
      BY <1>1 DEF JobStates, TypeOK
    <2> QED
      BY <2>1 DEF PromoteChild
  <1> HIDE DEF j
  <1>5. ShapeOf(j)
    BY <1>1, <1>2, <1>3 DEF Shape, ShapeOf
  <1> QED
    BY <1>2, <1>3, <1>4, <1>5, ReparentInv

LEMMA MoveRoomInv ==
  ASSUME MuteInv, Crossing, NEW x \in Actors, NEW r \in Rooms, NEW p \in Rooms, MoveRoom(x, r, p)
  PROVE  MuteInv'
  <1>1. TypeOK /\ Shape /\ job[x] \in JobStates
    BY DEF MuteInv, Base, TypeOK
  <1>2. /\ job' = job /\ job[x].pc = "idle"
        /\ UNCHANGED <<live, acl, grouped, online, fresh, room, flags>>
        /\ unchecked' = unchecked \cup Turned
    BY DEF MoveRoom, Starts
  <1>3. job' = [job EXCEPT ![x] = job[x]]
    BY <1>1, <1>2 DEF TypeOK
  <1>4. parent' \in [Rooms -> Rooms]
    BY <1>1 DEF MoveRoom, TypeOK
  <1>5. ShapeOf(job[x])
    BY <1>1, <1>2 DEF Shape, ShapeOf
  <1> QED
    BY <1>1, <1>2, <1>3, <1>4, <1>5, ReparentInv

LEMMA StoreInv ==
  ASSUME MuteInv, Crossing, NEW x \in Actors, Store(x) PROVE MuteInv'
  <1> DEFINE v == job[x].who
             j == [job[x] EXCEPT !.pc = "next", !.denied = FALSE, !.manual = FALSE]
             b == job[x].denied \/ job[x].manual
  <1>1. Base /\ TypeOK /\ Apart /\ job[x] \in JobStates
    BY DEF MuteInv, Base, TypeOK
  <1>2. /\ job' = [job EXCEPT ![x] = j] /\ job[x].pc = "store"
        /\ UNCHANGED <<place, acl, grouped, manual>>
        /\ muted' = [muted EXCEPT ![v] = b]
        /\ unchecked' = unchecked \ {v}
    BY DEF Store
  <1>3. v \in Sessions /\ b \in BOOLEAN
    BY <1>1 DEF JobStates
  <1>4. j \in JobStates /\ j.pc = "next" /\ j.room = job[x].room /\ j.todo = job[x].todo
    BY <1>1 DEF JobStates
  <1> HIDE DEF j
  <1>5. job'[x] = j /\ \A y \in Actors \ {x} : job'[y] = job[y]
    BY <1>1, <1>2, <1>4, JobUpdate
  <1>6. /\ \A s : s \in At(x)' <=> s \in job[x].todo
        /\ \A s : s \in At(x) <=> s = v \/ s \in job[x].todo
    BY <1>2, <1>4, <1>5 DEF At
  <1>7. Base'
    <2>1. muted' \in [Sessions -> BOOLEAN] /\ unchecked' \subseteq Sessions
      BY <1>1, <1>2, <1>3 DEF TypeOK
    <2>2. \A s \in At(x)' : s \notin fresh
      BY <1>1, <1>6 DEF Apart
    <2>3. acl' \in [Rooms -> AclWords] /\ manual' \in [Sessions -> BOOLEAN]
      BY <1>1, <1>2 DEF TypeOK
    <2>4. ShapeOf(j)
      BY <1>4 DEF ShapeOf
    <2> QED
      BY <1>1, <1>2, <1>4, <2>1, <2>2, <2>3, <2>4, BaseMove
  <1>8. ASSUME NEW s \in Sessions \ crossed'
        PROVE  Sound(s, x)' /\ ExactStep(s, x) /\ HoldStep(s, x)
    <2>1. Sound(s, x)
      BY Uncrossed DEF MuteInv
    <2>2. Denied'[s] = Denied[s] /\ room'[s] = room[s] /\ manual'[s] = manual[s]
      BY <1>2, DeniedFrame DEF place
    <2>3. Sound(s, x)'
      BY <2>1, <2>2, <1>2, <1>4, <1>5, <1>6 DEF Sound, Recomputes
    <2>4. CASE s = v
      <3>1. job[x].denied = Denied[s] /\ job[x].manual = manual[s]
        BY <2>1, <2>4, <1>2 DEF Sound
      <3>2. muted'[s] = b /\ b = (manual[s] \/ Denied[s])
        <4>1. muted'[s] = b
          BY <2>4, <1>1, <1>2, <1>3 DEF TypeOK
        <4>2. b = (manual[s] \/ Denied[s])
          BY <3>1
        <4> QED
          BY <4>1, <4>2
      <3> QED
        BY <2>2, <2>3, <3>2 DEF ExactStep, HoldStep, Settled
    <2>5. CASE s # v
      <3>1. muted'[s] = muted[s]
        BY <2>5, <1>1, <1>2 DEF TypeOK
      <3> QED
        BY <2>2, <2>3, <2>5, <3>1, <1>2, <1>6 DEF ExactStep, HoldStep, Sets, place
    <2> QED
      BY <2>4, <2>5
  <1> QED
    BY <1>2, <1>5, <1>7, <1>8, StepInv DEF place

LEMMA StoreEffectiveInv ==
  ASSUME MuteInv, Crossing, NEW x \in Actors, StoreEffective(x) PROVE MuteInv'
  <1> DEFINE v == job[x].who
             b == job[x].denied
  <1>1. Base /\ TypeOK /\ Apart /\ Shape /\ job[x] \in JobStates
    BY DEF MuteInv, Base, TypeOK
  <1>2. /\ job' = [job EXCEPT ![x] = NoJob] /\ job[x].pc = "set"
        /\ UNCHANGED <<place, acl, grouped, manual>>
        /\ muted' = [muted EXCEPT ![v] = b]
        /\ unchecked' = unchecked \ {v}
    BY DEF StoreEffective
  <1>3. v \in Sessions /\ b \in BOOLEAN
    BY <1>1 DEF JobStates
  <1>5. job'[x] = NoJob /\ \A y \in Actors \ {x} : job'[y] = job[y]
    BY <1>1, <1>2, NoJobType, JobUpdate
  <1>6. /\ \A s : s \notin At(x)'
        /\ \A s : s \in At(x) <=> s = v
    BY <1>1, <1>2, <1>5, NoJobType DEF At, Shape
  <1>7. Base'
    <2>1. muted' \in [Sessions -> BOOLEAN] /\ unchecked' \subseteq Sessions
      BY <1>1, <1>2, <1>3 DEF TypeOK
    <2>2. acl' \in [Rooms -> AclWords] /\ manual' \in [Sessions -> BOOLEAN]
      BY <1>1, <1>2 DEF TypeOK
    <2>3. ShapeOf(NoJob)
      BY NoJobType DEF ShapeOf
    <2> QED
      BY <1>1, <1>2, <1>6, <2>1, <2>2, <2>3, NoJobType, BaseMove
  <1>8. ASSUME NEW s \in Sessions \ crossed'
        PROVE  Sound(s, x)' /\ ExactStep(s, x) /\ HoldStep(s, x)
    <2>1. Sound(s, x)
      BY Uncrossed DEF MuteInv
    <2>2. Denied'[s] = Denied[s] /\ room'[s] = room[s] /\ manual'[s] = manual[s] /\ online' = online
      BY <1>2, DeniedFrame DEF place
    <2>3. Sound(s, x)'
      BY <1>5, <1>6, NoJobType DEF Sound
    <2>4. CASE s = v
      <3>1. /\ s \in online => b = (manual[s] \/ Denied[s])
            /\ manual[s] => b
        BY <2>1, <2>4, <1>2 DEF Sound
      <3>2. muted'[s] = b
        BY <2>4, <1>1, <1>2, <1>3 DEF TypeOK
      <3> QED
        BY <2>2, <2>3, <3>1, <3>2 DEF ExactStep, HoldStep, Settled
    <2>5. CASE s # v
      <3>1. muted'[s] = muted[s]
        BY <2>5, <1>1, <1>2 DEF TypeOK
      <3> QED
        BY <2>2, <2>3, <2>5, <3>1, <1>2, <1>6 DEF ExactStep, HoldStep, Sets
    <2> QED
      BY <2>4, <2>5
  <1> QED
    BY <1>2, <1>5, <1>7, <1>8, StepInv DEF place

\* The override of v is written, and the handler goes on to write the flag.
LEMMA OverrideInv ==
  ASSUME MuteInv, Crossing, NEW x \in Actors, NEW v \in Sessions, NEW b \in BOOLEAN,
         NEW j \in JobStates, job' = [job EXCEPT ![x] = j], job[x].pc = "idle", v \in online,
         manual' = [manual EXCEPT ![v] = b],
         UNCHANGED <<place, acl, grouped, muted, unchecked>>,
         j.who = v, j.todo = {}, (b /\ j.pc = "set" /\ j.denied = TRUE) \/ (~b /\ j.pc = "speak")
  PROVE  MuteInv'
  <1>1. Base /\ TypeOK /\ Apart /\ Shape
    BY DEF MuteInv, Base
  <1>2. job'[x] = j /\ \A y \in Actors \ {x} : job'[y] = job[y]
    BY <1>1, JobUpdate
  <1>3. /\ \A s : s \in At(x)' <=> s = v
        /\ \A s : s \notin At(x)
    BY <1>1, <1>2 DEF At, Shape
  <1>4. Base'
    <2>1. manual' \in [Sessions -> BOOLEAN]
      BY <1>1 DEF TypeOK
    <2>2. /\ acl' \in [Rooms -> AclWords] /\ muted' \in [Sessions -> BOOLEAN]
          /\ unchecked' \subseteq Sessions
      BY <1>1 DEF TypeOK
    <2>3. ShapeOf(j) /\ v \notin fresh
      BY <1>1 DEF ShapeOf, Apart
    <2>4. UNCHANGED <<place, grouped>> /\ \A s \in At(x)' : s \notin fresh
      BY <1>3, <2>3
    <2> QED
      BY <1>1, <2>1, <2>2, <2>3, <2>4, BaseMove
  <1>5. ASSUME NEW s \in Sessions \ crossed'
        PROVE  Sound(s, x)' /\ ExactStep(s, x) /\ HoldStep(s, x)
    <2>1. Denied'[s] = Denied[s] /\ room'[s] = room[s] /\ muted'[s] = muted[s] /\ online' = online
      BY DeniedFrame DEF place
    <2>2. CASE s = v
      <3>1. manual'[s] = b
        BY <2>2, <1>1 DEF TypeOK
      <3> QED
        BY <2>1, <2>2, <3>1, <1>2, <1>3 DEF Sound, Recomputes, ExactStep, HoldStep, Sets
    <2>3. CASE s # v
      <3>1. manual'[s] = manual[s]
        BY <2>3, <1>1 DEF TypeOK
      <3> QED
        BY <2>1, <2>3, <3>1, <1>2, <1>3 DEF Sound, ExactStep, HoldStep, Sets
    <2> QED
      BY <2>2, <2>3
  <1> QED
    BY <1>2, <1>4, <1>5, StepInv DEF place

LEMMA ServerMuteInv ==
  ASSUME MuteInv, Crossing, NEW x \in Actors, NEW v \in Sessions,
         SetServerMute(x, v) \/ UnsetServerMute(x, v)
  PROVE  MuteInv'
  <1>0. Root \in Rooms
    BY MuteConstants
  <1>1. CASE SetServerMute(x, v)
    <2> DEFINE k == Job("set", v, Root, {})
               j == [k EXCEPT !.denied = TRUE]
    <2>1. /\ k \in JobStates /\ k.pc = "set" /\ k.who = v /\ k.todo = {}
      BY <1>0, JobType
    <2>2. /\ job' = [job EXCEPT ![x] = j] /\ job[x].pc = "idle" /\ v \in online
          /\ manual' = [manual EXCEPT ![v] = TRUE]
          /\ UNCHANGED <<place, acl, grouped, muted, unchecked>>
      BY <1>1 DEF SetServerMute, Starts
    <2> HIDE DEF k
    <2>3. /\ j \in JobStates /\ j.pc = "set" /\ j.who = v /\ j.todo = {} /\ j.denied = TRUE
      BY <2>1 DEF JobStates
    <2> HIDE DEF j
    <2> QED
      BY <2>2, <2>3, OverrideInv
  <1>2. CASE UnsetServerMute(x, v)
    <2> DEFINE j == Job("speak", v, Root, {})
    <2>1. /\ j \in JobStates /\ j.pc = "speak" /\ j.who = v /\ j.todo = {}
      BY <1>0, JobType
    <2>2. /\ job' = [job EXCEPT ![x] = j] /\ job[x].pc = "idle" /\ v \in online
          /\ manual' = [manual EXCEPT ![v] = FALSE]
          /\ UNCHANGED <<place, acl, grouped, muted, unchecked>>
      BY <1>2 DEF UnsetServerMute, Starts
    <2> HIDE DEF j
    <2> QED
      BY <2>1, <2>2, OverrideInv
  <1> QED
    BY <1>1, <1>2

LEMMA SetRoomAclInv ==
  ASSUME MuteInv, Crossing, NEW x \in Actors, NEW r \in Rooms, NEW w \in AclWords,
         SetRoomAcl(x, r, w)
  PROVE  MuteInv'
  <1> DEFINE k == Job("members", NoJob.who, r, {})
             j == [k EXCEPT !.gate = TRUE]
  <1>1. Base /\ TypeOK /\ Apart /\ Shape
    BY DEF MuteInv, Base
  <1>2. k \in JobStates /\ k.pc = "members" /\ k.room = r /\ k.todo = {}
    <2>1. NoJob.who \in Sessions
      BY NoJobType DEF JobStates
    <2> QED
      BY <2>1, JobType
  <1>3. /\ job' = [job EXCEPT ![x] = j] /\ job[x].pc = "idle"
        /\ acl' = [acl EXCEPT ![r] = w]
        /\ unchecked' = unchecked \cup {s \in Turned : room[s] # r}
        /\ UNCHANGED <<place, grouped, flags>>
    BY DEF SetRoomAcl, Starts
  <1> HIDE DEF k
  <1>4. j \in JobStates /\ j.pc = "members" /\ j.room = r
    BY <1>2 DEF JobStates
  <1> HIDE DEF j
  <1>5. job'[x] = j /\ \A y \in Actors \ {x} : job'[y] = job[y]
    BY <1>1, <1>3, <1>4, JobUpdate
  <1>6. /\ \A s : s \in At(x)' <=> s \in online /\ room[s] = r
        /\ \A s : s \notin At(x)
    BY <1>1, <1>3, <1>4, <1>5 DEF At, Members, Shape, place
  <1>7. Base'
    <2>1. acl' \in [Rooms -> AclWords]
      BY <1>1, <1>3 DEF TypeOK
    <2>2. unchecked' \subseteq Sessions
      BY <1>1, <1>3 DEF TypeOK, Turned
    <2>3. manual' \in [Sessions -> BOOLEAN] /\ muted' \in [Sessions -> BOOLEAN]
      BY <1>1, <1>3 DEF TypeOK, flags
    <2>4. ShapeOf(j)
      BY <1>4 DEF ShapeOf
    <2>5. UNCHANGED <<place, grouped>> /\ \A s \in At(x)' : s \notin fresh
      BY <1>1, <1>3, <1>6 DEF Apart
    <2> QED
      BY <1>1, <1>3, <1>4, <2>1, <2>2, <2>3, <2>4, <2>5, BaseMove
  <1>8. ASSUME NEW s \in Sessions \ crossed'
        PROVE  Sound(s, x)' /\ ExactStep(s, x) /\ HoldStep(s, x)
    <2>1. room'[s] = room[s] /\ manual'[s] = manual[s] /\ muted'[s] = muted[s] /\ online' = online
      BY <1>3 DEF place, flags
    <2>2. Sound(s, x)'
      BY <2>1, <1>4, <1>5, <1>6 DEF Sound
    <2>3. HoldStep(s, x)
      BY <2>1, <1>3 DEF HoldStep, Sets
    <2>4. ExactStep(s, x)
      <3>1. CASE room[s] = r
        BY <3>1, <2>1, <1>6 DEF ExactStep
      <3>2. CASE s \notin unchecked' /\ room[s] # r
        <4>1. s \notin unchecked /\ s \notin Turned
          BY <3>2, <1>3
        <4>2. Denied'[s] = Denied[s]
          BY <4>1, <2>1, DeniedUnturned
        <4> QED
          BY <2>1, <4>1, <4>2, <1>6 DEF ExactStep
      <3> QED
        BY <3>1, <3>2 DEF ExactStep
    <2> QED
      BY <2>2, <2>3, <2>4
  <1> QED
    BY <1>3, <1>5, <1>7, <1>8, StepInv DEF place

LEMMA JoinInv ==
  ASSUME MuteInv, Crossing, NEW v \in Sessions, NEW r \in Rooms, Join(v, r) PROVE MuteInv'
  <1> DEFINE j == Job("eval", v, r, {})
  <1>1. Base /\ TypeOK /\ Placed /\ Apart /\ Shape /\ v \in Actors
    BY ActorTypes DEF MuteInv, Base
  <1>2. /\ job' = [job EXCEPT ![v] = j] /\ job[v].pc = "idle" /\ v \in online /\ r \in live
        /\ room' = [room EXCEPT ![v] = r]
        /\ UNCHANGED <<live, parent, acl, grouped, online, fresh, flags, unchecked>>
    BY DEF Join, Starts
  <1>3. j \in JobStates /\ j.pc = "eval" /\ j.who = v /\ j.room = r /\ j.todo = {}
    BY JobType
  <1> HIDE DEF j
  <1>4. job' \in [Actors -> JobStates] /\ job'[v] = j /\ \A y \in Actors \ {v} : job'[y] = job[y]
    BY <1>1, <1>2, <1>3, JobUpdate
  <1>5. /\ \A s : s \in At(v)' <=> s = v
        /\ \A s : s \notin At(v)
    BY <1>1, <1>2, <1>3, <1>4 DEF At, Shape
  <1>6. room'[v] = r /\ \A s \in Sessions \ {v} : room'[s] = room[s]
    BY <1>1, <1>2 DEF TypeOK
  <1>7. Base'
    <2>1. TypeOK'
      BY <1>1, <1>2, <1>4, CrossedType DEF TypeOK, flags
    <2>2. Placed'
      BY <1>1, <1>2, <1>6 DEF Placed
    <2>3. ASSUME NEW y \in Actors, NEW s \in At(y)' PROVE s \notin fresh
      <3>1. CASE s = v
        BY <3>1, <1>1, <1>2 DEF Apart
      <3>2. CASE s # v
        <4>1. y # v /\ s \in Sessions
          BY <3>2, <2>1, <1>5, AtSessionsNext
        <4>2. s \in At(y)
          BY <3>2, <4>1, <1>2, <1>4, <1>6, AtFrame
        <4> QED
          BY <4>2, <1>1 DEF Apart
      <3> QED
        BY <3>1, <3>2
    <2>4. Apart'
      BY <2>3, <1>1, <1>2 DEF Apart
    <2>5. Shape'
      BY <1>1, <1>3, <1>4 DEF Shape
    <2> QED
      BY <2>1, <2>2, <2>4, <2>5 DEF Base
  <1>8. ASSUME NEW s \in Sessions \ crossed'
        PROVE  Sound(s, v)' /\ ExactStep(s, v) /\ HoldStep(s, v)
    <2>1. manual'[s] = manual[s] /\ muted'[s] = muted[s]
      BY <1>2 DEF flags
    <2>2. Sound(s, v)'
      BY <1>3, <1>4, <1>5, <1>6 DEF Sound
    <2>3. s # v => room'[s] = room[s] /\ Denied'[s] = Denied[s]
      BY <1>2, <1>6, DeniedFrame
    <2> QED
      BY <2>1, <2>2, <2>3, <1>2, <1>5 DEF ExactStep, HoldStep, Sets
  <1> QED
    BY <1>1, <1>2, <1>4, <1>7, <1>8, StepInv

LEMMA RemoveRoomInv ==
  ASSUME MuteInv, Crossing, NEW x \in Actors, RemoveRoom(x) PROVE MuteInv'
  <1> DEFINE r == job[x].room
  <1>1. Base /\ TypeOK /\ Placed /\ Apart /\ Shape /\ job[x] \in JobStates
    BY DEF MuteInv, Base, TypeOK
  <1>2. job[x].pc = "remove" /\ UNCHANGED <<parent, online, fresh, grouped, flags>>
    BY DEF RemoveRoom, place
  <1>3. r # Root /\ \A s : s \in At(x) <=> s \in job[x].todo
    BY <1>1, <1>2 DEF Shape, At
  <1>4. ASSUME NEW s \in Sessions \ crossed', s \in job[x].todo PROVE room[s] = r
    <2>1. Sound(s, x)
      BY Uncrossed DEF MuteInv
    <2> QED
      BY <2>1, <1>2, <1>3, <1>4 DEF Sound, Recomputes
  <1>5. CASE r \notin live /\ job' = [job EXCEPT ![x] = NoJob] /\ UNCHANGED <<live, room, acl, unchecked>>
    <2>1. \A s \in Sessions \ crossed' : s \notin At(x)
      BY <1>1, <1>3, <1>4, <1>5 DEF Placed
    <2> QED
      BY <2>1, <1>2, <1>5, DoneInv DEF place
  <1>6. CASE /\ r \in live /\ live' = live \ {r}
             /\ room' = [s \in Sessions |-> IF room[s] = r THEN Root ELSE room[s]]
             /\ job' = [job EXCEPT ![x].pc = "next", ![x].room = Root]
             /\ acl' = [acl EXCEPT ![r] = Silence]
             /\ unchecked' = unchecked \cup ((Members(r) \cup Turned) \ job[x].todo)
    <2> DEFINE j == [job[x] EXCEPT !.pc = "next", !.room = Root]
    <2>1. job' = [job EXCEPT ![x] = j]
      BY <1>6
    <2>2. j \in JobStates /\ j.pc = "next" /\ j.room = Root /\ j.todo = job[x].todo
      BY <1>1, MuteConstants DEF JobStates
    <2> HIDE DEF j
    <2>3. job' \in [Actors -> JobStates] /\ job'[x] = j /\ \A y \in Actors \ {x} : job'[y] = job[y]
      BY <1>1, <2>1, <2>2, JobUpdate
    <2>4. \A s : s \in At(x)' <=> s \in job[x].todo
      BY <2>2, <2>3 DEF At
    <2>5. /\ room' \in [Sessions -> Rooms]
          /\ \A s \in Sessions : /\ room[s] = r => room'[s] = Root
                                 /\ room[s] # r => room'[s] = room[s]
      BY <1>1, <1>6, MuteConstants DEF TypeOK
    <2>6. TypeOK'
      <3>1. live' \subseteq Rooms /\ Root \in live'
        BY <1>1, <1>3, <1>6 DEF TypeOK
      <3>2. unchecked' \subseteq Sessions
        BY <1>1, <1>6 DEF TypeOK, Members, Turned
      <3>3. acl' \in [Rooms -> AclWords]
        BY <1>1, <1>6, MuteConstants DEF TypeOK, Silence
      <3> QED
        BY <3>1, <3>2, <3>3, <1>1, <1>2, <2>3, <2>5, CrossedType DEF TypeOK, flags
    <2>7. Placed'
      BY <1>1, <1>3, <1>6, <2>5 DEF Placed, TypeOK
    <2>8. Apart'
      <3>1. ASSUME NEW y \in Actors, NEW s \in At(y)' PROVE s \notin fresh
        <4>1. CASE y = x
          BY <4>1, <1>1, <1>3, <2>4 DEF Apart
        <4>2. CASE y # x /\ job[y].pc = "members"
          <5>1. s \in online
            BY <4>2, <2>3, <1>2 DEF At, Members
          <5> QED
            BY <5>1, <1>1 DEF Apart
        <4>3. CASE y # x /\ job[y].pc # "members"
          <5>1. s \in At(y)
            BY <4>3, <2>3, AtFrame
          <5> QED
            BY <5>1, <1>1 DEF Apart
        <4> QED
          BY <4>1, <4>2, <4>3
      <3> QED
        BY <3>1, <1>1, <1>2 DEF Apart
    <2>9. Shape'
      BY <1>1, <2>2, <2>3 DEF Shape
    <2>10. ASSUME NEW s \in Sessions \ crossed'
           PROVE  Sound(s, x)' /\ ExactStep(s, x) /\ HoldStep(s, x)
      <3>1. manual'[s] = manual[s] /\ muted'[s] = muted[s]
        BY <1>2 DEF flags
      <3>2. Sound(s, x)'
        BY <1>4, <2>2, <2>3, <2>4, <2>5 DEF Sound
      <3>3. room[s] # r /\ s \notin job[x].todo /\ s \notin unchecked' =>
               room'[s] = room[s] /\ Denied'[s] = Denied[s]
        BY <1>6, <2>5, DeniedUnturned
      <3>4. s \in online /\ room[s] = r => s \in unchecked' \/ s \in At(x)'
        BY <1>6, <2>4 DEF Members
      <3>5. s \notin unchecked' => s \notin unchecked
        BY <1>6
      <3> QED
        BY <3>1, <3>2, <3>3, <3>4, <3>5, <1>2, <1>3, <2>4 DEF ExactStep, HoldStep, Sets
    <2> QED
      BY <2>3, <2>6, <2>7, <2>8, <2>9, <2>10, <1>2, StepInv DEF Base
  <1> QED
    BY <1>5, <1>6 DEF RemoveRoom, place

\* Logins, logouts and changes of groups are steps of no handler.
LEMMA LoginInv ==
  ASSUME MuteInv, Crossing, NEW v \in Sessions, Login(v) \/ Logout(v) PROVE MuteInv'
  <1>1. Base /\ TypeOK /\ Placed /\ Apart /\ Shape /\ v \in Actors
    BY ActorTypes DEF MuteInv, Base
  <1>2. job' = job /\ job[v].pc = "idle" /\ UNCHANGED <<live, parent, acl, grouped, flags>>
    BY DEF Login, Logout, Starts
  <1>3. /\ room' \in [Sessions -> Rooms] /\ \A s \in Sessions : room'[s] \in live
        /\ \A s \in Sessions \ {v} : room'[s] = room[s]
        /\ v \in online' => room'[v] \in live
    BY <1>1 DEF Login, Logout, TypeOK, Placed
  <1>4. /\ online' \subseteq Sessions /\ fresh' \subseteq Sessions /\ unchecked' \subseteq Sessions
        /\ v \in online' => v \in unchecked' /\ v \in fresh
        /\ \A s : s # v => /\ (s \in online') = (s \in online)
                          /\ (s \in fresh') = (s \in fresh)
                          /\ (s \in unchecked') = (s \in unchecked)
        /\ v \notin fresh'
    BY <1>1 DEF Login, Logout, TypeOK, Apart
  <1>5. TypeOK'
    BY <1>1, <1>2, <1>3, <1>4, CrossedType DEF TypeOK, flags
  <1>6. ASSUME NEW y \in Actors, NEW s \in At(y)' PROVE s \notin fresh'
    <2>1. s \in Sessions
      BY <1>5, AtSessionsNext
    <2>2. CASE s # v
      <3>1. s \in At(y)
        BY <2>1, <2>2, <1>2, <1>3, <1>4, AtFrame
      <3> QED
        BY <2>2, <3>1, <1>1, <1>4 DEF Apart
    <2> QED
      BY <2>2, <1>4
  <1>7. Base'
    <2>1. Placed'
      BY <1>2, <1>3 DEF Placed
    <2>2. Apart'
      BY <1>1, <1>4, <1>6 DEF Apart
    <2>3. Shape'
      BY <1>1, <1>2 DEF Shape
    <2> QED
      BY <1>5, <2>1, <2>2, <2>3 DEF Base
  <1>8. \A s \in online' : s \in online \/ s \in fresh
    BY <1>4
  <1>9. ASSUME NEW s \in Sessions \ crossed'
        PROVE  Sound(s, v)' /\ ExactStep(s, v) /\ HoldStep(s, v)
    <2>1. Sound(s, v)'
      BY <1>1, <1>2, <1>8, OthersSound
    <2>2. manual'[s] = manual[s] /\ muted'[s] = muted[s]
      BY <1>2 DEF flags
    <2>3. s # v => room'[s] = room[s] /\ Denied'[s] = Denied[s]
      BY <1>2, <1>3, DeniedFrame
    <2>4. s \notin At(v)
      BY <1>1, <1>2 DEF At, Shape
    <2> QED
      BY <2>1, <2>2, <2>3, <2>4, <1>2, <1>4 DEF ExactStep, HoldStep, Sets
  <1> QED
    BY <1>1, <1>2, <1>7, <1>8, <1>9, StepInv

LEMMA SetUserGroupInv ==
  ASSUME MuteInv, Crossing, NEW x \in Actors, NEW v \in Sessions, SetUserGroup(x, v) PROVE MuteInv'
  <1>1. Base /\ TypeOK /\ Placed /\ Apart /\ Shape
    BY DEF MuteInv, Base
  <1>2. /\ job' = job /\ job[x].pc = "idle" /\ UNCHANGED <<place, acl, flags>>
        /\ \A s \in Sessions \ {v} : s \in grouped' <=> s \in grouped
        /\ unchecked' = unchecked \cup {v}
    BY DEF SetUserGroup, Starts
  <1>3. Base'
    <2>1. grouped' \subseteq Sessions
      BY <1>1 DEF SetUserGroup, TypeOK
    <2>2. TypeOK'
      BY <1>1, <1>2, <2>1, CrossedType DEF TypeOK, place, flags
    <2>3. ASSUME NEW y \in Actors, NEW s \in At(y)' PROVE s \notin fresh
      <3>1. s \in At(y)
        BY <1>2, AtFrame DEF place
      <3> QED
        BY <3>1, <1>1 DEF Apart
    <2>4. Apart'
      BY <2>3, <1>1, <1>2 DEF Apart, place
    <2>5. Placed' /\ Shape'
      BY <1>1, <1>2 DEF Placed, Shape, place
    <2> QED
      BY <2>2, <2>4, <2>5 DEF Base
  <1>4. ASSUME NEW s \in Sessions \ crossed'
        PROVE  Sound(s, x)' /\ ExactStep(s, x) /\ HoldStep(s, x)
    <2>1. Sound(s, x)'
      BY <1>2, OthersSound DEF place
    <2>2. manual'[s] = manual[s] /\ muted'[s] = muted[s] /\ room'[s] = room[s] /\ online' = online
      BY <1>2 DEF place, flags
    <2>3. s # v => Denied'[s] = Denied[s]
      BY <1>2, <2>2, DeniedFrame DEF place
    <2>4. s \notin At(x)
      BY <1>1, <1>2 DEF At, Shape
    <2> QED
      BY <2>1, <2>2, <2>3, <2>4, <1>2 DEF ExactStep, HoldStep, Sets
  <1> QED
    BY <1>2, <1>3, <1>4, StepInv DEF place

-----------------------------------------------------------------------------
(* The invariant *)
LEMMA InitInv == Init => MuteInv
  <1> SUFFICES ASSUME NEW late \in SUBSET Sessions, Start(late) PROVE MuteInv
    BY DEF Init
  <1>1. \A x \in Actors : job[x] = NoJob
    BY DEF Start
  <1>2. \A x \in Actors : \A s : s \notin At(x)
    BY <1>1, NoJobType DEF At
  <1>3. TypeOK
    <2>1. job \in [Actors -> JobStates]
      BY NoJobType DEF Start
    <2>2. acl \in [Rooms -> AclWords]
      BY MuteConstants DEF Start, Silence
    <2>3. parent \in [Rooms -> Rooms] /\ live \subseteq Rooms /\ Root \in live
      BY MuteConstants DEF Start
    <2> QED
      BY <2>1, <2>2, <2>3, MuteConstants DEF TypeOK, Start
  <1>4. Placed /\ Apart /\ Shape
    <2>1. Placed
      BY MuteConstants DEF Placed, Start
    <2>2. Apart
      BY <1>2 DEF Apart, Start
    <2>3. Shape
      BY <1>1, NoJobType DEF Shape
    <2> QED
      BY <2>1, <2>2, <2>3
  <1>5. ASSUME NEW s \in Sessions PROVE Exact(s) /\ Hold(s) /\ \A x \in Actors : Sound(s, x)
    <2>1. ~manual[s] /\ ~muted[s] /\ muted[s] \in BOOLEAN /\ manual[s] \in BOOLEAN
      BY DEF Start
    <2>2. Denied[s] = FALSE
      <3>1. PICK q \in Rooms : q = room[s]
        BY <1>3 DEF TypeOK
      <3>2. \A r : AclOf(r) = Silence
        BY DEF AclOf, Start
      <3>3. \A k \in 0..MaxClimb : Words(q)[k] = "silent"
        BY <3>2 DEF Words, Silence
      <3>4. ~SpeakDenied(s, q) /\ SpeakDenied(s, q) \in BOOLEAN
        BY <3>3 DEF SpeakDenied, Start
      <3> QED
        BY <3>1, <3>4 DEF Denied
    <2>3. \A x \in Actors : Sound(s, x)
      BY <1>1, <1>2, NoJobType DEF Sound
    <2> QED
      BY <2>1, <2>2, <2>3 DEF Exact, Hold, Settled
  <1> QED
    BY <1>3, <1>4, <1>5 DEF MuteInv, Base

LEMMA NextInv ==
  ASSUME MuteInv, Next PROVE MuteInv'
  <1>1. Step /\ Crossing
    BY DEF Next, Crossing
  <1>2. ASSUME NEW s \in Sessions, Login(s) \/ Logout(s) \/ \E r \in Rooms : Join(s, r)
        PROVE  MuteInv'
    BY <1>1, <1>2, LoginInv, JoinInv
  <1>3. ASSUME NEW x \in Actors, Evaluate(x) \/ LoadManual(x) \/ Store(x) \/ VisitNext(x)
        PROVE  MuteInv'
    BY <1>1, <1>3, EvaluateInv, LoadManualInv, StoreInv, VisitNextInv
  <1>4. ASSUME NEW x \in Admins, NEW s \in Sessions,
               SetServerMute(x, s) \/ UnsetServerMute(x, s) \/ SetUserGroup(x, s)
        PROVE  MuteInv'
    BY <1>1, <1>4, ActorTypes, ServerMuteInv, SetUserGroupInv
  <1>5. ASSUME NEW x \in Admins, NEW r \in Rooms,
               \/ DeleteRoom(x, r) \/ PromoteChild(x, r)
               \/ \E w \in AclWords : SetRoomAcl(x, r, w)
               \/ \E p \in Rooms : MoveRoom(x, r, p)
        PROVE  MuteInv'
    BY <1>1, <1>5, ActorTypes, DeleteRoomInv, PromoteChildInv, SetRoomAclInv, MoveRoomInv
  <1>6. ASSUME NEW x \in Admins,
               \/ EvaluateUnmute(x) \/ StoreEffective(x) \/ ListMembers(x)
               \/ ListDisplaced(x) \/ RemoveRoom(x)
        PROVE  MuteInv'
    BY <1>1, <1>6, ActorTypes, EvaluateUnmuteInv, StoreEffectiveInv, ListMembersInv,
       ListDisplacedInv, RemoveRoomInv
  <1> QED
    BY <1>1, <1>2, <1>3, <1>4, <1>5, <1>6 DEF Step

LEMMA StutterInv == ASSUME MuteInv, UNCHANGED vars PROVE MuteInv'
  <1>1. /\ UNCHANGED <<live, parent, acl, grouped, online, fresh, room, manual, muted, job, unchecked>>
        /\ crossed' = crossed
    BY DEF vars, state
  <1>2. ASSUME NEW x \in Actors PROVE At(x)' = At(x)
    BY <1>1 DEF At, Members
  <1>3. Base'
    BY <1>1, <1>2 DEF MuteInv, Base, TypeOK, Placed, Apart, Shape
  <1>4. ASSUME NEW s \in Sessions \ crossed' PROVE Exact(s)' /\ Hold(s)' /\ \A x \in Actors : Sound(s, x)'
    <2>1. Exact(s) /\ Hold(s) /\ \A x \in Actors : Sound(s, x)
      BY <1>1 DEF MuteInv
    <2>2. Denied'[s] = Denied[s]
      BY <1>1, DeniedFrame
    <2>3. Exact(s)' /\ Hold(s)'
      BY <1>1, <1>2, <2>1, <2>2 DEF Exact, Hold, Settled, Sets
    <2>4. ASSUME NEW x \in Actors PROVE Sound(s, x)'
      BY <1>1, <1>2, <2>1, <2>2 DEF Sound
    <2> QED
      BY <2>3, <2>4
  <1> QED
    BY <1>3, <1>4 DEF MuteInv

LEMMA AlwaysMuteInv == Spec => []MuteInv
  BY InitInv, NextInv, StutterInv, PTL DEF Spec

-----------------------------------------------------------------------------
LEMMA QuietAtNobody ==
  ASSUME MuteInv, Quiet PROVE \A x \in Actors : job[x].pc = "idle" /\ \A s : s \notin At(x)
  BY DEF MuteInv, Base, Shape, Quiet, At

\* However the logins, joins, mutes, ACL edits, room moves and deletions of any number
\* of sessions and moderators interleave, the flag that the voice relay checks
\* is the override or the missing permission, for every session at whom no two
\* handlers were at once and whose SPEAK was recomputed.
THEOREM FlagIsExact == Spec => []MuteIsExact
  <1>1. MuteInv => MuteIsExact
    <2> SUFFICES ASSUME MuteInv, Quiet, NEW s \in online \ (unchecked \cup crossed)
                 PROVE  muted[s] = (manual[s] \/ SpeakDenied(s, room[s]))
      BY DEF MuteIsExact
    <2>1. s \in Sessions /\ s \notin crossed
      BY DEF MuteInv, Base, TypeOK
    <2>2. Exact(s)
      BY <2>1 DEF MuteInv
    <2>3. Settled(s)
      BY <2>2, QuietAtNobody DEF Exact
    <2> QED
      BY <2>1, <2>3 DEF Settled, Denied
  <1> QED
    BY <1>1, AlwaysMuteInv, PTL

\* A moderator's mute holds until a moderator lifts it, for any number of
\* sessions and moderators, under the same condition, whatever became of SPEAK.
THEOREM OverrideHolds == Spec => []ManualMuteHolds
  <1>1. MuteInv => ManualMuteHolds
    <2> SUFFICES ASSUME MuteInv, Quiet, NEW s \in online \ crossed, manual[s] PROVE muted[s]
      BY DEF ManualMuteHolds
    <2>1. Hold(s)
      BY DEF MuteInv, Base, TypeOK
    <2> QED
      BY <2>1, QuietAtNobody DEF Hold, Sets
  <1> QED
    BY <1>1, AlwaysMuteInv, PTL

-----------------------------------------------------------------------------
(***************************************************************************)
(* What the client's audio task guarantees about the microphone, for a     *)
(* queue of any length.                                                    *)
(***************************************************************************)

Types ==
    /\ task \in {"ready", "closing", "reopening"}
    /\ established \in BOOLEAN /\ connection \in BOOLEAN /\ encoder \in BOOLEAN
    /\ ptt_mode \in BOOLEAN /\ ptt_active \in BOOLEAN
    /\ self_muted \in BOOLEAN /\ server_muted \in BOOLEAN /\ self_deafened \in BOOLEAN
    /\ mic \in BOOLEAN /\ audio_input \in Streams
    /\ spurt \in BOOLEAN /\ cb \in {"idle", "in", "quiet", "speak", "encode"}
GateTypes ==
    /\ capture_is_active \in BOOLEAN /\ was_transmitting \in BOOLEAN
    /\ light \in BOOLEAN /\ raced \in BOOLEAN
    /\ encoded \in Seq({"frame", "eos"})

(* While an arm is between its two steps capture is off; the arm that      *)
(* closes a connection has already dropped it.                             *)
Phases ==
    /\ connection => established
    /\ task = "closing" => ~connection
    /\ task # "ready" => ~capture_is_active

(* While capture is off, and was not switched off under a callback, no     *)
(* callback runs, and the last message queued, or sent, ended the spurt.   *)
Told ==
    /\ encoded # <<>> => encoded[Len(encoded)] = "eos"
    /\ connection /\ encoded = <<>> => ~spurt
Hushed ==
    ~capture_is_active /\ ~raced => cb = "idle" /\ ~light /\ ~was_transmitting /\ Told

CaptureInv == Types /\ GateTypes /\ Phases /\ MicFollows /\ Hushed

LEMMA MicInitInv == CaptureInit => CaptureInv
  <1> SUFFICES ASSUME CaptureInit PROVE CaptureInv
    OBVIOUS
  <1>1. Types
    <2>1. speaker \in BOOLEAN /\ mic \in BOOLEAN
      BY DEF CaptureInit
    <2> QED
      BY <2>1, Zenon DEF CaptureInit, Types, Streams
  <1>2. GateTypes
    <2>1. encoded = <<>> /\ <<>> \in Seq({"frame", "eos"})
      BY DEF CaptureInit
    <2> QED
      BY <2>1, Zenon DEF CaptureInit, GateTypes
  <1>3. Phases /\ MicFollows /\ Hushed
    BY DEF CaptureInit, Phases, MicFollows, should_capture, Hushed, Told
  <1> QED
    BY <1>1, <1>2, <1>3 DEF CaptureInv

-----------------------------------------------------------------------------
(* The gate *)

LEMMA AppendLast ==
  ASSUME NEW q \in Seq({"frame", "eos"}), NEW m \in {"frame", "eos"}
  PROVE  /\ Append(q, m) \in Seq({"frame", "eos"}) /\ Append(q, m) # <<>>
         /\ Append(q, m)[Len(Append(q, m))] = m
  OBVIOUS

(* The connection stays, or goes, or a new one starts without a spurt. *)
Fresh == (connection' => connection /\ spurt' = spurt) \/ ~spurt'

LEMMA Deactivates ==
  ASSUME Types, GateTypes, Hushed, deactivate_capture, cb' = cb, Fresh
  PROVE  GateTypes' /\ Hushed' /\ ~capture_is_active'
  <1>1. CASE capture_is_active
    <2>1. /\ capture_is_active' = FALSE /\ was_transmitting' = FALSE /\ light' = FALSE
          /\ encoded' = Append(encoded, "eos") /\ raced' = (cb # "idle")
      BY <1>1 DEF deactivate_capture
    <2>2. encoded' \in Seq({"frame", "eos"}) /\ encoded' # <<>> /\ encoded'[Len(encoded')] = "eos"
      BY <2>1, AppendLast DEF GateTypes
    <2> QED
      BY <2>1, <2>2 DEF GateTypes, Hushed, Told
  <1>2. CASE ~capture_is_active
    BY <1>2 DEF deactivate_capture, gate, GateTypes, Hushed, Told, Fresh
  <1> QED
    BY <1>1, <1>2

LEMMA Syncs ==
  ASSUME Types, GateTypes, Hushed, sync_transmission, cb' = cb, Fresh
  PROVE  /\ GateTypes' /\ Hushed'
         /\ should_capture' => (capture_is_active' <=> capture_is_active \/ audio_input' # "none")
         /\ ~should_capture' => ~capture_is_active'
  <1>1. CASE should_capture'
    <2>1. /\ capture_is_active' = (capture_is_active \/ audio_input' # "none")
          /\ UNCHANGED <<was_transmitting, light, encoded, raced>>
      BY <1>1 DEF sync_transmission
    <2>2. GateTypes'
      BY <2>1 DEF GateTypes
    <2>3. Hushed'
      BY <2>1 DEF Hushed, Told, Fresh, GateTypes
    <2> QED
      BY <1>1, <2>1, <2>2, <2>3
  <1>2. CASE ~should_capture'
    BY <1>2, Deactivates DEF sync_transmission
  <1> QED
    BY <1>1, <1>2

(* An arm that ends by bringing the gate up to date leaves it right. *)
LEMMA SyncedFollows ==
  ASSUME CaptureInv, sync_transmission, Fresh, cb' = cb, Types', Phases',
         audio_input' # "none" \/ ~capture_is_active
  PROVE  CaptureInv'
  <1>1. /\ GateTypes' /\ Hushed'
        /\ should_capture' => (capture_is_active' <=> capture_is_active \/ audio_input' # "none")
        /\ ~should_capture' => ~capture_is_active'
    BY Syncs DEF CaptureInv
  <1>2. MicFollows'
    BY <1>1 DEF MicFollows, should_capture, Phases
  <1> QED
    BY <1>1, <1>2 DEF CaptureInv

-----------------------------------------------------------------------------
(* The arms of the audio task *)

LEMMA OpensStream ==
  /\ start_transmission \in {"live", "none"}
  /\ (IF connection THEN start_transmission ELSE "none") \in {"live", "none"}
  BY DEF start_transmission

LEMMA MicEstablishedInv == CaptureInv /\ ConnectionEstablished => CaptureInv'
  <1> SUFFICES ASSUME CaptureInv, ConnectionEstablished PROVE CaptureInv'
    OBVIOUS
  <1>1. Types' /\ (audio_input # "none" => audio_input' = audio_input)
    BY OpensStream DEF ConnectionEstablished, CaptureInv, Types, Streams, wishes
  <1>2. Phases' /\ Fresh
    BY DEF ConnectionEstablished, CaptureInv, Phases, Fresh
  <1>3. audio_input' # "none" \/ ~capture_is_active
    BY <1>1 DEF CaptureInv, MicFollows, ConnectionEstablished
  <1> QED
    BY <1>1, <1>2, <1>3, SyncedFollows DEF ConnectionEstablished

LEMMA ClosedInv == CaptureInv /\ ConnectionClosed => CaptureInv'
  <1> SUFFICES ASSUME CaptureInv, ConnectionClosed PROVE CaptureInv'
    OBVIOUS
  <1>1. Types' /\ Fresh /\ cb' = cb /\ sync_transmission
    BY DEF ConnectionClosed, CaptureInv, Types, Fresh, wishes, input
  <1>2. ~should_capture'
    BY DEF ConnectionClosed, should_capture
  <1>3. GateTypes' /\ Hushed' /\ ~capture_is_active'
    BY <1>1, <1>2, Syncs DEF CaptureInv
  <1>4. Phases' /\ MicFollows'
    BY <1>3 DEF ConnectionClosed, CaptureInv, Phases, MicFollows
  <1> QED
    BY <1>1, <1>3, <1>4 DEF CaptureInv

LEMMA ClearedInv == CaptureInv /\ ConnectionCleared => CaptureInv'
  <1> SUFFICES ASSUME CaptureInv, ConnectionCleared PROVE CaptureInv'
    OBVIOUS
  <1>1. Types'
    BY DEF ConnectionCleared, CaptureInv, Types, Streams
  <1>2. GateTypes' /\ Hushed'
    BY DEF ConnectionCleared, CaptureInv, GateTypes, Hushed, Told, gate
  <1>3. ~capture_is_active' /\ ~connection'
    BY DEF ConnectionCleared, CaptureInv, Phases, gate
  <1>4. Phases' /\ MicFollows'
    BY <1>3 DEF Phases, MicFollows, should_capture
  <1> QED
    BY <1>1, <1>2, <1>4 DEF CaptureInv

LEMMA ReopensInv ==
  ASSUME CaptureInv, task = "ready", task' = "reopening", deactivate_capture,
         mic' \in BOOLEAN, UNCHANGED <<session, wishes, audio_input, spurt, cb>>
  PROVE  CaptureInv'
  <1>1. Types' /\ Fresh
    BY DEF CaptureInv, Types, Fresh, session, wishes
  <1>2. GateTypes' /\ Hushed' /\ ~capture_is_active'
    BY <1>1, Deactivates DEF CaptureInv
  <1>3. Phases' /\ MicFollows'
    BY <1>2 DEF CaptureInv, Phases, MicFollows, session
  <1> QED
    BY <1>1, <1>2, <1>3 DEF CaptureInv

LEMMA ReopenInv == CaptureInv /\ Reopen => CaptureInv'
  <1> SUFFICES ASSUME CaptureInv, Reopen PROVE CaptureInv'
    OBVIOUS
  <1>1. Types' /\ Phases' /\ Fresh
    BY OpensStream
       DEF Reopen, CaptureInv, Types, Streams, Phases, Fresh, session, wishes
  <1>2. ~capture_is_active
    BY DEF Reopen, CaptureInv, Phases
  <1> QED
    BY <1>1, <1>2, SyncedFollows DEF Reopen

LEMMA WishInv ==
  ASSUME CaptureInv, task = "ready", sync_transmission,
         UNCHANGED <<task, session, audio_input, mic, spurt, cb>>,
         ptt_mode' \in BOOLEAN, ptt_active' \in BOOLEAN, self_muted' \in BOOLEAN,
         server_muted' \in BOOLEAN, self_deafened' \in BOOLEAN
  PROVE  CaptureInv'
  <1>1. Types' /\ Phases' /\ Fresh
    BY DEF CaptureInv, Types, Phases, Fresh, session
  <1>2. audio_input' # "none" \/ ~capture_is_active
    BY DEF CaptureInv, MicFollows
  <1> QED
    BY <1>1, <1>2, SyncedFollows

LEMMA HealthInv == CaptureInv /\ HealthTick => CaptureInv'
  <1> SUFFICES ASSUME CaptureInv, HealthTick PROVE CaptureInv'
    OBVIOUS
  <1>1. UNCHANGED <<task, session, wishes, mic, spurt, cb>> /\ task = "ready"
    BY DEF HealthTick
  <1>2. CASE InputNeedsRecovery
    <2>1. /\ audio_input' \in {"live", "none"} /\ (audio_input' = "live" => connection)
          /\ capture_is_active' = (audio_input' = "live" /\ should_capture)
      BY <1>2, OpensStream DEF HealthTick, RecoverInput
    <2>2. Types' /\ Phases'
      BY <1>1, <2>1 DEF CaptureInv, Types, Phases, Streams, session, wishes
    <2>3. MicFollows'
      BY <1>1, <2>1 DEF CaptureInv, MicFollows, Phases, should_capture, session, wishes
    <2>4. CASE capture_is_active
      <3>1. /\ was_transmitting' = FALSE /\ light' = FALSE /\ raced' = (cb # "idle")
            /\ encoded' = Append(encoded, "eos")
        BY <1>2, <2>4 DEF HealthTick, RecoverInput
      <3>2. encoded' \in Seq({"frame", "eos"}) /\ encoded' # <<>> /\ encoded'[Len(encoded')] = "eos"
        BY <3>1, AppendLast DEF CaptureInv, GateTypes
      <3>3. GateTypes' /\ Hushed'
        BY <1>1, <2>1, <3>1, <3>2 DEF GateTypes, Hushed, Told
      <3> QED
        BY <2>2, <2>3, <3>3 DEF CaptureInv
    <2>5. CASE ~capture_is_active
      <3>1. UNCHANGED <<was_transmitting, light, raced, encoded>>
        BY <1>2, <2>5 DEF HealthTick, RecoverInput
      <3>2. GateTypes' /\ Hushed'
        BY <1>1, <2>1, <2>5, <3>1 DEF CaptureInv, GateTypes, Hushed, Told, session
      <3> QED
        BY <2>2, <2>3, <3>2 DEF CaptureInv
    <2> QED
      BY <2>4, <2>5
  <1>3. CASE ~InputNeedsRecovery
    <2>1. UNCHANGED <<audio_input, gate>>
      BY <1>3 DEF HealthTick, RecoverInput
    <2> QED
      BY <1>1, <2>1
         DEF CaptureInv, Types, GateTypes, Phases, MicFollows, Hushed, Told, should_capture,
             session, wishes, gate
  <1> QED
    BY <1>2, <1>3

-----------------------------------------------------------------------------
(* The send arm, the callback and the devices *)

LEMMA SendInv == CaptureInv /\ SendEncoded => CaptureInv'
  <1> SUFFICES ASSUME CaptureInv, SendEncoded PROVE CaptureInv'
    OBVIOUS
  <1>1. UNCHANGED <<task, session, wishes, audio_input, mic, capture_is_active, was_transmitting,
                    light, raced, cb>>
    BY DEF SendEncoded, input
  <1>2. /\ encoded \in Seq({"frame", "eos"}) /\ encoded # <<>> /\ encoded' = Tail(encoded)
        /\ spurt' = IF connection THEN Head(encoded) = "frame" ELSE spurt
    BY DEF SendEncoded, CaptureInv, GateTypes
  <1>3. encoded' \in Seq({"frame", "eos"}) /\ Len(encoded) \in Nat \ {0}
        /\ Len(encoded') = Len(encoded) - 1 /\ Head(encoded) = encoded[1]
    BY <1>2
  <1>4. encoded' # <<>> => encoded'[Len(encoded')] = encoded[Len(encoded)]
    BY <1>2, <1>3
  <1>5. encoded' = <<>> => Len(encoded) = 1
    BY <1>3
  <1>6. Types' /\ GateTypes' /\ Phases' /\ MicFollows'
    BY <1>1, <1>2, <1>3
       DEF CaptureInv, Types, GateTypes, Phases, MicFollows, should_capture, session,
           wishes
  <1>7. Hushed'
    BY <1>1, <1>2, <1>3, <1>4, <1>5 DEF CaptureInv, Hushed, Told, session
  <1> QED
    BY <1>6, <1>7 DEF CaptureInv

LEMMA CallbackInv ==
  ASSUME CaptureInv, FrameArrives \/ CallbackRuns
  PROVE  CaptureInv'
  <1>1. /\ UNCHANGED <<task, session, wishes, audio_input, mic, capture_is_active, raced, spurt>>
        /\ cb' \in {"idle", "in", "quiet", "speak", "encode"}
    BY
       DEF FrameArrives, CallbackRuns, Judge, FallSilent, Speak, Encode,
           Callback, input
  <1>2. capture_is_active \/ raced
    BY
       DEF FrameArrives, CallbackRuns, Judge, FallSilent, Speak, Encode,
           CaptureInv, Hushed
  <1>3. was_transmitting' \in BOOLEAN /\ light' \in BOOLEAN
    BY
       DEF FrameArrives, CallbackRuns, Judge, FallSilent, Speak, Encode,
           CaptureInv, GateTypes
  <1>4. encoded' \in Seq({"frame", "eos"})
    BY AppendLast
       DEF FrameArrives, CallbackRuns, Judge, FallSilent, Speak, Encode,
           CaptureInv,
       GateTypes
  <1>5. Hushed'
    BY <1>1, <1>2 DEF Hushed
  <1> QED
    BY <1>1, <1>3, <1>4, <1>5
       DEF CaptureInv, Types, GateTypes, Phases, MicFollows, should_capture, session,
           wishes

LEMMA DevicesInv == CaptureInv /\ (Devices \/ SetOutputDevice) => CaptureInv'
  <1> SUFFICES ASSUME CaptureInv, Devices \/ SetOutputDevice PROVE CaptureInv'
    OBVIOUS
  <1>1. UNCHANGED <<task, session, wishes, gate, spurt, cb>>
    BY DEF Devices, MicFails, SpeakerFails, Plug, SetOutputDevice
  <1>2. mic' \in BOOLEAN /\ audio_input' \in Streams /\ (audio_input' = "none" <=> audio_input = "none")
    BY
       DEF Devices, MicFails, SpeakerFails, Plug, SetOutputDevice, CaptureInv,
           Types, Streams, input
  <1> QED
    BY <1>1, <1>2
       DEF CaptureInv, Types, GateTypes, Phases, MicFollows, Hushed, Told, should_capture,
           session, wishes, gate

-----------------------------------------------------------------------------
LEMMA MicStepInv == CaptureInv /\ [CaptureNext]_capture_vars => CaptureInv'
  <1> SUFFICES ASSUME CaptureInv, [CaptureNext]_capture_vars PROVE CaptureInv'
    OBVIOUS
  <1>1. CASE UNCHANGED capture_vars
    BY <1>1
       DEF capture_vars, CaptureInv, Types, GateTypes, Phases, MicFollows, Hushed, Told,
           should_capture, session, wishes, input, gate
  <1>2. CASE DatagramsEnd
    <2>1. Types'
      BY <1>2 DEF DatagramsEnd, CaptureInv, Types, wishes, input
    <2>2. GateTypes' /\ Hushed'
      BY <1>2 DEF DatagramsEnd, CaptureInv, GateTypes, Hushed, Told, gate
    <2>3. Phases' /\ MicFollows'
      BY <1>2
         DEF DatagramsEnd, CaptureInv, Types, Phases, MicFollows, should_capture,
             wishes, input, gate
    <2> QED
      BY <2>1, <2>2, <2>3 DEF CaptureInv
  <1>3. CASE SetInputDevice
    <2>1. mic' \in BOOLEAN
      BY <1>3 DEF SetInputDevice
    <2> QED
      BY <1>3, <2>1, ReopensInv DEF SetInputDevice
  <1>6. CASE UpdateSettings
    <2>1. mic' \in BOOLEAN
      BY <1>6 DEF UpdateSettings, CaptureInv, Types, input
    <2> QED
      BY <1>6, <2>1, ReopensInv DEF UpdateSettings, input
  <1>4. CASE Transmit \/ SetVoiceMode \/ SetMuted \/ SetServerMuted
    BY <1>4, WishInv
       DEF Transmit, SetVoiceMode, SetMuted, SetServerMuted, Wish, input,
       CaptureInv, Types
  <1>5. CASE SetDeafened \/ ConfirmInputDevice
    BY <1>5, WishInv
       DEF SetDeafened, ConfirmInputDevice, input, wishes, CaptureInv, Types
  <1> QED
    BY <1>1, <1>2, <1>3, <1>4, <1>5, <1>6, MicEstablishedInv, ClosedInv, ClearedInv, ReopenInv,
       HealthInv, SendInv, CallbackInv, DevicesInv
          DEF CaptureNext, Arms, Continue, UpdateTxPipeline

LEMMA MicInvariant == CaptureSpec => []CaptureInv
  BY MicInitInv, MicStepInv, PTL DEF CaptureSpec

(***************************************************************************)
(* Whatever commands, reopenings, retries, device failures and lost        *)
(* connections come together, between two arms of run_audio_task the       *)
(* microphone is live exactly when a stream exists and the user's and the  *)
(* server's wishes allow it.                                               *)
(***************************************************************************)
THEOREM MicAlwaysFollows == CaptureSpec => []MicFollows
  BY MicInvariant, PTL DEF CaptureInv

(***************************************************************************)
(* Once sync_transmission or a reopening switched capture off while no     *)
(* callback was in flight, the light is off, and as soon as the queue is   *)
(* sent the receivers have had the end of the spurt.                       *)
(***************************************************************************)
THEOREM SilenceIsAlwaysTold == CaptureSpec => []SilenceIsTold
  <1>1. CaptureInv => SilenceIsTold
    BY DEF CaptureInv, Hushed, Told, SilenceIsTold
  <1> QED
    BY <1>1, MicInvariant, PTL
================================================================================
