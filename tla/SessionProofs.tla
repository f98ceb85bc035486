----------------------------- MODULE SessionProofs -----------------------------
(***************************************************************************)
(* A connection is torn down once, whoever races for it.                   *)
(*                                                                         *)
(* told[c] <= 1 is not inductive: it takes that nobody is told about a     *)
(* connection whose teardown is unclaimed, that whoever is about to tell   *)
(* has claimed it and nobody was told yet, and that the read loop and the  *)
(* accept loop are never about to tell both.                               *)
(*                                                                         *)
(* Below it: one session per identity (SoleSession), and nothing left of a *)
(* connection that is over (NothingIsLeft), each with its own invariant.   *)
(***************************************************************************)
EXTENDS Session, TLAPS

Once(c) ==
    /\ told[c] <= 1
    /\ c \notin torn => told[c] = 0
    /\ \A x \in {Read(c), Accept(c)} : job[x].pc = "plugins" => c \in torn /\ told[c] = 0
    /\ ~(job[Read(c)].pc = "plugins" /\ job[Accept(c)].pc = "plugins")

Typed == job \in [Actors -> JobStates] /\ sessions \subseteq Conns /\ told \in [Conns -> Nat]

TeardownInv == Typed /\ \A c \in Conns : Once(c)

LEMMA ActorTypes ==
  ASSUME NEW c \in Conns
  PROVE  /\ Read(c) \in Actors /\ Accept(c) \in Actors /\ Kick(c) \in Actors
         /\ Read(c) # Accept(c) /\ Kick(c) # Read(c) /\ Kick(c) # Accept(c)
         /\ \A d \in Conns \ {c} : /\ Read(c) # Read(d) /\ Accept(c) # Accept(d)
                                   /\ Read(c) # Accept(d) /\ Accept(c) # Read(d)
  BY DEF Read, Accept, Kick, Actors

\* The second stream's task is none of the others.
LEMMA SideTypes ==
  ASSUME NEW c \in Conns
  PROVE  /\ Side(c) \in Actors
         /\ \A d \in Conns : /\ Side(c) \notin {Read(d), Accept(d), Kick(d)}
                             /\ c # d => Side(c) # Side(d)
  BY DEF Side, Read, Accept, Kick, Actors

LEMMA StreamTypes ==
  ASSUME NEW c \in Conns
  PROVE  /\ Side(c) \in Actors /\ Streams(c) \subseteq Actors
         /\ \A x \in Streams(c) : x # Accept(c) /\ x # Kick(c)
         /\ \A d \in Conns \ {c} : \A x \in Streams(c) : x # Read(d) /\ x # Accept(d) /\ x # Kick(d)
  BY DEF Streams, Side, Read, Accept, Kick, Actors

LEMMA NoJobType == NoJob \in JobStates
  BY DEF NoJob, JobStates

LEMMA InitInv == Init => TeardownInv
  <1> SUFFICES ASSUME Init PROVE TeardownInv
    OBVIOUS
  <1>1. Typed
    BY NoJobType DEF Init, Typed
  <1>2. ASSUME NEW c \in Conns PROVE Once(c)
    <2>1. told[c] = 0 /\ job[Read(c)] = NoJob /\ job[Accept(c)] = NoJob
      BY ActorTypes DEF Init
    <2> QED
      BY <2>1 DEF Once, NoJob
  <1> QED
    BY <1>1, <1>2 DEF TeardownInv

-----------------------------------------------------------------------------
(* One task moves to a new state *)
LEMMA JobUpdate ==
  ASSUME Typed, NEW x \in Actors, NEW s \in JobStates, job' = [job EXCEPT ![x] = s]
  PROVE  /\ job' \in [Actors -> JobStates]
         /\ job'[x] = s
         /\ \A y \in Actors \ {x} : job'[y] = job[y]
  BY DEF Typed

\* A step that claims nothing and tells nobody, and takes no task to the point
\* of telling, keeps the invariant.
LEMMA QuietInv ==
  ASSUME TeardownInv, Typed', UNCHANGED <<torn, told>>,
         \A y \in Actors : job'[y].pc = job[y].pc \/ job'[y].pc # "plugins"
  PROVE  TeardownInv'
  <1>1. ASSUME NEW c \in Conns PROVE Once(c)'
    BY ActorTypes DEF TeardownInv, Once, Read, Accept
  <1> QED
    BY <1>1 DEF TeardownInv

LEMMA QuietMove ==
  ASSUME TeardownInv, UNCHANGED <<torn, told>>, sessions' \subseteq Conns,
         NEW x \in Actors, NEW s \in JobStates, job' = [job EXCEPT ![x] = s],
         s.pc = job[x].pc \/ s.pc # "plugins"
  PROVE  TeardownInv'
  <1>1. Typed /\ told' \in [Conns -> Nat]
    BY DEF TeardownInv, Typed
  <1>2. /\ job' \in [Actors -> JobStates] /\ job'[x] = s
        /\ \A y \in Actors \ {x} : job'[y] = job[y]
    BY <1>1, JobUpdate
  <1>3. Typed'
    BY <1>1, <1>2 DEF Typed
  <1> QED
    BY <1>2, <1>3, QuietInv

Calm == {"none", "idle", "evict", "evicting", "session", "place", "send", "joined",
         "hide", "hidden", "mint", "minted", "drop", "dropping", "dropped",
         "wait", "kick", "close", "done"}

LEMMA GotoCalm ==
  ASSUME TeardownInv, UNCHANGED <<torn, told>>, sessions' \subseteq Conns,
         NEW x \in Actors, NEW p \in Calm, Goto(x, p)
  PROVE  TeardownInv'
  <1> DEFINE s == [job[x] EXCEPT !.pc = p]
  <1>1. job[x] \in JobStates
    BY DEF TeardownInv, Typed
  <1>2. s \in JobStates /\ s.pc # "plugins"
    BY <1>1 DEF JobStates, Calm
  <1>3. job' = [job EXCEPT ![x] = s]
    BY DEF Goto
  <1> HIDE DEF s
  <1> QED
    BY <1>2, <1>3, QuietMove

LEMMA EndsCalm ==
  ASSUME TeardownInv, UNCHANGED <<torn, told>>, sessions' \subseteq Conns,
         NEW x \in Actors, NEW p \in Calm, Ends(x, p)
  PROVE  TeardownInv'
  <1> DEFINE s == [NoJob EXCEPT !.pc = p]
  <1>1. s \in JobStates /\ s.pc # "plugins"
    BY NoJobType DEF JobStates, Calm
  <1>2. job' = [job EXCEPT ![x] = s]
    BY DEF Ends
  <1> HIDE DEF s
  <1> QED
    BY <1>1, <1>2, QuietMove

LEMMA CallQuiet ==
  ASSUME TeardownInv, UNCHANGED <<torn, told>>, sessions' \subseteq Conns, NEW x \in Actors,
         NEW p \in {"no", "start", "parts", "unplace", "leave", "member", "room", "session", "bye"},
         Call(x, p)
  PROVE  TeardownInv'
  <1> DEFINE s == [job[x] EXCEPT !.call = p]
  <1>1. job[x] \in JobStates
    BY DEF TeardownInv, Typed
  <1>2. s \in JobStates /\ s.pc = job[x].pc
    BY <1>1 DEF JobStates
  <1>3. job' = [job EXCEPT ![x] = s]
    BY DEF Call
  <1> HIDE DEF s
  <1> QED
    BY <1>2, <1>3, QuietMove

LEMMA Unmoved ==
  ASSUME TeardownInv, UNCHANGED <<torn, told, sessions, job>>
  PROVE  TeardownInv'
  BY QuietInv DEF TeardownInv, Typed

-----------------------------------------------------------------------------
(* The actions *)
LEMMA HandshakeInv ==
  ASSUME TeardownInv, NEW c \in Conns, NEW x \in Streams(c),
         \/ Connect(c) \/ Close(c) \/ SecondStream(c) \/ SecondEnds(c)
         \/ ClientHello(x, c) \/ AuthFails(x, c) \/ Authenticate(x, c)
         \/ ListSuperseded(x, c) \/ Evicted(x, c) \/ AddSession(x, c) \/ SetUserRoom(x, c)
         \/ SendState(x, c) \/ AnnounceJoined(x, c)
  PROVE  TeardownInv'
  <1> USE ActorTypes, StreamTypes
  <1>0. sessions \subseteq Conns /\ job \in [Actors -> JobStates]
    BY DEF TeardownInv, Typed
  <1>1. CASE Connect(c)
    <2>0. ASSUME NEW y \in Actors, NEW p \in {"idle", "wait"}
          PROVE  [job[y] EXCEPT !.pc = p] \in JobStates
      <3>1. job[y] \in JobStates
        BY <1>0
      <3> QED
        BY <3>1 DEF JobStates
    <2>1. job' \in [Actors -> JobStates]
      <3>1. job' = [[[job EXCEPT ![Read(c)] = [job[Read(c)] EXCEPT !.pc = "idle"]]
                          EXCEPT ![Accept(c)] = [job[Accept(c)] EXCEPT !.pc = "wait"]]
                          EXCEPT ![Kick(c)] = [job[Kick(c)] EXCEPT !.pc = "idle"]]
        BY <1>1 DEF Connect
      <3> QED
        BY <1>0, <2>0, <3>1
    <2>2. \A y \in Actors : job'[y].pc = job[y].pc \/ job'[y].pc # "plugins"
      BY <1>0, <1>1 DEF Connect, JobStates
    <2>3. UNCHANGED <<torn, told, sessions>>
      BY <1>1 DEF Connect, seen
    <2>4. Typed'
      BY <2>1, <2>3 DEF TeardownInv, Typed
    <2> QED
      BY <2>2, <2>3, <2>4, QuietInv
  <1>2. CASE Close(c) \/ ClientHello(x, c) \/ AuthFails(x, c)
    BY <1>2, Unmoved DEF Close, ClientHello, AuthFails, table, seen
  <1>3. CASE Authenticate(x, c)
    BY <1>0, <1>3, GotoCalm DEF Authenticate, table, seen, Calm
  <1>4. CASE ListSuperseded(x, c)
    <2> DEFINE o == {d \in sessions \ {c} : Identity[d] = Identity[c]}
               s == [job[x] EXCEPT !.pc = "evicting", !.old = o]
    <2>1. o \in SUBSET Conns
      BY <1>0
    <2>2. job' = [job EXCEPT ![x] = s] /\ job[x] \in JobStates
      BY <1>0, <1>4 DEF ListSuperseded
    <2> HIDE DEF o
    <2>3. s \in JobStates /\ s.pc # "plugins"
      BY <2>1, <2>2 DEF JobStates
    <2> HIDE DEF s
    <2> QED
      BY <1>0, <1>4, <2>2, <2>3, QuietMove DEF ListSuperseded, table, seen
  <1>5. CASE Evicted(x, c)
    BY <1>0, <1>5, GotoCalm DEF Evicted, table, seen, Calm
  <1>6. CASE AddSession(x, c)
    BY <1>0, <1>6, GotoCalm DEF AddSession, seen, Calm
  <1>7. CASE SetUserRoom(x, c)
    BY <1>0, <1>7, GotoCalm DEF SetUserRoom, seen, Calm
  <1>8. CASE SendState(x, c)
    BY <1>0, <1>8, GotoCalm DEF SendState, table, seen, Calm
  <1>9. CASE AnnounceJoined(x, c)
    BY <1>0, <1>9, GotoCalm DEF AnnounceJoined, BroadcastJoined, table, Calm
  <1>10. CASE SecondStream(c) \/ SecondEnds(c)
    BY <1>0, <1>10, GotoCalm DEF SecondStream, SecondEnds, table, seen, Calm
  <1> QED
    BY <1>1, <1>2, <1>3, <1>4, <1>5, <1>6, <1>7, <1>8, <1>9, <1>10

\* A takeover closes a connection nobody has claimed: nobody was told of it.
LEMMA EvictInv ==
  ASSUME TeardownInv, NEW c \in Conns, NEW x \in Streams(c), NEW d \in Conns, Evict(x, c, d)
  PROVE  TeardownInv'
  <1> USE ActorTypes, StreamTypes
  <1>0. sessions \subseteq Conns /\ job \in [Actors -> JobStates] /\ told \in [Conns -> Nat]
    BY DEF TeardownInv, Typed
  <1> DEFINE o == job[x].old \ {d}
  <1>1. job[x] \in JobStates /\ o \in SUBSET Conns /\ job[x].pc = "evicting"
    BY <1>0 DEF JobStates, Evict
  <1> HIDE DEF o
  <1>2. CASE d \in members /\ d \notin torn
    <2> DEFINE s == [job[x] EXCEPT !.old = o, !.call = "start", !.target = d]
    <2>1. job' = [job EXCEPT ![x] = s]
      BY <1>2 DEF Evict, o
    <2>2. s \in JobStates /\ s.pc = "evicting"
      BY <1>1 DEF JobStates
    <2> HIDE DEF s
    <2>3. /\ job' \in [Actors -> JobStates] /\ job'[x] = s
          /\ \A y \in Actors \ {x} : job'[y] = job[y]
      BY <1>0, <2>1, <2>2, JobUpdate DEF TeardownInv
    <2>4. /\ told' = [told EXCEPT ![d] = told[d] + 1] /\ torn' = torn \cup {d}
          /\ sessions' = sessions
      BY <1>2 DEF Evict, table
    <2>5. Typed'
      BY <1>0, <2>3, <2>4 DEF Typed
    <2>6. ASSUME NEW e \in Conns PROVE Once(e)'
      <3>1. Once(e) /\ Once(d)
        BY DEF TeardownInv
      <3>2. \A y \in {Read(e), Accept(e)} : job'[y].pc = "plugins" => job[y].pc = "plugins"
        BY <1>1, <2>2, <2>3
      <3>3. CASE e = d
        <4>1. told'[e] = 1 /\ e \in torn'
          BY <1>0, <1>2, <2>4, <3>1, <3>3 DEF Once
        <4>2. job[Read(e)].pc # "plugins" /\ job[Accept(e)].pc # "plugins"
          BY <1>2, <3>1, <3>3 DEF Once
        <4> QED
          BY <3>2, <4>1, <4>2 DEF Once, Read, Accept
      <3>4. CASE e # d
        <4>1. told'[e] = told[e] /\ (e \in torn' <=> e \in torn)
          BY <1>0, <2>4, <3>4
        <4> QED
          BY <3>1, <3>2, <4>1 DEF Once, Read, Accept
      <3> QED
        BY <3>3, <3>4
    <2> QED
      BY <2>5, <2>6 DEF TeardownInv
  <1>3. CASE ~(d \in members /\ d \notin torn)
    <2> DEFINE s == [job[x] EXCEPT !.old = o]
    <2>1. job' = [job EXCEPT ![x] = s]
      BY <1>3 DEF Evict, o
    <2>2. s \in JobStates /\ s.pc = job[x].pc
      BY <1>1 DEF JobStates
    <2> HIDE DEF s
    <2> QED
      BY <1>0, <1>3, <2>1, <2>2, QuietMove DEF Evict, table
  <1> QED
    BY <1>2, <1>3

LEMMA ParticipantInv ==
  ASSUME TeardownInv, NEW c \in Conns, NEW x \in Streams(c),
         \/ ControllerHello(x, c) \/ HideController(x, c) \/ AnnounceHidden(x, c)
         \/ \E p \in Parts : RegisterParticipant(x, c, p) \/ UnregisterParticipant(x, c, p)
         \/ PlaceParticipant(x, c) \/ AnnounceParticipant(x, c) \/ DropParticipant(x, c)
         \/ UnplaceParticipant(x, c) \/ AnnounceDropped(x, c)
  PROVE  TeardownInv'
  <1> USE ActorTypes, StreamTypes
  <1>0. sessions \subseteq Conns /\ job[x] \in JobStates
    BY DEF TeardownInv, Typed
  <1>1. CASE ControllerHello(x, c)
    BY <1>0, <1>1, GotoCalm DEF ControllerHello, table, seen, Calm
  <1>2. CASE HideController(x, c)
    BY <1>0, <1>2, GotoCalm DEF HideController, seen, Calm
  <1>3. CASE AnnounceHidden(x, c)
    BY <1>0, <1>3, GotoCalm DEF AnnounceHidden, BroadcastLeft, table, Calm
  <1>4. ASSUME NEW p \in Parts, RegisterParticipant(x, c, p) PROVE TeardownInv'
    <2> DEFINE s == [job[x] EXCEPT !.pc = "mint", !.part = p]
    <2>1. job' = [job EXCEPT ![x] = s]
      BY <1>4 DEF RegisterParticipant
    <2>2. s \in JobStates /\ s.pc # "plugins"
      BY <1>0 DEF JobStates
    <2> HIDE DEF s
    <2> QED
      BY <1>0, <1>4, <2>1, <2>2, QuietMove DEF RegisterParticipant, seen
  <1>5. ASSUME NEW p \in Parts, UnregisterParticipant(x, c, p) PROVE TeardownInv'
    <2> DEFINE b == p \in placed
               s == [job[x] EXCEPT !.pc = "drop", !.part = p, !.present = b]
    <2>1. job' = [job EXCEPT ![x] = s]
      BY <1>5 DEF UnregisterParticipant
    <2>2. b \in BOOLEAN
      OBVIOUS
    <2> HIDE DEF b
    <2>3. s \in JobStates /\ s.pc # "plugins"
      BY <1>0, <2>2 DEF JobStates
    <2> HIDE DEF s
    <2> QED
      BY <1>0, <1>5, <2>1, <2>3, QuietMove DEF UnregisterParticipant, table, seen
  <1>6. CASE PlaceParticipant(x, c)
    BY <1>0, <1>6, GotoCalm DEF PlaceParticipant, seen, Calm
  <1>7. CASE AnnounceParticipant(x, c)
    BY <1>0, <1>7, EndsCalm DEF AnnounceParticipant, BroadcastJoined, table, Calm
  <1>8. CASE DropParticipant(x, c)
    BY <1>0, <1>8, GotoCalm DEF DropParticipant, seen, Calm
  <1>9. CASE UnplaceParticipant(x, c)
    BY <1>0, <1>9, GotoCalm DEF UnplaceParticipant, seen, Calm
  <1>10. CASE AnnounceDropped(x, c)
    BY <1>0, <1>10, EndsCalm DEF AnnounceDropped, BroadcastLeft, table, seen, Calm
  <1> QED
    BY <1>1, <1>2, <1>3, <1>4, <1>5, <1>6, <1>7, <1>8, <1>9, <1>10

-----------------------------------------------------------------------------
(* The race for the teardown *)

\* The first to claim goes on to tell; everybody after it is done.
LEMMA ClaimInv ==
  ASSUME TeardownInv, NEW c \in Conns, NEW x \in {Read(c), Accept(c)}, Claim(x, c),
         job[x].pc # "plugins", UNCHANGED <<told, sessions>>
  PROVE  TeardownInv'
  <1> USE ActorTypes
  <1>0. /\ sessions \subseteq Conns /\ job \in [Actors -> JobStates] /\ told \in [Conns -> Nat]
        /\ x \in Actors
    BY DEF TeardownInv, Typed
  <1> DEFINE p == IF c \in torn THEN "done" ELSE "plugins"
             s == [job[x] EXCEPT !.pc = p]
  <1>1. p \in {"done", "plugins"} /\ (p = "plugins" => c \notin torn)
    OBVIOUS
  <1>2. job' = [job EXCEPT ![x] = s] /\ torn' = torn \cup {c}
    BY DEF Claim, Goto
  <1> HIDE DEF p
  <1>3. s \in JobStates /\ s.pc = p
    BY <1>0, <1>1 DEF JobStates
  <1> HIDE DEF s
  <1>4. /\ job' \in [Actors -> JobStates] /\ job'[x].pc = p
        /\ \A y \in Actors \ {x} : job'[y] = job[y]
    BY <1>0, <1>2, <1>3, JobUpdate DEF TeardownInv
  <1>5. Typed'
    BY <1>0, <1>4 DEF Typed
  <1>6. ASSUME NEW e \in Conns PROVE Once(e)'
    <2>1. Once(e) /\ Once(c)
      BY DEF TeardownInv
    <2>2. CASE e = c
      <3>1. c \in torn => p # "plugins"
        BY <1>1
      <3>2. c \notin torn => told[c] = 0 /\ job[Read(c)].pc # "plugins" /\ job[Accept(c)].pc # "plugins"
        BY <2>1 DEF Once
      <3>3. \A y \in {Read(c), Accept(c)} : y # x => job'[y] = job[y]
        BY <1>4
      <3> QED
        BY <1>2, <1>4, <2>1, <2>2, <3>1, <3>2, <3>3 DEF Once, Read, Accept
    <2>3. CASE e # c
      <3>1. job'[Read(e)] = job[Read(e)] /\ job'[Accept(e)] = job[Accept(e)]
        BY <1>4, <2>3
      <3>2. (e \in torn' <=> e \in torn) /\ told'[e] = told[e]
        BY <1>2, <2>3
      <3> QED
        BY <2>1, <3>1, <3>2 DEF Once, Read, Accept
    <2> QED
      BY <2>2, <2>3
  <1> QED
    BY <1>5, <1>6 DEF TeardownInv

LEMMA TellInv ==
  ASSUME TeardownInv, NEW c \in Conns, NEW x \in {Read(c), Accept(c)}, TellPlugins(x, c)
  PROVE  TeardownInv'
  <1> USE ActorTypes
  <1>0. /\ sessions \subseteq Conns /\ job \in [Actors -> JobStates] /\ told \in [Conns -> Nat]
        /\ x \in Actors
    BY DEF TeardownInv, Typed
  <1> DEFINE s == [job[x] EXCEPT !.pc = "close", !.call = "start", !.target = c]
  <1>1. job' = [job EXCEPT ![x] = s] /\ job[x] \in JobStates
    BY <1>0 DEF TellPlugins
  <1>2. s \in JobStates /\ s.pc = "close"
    BY <1>1 DEF JobStates
  <1> HIDE DEF s
  <1>3. /\ job' \in [Actors -> JobStates] /\ job'[x].pc = "close"
        /\ \A y \in Actors \ {x} : job'[y] = job[y]
    BY <1>0, <1>1, <1>2, JobUpdate DEF TeardownInv
  <1>4. /\ told' = [told EXCEPT ![c] = told[c] + 1] /\ torn' = torn /\ sessions' = sessions
        /\ job[x].pc = "plugins"
    BY DEF TellPlugins, table
  <1>5. Typed'
    BY <1>0, <1>3, <1>4 DEF Typed
  <1>6. ASSUME NEW e \in Conns PROVE Once(e)'
    <2>1. Once(e) /\ Once(c)
      BY DEF TeardownInv
    <2>2. CASE e = c
      <3>1. told'[c] = 1 /\ c \in torn'
        BY <1>0, <1>4, <2>1 DEF Once
      <3>2. \A y \in {Read(c), Accept(c)} : job'[y].pc # "plugins"
        BY <1>3, <1>4, <2>1 DEF Once
      <3> QED
        BY <2>2, <3>1, <3>2 DEF Once, Read, Accept
    <2>3. CASE e # c
      <3>1. job'[Read(e)] = job[Read(e)] /\ job'[Accept(e)] = job[Accept(e)]
        BY <1>3, <2>3
      <3>2. told'[e] = told[e]
        BY <1>0, <1>4, <2>3
      <3> QED
        BY <1>4, <2>1, <3>1, <3>2 DEF Once, Read, Accept
    <2> QED
      BY <2>2, <2>3
  <1> QED
    BY <1>5, <1>6 DEF TeardownInv

LEMMA LoopsInv ==
  ASSUME TeardownInv, NEW c \in Conns, ReadEnds(c) \/ AcceptEnds(c)
  PROVE  TeardownInv'
  <1>1. CASE ReadEnds(c)
    BY <1>1, ClaimInv DEF ReadEnds, table, seen
  <1>2. CASE AcceptEnds(c)
    BY <1>2, ClaimInv DEF AcceptEnds, table, seen
  <1> QED
    BY <1>1, <1>2

LEMMA KickInv ==
  ASSUME TeardownInv, NEW c \in Conns, KickCheck(c) \/ KickClose(c)
  PROVE  TeardownInv'
  <1> USE ActorTypes
  <1>0. sessions \subseteq Conns /\ job[Kick(c)] \in JobStates
    BY DEF TeardownInv, Typed
  <1>1. CASE KickCheck(c)
    BY <1>0, <1>1, GotoCalm DEF KickCheck, table, seen, Calm
  <1>2. CASE KickClose(c)
    <2> DEFINE s == [job[Kick(c)] EXCEPT !.pc = "close", !.call = "start", !.target = c]
    <2>1. job' = [job EXCEPT ![Kick(c)] = s]
      BY <1>2 DEF KickClose
    <2>2. s \in JobStates /\ s.pc # "plugins"
      BY <1>0 DEF JobStates
    <2> HIDE DEF s
    <2> QED
      BY <1>0, <1>2, <2>1, <2>2, QuietMove DEF KickClose, table, seen
  <1> QED
    BY <1>1, <1>2

LEMMA CleanupInv ==
  ASSUME TeardownInv, NEW x \in Actors, Cleanup(x) \/ TornDown(x)
  PROVE  TeardownInv'
  <1>0. sessions \subseteq Conns /\ job[x] \in JobStates
    BY DEF TeardownInv, Typed
  <1>1. CASE TornDown(x)
    BY <1>0, <1>1, EndsCalm DEF TornDown, table, seen, Calm
  <1>2. CASE CleanStart(x)
    <2> DEFINE t == job[x].target
               l == IF t \in ctrl THEN "parts" ELSE "member"
               b == t \in ctrl
               q == IF t \in ctrl THEN {p \in Parts \cap members : owner[p] = t} ELSE {}
               s == [job[x] EXCEPT !.call = l, !.ctl = b, !.parts = q]
    <2>1. job' = [job EXCEPT ![x] = s]
      BY <1>2 DEF CleanStart
    <2>2. l \in {"parts", "member"} /\ b \in BOOLEAN /\ q \in SUBSET Parts
      OBVIOUS
    <2> HIDE DEF t, l, b, q
    <2>3. s \in JobStates /\ s.pc = job[x].pc
      BY <1>0, <2>2 DEF JobStates
    <2> HIDE DEF s
    <2> QED
      BY <1>0, <1>2, <2>1, <2>3, QuietMove DEF CleanStart, table, seen
  <1>3. CASE CleanPart(x)
    <2>1. UNCHANGED <<torn, told, sessions>>
      BY <1>3 DEF CleanPart, seen
    <2>2. CASE Call(x, "member")
      BY <1>0, <2>1, <2>2, CallQuiet
    <2>3. ASSUME NEW p \in job[x].parts,
                 job' = [job EXCEPT ![x].parts = job[x].parts \ {p}, ![x].part = p,
                                    ![x].call = IF p \in members THEN "unplace" ELSE "parts"]
          PROVE  TeardownInv'
      <3> DEFINE l == IF p \in members THEN "unplace" ELSE "parts"
                 q == job[x].parts \ {p}
                 s == [job[x] EXCEPT !.parts = q, !.part = p, !.call = l]
      <3>1. job' = [job EXCEPT ![x] = s]
        BY <2>3
      <3>2. l \in {"unplace", "parts"} /\ q \in SUBSET Parts /\ p \in Parts
        BY <1>0 DEF JobStates
      <3> HIDE DEF l, q
      <3>3. s \in JobStates /\ s.pc = job[x].pc
        BY <1>0, <3>2 DEF JobStates
      <3> HIDE DEF s
      <3> QED
        BY <1>0, <2>1, <3>1, <3>3, QuietMove
    <2> QED
      BY <1>3, <2>2, <2>3 DEF CleanPart
  <1>4. CASE UnplacePart(x)
    BY <1>0, <1>4, CallQuiet DEF UnplacePart, seen
  <1>5. CASE AnnouncePart(x)
    BY <1>0, <1>5, CallQuiet DEF AnnouncePart, BroadcastLeft, table
  <1>6. CASE CleanMember(x)
    <2> DEFINE b == job[x].target \in members
               s == [job[x] EXCEPT !.call = "room", !.present = b]
    <2>1. job' = [job EXCEPT ![x] = s]
      BY <1>6 DEF CleanMember
    <2>2. b \in BOOLEAN
      OBVIOUS
    <2> HIDE DEF b
    <2>3. s \in JobStates /\ s.pc = job[x].pc
      BY <1>0, <2>2 DEF JobStates
    <2> HIDE DEF s
    <2> QED
      BY <1>0, <1>6, <2>1, <2>3, QuietMove DEF CleanMember, seen
  <1>7. CASE CleanRoom(x)
    BY <1>0, <1>7, CallQuiet DEF CleanRoom, seen
  <1>8. CASE CleanSession(x)
    BY <1>0, <1>8, CallQuiet DEF CleanSession, seen
  <1>9. CASE CleanBye(x)
    <2> DEFINE s == [NoJob EXCEPT !.pc = job[x].pc, !.old = job[x].old]
    <2>1. job' = [job EXCEPT ![x] = s]
      BY <1>9 DEF CleanBye
    <2>2. s \in JobStates /\ s.pc = job[x].pc
      BY <1>0, NoJobType DEF JobStates
    <2> HIDE DEF s
    <2> QED
      BY <1>0, <1>9, <2>1, <2>2, QuietMove DEF CleanBye, BroadcastLeft, table, seen
  <1> QED
    BY <1>1, <1>2, <1>3, <1>4, <1>5, <1>6, <1>7, <1>8, <1>9 DEF Cleanup

-----------------------------------------------------------------------------
LEMMA StepInv == TeardownInv /\ [Next]_vars => TeardownInv'
  <1> SUFFICES ASSUME TeardownInv, [Next]_vars PROVE TeardownInv'
    OBVIOUS
  <1>1. CASE UNCHANGED vars
    BY <1>1, Unmoved DEF vars, table, seen
  <1>2. ASSUME NEW c \in Conns,
               \/ Connect(c) \/ Close(c) \/ ReadEnds(c) \/ SecondStream(c) \/ SecondEnds(c) \/ KickCheck(c)
               \/ Request(Read(c), c) \/ Request(Side(c), c)
               \/ ReadStep(c) \/ SideStep(c) \/ AcceptStep(c) \/ KickStep(c)
        PROVE  TeardownInv'
    <2>0. Streams(c) = {Read(c), Side(c)}
      BY DEF Streams
    <2>1. CASE Connect(c) \/ Close(c) \/ SecondStream(c) \/ SecondEnds(c)
      BY <2>0, <2>1, HandshakeInv
    <2>2. CASE ReadEnds(c)
      BY <2>2, LoopsInv
    <2>3. ASSUME NEW x \in Streams(c), Request(x, c) PROVE TeardownInv'
      BY <2>3, HandshakeInv, ParticipantInv DEF Request
    <2>4. ASSUME NEW x \in Streams(c), HandlerStep(x, c) PROVE TeardownInv'
      <3>1. CASE \E d \in Conns : Evict(x, c, d)
        BY <3>1, EvictInv
      <3> QED
        BY <2>4, <3>1, HandshakeInv, ParticipantInv DEF HandlerStep
    <2>5. CASE ReadStep(c)
      BY <2>0, <2>4, <2>5, TellInv, CleanupInv, ActorTypes DEF ReadStep
    <2>6. CASE SideStep(c)
      BY <2>0, <2>4, <2>6, CleanupInv, SideTypes DEF SideStep
    <2>7. CASE AcceptStep(c)
      BY <2>7, LoopsInv, TellInv, CleanupInv, ActorTypes DEF AcceptStep
    <2>8. CASE KickStep(c) \/ KickCheck(c)
      BY <2>8, KickInv, CleanupInv, ActorTypes DEF KickStep
    <2> QED
      BY <1>2, <2>0, <2>1, <2>2, <2>3, <2>5, <2>6, <2>7, <2>8
  <1> QED
    BY <1>1, <1>2 DEF Next

\* Read loop, accept loop, kick and takeover race for a teardown: whatever the
\* number of connections and participants, on_disconnect runs at most once for
\* each connection (begin_teardown, evict_superseded_sessions).
THEOREM TornDownOnce == Spec => []PluginsToldOnce
  <1>1. TeardownInv => PluginsToldOnce
    BY DEF TeardownInv, Once, PluginsToldOnce
  <1> QED
    BY InitInv, StepInv, <1>1, PTL DEF Spec

-----------------------------------------------------------------------------
(* One identity, one session.                                              *)

Early(c) == job[Read(c)].pc \in {"evict", "evicting", "session"}
Live(c) == c \in sessions \cap members /\ ~Ending(c)

(* A connection that was never made is in no table and nobody is at it. *)
Fresh(c) ==
    link[c] = "none" =>
        /\ c \notin members \cup authed
        /\ job[Read(c)].pc = "none" /\ job[Accept(c)].pc = "none" /\ job[Kick(c)].pc = "none"
        /\ job[Side(c)].pc = "none"
        /\ \A x \in Actors : job[x].target # c

(* cleanup_client removes the member before the rest. *)
Removed(x) == job[x].call \in {"room", "session", "bye"} => job[x].target \notin members

(* cleanup_client is called at the end of a task or by a takeover. *)
Called(x) == job[x].call # "no" => job[x].pc \in {"evicting", "close"}

(* A connection authenticates before it has its session. *)
Admitted(c) == c \in sessions \/ Early(c) => c \in authed

(* A handler on a second stream is recorded, and all but the handshake's   *)
(* beginning is for clients that are authenticated.                        *)
Resting == {"none", "idle"}
Sided(c) == job[Side(c)].pc \notin Resting => c \in collided \cap authed

(* Of two connections of one identity one at a time evicts, and it has the *)
(* other, if live, on its list until it has begun the other's teardown.    *)
Sole(c, d) ==
    /\ ~(Early(c) /\ Early(d))
    /\ Live(c) => /\ ~Live(d) /\ job[Read(d)].pc # "session"
                  /\ job[Read(d)].pc = "evicting" => c \in job[Read(d)].old

Links == link \in [Conns -> {"none", "open", "closed"}]
Tables == /\ Links
          /\ \A c \in Conns : Fresh(c)
          /\ \A x \in Actors : Removed(x) /\ Called(x)
          /\ \A c \in Conns : Admitted(c) /\ Sided(c)
Pairs == \A c, d \in Conns \ collided : c # d /\ Identity[c] = Identity[d] => Sole(c, d)
SoleInv == Tables /\ Pairs

LEMMA InitSole == Init => SoleInv
  <1> SUFFICES ASSUME Init PROVE SoleInv
    OBVIOUS
  <1>1. \A x \in Actors : job[x] = NoJob
    BY DEF Init
  <1>2. \A x \in Actors : job[x].pc = "none" /\ job[x].call = "no" /\ job[x].target = None
    BY <1>1 DEF NoJob
  <1>3. \A c \in Conns : Fresh(c) /\ Admitted(c) /\ Sided(c)
    BY <1>2, ActorTypes, SideTypes, SessionConstants DEF Init, Fresh, Admitted, Early, Sided, Resting
  <1>4. \A x \in Actors : Removed(x) /\ Called(x)
    BY <1>2 DEF Removed, Called
  <1>5. Pairs
    BY <1>2, ActorTypes DEF Init, Pairs, Sole, Early, Live
  <1>6. Links
    BY DEF Init, Links
  <1> QED
    BY <1>3, <1>4, <1>5, <1>6 DEF SoleInv, Tables

(* What every step but Connect does to the tables *)
Tame ==
    /\ Links'
    /\ \A d \in Conns : (link'[d] = "none") = (link[d] = "none")
    /\ members' \subseteq members \cup Parts
    /\ torn \subseteq torn' /\ collided \subseteq collided'

(* What one task's move does to the call it is at *)
Orderly(x, s) ==
    /\ s.target = job[x].target \/ s.target = None \/ (s.target \in Conns /\ link[s.target] # "none")
    /\ job[x].call # "no" => \/ s.call # "no" /\ s.target = job[x].target
                             \/ job[x].call = "bye"
    /\ s.call \in {"room", "session", "bye"} => s.target \notin members'
    /\ s.call # "no" => s.pc \in {"evicting", "close"}

(* What a move does on a second stream *)
Sidling(x, s) ==
    \A d \in Conns : x = Side(d) => s.pc \in Resting \/ job[x].pc \notin Resting \/ d \in collided' \cap authed'

(* A task that is there, or a stream of a connection that is *)
There(x) == job[x].pc # "none" \/ \E d \in Conns : x = Side(d) /\ link[d] # "none"

LEMMA KeepsFresh ==
  ASSUME Tables, Typed, Tame, authed' \subseteq authed \cup {c \in Conns : link[c] # "none"},
         NEW x \in Actors, NEW s \in JobStates, job' = [job EXCEPT ![x] = s], There(x), Orderly(x, s)
  PROVE  /\ \A c \in Conns : Fresh(c)'
         /\ \A y \in Actors : Removed(y)' /\ Called(y)'
  <1>1. /\ job' \in [Actors -> JobStates] /\ job'[x] = s
        /\ \A y \in Actors \ {x} : job'[y] = job[y]
    BY JobUpdate
  <1>2. ASSUME NEW c \in Conns, link'[c] = "none" PROVE Fresh(c)'
    <2>1. link[c] = "none" /\ Fresh(c)
      BY <1>2 DEF Tame, Tables
    <2>2. x # Read(c) /\ x # Accept(c) /\ x # Kick(c) /\ x # Side(c)
      BY <2>1, SideTypes DEF Fresh, There
    <2>3. /\ job'[Read(c)] = job[Read(c)] /\ job'[Accept(c)] = job[Accept(c)]
          /\ job'[Kick(c)] = job[Kick(c)] /\ job'[Side(c)] = job[Side(c)]
      BY <1>1, <2>2, ActorTypes, SideTypes
    <2>4. s.target # c
      BY <2>1, SessionConstants DEF Fresh, Orderly
    <2>5. \A y \in Actors : job'[y].target # c
      BY <1>1, <2>1, <2>4 DEF Fresh
    <2>6. c \notin members' \cup authed'
      BY <2>1, SessionConstants DEF Fresh, Tame
    <2> QED
      BY <2>1, <2>3, <2>5, <2>6 DEF Fresh, Read, Accept, Kick, Side
  <1>3. ASSUME NEW y \in Actors PROVE Removed(y)' /\ Called(y)'
    <2>1. CASE y = x
      BY <1>1, <2>1 DEF Removed, Called, Orderly
    <2>2. CASE y # x
      <3>1. job'[y] = job[y] /\ job[y].target \notin Parts /\ Removed(y) /\ Called(y)
        BY <1>1, <2>2, SessionConstants DEF Typed, JobStates, Tables
      <3> QED
        BY <3>1 DEF Removed, Called, Tame
    <2> QED
      BY <2>1, <2>2
  <1> QED
    BY <1>2, <1>3 DEF Fresh

LEMMA KeepsSided ==
  ASSUME Tables, Typed, Tame, authed \subseteq authed',
         NEW x \in Actors, NEW s \in JobStates, job' = [job EXCEPT ![x] = s], Sidling(x, s)
  PROVE  \A c \in Conns : Sided(c)'
  <1>1. /\ job'[x] = s /\ \A y \in Actors \ {x} : job'[y] = job[y]
    BY JobUpdate
  <1>2. ASSUME NEW c \in Conns PROVE Sided(c)'
    <2>1. Side(c) \in Actors /\ Sided(c) /\ collided \subseteq collided'
      BY SideTypes DEF Tables, Tame
    <2>2. CASE x = Side(c)
      BY <1>1, <2>1, <2>2 DEF Sided, Sidling, Side
    <2>3. CASE x # Side(c)
      BY <1>1, <2>1, <2>3 DEF Sided, Side
    <2> QED
      BY <2>2, <2>3
  <1> QED
    BY <1>2

LEMMA NoSide ==
  ASSUME NEW c \in Conns, NEW x \in {Read(c), Accept(c), Kick(c)}, NEW s
  PROVE  Sidling(x, s)
  BY SideTypes DEF Sidling

(* Nobody comes alive but by AddSession. *)
LEMMA KeepsDead ==
  ASSUME Tables, Typed, Tame, NEW d \in Conns, d \in sessions' => d \in sessions,
         NEW x \in Actors, NEW s \in JobStates, job' = [job EXCEPT ![x] = s], Orderly(x, s), Live(d)'
  PROVE  Live(d)
  <1>1. /\ job' \in [Actors -> JobStates] /\ job'[x] = s
        /\ \A y \in Actors \ {x} : job'[y] = job[y]
    BY JobUpdate
  <1>2. d \in sessions /\ d \in members /\ d \notin torn
    BY SessionConstants DEF Live, Ending, Tame
  <1>3. ASSUME NEW y \in Actors, job[y].call # "no", job[y].target = d PROVE FALSE
    <2>1. Removed(y)
      BY DEF Tables
    <2>2. job[y].call # "bye"
      BY <1>2, <1>3, <2>1 DEF Removed
    <2>3. job'[y].call # "no" /\ job'[y].target = d
      BY <1>1, <1>3, <2>2 DEF Orderly
    <2> QED
      BY <2>3 DEF Live, Ending, Cleaning
  <1> QED
    BY <1>2, <1>3 DEF Live, Ending, Cleaning

(* Pairs stays when nobody comes alive or joins the handshakes under way,  *)
(* and their lists lose nobody alive.                                      *)
LEMMA KeepsPairs ==
  ASSUME Pairs, collided \subseteq collided',
         \A c \in Conns \ collided' : Live(c)' => Live(c),
         \A c \in Conns : Early(c)' =>
             /\ Early(c) /\ job'[Read(c)].pc = job[Read(c)].pc
             /\ \A d \in Conns : Live(d)' /\ d \in job[Read(c)].old => d \in job'[Read(c)].old
  PROVE  Pairs'
  <1>1. ASSUME NEW c \in Conns \ collided', NEW d \in Conns \ collided', c # d, Identity[c] = Identity[d]
        PROVE  Sole(c, d)'
    <2>1. Sole(c, d)
      BY <1>1 DEF Pairs
    <2>2. ~(Early(c)' /\ Early(d)')
      BY <2>1 DEF Sole
    <2>3. ASSUME Live(c)' PROVE ~Live(d)' /\ job'[Read(d)].pc # "session"
                                /\ (job'[Read(d)].pc = "evicting" => c \in job'[Read(d)].old)
      <3>1. /\ ~Live(d) /\ job[Read(d)].pc # "session"
            /\ (job[Read(d)].pc = "evicting" => c \in job[Read(d)].old)
        BY <2>1, <2>3 DEF Sole
      <3>2. job'[Read(d)].pc \in {"evicting", "session"} => Early(d)'
        BY DEF Early, Read
      <3> QED
        BY <2>3, <3>1, <3>2
    <2> QED
      BY <2>2, <2>3 DEF Sole, Read
  <1> QED
    BY <1>1 DEF Pairs

(* A task that is not a handshake between its list and its session moves. *)
LEMMA SoleMove ==
  ASSUME TeardownInv, SoleInv, Tame, authed \subseteq authed',
         authed' \subseteq authed \cup {c \in Conns : link[c] # "none"},
         sessions' \subseteq sessions \cup (collided' \cap authed'),
         NEW x \in Actors, NEW s \in JobStates, job' = [job EXCEPT ![x] = s],
         There(x), Orderly(x, s), Sidling(x, s),
         (\A d \in Conns : x # Side(d)) /\ s.pc \in {"evict", "evicting", "session"} =>
             s.pc = job[x].pc /\ s.old = job[x].old
  PROVE  SoleInv'
  <1>0. Typed /\ Tables
    BY DEF TeardownInv, SoleInv
  <1>1. /\ job' \in [Actors -> JobStates] /\ job'[x] = s
        /\ \A y \in Actors \ {x} : job'[y] = job[y]
    BY <1>0, JobUpdate
  <1>2. (\A c \in Conns : Fresh(c)') /\ (\A y \in Actors : Removed(y)' /\ Called(y)')
    BY <1>0, KeepsFresh
  <1>3. ASSUME NEW c \in Conns, Early(c)'
        PROVE  Early(c) /\ job'[Read(c)].pc = job[Read(c)].pc /\ job'[Read(c)].old = job[Read(c)].old
    <2>1. Read(c) \in Actors /\ job'[Read(c)].pc \in {"evict", "evicting", "session"}
      BY <1>3, ActorTypes DEF Early, Read
    <2>2. \A d \in Conns : Read(c) # Side(d)
      BY SideTypes
    <2> QED
      BY <1>1, <2>1, <2>2 DEF Early
  <1>4. ASSUME NEW c \in Conns PROVE Admitted(c)'
    BY <1>0, <1>3 DEF Tables, Admitted
  <1>5. ASSUME NEW c \in Conns \ collided', Live(c)' PROVE Live(c)
    BY <1>0, <1>5, KeepsDead
  <1>6. Pairs'
    BY <1>3, <1>5, KeepsPairs DEF SoleInv, Tame
  <1>7. \A c \in Conns : Sided(c)'
    BY <1>0, KeepsSided
  <1> QED
    BY <1>2, <1>4, <1>6, <1>7 DEF SoleInv, Tables, Tame

LEMMA SoleStill ==
  ASSUME TeardownInv, SoleInv, Tame, authed' = authed, sessions' \subseteq sessions, UNCHANGED job
  PROVE  SoleInv'
  <1>0. Tables
    BY DEF SoleInv
  <1>1. ASSUME NEW c \in Conns PROVE Fresh(c)' /\ Admitted(c)' /\ Sided(c)' /\ (Early(c)' = Early(c))
    <2>1. Fresh(c) /\ Admitted(c) /\ Sided(c)
      BY <1>0 DEF Tables
    <2> QED
      BY <2>1, SessionConstants DEF Fresh, Admitted, Sided, Early, Tame, Read, Accept, Kick, Side
  <1>2. ASSUME NEW y \in Actors PROVE Removed(y)' /\ Called(y)'
    <2>1. Removed(y) /\ Called(y) /\ job[y].target \notin Parts
      BY <1>0, SessionConstants DEF Tables, TeardownInv, Typed, JobStates
    <2> QED
      BY <2>1 DEF Removed, Called, Tame
  <1>3. ASSUME NEW c \in Conns, Live(c)' PROVE Live(c)
    BY <1>3, SessionConstants DEF Live, Ending, Cleaning, Tame
  <1>4. Pairs'
    <2>1. \A c \in Conns : Early(c)' => /\ Early(c) /\ job'[Read(c)].pc = job[Read(c)].pc
             /\ \A d \in Conns : Live(d)' /\ d \in job[Read(c)].old => d \in job'[Read(c)].old
      BY <1>1
    <2> QED
      BY <1>3, <2>1, KeepsPairs DEF SoleInv, Tame
  <1> QED
    BY <1>1, <1>2, <1>4 DEF SoleInv, Tables, Tame

Settled == {"idle", "place", "send", "joined", "hide", "hidden", "mint", "minted", "drop",
            "dropping", "dropped", "wait", "kick", "plugins", "close", "done"}

LEMMA JobFacts ==
  ASSUME TeardownInv, SoleInv, NEW x \in Actors
  PROVE  /\ job[x] \in JobStates /\ job[x].target \in Conns \cup {None} /\ job[x].target \notin Parts
         /\ Removed(x) /\ Called(x)
  BY SessionConstants DEF TeardownInv, Typed, JobStates, SoleInv, Tables

LEMMA SoleGoto ==
  ASSUME TeardownInv, SoleInv, Tame, authed' = authed, sessions' \subseteq sessions, NEW x \in Actors, NEW p \in Settled, Goto(x, p),
         job[x].pc \notin {"none", "evicting", "close"}, \A d \in Conns : x # Side(d)
  PROVE  SoleInv'
  <1> DEFINE s == [job[x] EXCEPT !.pc = p]
  <1>1. job[x] \in JobStates /\ job[x].call = "no"
    BY JobFacts DEF Called
  <1>2. s \in JobStates /\ s.pc = p /\ s.call = "no" /\ s.target = job[x].target
    BY <1>1 DEF JobStates, Settled
  <1>3. job' = [job EXCEPT ![x] = s]
    BY DEF Goto
  <1> HIDE DEF s
  <1>4. Orderly(x, s) /\ There(x) /\ Sidling(x, s)
    BY <1>1, <1>2 DEF Orderly, There, Sidling
  <1> QED
    BY <1>2, <1>3, <1>4, SoleMove DEF Settled

LEMMA SoleEnds ==
  ASSUME TeardownInv, SoleInv, Tame, authed' = authed, sessions' \subseteq sessions, NEW x \in Actors, NEW p \in Settled, Ends(x, p),
         job[x].pc # "none", job[x].call = "no", \A d \in Conns : x # Side(d)
  PROVE  SoleInv'
  <1> DEFINE s == [NoJob EXCEPT !.pc = p]
  <1>1. s \in JobStates /\ s.pc = p /\ s.call = "no" /\ s.target = None
    BY NoJobType DEF JobStates, Settled, NoJob
  <1>2. job' = [job EXCEPT ![x] = s]
    BY DEF Ends
  <1> HIDE DEF s
  <1>3. Orderly(x, s) /\ There(x) /\ Sidling(x, s)
    BY <1>1 DEF Orderly, There, Sidling
  <1> QED
    BY <1>1, <1>2, <1>3, SoleMove DEF Settled

(* A step inside a call of cleanup_client *)
LEMMA SoleCall ==
  ASSUME TeardownInv, SoleInv, Tame, authed' = authed, sessions' \subseteq sessions,
         NEW x \in Actors, job[x].call \notin {"no", "bye"},
         NEW s \in JobStates, job' = [job EXCEPT ![x] = s],
         s.pc = job[x].pc, s.old = job[x].old, s.target = job[x].target, s.call # "no",
         s.call \in {"room", "session", "bye"} => job[x].target \notin members'
  PROVE  SoleInv'
  <1>1. Orderly(x, s) /\ There(x)
    BY JobFacts DEF Orderly, Called, There
  <1>2. Sidling(x, s)
    BY JobFacts DEF Sidling, Called, Resting
  <1> QED
    BY <1>1, <1>2, SoleMove

-----------------------------------------------------------------------------
LEMMA SoleConnect ==
  ASSUME TeardownInv, SoleInv, NEW c \in Conns, Connect(c)
  PROVE  SoleInv'
  <1> USE ActorTypes
  <1>0. Tables /\ job \in [Actors -> JobStates] /\ link[c] = "none" /\ Fresh(c) /\ Admitted(c)
    BY DEF SoleInv, Tables, TeardownInv, Typed, Connect
  <1>1. /\ members' = members \cup {c} /\ UNCHANGED <<pending, authed, torn, sessions, collided>>
        /\ \A d \in Conns \ {c} : link'[d] = link[d]
        /\ link'[c] = "open" /\ Links'
    BY <1>0 DEF Connect, Tables, Links
  <1>2. ASSUME NEW x \in Actors
        PROVE  /\ job'[x].call = job[x].call /\ job'[x].target = job[x].target /\ job'[x].old = job[x].old
               /\ x \notin {Read(c), Accept(c), Kick(c)} => job'[x].pc = job[x].pc
               /\ job'[x].pc # job[x].pc => job'[x].pc \in {"idle", "wait"} /\ job[x].call = "no"
    <2>1. job[x] \in JobStates /\ Called(x)
      BY <1>0 DEF Tables
    <2>2. job[Read(c)].pc = "none" /\ job[Accept(c)].pc = "none" /\ job[Kick(c)].pc = "none"
      BY <1>0 DEF Fresh
    <2>3. job'[x] = IF x = Read(c) THEN [job[x] EXCEPT !.pc = "idle"]
                    ELSE IF x = Accept(c) THEN [job[x] EXCEPT !.pc = "wait"]
                    ELSE IF x = Kick(c) THEN [job[x] EXCEPT !.pc = "idle"] ELSE job[x]
      BY <1>0 DEF Connect
    <2>4. x \in {Read(c), Accept(c), Kick(c)} => job[x].call = "no"
      BY <2>1, <2>2 DEF Called
    <2> QED
      BY <2>1, <2>3, <2>4 DEF JobStates
  <1>3. ASSUME NEW d \in Conns \ {c} PROVE Fresh(d)'
    <2>1. Fresh(d)
      BY <1>0 DEF Tables
    <2>2. /\ job'[Read(d)].pc = job[Read(d)].pc /\ job'[Accept(d)].pc = job[Accept(d)].pc
          /\ job'[Kick(d)].pc = job[Kick(d)].pc /\ job'[Side(d)].pc = job[Side(d)].pc
      BY <1>2, SideTypes DEF Read, Accept, Kick
    <2> QED
      BY <1>1, <1>2, <2>1, <2>2 DEF Fresh, Read, Accept, Kick, Side
  <1>4. Fresh(c)'
    BY <1>1 DEF Fresh
  <1>5. ASSUME NEW x \in Actors PROVE Removed(x)' /\ Called(x)'
    <2>1. Removed(x) /\ Called(x) /\ job[x].target # c
      BY <1>0 DEF Tables, Fresh
    <2> QED
      BY <1>1, <1>2, <2>1 DEF Removed, Called
  <1>6. ASSUME NEW d \in Conns, Early(d)'
        PROVE  Early(d) /\ job'[Read(d)].pc = job[Read(d)].pc /\ job'[Read(d)].old = job[Read(d)].old
    <2>1. job'[Read(d)].pc \in {"evict", "evicting", "session"}
      BY <1>6 DEF Early, Read
    <2> QED
      BY <1>2, <2>1 DEF Early
  <1>7. ASSUME NEW d \in Conns PROVE Admitted(d)' /\ Sided(d)'
    <2>1. job'[Side(d)].pc = job[Side(d)].pc
      BY <1>2, SideTypes
    <2> QED
      BY <1>0, <1>1, <1>6, <2>1 DEF Tables, Admitted, Sided, Side
  <1>8. ASSUME NEW d \in Conns, Live(d)' PROVE Live(d)
    <2>1. d \in sessions /\ d # c /\ d \in members /\ d \notin torn
      BY <1>0, <1>1, <1>8 DEF Live, Ending, Fresh, Admitted
    <2> QED
      BY <1>2, <1>8, <2>1 DEF Live, Ending, Cleaning
  <1>9. Pairs'
    BY <1>1, <1>6, <1>8, KeepsPairs DEF SoleInv
  <1> QED
    BY <1>1, <1>3, <1>4, <1>5, <1>7, <1>9 DEF SoleInv, Tables

(* Two handshakes of one identity that meet are collided. *)
LEMMA SoleAuthenticate ==
  ASSUME TeardownInv, SoleInv, NEW c \in Conns, Authenticate(Read(c), c)
  PROVE  SoleInv'
  <1> USE ActorTypes
  <1> DEFINE s == [job[Read(c)] EXCEPT !.pc = "evict"]
  <1>0. Tables /\ Typed /\ Admitted(c) /\ Fresh(c)
    BY DEF SoleInv, Tables, TeardownInv
  <1>1. job[Read(c)] \in JobStates /\ job[Read(c)].pc = "idle" /\ job[Read(c)].call = "no"
    BY JobFacts DEF Called, Authenticate
  <1>2. s \in JobStates /\ s.pc = "evict" /\ s.call = "no" /\ s.target = job[Read(c)].target
    BY <1>1 DEF JobStates
  <1>3. job' = [job EXCEPT ![Read(c)] = s]
    BY DEF Authenticate, Goto
  <1> HIDE DEF s
  <1>4. Orderly(Read(c), s) /\ Tame
    BY <1>0, <1>1, <1>2 DEF Orderly, Tame, Authenticate, table, Tables, Links
  <1>5. /\ job' \in [Actors -> JobStates] /\ job'[Read(c)] = s
        /\ \A y \in Actors \ {Read(c)} : job'[y] = job[y]
    BY <1>0, <1>2, <1>3, JobUpdate
  <1>6. /\ authed' = authed \cup {c} /\ sessions' = sessions
        /\ \A d \in Conns : d \in Rivals(c) => d \in collided' /\ c \in collided'
    BY DEF Authenticate, table
  <1>7. (\A d \in Conns : Fresh(d)') /\ (\A y \in Actors : Removed(y)' /\ Called(y)')
    <2>1. link[c] # "none"
      BY <1>0, <1>1 DEF Fresh
    <2> QED
      BY <1>0, <1>1, <1>2, <1>3, <1>4, <1>6, <2>1, KeepsFresh DEF There
  <1>8. ASSUME NEW d \in Conns \ {c}
        PROVE  job'[Read(d)] = job[Read(d)] /\ (Early(d)' = Early(d)) /\ Admitted(d)'
    <2>1. job'[Read(d)] = job[Read(d)] /\ Admitted(d)
      BY <1>0, <1>5 DEF Tables
    <2> QED
      BY <1>6, <2>1 DEF Early, Admitted, Read
  <1>9. Admitted(c)'
    BY <1>0, <1>6 DEF Admitted
  <1>10. ASSUME NEW d \in Conns, Live(d)' PROVE Live(d)
    BY <1>0, <1>2, <1>3, <1>4, <1>6, <1>10, KeepsDead
  <1>12. ASSUME NEW d \in Conns \ collided', NEW e \in Conns \ collided', d # e, Identity[d] = Identity[e]
         PROVE  Sole(d, e)'
    <2>1. Sole(d, e)
      BY <1>4, <1>12 DEF SoleInv, Pairs, Tame
    <2>2. CASE d # c /\ e # c
      BY <1>8, <1>10, <2>1, <2>2 DEF Sole, Read
    <2>3. CASE d = c
      <3>1. e \notin Rivals(c) /\ e \in Conns \ {c} /\ Identity[e] = Identity[c]
        BY <1>6, <1>12, <2>3
      <3>2. ~Early(e)
        BY <3>1 DEF Rivals, Early
      <3>3. job'[Read(e)].pc \notin {"evict", "evicting", "session"}
        BY <1>8, <3>1, <3>2 DEF Early
      <3> QED
        BY <1>8, <1>10, <2>1, <2>3, <3>1, <3>2, <3>3 DEF Sole, Read
    <2>4. CASE e = c
      <3>1. d \notin Rivals(c) /\ d \in Conns \ {c} /\ Identity[d] = Identity[c]
        BY <1>6, <1>12, <2>4
      <3>2. ~Early(d)
        BY <3>1 DEF Rivals, Early
      <3>3. job'[Read(c)].pc = "evict"
        BY <1>2, <1>5
      <3> QED
        BY <1>8, <1>10, <2>1, <2>4, <3>1, <3>2, <3>3 DEF Sole, Read
    <2> QED
      BY <2>2, <2>3, <2>4
  <1>s. \A e \in Conns : Sided(e)'
    <2>1. Sidling(Read(c), s) /\ Tame /\ authed \subseteq authed' /\ s \in JobStates
          /\ job' = [job EXCEPT ![Read(c)] = s] /\ Tables /\ Typed
      BY <1>0, <1>2, <1>3, <1>4, <1>6, NoSide
    <2> QED
      BY <2>1, KeepsSided
  <1> QED
    BY <1>s, <1>4, <1>7, <1>8, <1>9, <1>12 DEF SoleInv, Tables, Pairs, Tame

(* The list holds every live session of the identity. *)
LEMMA SoleList ==
  ASSUME TeardownInv, SoleInv, NEW c \in Conns, ListSuperseded(Read(c), c)
  PROVE  SoleInv'
  <1> USE ActorTypes
  <1> DEFINE o == {d \in sessions \ {c} : Identity[d] = Identity[c]}
             s == [job[Read(c)] EXCEPT !.pc = "evicting", !.old = o]
  <1>0. Tables /\ Typed /\ Admitted(c) /\ Pairs
    BY DEF SoleInv, Tables, TeardownInv
  <1>1. job[Read(c)] \in JobStates /\ job[Read(c)].pc = "evict" /\ job[Read(c)].call = "no"
    BY JobFacts DEF Called, ListSuperseded
  <1>2. o \in SUBSET Conns /\ \A d \in sessions \ {c} : Identity[d] = Identity[c] => d \in o
    BY <1>0 DEF Typed
  <1>3. job' = [job EXCEPT ![Read(c)] = s]
    BY DEF ListSuperseded
  <1> HIDE DEF o
  <1>4. s \in JobStates /\ s.pc = "evicting" /\ s.old = o /\ s.call = "no" /\ s.target = job[Read(c)].target
    BY <1>1, <1>2 DEF JobStates
  <1> HIDE DEF s
  <1>5. Orderly(Read(c), s) /\ Tame /\ UNCHANGED <<authed, pending, sessions, members, torn, collided>>
    BY <1>0, <1>1, <1>4 DEF Orderly, Tame, ListSuperseded, conn, table, Tables, Links
  <1>6. /\ job' \in [Actors -> JobStates] /\ job'[Read(c)] = s
        /\ \A y \in Actors \ {Read(c)} : job'[y] = job[y]
    BY <1>0, <1>3, <1>4, JobUpdate
  <1>7. (\A d \in Conns : Fresh(d)') /\ (\A y \in Actors : Removed(y)' /\ Called(y)')
    BY <1>0, <1>1, <1>3, <1>4, <1>5, KeepsFresh DEF There
  <1>8. ASSUME NEW d \in Conns PROVE (Early(d)' = Early(d)) /\ Admitted(d)'
    <2>1. Admitted(d) /\ (d # c => job'[Read(d)] = job[Read(d)])
      BY <1>0, <1>6 DEF Tables
    <2>2. Early(d)' = Early(d)
      BY <1>1, <1>4, <1>6, <2>1 DEF Early, Read
    <2> QED
      BY <1>5, <2>1, <2>2 DEF Admitted
  <1>9. ASSUME NEW d \in Conns, Live(d)' PROVE Live(d)
    BY <1>0, <1>3, <1>4, <1>5, <1>9, KeepsDead
  <1>10. ASSUME NEW d \in Conns \ collided', NEW e \in Conns \ collided', d # e, Identity[d] = Identity[e]
         PROVE  Sole(d, e)'
    <2>1. Sole(d, e)
      BY <1>0, <1>5, <1>10 DEF Pairs
    <2>2. CASE e # c
      <3>1. job'[Read(e)] = job[Read(e)]
        BY <1>6, <2>2
      <3> QED
        BY <1>8, <1>9, <2>1, <3>1 DEF Sole, Read
    <2>3. CASE e = c
      <3>1. Live(d) => d \in o
        BY <1>2, <1>10, <2>3 DEF Live
      <3>2. job'[Read(c)].pc = "evicting" /\ job'[Read(c)].old = o
        BY <1>4, <1>6
      <3> QED
        BY <1>8, <1>9, <2>1, <2>3, <3>1, <3>2 DEF Sole, Read
    <2> QED
      BY <2>2, <2>3
  <1>s. \A e \in Conns : Sided(e)'
    <2>1. Sidling(Read(c), s) /\ Tame /\ authed \subseteq authed' /\ s \in JobStates
          /\ job' = [job EXCEPT ![Read(c)] = s] /\ Tables /\ Typed
      BY <1>0, <1>3, <1>4, <1>5, NoSide
    <2> QED
      BY <2>1, KeepsSided
  <1> QED
    BY <1>s, <1>5, <1>7, <1>8, <1>10 DEF SoleInv, Tables, Pairs, Tame

(* Whoever leaves the list is being torn down, or was. *)
LEMMA SoleEvict ==
  ASSUME TeardownInv, SoleInv, NEW c \in Conns, NEW d \in Conns, Evict(Read(c), c, d)
  PROVE  SoleInv'
  <1> USE ActorTypes
  <1> DEFINE o == job[Read(c)].old \ {d}
  <1>0. Tables /\ Typed /\ Pairs
    BY DEF SoleInv, TeardownInv
  <1>1. /\ job[Read(c)] \in JobStates /\ job[Read(c)].pc = "evicting" /\ job[Read(c)].call = "no"
        /\ o \in SUBSET Conns
    BY JobFacts DEF Evict, JobStates
  <1> HIDE DEF o
  <1>2. PICK s \in JobStates : /\ job' = [job EXCEPT ![Read(c)] = s]
                               /\ s.pc = "evicting" /\ s.old = o
                               /\ \/ s.call = "no" /\ s.target = job[Read(c)].target
                                  \/ s.call = "start" /\ s.target = d /\ d \in members
    <2>1. CASE d \in members /\ d \notin torn
      <3> DEFINE s == [job[Read(c)] EXCEPT !.old = o, !.call = "start", !.target = d]
      <3>1. job' = [job EXCEPT ![Read(c)] = s]
        BY <2>1 DEF Evict, o
      <3>2. s \in JobStates /\ s.pc = "evicting" /\ s.old = o /\ s.call = "start" /\ s.target = d
        BY <1>1 DEF JobStates
      <3> HIDE DEF s
      <3> QED
        BY <2>1, <3>1, <3>2
    <2>2. CASE ~(d \in members /\ d \notin torn)
      <3> DEFINE s == [job[Read(c)] EXCEPT !.old = o]
      <3>1. job' = [job EXCEPT ![Read(c)] = s]
        BY <2>2 DEF Evict, o
      <3>2. s \in JobStates /\ s.pc = "evicting" /\ s.old = o /\ s.call = "no" /\ s.target = job[Read(c)].target
        BY <1>1 DEF JobStates
      <3> HIDE DEF s
      <3> QED
        BY <3>1, <3>2
    <2> QED
      BY <2>1, <2>2
  <1>3. d \in members => link[d] # "none"
    BY <1>0 DEF Tables, Fresh
  <1>4. Orderly(Read(c), s)
    BY <1>1, <1>2, <1>3 DEF Orderly
  <1>5. Tame /\ UNCHANGED <<authed, pending, sessions>>
    <2>1. link' = link \/ (d \in members /\ link' = [link EXCEPT ![d] = "closed"])
      BY DEF Evict
    <2>2. Links' /\ \A e \in Conns : (link'[e] = "none") = (link[e] = "none")
      BY <1>0, <1>3, <2>1 DEF Tables, Links
    <2> QED
      BY <2>2 DEF Tame, Evict, table
  <1>6. /\ job' \in [Actors -> JobStates] /\ job'[Read(c)] = s
        /\ \A y \in Actors \ {Read(c)} : job'[y] = job[y]
    BY <1>0, <1>2, JobUpdate
  <1>7. (\A e \in Conns : Fresh(e)') /\ (\A y \in Actors : Removed(y)' /\ Called(y)')
    BY <1>0, <1>1, <1>2, <1>4, <1>5, KeepsFresh DEF There
  <1>8. ASSUME NEW e \in Conns
        PROVE  /\ (Early(e)' = Early(e)) /\ Admitted(e)' /\ job'[Read(e)].pc = job[Read(e)].pc
               /\ e # c => job'[Read(e)] = job[Read(e)]
    <2>1. Admitted(e) /\ (e # c => job'[Read(e)] = job[Read(e)])
      BY <1>0, <1>6 DEF Tables
    <2>2. job'[Read(e)].pc = job[Read(e)].pc
      BY <1>1, <1>2, <1>6, <2>1
    <2>3. Early(e)' = Early(e)
      BY <2>2 DEF Early, Read
    <2> QED
      BY <1>5, <2>1, <2>2, <2>3 DEF Admitted
  <1>9. ASSUME NEW e \in Conns, Live(e)' PROVE Live(e)
    BY <1>0, <1>2, <1>4, <1>5, <1>9, KeepsDead
  <1>10. ~Live(d)'
    BY <1>5, SessionConstants DEF Evict, Live, Ending, Tame, table
  <1>11. ASSUME NEW e \in Conns, NEW f \in Conns, Live(f)', f \in job[Read(e)].old
         PROVE  f \in job'[Read(e)].old
    <2>1. CASE e # c
      BY <1>8, <1>11, <2>1
    <2>2. CASE e = c
      <3>1. f # d
        BY <1>10, <1>11
      <3> QED
        BY <1>2, <1>6, <1>11, <2>2, <3>1 DEF o
    <2> QED
      BY <2>1, <2>2
  <1>12. Pairs'
    BY <1>0, <1>5, <1>8, <1>9, <1>11, KeepsPairs DEF Tame
  <1>s. \A e \in Conns : Sided(e)'
    <2>1. Sidling(Read(c), s) /\ Tame /\ authed \subseteq authed' /\ s \in JobStates
          /\ job' = [job EXCEPT ![Read(c)] = s] /\ Tables /\ Typed
      BY <1>0, <1>2, <1>5, NoSide
    <2> QED
      BY <2>1, KeepsSided
  <1> QED
    BY <1>s, <1>5, <1>7, <1>8, <1>12 DEF SoleInv, Tables, Tame

LEMMA SoleEvicted ==
  ASSUME TeardownInv, SoleInv, NEW c \in Conns, Evicted(Read(c), c)
  PROVE  SoleInv'
  <1> USE ActorTypes
  <1> DEFINE s == [job[Read(c)] EXCEPT !.pc = "session"]
  <1>0. Tables /\ Typed /\ Pairs
    BY DEF SoleInv, TeardownInv
  <1>1. /\ job[Read(c)] \in JobStates /\ job[Read(c)].pc = "evicting" /\ job[Read(c)].call = "no"
        /\ job[Read(c)].old = {}
    BY JobFacts DEF Evicted
  <1>2. s \in JobStates /\ s.pc = "session" /\ s.call = "no" /\ s.target = job[Read(c)].target
    BY <1>1 DEF JobStates
  <1>3. job' = [job EXCEPT ![Read(c)] = s]
    BY DEF Evicted, Goto
  <1> HIDE DEF s
  <1>4. Orderly(Read(c), s) /\ Tame /\ UNCHANGED <<authed, pending, sessions, collided>>
    BY <1>0, <1>1, <1>2 DEF Orderly, Tame, Evicted, conn, table, Tables, Links
  <1>5. /\ job' \in [Actors -> JobStates] /\ job'[Read(c)] = s
        /\ \A y \in Actors \ {Read(c)} : job'[y] = job[y]
    BY <1>0, <1>2, <1>3, JobUpdate
  <1>6. (\A e \in Conns : Fresh(e)') /\ (\A y \in Actors : Removed(y)' /\ Called(y)')
    BY <1>0, <1>1, <1>2, <1>3, <1>4, KeepsFresh DEF There
  <1>7. ASSUME NEW d \in Conns
        PROVE  (Early(d)' = Early(d)) /\ Admitted(d)' /\ (d # c => job'[Read(d)] = job[Read(d)])
    <2>1. Admitted(d) /\ (d # c => job'[Read(d)] = job[Read(d)])
      BY <1>0, <1>5 DEF Tables
    <2>2. Early(d)' = Early(d)
      BY <1>1, <1>2, <1>5, <2>1 DEF Early, Read
    <2> QED
      BY <1>4, <2>1, <2>2 DEF Admitted
  <1>8. ASSUME NEW d \in Conns, Live(d)' PROVE Live(d)
    BY <1>0, <1>2, <1>3, <1>4, <1>8, KeepsDead
  <1>9. ASSUME NEW d \in Conns \ collided', NEW e \in Conns \ collided', d # e, Identity[d] = Identity[e]
        PROVE  Sole(d, e)'
    <2>1. Sole(d, e)
      BY <1>0, <1>4, <1>9 DEF Pairs
    <2>2. CASE e # c
      BY <1>7, <1>8, <2>1, <2>2 DEF Sole, Read
    <2>3. CASE e = c
      <3>1. ~Live(d)
        BY <1>1, <2>1, <2>3 DEF Sole
      <3> QED
        BY <1>7, <1>8, <2>1, <3>1 DEF Sole
    <2> QED
      BY <2>2, <2>3
  <1>s. \A e \in Conns : Sided(e)'
    <2>1. Sidling(Read(c), s) /\ Tame /\ authed \subseteq authed' /\ s \in JobStates
          /\ job' = [job EXCEPT ![Read(c)] = s] /\ Tables /\ Typed
      BY <1>0, <1>2, <1>3, <1>4, NoSide
    <2> QED
      BY <2>1, KeepsSided
  <1> QED
    BY <1>s, <1>4, <1>6, <1>7, <1>9 DEF SoleInv, Tables, Pairs, Tame

(* The connection that adds its session finds none of its identity alive   *)
(* and none on the way.                                                    *)
LEMMA SoleAddSession ==
  ASSUME TeardownInv, SoleInv, NEW c \in Conns, AddSession(Read(c), c)
  PROVE  SoleInv'
  <1> USE ActorTypes
  <1> DEFINE s == [job[Read(c)] EXCEPT !.pc = "place"]
  <1>0. Tables /\ Typed /\ Pairs
    BY DEF SoleInv, TeardownInv
  <1>1. job[Read(c)] \in JobStates /\ job[Read(c)].pc = "session" /\ job[Read(c)].call = "no"
    BY JobFacts DEF AddSession, Called
  <1>2. s \in JobStates /\ s.pc = "place" /\ s.call = "no" /\ s.target = job[Read(c)].target
    BY <1>1 DEF JobStates
  <1>3. job' = [job EXCEPT ![Read(c)] = s]
    BY DEF AddSession, Goto
  <1> HIDE DEF s
  <1>4. Orderly(Read(c), s) /\ Tame /\ UNCHANGED <<authed, pending, collided>> /\ sessions' = sessions \cup {c}
    BY <1>0, <1>1, <1>2 DEF Orderly, Tame, AddSession, conn, Tables, Links
  <1>5. /\ job' \in [Actors -> JobStates] /\ job'[Read(c)] = s
        /\ \A y \in Actors \ {Read(c)} : job'[y] = job[y]
    BY <1>0, <1>2, <1>3, JobUpdate
  <1>6. (\A e \in Conns : Fresh(e)') /\ (\A y \in Actors : Removed(y)' /\ Called(y)')
    BY <1>0, <1>1, <1>2, <1>3, <1>4, KeepsFresh DEF There
  <1>7. Early(c) /\ ~Early(c)' /\ Admitted(c)'
    <2>1. Early(c) /\ ~Early(c)' /\ Admitted(c)
      BY <1>0, <1>1, <1>2, <1>5 DEF Early, Read, Tables
    <2> QED
      BY <1>4, <2>1 DEF Admitted
  <1>8. ASSUME NEW d \in Conns \ {c}
        PROVE  (Early(d)' = Early(d)) /\ Admitted(d)' /\ job'[Read(d)] = job[Read(d)]
    <2>1. Admitted(d) /\ job'[Read(d)] = job[Read(d)]
      BY <1>0, <1>5 DEF Tables
    <2>2. Early(d)' = Early(d)
      BY <2>1 DEF Early, Read
    <2> QED
      BY <1>4, <2>1, <2>2 DEF Admitted
  <1>9. ASSUME NEW d \in Conns \ {c}, Live(d)' PROVE Live(d)
    BY <1>0, <1>2, <1>3, <1>4, <1>9, KeepsDead
  <1>10. ASSUME NEW d \in Conns \ collided', NEW e \in Conns \ collided', d # e, Identity[d] = Identity[e]
         PROVE  Sole(d, e)'
    <2>1. Sole(d, e) /\ Sole(e, d)
      BY <1>0, <1>4, <1>10 DEF Pairs
    <2>2. CASE d # c /\ e # c
      BY <1>8, <1>9, <2>1, <2>2 DEF Sole, Read
    <2>3. CASE d = c
      <3>1. ~Early(e) /\ ~Live(e)
        BY <1>1, <1>7, <2>1, <2>3 DEF Sole
      <3>2. ~Early(e)' /\ ~Live(e)'
        BY <1>8, <1>9, <1>10, <2>3, <3>1
      <3>3. job'[Read(e)].pc # "session" /\ job'[Read(e)].pc # "evicting"
        BY <3>2 DEF Early, Read
      <3> QED
        BY <3>2, <3>3 DEF Sole, Read
    <2>4. CASE e = c
      <3>1. ~Early(d) /\ ~Live(d)
        BY <1>1, <1>7, <2>1, <2>4 DEF Sole
      <3>2. ~Early(d)' /\ ~Live(d)'
        BY <1>8, <1>9, <1>10, <2>4, <3>1
      <3> QED
        BY <3>2 DEF Sole
    <2> QED
      BY <2>2, <2>3, <2>4
  <1>s. \A e \in Conns : Sided(e)'
    <2>1. Sidling(Read(c), s) /\ Tame /\ authed \subseteq authed' /\ s \in JobStates
          /\ job' = [job EXCEPT ![Read(c)] = s] /\ Tables /\ Typed
      BY <1>0, <1>2, <1>3, <1>4, NoSide
    <2> QED
      BY <2>1, KeepsSided
  <1> QED
    BY <1>s, <1>4, <1>6, <1>7, <1>8, <1>10 DEF SoleInv, Tables, Pairs, Tame

LEMMA SoleCloses ==
  ASSUME TeardownInv, SoleInv, NEW c \in Conns, NEW x \in Streams(c), Close(c) \/ AuthFails(x, c)
  PROVE  SoleInv'
  <1>0. Links /\ Fresh(c) /\ (job[x].pc = "idle" => link[c] # "none")
    BY DEF SoleInv, Tables, Fresh, Streams
  <1>1. /\ link[c] # "none" /\ link' = [link EXCEPT ![c] = "closed"] /\ collided \subseteq collided'
        /\ UNCHANGED <<authed, torn, members, sessions, job>>
    BY <1>0 DEF Close, AuthFails, Begins, table
  <1>2. Tame
    BY <1>0, <1>1 DEF Tame, Links
  <1> QED
    BY <1>1, <1>2, SoleStill

LEMMA SoleHandlers ==
  ASSUME TeardownInv, SoleInv, NEW c \in Conns,
         \/ ClientHello(Read(c), c)
         \/ SetUserRoom(Read(c), c) \/ SendState(Read(c), c) \/ AnnounceJoined(Read(c), c)
         \/ ControllerHello(Read(c), c) \/ HideController(Read(c), c) \/ AnnounceHidden(Read(c), c)
         \/ \E p \in Parts : RegisterParticipant(Read(c), c, p) \/ UnregisterParticipant(Read(c), c, p)
         \/ PlaceParticipant(Read(c), c) \/ AnnounceParticipant(Read(c), c) \/ DropParticipant(Read(c), c)
         \/ UnplaceParticipant(Read(c), c) \/ AnnounceDropped(Read(c), c)
  PROVE  SoleInv'
  <1> USE ActorTypes, SideTypes
  <1>0. /\ Links /\ job[Read(c)] \in JobStates /\ Called(Read(c))
    BY JobFacts DEF SoleInv, Tables
  <1>a. ASSUME UNCHANGED link, members' \subseteq members \cup Parts, torn \subseteq torn',
               collided \subseteq collided'
        PROVE  Tame
    BY <1>0, <1>a DEF Tame, Links
  <1>2. CASE ClientHello(Read(c), c)
    BY <1>a, <1>2, SoleStill DEF ClientHello, Begins, table
  <1>4. CASE SetUserRoom(Read(c), c)
    BY <1>a, <1>4, SoleGoto DEF SetUserRoom, conn, Settled
  <1>5. CASE SendState(Read(c), c)
    BY <1>a, <1>5, SoleGoto DEF SendState, conn, table, Settled
  <1>6. CASE AnnounceJoined(Read(c), c)
    BY <1>a, <1>6, SoleGoto DEF AnnounceJoined, conn, table, Settled
  <1>7. CASE ControllerHello(Read(c), c)
    BY <1>a, <1>7, SoleGoto DEF ControllerHello, Begins, conn, table, Settled
  <1>8. CASE HideController(Read(c), c)
    BY <1>a, <1>8, SoleGoto DEF HideController, conn, Settled
  <1>9. CASE AnnounceHidden(Read(c), c)
    BY <1>a, <1>9, SoleGoto DEF AnnounceHidden, conn, table, Settled
  <1>10. ASSUME NEW p \in Parts, RegisterParticipant(Read(c), c, p) PROVE SoleInv'
    <2> DEFINE s == [job[Read(c)] EXCEPT !.pc = "mint", !.part = p]
    <2>1. job' = [job EXCEPT ![Read(c)] = s] /\ job[Read(c)].pc = "idle"
      BY <1>10 DEF RegisterParticipant, Begins
    <2>2. s \in JobStates /\ s.pc = "mint" /\ s.call = "no" /\ s.target = job[Read(c)].target
      BY <1>0, <2>1 DEF JobStates, Called
    <2> HIDE DEF s
    <2>3. Tame
      BY <1>a, <1>10 DEF RegisterParticipant, Begins, conn
    <2>4. Orderly(Read(c), s) /\ There(Read(c)) /\ Sidling(Read(c), s)
      BY <1>0, <2>1, <2>2, NoSide DEF Orderly, Called, There
    <2> QED
      BY <1>10, <2>1, <2>2, <2>3, <2>4, SoleMove DEF RegisterParticipant, conn
  <1>11. ASSUME NEW p \in Parts, UnregisterParticipant(Read(c), c, p) PROVE SoleInv'
    <2> DEFINE b == p \in placed
               s == [job[Read(c)] EXCEPT !.pc = "drop", !.part = p, !.present = b]
    <2>1. job' = [job EXCEPT ![Read(c)] = s] /\ job[Read(c)].pc = "idle"
      BY <1>11 DEF UnregisterParticipant, Begins
    <2>b. b \in BOOLEAN
      OBVIOUS
    <2> HIDE DEF b
    <2>2. s \in JobStates /\ s.pc = "drop" /\ s.call = "no" /\ s.target = job[Read(c)].target
      BY <1>0, <2>1, <2>b DEF JobStates, Called
    <2> HIDE DEF s
    <2>3. Tame
      BY <1>a, <1>11 DEF UnregisterParticipant, Begins, conn, table
    <2>4. Orderly(Read(c), s) /\ There(Read(c)) /\ Sidling(Read(c), s)
      BY <1>0, <2>1, <2>2, NoSide DEF Orderly, Called, There
    <2> QED
      BY <1>11, <2>1, <2>2, <2>3, <2>4, SoleMove DEF UnregisterParticipant, conn, table
  <1>12. CASE PlaceParticipant(Read(c), c)
    BY <1>a, <1>12, SoleGoto DEF PlaceParticipant, conn, Settled
  <1>13. CASE AnnounceParticipant(Read(c), c)
    BY <1>0, <1>a, <1>13, SoleEnds DEF AnnounceParticipant, conn, table, Settled, Called
  <1>14. CASE DropParticipant(Read(c), c)
    BY <1>a, <1>14, SoleGoto DEF DropParticipant, conn, Settled
  <1>15. CASE UnplaceParticipant(Read(c), c)
    BY <1>a, <1>15, SoleGoto DEF UnplaceParticipant, conn, Settled
  <1>16. CASE AnnounceDropped(Read(c), c)
    BY <1>0, <1>a, <1>16, SoleEnds DEF AnnounceDropped, conn, table, Settled, Called
  <1> QED
    BY <1>2, <1>4, <1>5, <1>6, <1>7, <1>8, <1>9, <1>10, <1>11, <1>12, <1>13, <1>14,
       <1>15, <1>16

LEMMA SoleTeardown ==
  ASSUME TeardownInv, SoleInv, NEW c \in Conns,
         \/ ReadEnds(c) \/ AcceptEnds(c) \/ KickCheck(c) \/ KickClose(c)
         \/ TellPlugins(Read(c), c) \/ TellPlugins(Accept(c), c)
  PROVE  SoleInv'
  <1> USE ActorTypes, SideTypes
  <1>0. Links /\ Fresh(c)
    BY DEF SoleInv, Tables
  <1>a. ASSUME UNCHANGED link, members' = members, torn \subseteq torn', collided \subseteq collided'
        PROVE  Tame
    BY <1>0, <1>a DEF Tame, Links
  <1>b. ASSUME NEW x \in {Read(c), Accept(c)}, Claim(x, c), job[x].pc \in {"idle", "wait"},
               UNCHANGED <<conn, ctrl, table, seen>>
        PROVE  SoleInv'
    <2> DEFINE p == IF c \in torn THEN "done" ELSE "plugins"
    <2>1. p \in Settled /\ Goto(x, p)
      BY <1>b DEF Claim, Settled
    <2> HIDE DEF p
    <2>2. Tame
      BY <1>a, <1>b DEF Claim, conn, table
    <2> QED
      BY <1>b, <2>1, <2>2, SoleGoto DEF conn, table
  <1>c. ASSUME NEW x \in {Read(c), Accept(c), Kick(c)}, job[x].pc \in {"plugins", "kick"}, Tame,
               UNCHANGED <<authed, pending, table>>,
               job' = [job EXCEPT ![x].pc = "close", ![x].call = "start", ![x].target = c]
        PROVE  SoleInv'
    <2> DEFINE s == [job[x] EXCEPT !.pc = "close", !.call = "start", !.target = c]
    <2>1. x \in Actors /\ job[x] \in JobStates /\ job[x].call = "no" /\ link[c] # "none"
      BY <1>0, <1>c, JobFacts DEF Called, Fresh
    <2>2. job' = [job EXCEPT ![x] = s]
      BY <1>c
    <2>3. s \in JobStates /\ s.pc = "close" /\ s.call = "start" /\ s.target = c
      BY <2>1 DEF JobStates
    <2> HIDE DEF s
    <2>4. Orderly(x, s) /\ There(x) /\ Sidling(x, s)
      BY <1>c, <2>1, <2>3, NoSide DEF Orderly, There
    <2> QED
      BY <1>c, <2>1, <2>2, <2>3, <2>4, SoleMove DEF table
  <1>1. CASE ReadEnds(c)
    BY <1>b, <1>1 DEF ReadEnds
  <1>2. CASE AcceptEnds(c)
    BY <1>b, <1>2 DEF AcceptEnds
  <1>3. CASE KickCheck(c)
    BY <1>a, <1>3, SoleGoto DEF KickCheck, conn, table, Settled
  <1>4. CASE KickClose(c)
    <2>1. link[c] # "none"
      BY <1>0, <1>4 DEF KickClose, Fresh
    <2>2. Tame
      BY <1>0, <1>4, <2>1 DEF Tame, Links, KickClose, table
    <2> QED
      BY <1>4, <1>c, <2>2 DEF KickClose
  <1>5. ASSUME NEW x \in {Read(c), Accept(c)}, TellPlugins(x, c) PROVE SoleInv'
    <2>1. Tame
      BY <1>a, <1>5 DEF TellPlugins, conn, table
    <2> QED
      BY <1>5, <1>c, <2>1 DEF TellPlugins, conn
  <1> QED
    BY <1>1, <1>2, <1>3, <1>4, <1>5

LEMMA SoleCleanup ==
  ASSUME TeardownInv, SoleInv, NEW x \in Actors, Cleanup(x) \/ (TornDown(x) /\ \A d \in Conns : x # Side(d))
  PROVE  SoleInv'
  <1>0. /\ Links /\ job[x] \in JobStates /\ Removed(x) /\ Called(x) /\ job[x].target \notin Parts
    BY JobFacts DEF SoleInv, Tables
  <1>a. ASSUME UNCHANGED link, members' \subseteq members, torn' = torn, collided' = collided
        PROVE  Tame
    BY <1>0, <1>a DEF Tame, Links
  <1>b. ASSUME UNCHANGED <<conn, torn, collided>>, members' \subseteq members, sessions' \subseteq sessions,
               job[x].call \notin {"no", "bye"},
               NEW k \in {"parts", "leave", "member", "session", "bye"}, Call(x, k),
               k \in {"session", "bye"} => job[x].call \in {"room", "session"}
        PROVE  SoleInv'
    <2> DEFINE s == [job[x] EXCEPT !.call = k]
    <2>1. job' = [job EXCEPT ![x] = s]
      BY <1>b DEF Call
    <2>2. /\ s \in JobStates /\ s.pc = job[x].pc /\ s.old = job[x].old
          /\ s.target = job[x].target /\ s.call = k
      BY <1>0, <1>b DEF JobStates
    <2> HIDE DEF s
    <2>3. Tame /\ UNCHANGED <<authed, pending>>
      BY <1>a, <1>b DEF conn
    <2>4. s.call \in {"room", "session", "bye"} => job[x].target \notin members'
      BY <1>0, <1>b, <2>2 DEF Removed
    <2> QED
      BY <1>b, <2>1, <2>2, <2>3, <2>4, SoleCall
  <1>1. CASE TornDown(x) /\ \A d \in Conns : x # Side(d)
    BY <1>a, <1>1, SoleEnds DEF TornDown, conn, table, Settled
  <1>2. CASE CleanStart(x)
    <2> DEFINE t == job[x].target
               l == IF t \in ctrl THEN "parts" ELSE "member"
               b == t \in ctrl
               q == IF t \in ctrl THEN {p \in Parts \cap members : owner[p] = t} ELSE {}
               s == [job[x] EXCEPT !.call = l, !.ctl = b, !.parts = q]
    <2>1. job' = [job EXCEPT ![x] = s]
      BY <1>2 DEF CleanStart
    <2>2. l \in {"parts", "member"} /\ b \in BOOLEAN /\ q \in SUBSET Parts
      OBVIOUS
    <2> HIDE DEF t, l, b, q
    <2>3. /\ s \in JobStates /\ s.pc = job[x].pc /\ s.old = job[x].old
          /\ s.target = job[x].target /\ s.call = l
      BY <1>0, <2>2 DEF JobStates
    <2> HIDE DEF s
    <2>4. Tame
      BY <1>a, <1>2 DEF CleanStart, conn, table
    <2> QED
      BY <1>2, <2>1, <2>2, <2>3, <2>4, SoleCall DEF CleanStart, conn, table
  <1>3. CASE CleanPart(x)
    <2>1. UNCHANGED <<conn, torn, collided, sessions>> /\ job[x].call = "parts" /\ members' \subseteq members
      BY <1>3 DEF CleanPart
    <2>2. CASE Call(x, "member")
      BY <1>b, <2>1, <2>2
    <2>3. ASSUME NEW p \in job[x].parts,
                 job' = [job EXCEPT ![x].parts = job[x].parts \ {p}, ![x].part = p,
                                    ![x].call = IF p \in members THEN "unplace" ELSE "parts"]
          PROVE  SoleInv'
      <3> DEFINE l == IF p \in members THEN "unplace" ELSE "parts"
                 q == job[x].parts \ {p}
                 s == [job[x] EXCEPT !.parts = q, !.part = p, !.call = l]
      <3>1. job' = [job EXCEPT ![x] = s]
        BY <2>3
      <3>2. l \in {"unplace", "parts"} /\ q \in SUBSET Parts /\ p \in Parts
        BY <1>0 DEF JobStates
      <3> HIDE DEF l, q
      <3>3. /\ s \in JobStates /\ s.pc = job[x].pc /\ s.old = job[x].old
            /\ s.target = job[x].target /\ s.call = l
        BY <1>0, <3>2 DEF JobStates
      <3> HIDE DEF s
      <3>4. Tame
        BY <1>a, <2>1 DEF conn
      <3> QED
        BY <2>1, <3>1, <3>2, <3>3, <3>4, SoleCall DEF conn
    <2> QED
      BY <1>3, <2>2, <2>3 DEF CleanPart
  <1>4. CASE UnplacePart(x)
    BY <1>b, <1>4 DEF UnplacePart
  <1>5. CASE AnnouncePart(x)
    BY <1>b, <1>5 DEF AnnouncePart, table
  <1>6. CASE CleanMember(x)
    <2> DEFINE b == job[x].target \in members
               s == [job[x] EXCEPT !.call = "room", !.present = b]
    <2>1. job' = [job EXCEPT ![x] = s]
      BY <1>6 DEF CleanMember
    <2>2. b \in BOOLEAN
      OBVIOUS
    <2> HIDE DEF b
    <2>3. /\ s \in JobStates /\ s.pc = job[x].pc /\ s.old = job[x].old
          /\ s.target = job[x].target /\ s.call = "room"
      BY <1>0, <2>2 DEF JobStates
    <2> HIDE DEF s
    <2>4. Tame /\ job[x].target \notin members'
      BY <1>a, <1>6 DEF CleanMember, conn
    <2> QED
      BY <1>6, <2>1, <2>3, <2>4, SoleCall DEF CleanMember, conn
  <1>7. CASE CleanRoom(x)
    BY <1>b, <1>7 DEF CleanRoom
  <1>8. CASE CleanSession(x)
    BY <1>b, <1>8 DEF CleanSession
  <1>9. CASE CleanBye(x)
    <2> DEFINE s == [NoJob EXCEPT !.pc = job[x].pc, !.old = job[x].old]
    <2>1. job' = [job EXCEPT ![x] = s]
      BY <1>9 DEF CleanBye
    <2>2. s \in JobStates /\ s.pc = job[x].pc /\ s.old = job[x].old /\ s.call = "no" /\ s.target = None
      BY <1>0, NoJobType DEF JobStates, NoJob
    <2> HIDE DEF s
    <2>3. Tame
      BY <1>a, <1>9 DEF CleanBye, conn, table
    <2>4. job[x].call = "bye" /\ There(x) /\ Orderly(x, s) /\ Sidling(x, s)
      BY <1>0, <1>9, <2>2 DEF CleanBye, Called, Orderly, There, Sidling, Resting
    <2> QED
      BY <1>9, <2>1, <2>2, <2>3, <2>4, SoleMove DEF CleanBye, conn, table
  <1> QED
    BY <1>1, <1>2, <1>3, <1>4, <1>5, <1>6, <1>7, <1>8, <1>9 DEF Cleanup

-----------------------------------------------------------------------------
(* What a handler is at *)
Entering == {"evict", "evicting", "session", "place", "send", "joined"}
Hiding == {"hide", "hidden"}
Minting == {"mint", "minted"}
Dropping == {"drop", "dropping", "dropped"}

(* How the task of a second stream moves in a handler *)
Starting(s) ==
    /\ s.call = "start" /\ s.pc = "evicting"
    /\ s.target \in members \cap Conns /\ s.target \notin torn /\ s.target \in torn'
SideMoves(c, s) ==
    /\ s \in JobStates /\ job' = [job EXCEPT ![Side(c)] = s]
    /\ job[Side(c)].call = "no" /\ job[Side(c)].pc # "none"
    /\ (s.call = "no" /\ s.target \in {job[Side(c)].target, None}) \/ Starting(s)
    /\ s.pc = "idle" \/ job[Side(c)].pc # "idle" \/ c \in collided' \cap authed'
    /\ s.pc \in Minting \cup Dropping =>
          \/ s.part \in Parts /\ owner' = [owner EXCEPT ![s.part] = c]
          \/ s.part \in Parts /\ owner[s.part] = c /\ owner' = owner
          \/ job[Side(c)].pc \in Minting \cup Dropping /\ s.part = job[Side(c)].part

LEMMA SideGoto ==
  ASSUME TeardownInv, SoleInv, NEW c \in Conns, NEW p \in Calm, Goto(Side(c), p),
         job[Side(c)].pc # "none", job[Side(c)].call = "no",
         p = "idle" \/ job[Side(c)].pc # "idle" \/ c \in collided' \cap authed',
         p \in Minting \cup Dropping => job[Side(c)].pc \in Minting \cup Dropping
  PROVE  \E s : SideMoves(c, s)
  <1>1. job[Side(c)] \in JobStates
    BY SideTypes, JobFacts
  <1>2. PICK s : s = [job[Side(c)] EXCEPT !.pc = p]
    OBVIOUS
  <1>3. /\ s \in JobStates /\ s.pc = p /\ s.call = "no" /\ s.target = job[Side(c)].target
        /\ s.part = job[Side(c)].part
    BY <1>1, <1>2 DEF JobStates, Calm
  <1>4. job' = [job EXCEPT ![Side(c)] = s]
    BY <1>2 DEF Goto
  <1> QED
    BY <1>3, <1>4 DEF SideMoves

LEMMA SideEnds ==
  ASSUME NEW c \in Conns, Ends(Side(c), "idle"), job[Side(c)].pc # "none", job[Side(c)].call = "no"
  PROVE  \E s : SideMoves(c, s)
  <1>1. PICK s : s = [NoJob EXCEPT !.pc = "idle"]
    OBVIOUS
  <1>2. s \in JobStates /\ s.pc = "idle" /\ s.call = "no" /\ s.target = None
    BY <1>1, NoJobType DEF JobStates, NoJob
  <1>3. job' = [job EXCEPT ![Side(c)] = s]
    BY <1>1 DEF Ends
  <1> QED
    BY <1>2, <1>3 DEF SideMoves, Minting, Dropping

SideWork(c) ==
    \/ Authenticate(Side(c), c) \/ ControllerHello(Side(c), c)
    \/ \E p \in Parts : RegisterParticipant(Side(c), c, p) \/ UnregisterParticipant(Side(c), c, p)
    \/ HandlerStep(Side(c), c)

LEMMA SideSteps ==
  ASSUME TeardownInv, SoleInv, NEW c \in Conns, SideWork(c)
  PROVE  \E s : SideMoves(c, s)
  <1> USE SideTypes DEF Calm
  <1>0. /\ job[Side(c)] \in JobStates /\ Called(Side(c)) /\ sessions \subseteq Conns
    BY JobFacts DEF TeardownInv, Typed
  <1>1. CASE Authenticate(Side(c), c)
    <2>1. Goto(Side(c), "evict") /\ job[Side(c)].pc = "idle" /\ c \in collided' \cap authed'
      BY <1>1 DEF Authenticate
    <2> QED
      BY <1>0, <2>1, SideGoto DEF Called, Minting, Dropping
  <1>2. CASE ControllerHello(Side(c), c)
    <2>1. Goto(Side(c), "hide") /\ job[Side(c)].pc = "idle" /\ c \in collided' \cap authed'
      BY <1>2 DEF ControllerHello, Begins, conn
    <2> QED
      BY <1>0, <2>1, SideGoto DEF Called, Minting, Dropping
  <1>3. ASSUME NEW p \in Parts, RegisterParticipant(Side(c), c, p) PROVE \E s : SideMoves(c, s)
    <2>1. PICK s : s = [job[Side(c)] EXCEPT !.pc = "mint", !.part = p]
      OBVIOUS
    <2>2. /\ job[Side(c)].pc = "idle" /\ c \in collided' \cap authed' /\ owner' = [owner EXCEPT ![p] = c]
          /\ job[Side(c)].call = "no"
      BY <1>0, <1>3 DEF RegisterParticipant, Begins, conn, Called
    <2>3. /\ s \in JobStates /\ s.pc = "mint" /\ s.part = p /\ s.call = "no" /\ s.target = job[Side(c)].target
      BY <1>0, <2>1, <2>2 DEF JobStates
    <2>4. job' = [job EXCEPT ![Side(c)] = s]
      BY <1>3, <2>1 DEF RegisterParticipant
    <2> QED
      BY <2>2, <2>3, <2>4 DEF SideMoves
  <1>4. ASSUME NEW p \in Parts, UnregisterParticipant(Side(c), c, p) PROVE \E s : SideMoves(c, s)
    <2>1. PICK b \in BOOLEAN : b = (p \in placed)
      <3>1. CASE p \in placed
        <4>1. TRUE = (p \in placed)
          BY <3>1
        <4> QED
          BY <4>1
      <3>2. CASE p \notin placed
        <4>1. FALSE = (p \in placed)
          BY <3>2
        <4> QED
          BY <4>1
      <3> QED
        BY <3>1, <3>2
    <2>2. PICK s : s = [job[Side(c)] EXCEPT !.pc = "drop", !.part = p, !.present = b]
      OBVIOUS
    <2>3. /\ job[Side(c)].pc = "idle" /\ c \in collided' \cap authed' /\ owner[p] = c /\ owner' = owner
          /\ job[Side(c)].call = "no"
      BY <1>0, <1>4 DEF UnregisterParticipant, Begins, conn, table, Called
    <2>4. /\ s \in JobStates /\ s.pc = "drop" /\ s.part = p /\ s.call = "no" /\ s.target = job[Side(c)].target
      BY <1>0, <2>1, <2>2, <2>3 DEF JobStates
    <2>5. job' = [job EXCEPT ![Side(c)] = s]
      BY <1>4, <2>1, <2>2 DEF UnregisterParticipant
    <2> QED
      BY <2>3, <2>4, <2>5 DEF SideMoves
  <1>5. CASE ListSuperseded(Side(c), c)
    <2>1. PICK o : o = {d \in sessions \ {c} : Identity[d] = Identity[c]}
      OBVIOUS
    <2>2. PICK s : s = [job[Side(c)] EXCEPT !.pc = "evicting", !.old = o]
      OBVIOUS
    <2>3. o \in SUBSET Conns /\ job[Side(c)].pc = "evict" /\ job[Side(c)].call = "no"
      BY <1>0, <1>5, <2>1 DEF ListSuperseded, Called
    <2>4. s \in JobStates /\ s.pc = "evicting" /\ s.call = "no" /\ s.target = job[Side(c)].target
      BY <1>0, <2>2, <2>3 DEF JobStates
    <2>5. job' = [job EXCEPT ![Side(c)] = s]
      BY <1>5, <2>1, <2>2 DEF ListSuperseded
    <2> QED
      BY <2>3, <2>4, <2>5 DEF SideMoves, Minting, Dropping
  <1>6. ASSUME NEW d \in Conns, Evict(Side(c), c, d) PROVE \E s : SideMoves(c, s)
    <2>1. PICK o : o = job[Side(c)].old \ {d}
      OBVIOUS
    <2>2. o \in SUBSET Conns /\ job[Side(c)].pc = "evicting" /\ job[Side(c)].call = "no"
      BY <1>0, <1>6, <2>1 DEF Evict, JobStates
    <2>3. CASE d \in members /\ d \notin torn
      <3>1. PICK s : s = [job[Side(c)] EXCEPT !.old = o, !.call = "start", !.target = d]
        OBVIOUS
      <3>2. s \in JobStates /\ s.pc = "evicting" /\ s.call = "start" /\ s.target = d
        BY <1>0, <2>2, <3>1 DEF JobStates
      <3>3. job' = [job EXCEPT ![Side(c)] = s]
        BY <1>6, <2>1, <2>3, <3>1 DEF Evict
      <3>4. d \in torn'
        BY <1>6, <2>3 DEF Evict
      <3> QED
        BY <2>2, <2>3, <3>2, <3>3, <3>4 DEF SideMoves, Starting, Minting, Dropping
    <2>4. CASE ~(d \in members /\ d \notin torn)
      <3>1. PICK s : s = [job[Side(c)] EXCEPT !.old = o]
        OBVIOUS
      <3>2. s \in JobStates /\ s.pc = "evicting" /\ s.call = "no" /\ s.target = job[Side(c)].target
        BY <1>0, <2>2, <3>1 DEF JobStates
      <3>3. job' = [job EXCEPT ![Side(c)] = s]
        BY <1>6, <2>1, <2>4, <3>1 DEF Evict
      <3> QED
        BY <2>2, <3>2, <3>3 DEF SideMoves, Minting, Dropping
    <2> QED
      BY <2>3, <2>4
  <1>7. CASE Evicted(Side(c), c)
    BY <1>0, <1>7, SideGoto DEF Evicted, Minting, Dropping
  <1>8. CASE AddSession(Side(c), c) \/ SetUserRoom(Side(c), c) \/ AnnounceJoined(Side(c), c)
    BY <1>0, <1>8, SideGoto DEF AddSession, SetUserRoom, AnnounceJoined, Called, Minting, Dropping
  <1>9. CASE SendState(Side(c), c)
    <2>1. PICK p \in {"joined", "idle"} : Goto(Side(c), p)
      BY <1>9 DEF SendState
    <2> QED
      BY <1>0, <1>9, <2>1, SideGoto DEF SendState, Called, Minting, Dropping
  <1>10. CASE HideController(Side(c), c) \/ AnnounceHidden(Side(c), c)
    BY <1>0, <1>10, SideGoto DEF HideController, AnnounceHidden, Called, Minting, Dropping
  <1>11. CASE PlaceParticipant(Side(c), c) \/ DropParticipant(Side(c), c) \/ UnplaceParticipant(Side(c), c)
    BY <1>0, <1>11, SideGoto
       DEF PlaceParticipant, DropParticipant, UnplaceParticipant, Called, Minting, Dropping
  <1>12. CASE AnnounceParticipant(Side(c), c) \/ AnnounceDropped(Side(c), c)
    BY <1>0, <1>12, SideEnds DEF AnnounceParticipant, AnnounceDropped, Called
  <1> QED
    BY <1>1, <1>2, <1>3, <1>4, <1>5, <1>6, <1>7, <1>8, <1>9, <1>10, <1>11, <1>12 DEF SideWork, HandlerStep

(* What a handler on the second stream of c leaves alone *)
LEMMA SideTame ==
  ASSUME TeardownInv, SoleInv, NEW c \in Conns, SideWork(c)
  PROVE  /\ Tame /\ authed \subseteq authed' /\ authed' \subseteq authed \cup {c} /\ ctrl' = ctrl
         /\ sessions' \subseteq sessions \cup {c} /\ c \in collided' \cap authed' /\ link[c] # "none"
  <1>0. Links /\ Fresh(c) /\ Sided(c) /\ job[Side(c)].pc # "none" /\ \A d \in Conns : Fresh(d)
    BY SideSteps DEF SoleInv, Tables, SideMoves
  <1>1. link[c] # "none"
    BY <1>0 DEF Fresh
  <1>a. ASSUME UNCHANGED link, members' \subseteq members \cup Parts, torn' = torn, collided \subseteq collided'
        PROVE  Tame
    BY <1>0, <1>a DEF Tame, Links
  <1>2. CASE \/ Authenticate(Side(c), c) \/ ControllerHello(Side(c), c)
             \/ \E p \in Parts : RegisterParticipant(Side(c), c, p) \/ UnregisterParticipant(Side(c), c, p)
    <2>1. /\ UNCHANGED <<link, torn, sessions, ctrl>> /\ members' \subseteq members \cup Parts
          /\ collided \subseteq collided' /\ authed \subseteq authed' /\ authed' \subseteq authed \cup {c}
          /\ c \in collided' \cap authed'
      <3>1. CASE Authenticate(Side(c), c)
        BY <3>1 DEF Authenticate, table
      <3>2. CASE ControllerHello(Side(c), c)
        BY <3>2, SideTypes DEF ControllerHello, Begins, conn, table
      <3>3. CASE \E p \in Parts : RegisterParticipant(Side(c), c, p)
        BY <3>3 DEF RegisterParticipant, Begins, conn
      <3>4. CASE \E p \in Parts : UnregisterParticipant(Side(c), c, p)
        BY <3>4 DEF UnregisterParticipant, Begins, conn, table
      <3> QED
        BY <1>2, <3>1, <3>2, <3>3, <3>4
    <2> QED
      BY <1>1, <1>a, <2>1
  <1>3. CASE HandlerStep(Side(c), c)
    <2>1. job[Side(c)].pc \notin Resting
      BY <1>3 DEF HandlerStep, Resting, ListSuperseded, Evict, Evicted, AddSession, SetUserRoom, SendState,
              AnnounceJoined, HideController, AnnounceHidden, PlaceParticipant, AnnounceParticipant,
              DropParticipant, UnplaceParticipant, AnnounceDropped
    <2>2. c \in collided \cap authed
      BY <1>0, <2>1 DEF Sided
    <2>3. CASE \E d \in Conns : Evict(Side(c), c, d)
      <3>1. PICK d \in Conns : Evict(Side(c), c, d)
        BY <2>3
      <3>2. link' = link \/ (d \in members /\ link' = [link EXCEPT ![d] = "closed"])
        BY <3>1 DEF Evict
      <3>3. d \in members => link[d] # "none"
        BY <1>0 DEF Fresh
      <3>4. Links' /\ \A e \in Conns : (link'[e] = "none") = (link[e] = "none")
        BY <1>0, <3>2, <3>3 DEF Links
      <3>5. UNCHANGED <<authed, sessions, ctrl, members>> /\ torn \subseteq torn' /\ collided \subseteq collided'
        BY <3>1 DEF Evict, table
      <3> QED
        BY <1>1, <2>2, <3>4, <3>5 DEF Tame
    <2>4. CASE ~\E d \in Conns : Evict(Side(c), c, d)
      <3>1. /\ UNCHANGED <<link, torn, authed, ctrl, collided>> /\ members' \subseteq members
            /\ sessions' \subseteq sessions \cup {c}
        BY <1>3, <2>4 DEF HandlerStep, ListSuperseded, Evicted, AddSession, SetUserRoom, SendState,
              AnnounceJoined, HideController, AnnounceHidden, PlaceParticipant, AnnounceParticipant,
              DropParticipant, UnplaceParticipant, AnnounceDropped, conn, table
      <3> QED
        BY <1>1, <1>a, <2>2, <3>1
    <2> QED
      BY <2>3, <2>4
  <1> QED
    BY <1>2, <1>3 DEF SideWork

LEMMA SoleSide ==
  ASSUME TeardownInv, SoleInv, NEW c \in Conns,
         SecondStream(c) \/ SecondEnds(c) \/ ClientHello(Side(c), c) \/ SideWork(c)
  PROVE  SoleInv'
  <1> USE SideTypes
  <1>0. Links /\ job[Side(c)] \in JobStates /\ Called(Side(c))
    BY JobFacts DEF SoleInv, Tables
  <1>1. CASE ClientHello(Side(c), c)
    <2>1. Tame
      BY <1>0, <1>1 DEF Tame, Links, ClientHello, Begins, table
    <2> QED
      BY <1>1, <2>1, SoleStill DEF ClientHello, table
  <1>2. CASE SecondStream(c) \/ SecondEnds(c)
    <2>1. PICK p \in {"none", "idle"} : Goto(Side(c), p)
      BY <1>2 DEF SecondStream, SecondEnds
    <2>2. PICK s : s = [job[Side(c)] EXCEPT !.pc = p]
      OBVIOUS
    <2>3. job[Side(c)].call = "no" /\ There(Side(c))
      BY <1>0, <1>2 DEF SecondStream, SecondEnds, Called, There
    <2>4. s \in JobStates /\ s.pc = p /\ s.call = "no" /\ s.target = job[Side(c)].target
      BY <1>0, <2>2, <2>3 DEF JobStates
    <2>5. job' = [job EXCEPT ![Side(c)] = s]
      BY <2>1, <2>2 DEF Goto
    <2>6. Orderly(Side(c), s) /\ Sidling(Side(c), s)
      BY <2>3, <2>4 DEF Orderly, Sidling, Resting
    <2>7. Tame /\ UNCHANGED <<authed, sessions>>
      BY <1>0, <1>2 DEF Tame, Links, SecondStream, SecondEnds, conn, table
    <2> QED
      BY <2>3, <2>4, <2>5, <2>6, <2>7, SoleMove
  <1>3. CASE SideWork(c)
    <2>1. PICK s : SideMoves(c, s)
      BY <1>3, SideSteps
    <2>2. /\ Tame /\ authed \subseteq authed' /\ authed' \subseteq authed \cup {c}
          /\ sessions' \subseteq sessions \cup {c} /\ c \in collided' \cap authed' /\ link[c] # "none"
      BY <1>3, SideTame
    <2>3. There(Side(c)) /\ Sidling(Side(c), s)
      BY <2>1, <2>2 DEF SideMoves, There, Sidling
    <2>4. Orderly(Side(c), s)
      <3>1. \A d \in members \cap Conns : link[d] # "none"
        BY DEF SoleInv, Tables, Fresh
      <3> QED
        BY <2>1, <3>1 DEF SideMoves, Starting, Orderly
    <2>5. /\ sessions' \subseteq sessions \cup (collided' \cap authed')
          /\ authed' \subseteq authed \cup {d \in Conns : link[d] # "none"}
      BY <2>2
    <2>6. s \in JobStates /\ job' = [job EXCEPT ![Side(c)] = s]
      BY <2>1 DEF SideMoves
    <2> QED
      BY <2>2, <2>3, <2>4, <2>5, <2>6, SoleMove
  <1> QED
    BY <1>1, <1>2, <1>3

LEMMA SoleStep == TeardownInv /\ SoleInv /\ [Next]_vars => SoleInv'
  <1> SUFFICES ASSUME TeardownInv, SoleInv, [Next]_vars PROVE SoleInv'
    OBVIOUS
  <1>1. CASE UNCHANGED vars
    <2>1. Tame
      BY <1>1 DEF vars, conn, table, Tame, Links, SoleInv, Tables
    <2> QED
      BY <1>1, <2>1, SoleStill DEF vars, conn, table
  <1>2. ASSUME NEW c \in Conns,
               \/ Connect(c) \/ Close(c) \/ ReadEnds(c) \/ SecondStream(c) \/ SecondEnds(c) \/ KickCheck(c)
               \/ Request(Read(c), c) \/ Request(Side(c), c)
               \/ ReadStep(c) \/ SideStep(c) \/ AcceptStep(c) \/ KickStep(c)
        PROVE  SoleInv'
    <2>0. /\ Streams(c) = {Read(c), Side(c)} /\ Side(c) \in Actors
          /\ \A d \in Conns : Read(c) # Side(d) /\ Accept(c) # Side(d) /\ Kick(c) # Side(d)
      BY SideTypes DEF Streams
    <2>1. CASE Connect(c) \/ Close(c) \/ ReadEnds(c) \/ KickCheck(c)
      BY <2>0, <2>1, SoleConnect, SoleCloses, SoleTeardown
    <2>2. CASE Request(Read(c), c)
      BY <2>0, <2>2, SoleHandlers, SoleCloses, SoleAuthenticate DEF Request
    <2>3. CASE ReadStep(c)
      <3>1. CASE \/ ListSuperseded(Read(c), c) \/ (\E d \in Conns : Evict(Read(c), c, d))
                 \/ Evicted(Read(c), c) \/ AddSession(Read(c), c)
        BY <3>1, SoleList, SoleEvict, SoleEvicted, SoleAddSession
      <3>2. CASE TellPlugins(Read(c), c) \/ TornDown(Read(c)) \/ Cleanup(Read(c))
        BY <2>0, <3>2, SoleTeardown, SoleCleanup, ActorTypes
      <3> QED
        BY <2>3, <3>1, <3>2, SoleHandlers DEF ReadStep, HandlerStep
    <2>4. CASE AcceptStep(c) \/ KickStep(c)
      BY <2>0, <2>4, SoleTeardown, SoleCleanup, ActorTypes DEF AcceptStep, KickStep
    <2>5. CASE SecondStream(c) \/ SecondEnds(c) \/ Request(Side(c), c) \/ SideStep(c)
      <3>1. CASE SecondStream(c) \/ SecondEnds(c)
        BY <3>1, SoleSide
      <3>2. CASE Request(Side(c), c)
        <4>1. ClientHello(Side(c), c) \/ AuthFails(Side(c), c) \/ SideWork(c)
          BY <3>2 DEF Request, SideWork
        <4> QED
          BY <2>0, <4>1, SoleSide, SoleCloses
      <3>3. CASE SideStep(c)
        <4>1. SideWork(c) \/ Cleanup(Side(c))
          BY <3>3 DEF SideStep, SideWork
        <4> QED
          BY <2>0, <4>1, SoleSide, SoleCleanup
      <3> QED
        BY <2>5, <3>1, <3>2, <3>3
    <2> QED
      BY <1>2, <2>1, <2>2, <2>3, <2>4, <2>5
  <1> QED
    BY <1>1, <1>2 DEF Next

\* Session takeover (evict_superseded_sessions): whatever the number of
\* connections and however their handshakes, teardowns and kicks interleave,
\* of two sessions with one identity one is being torn down, unless a
\* handshake of theirs met another handshake or a teardown, or ran on a second
\* stream.
THEOREM SoleSession == Spec => []SoleUnlessCollided
  <1>1. Init => TeardownInv /\ SoleInv
    BY InitInv, InitSole
  <1>2. TeardownInv /\ SoleInv /\ [Next]_vars => (TeardownInv /\ SoleInv)'
    BY StepInv, SoleStep
  <1>3. TeardownInv /\ SoleInv => SoleUnlessCollided
    <2> SUFFICES ASSUME TeardownInv, SoleInv, NEW c \in (sessions \cap members) \ collided,
                        NEW d \in (sessions \cap members) \ collided, c # d, Identity[c] = Identity[d]
                 PROVE  Ending(c) \/ Ending(d)
      BY DEF SoleUnlessCollided
    <2>1. c \in Conns \ collided /\ d \in Conns \ collided
      BY DEF TeardownInv, Typed
    <2> QED
      BY <2>1 DEF SoleInv, Pairs, Sole, Live
  <1> QED
    BY <1>1, <1>2, <1>3, PTL DEF Spec

-----------------------------------------------------------------------------
(* Nothing is left of a connection that is over.  What is said of a        *)
(* connection that has not collided is that none of its handlers runs when *)
(* it is torn down, so that its tables change only at the hands of those   *)
(* who clean up; and that what is still in a table has somebody at it who  *)
(* will take it out.                                                       *)

Parting == {"parts", "unplace", "leave"}
Late == {"room", "session", "bye"}
Before == {"start", "member"} \cup Parting

Busy(x, c) == job[x].call # "no" /\ job[x].target = c
On(x, c, S) == job[x].call \in S /\ job[x].target = c
Bids(x, c) == On(x, c, Late) /\ job[x].present
Serves(x, i) == job[x].call \in {"unplace", "leave"} /\ job[x].part = i
Handles(c, i, S) == job[Read(c)].pc \in S /\ job[Read(c)].part = i
Mine(c) == {i \in Parts \cap members : owner[i] = c}

(* For every connection: whose participants a task is at, and who is known. *)
(* A controller that authenticates again and one that drives participants  *)
(* on a second stream are recorded in collided.                            *)
CallOK(j) ==
    /\ j.call # "no" => j.target \in Conns
    /\ j.call \in Parting => \A i \in j.parts : owner[i] = j.target
    /\ j.call \in {"unplace", "leave"} => j.part \in Parts /\ owner[j.part] = j.target
HandlerOK(c, j) ==
    /\ j.pc \in Entering => c \in authed /\ (c \in ctrl => c \in collided)
    /\ j.pc \in Hiding => c \in ctrl
    /\ j.pc \in Minting \cup Dropping => j.part \in Parts /\ owner[j.part] = c
AtPart(c, j) == j.pc \in Minting \cup Dropping => j.part \in Parts /\ owner[j.part] = c
Known(c) ==
    /\ c \in placed \cup shown \cup sessions \cup ctrl => c \in authed
    /\ link[c] = "none" => c \notin torn /\ left[c] = 0
Unused(i) ==
    /\ owner[i] = None => i \notin members \cup placed \cup shown /\ left[i] = 0
    /\ owner[i] # None => owner[i] \in ctrl \cup collided
Kinds == owner \in [Parts -> Conns \cup {None}] /\ left \in [Ids -> Nat]
Whole ==
    /\ Kinds
    /\ \A x \in Actors : CallOK(job[x])
    /\ \A c \in Conns : HandlerOK(c, job[Read(c)]) /\ AtPart(c, job[Side(c)]) /\ Known(c)
    /\ \A i \in Parts : Unused(i)

(* For a connection that has not collided: its own entries ... *)
Going(c) ==
    /\ Handling(c) => ~Ending(c)
    /\ job[Read(c)].pc \in {"plugins", "close", "done"} => c \in torn
    /\ c \in torn \cap members =>
          job[Read(c)].pc = "plugins" \/ job[Accept(c)].pc = "plugins" \/ \E x \in Actors : On(x, c, Before)
    /\ c \notin members =>
          /\ Mine(c) = {}
          /\ c \in placed => \E x \in Actors : On(x, c, {"room"})
          /\ c \in sessions => \E x \in Actors : On(x, c, {"room", "session"})
          /\ c \in shown => \E x \in Actors : Bids(x, c)
(* ... what those who clean up have seen ... *)
Cleans(x, c) ==
    /\ On(x, c, Parting \cup {"member"} \cup Late) => job[x].ctl = (c \in ctrl)
    /\ On(x, c, Parting) => Mine(c) \subseteq job[x].parts
    /\ On(x, c, {"member"} \cup Late) => Mine(c) = {}
(* ... that one at most is to announce its end ... *)
Leaves(c) ==
    /\ c \in shown /\ c \in ctrl => job[Read(c)].pc \in Hiding
    /\ left[c] <= 1
    /\ job[Read(c)].pc \in Hiding => left[c] = 0
    /\ c \notin ctrl /\ c \in members => left[c] = 0
    /\ \A x \in Actors : Bids(x, c) => /\ c \notin ctrl => left[c] = 0
                                       /\ \A y \in Actors : Bids(y, c) => y = x
(* ... and the same of each of its participants. *)
Part(c, i) ==
    /\ left[i] <= 1
    /\ i \in members => left[i] = 0 /\ (i \in placed \/ Handles(c, i, {"mint"}))
    /\ Handles(c, i, {"mint", "minted", "drop"}) => i \in members
    /\ Handles(c, i, Dropping) => job[Read(c)].present
    /\ Handles(c, i, {"dropping", "dropped"}) => i \notin members /\ left[i] = 0
    /\ \A x \in Actors : Serves(x, i) => /\ i \notin members /\ left[i] = 0
                                         /\ \A y \in Actors : Serves(y, i) => y = x
    /\ i \notin members =>
          /\ i \in placed => \/ Handles(c, i, {"dropping"})
                             \/ \E x \in Actors : Serves(x, i) /\ job[x].call = "unplace"
          /\ i \in shown => Handles(c, i, {"dropping", "dropped"}) \/ \E x \in Actors : Serves(x, i)

Sound(c) ==
    /\ Going(c) /\ Leaves(c)
    /\ \A x \in Actors : Cleans(x, c)
    /\ \A i \in Parts : owner[i] = c => Part(c, i)
SoundInv == Whole /\ \A c \in Conns \ collided : Sound(c)

Moves(x, s) == /\ s \in JobStates /\ job' \in [Actors -> JobStates] /\ job'[x] = s
               /\ \A y \in Actors \ {x} : job'[y] = job[y]

(* The entries of c and of its participants stay as they are, ... *)
Stays(c) ==
    /\ c \in members' <=> c \in members
    /\ c \in ctrl' <=> c \in ctrl
    /\ c \in placed' <=> c \in placed
    /\ c \in sessions' <=> c \in sessions
    /\ c \in shown' <=> c \in shown
    /\ left'[c] = left[c]
    /\ \A i \in Parts :
          /\ owner'[i] = c <=> owner[i] = c
          /\ owner[i] = c => /\ (i \in members' <=> i \in members) /\ (i \in placed' <=> i \in placed)
                             /\ (i \in shown' <=> i \in shown) /\ left'[i] = left[i]
Keeps(c) == Stays(c) /\ (c \in torn' <=> c \in torn)
(* ... and whoever moves is at something else. *)
SameCall(s, j) == /\ s.call = j.call /\ s.target = j.target /\ s.ctl = j.ctl /\ s.parts = j.parts
                  /\ s.part = j.part /\ s.present = j.present
Apart(c) ==
    /\ job'[Read(c)].pc = job[Read(c)].pc /\ (job'[Accept(c)].pc = "plugins") = (job[Accept(c)].pc = "plugins")
    /\ job[Read(c)].pc \in Minting \cup Dropping =>
          job'[Read(c)].part = job[Read(c)].part /\ job'[Read(c)].present = job[Read(c)].present
    /\ \A y \in Actors : Busy(y, c) \/ Busy(y, c)' => SameCall(job'[y], job[y])
Ignores(x, s, c) ==
    /\ x = Read(c) => /\ s.pc = job[x].pc
                      /\ s.pc \in Minting \cup Dropping => s.part = job[x].part /\ s.present = job[x].present
    /\ x = Accept(c) => (s.pc = "plugins") = (job[x].pc = "plugins")
    /\ Busy(x, c) \/ (s.call # "no" /\ s.target = c) => SameCall(s, job[x])

LEMMA MovesApart ==
  ASSUME NEW x \in Actors, NEW s, Moves(x, s), NEW c \in Conns, Ignores(x, s, c)
  PROVE  Apart(c)
  <1>0. Read(c) \in Actors /\ Accept(c) \in Actors
    BY ActorTypes
  <1>1. /\ job'[Read(c)].pc = job[Read(c)].pc /\ (job'[Accept(c)].pc = "plugins") = (job[Accept(c)].pc = "plugins")
        /\ job[Read(c)].pc \in Minting \cup Dropping =>
              job'[Read(c)].part = job[Read(c)].part /\ job'[Read(c)].present = job[Read(c)].present
    BY <1>0 DEF Moves, Ignores
  <1>2. ASSUME NEW y \in Actors, Busy(y, c) \/ Busy(y, c)' PROVE SameCall(job'[y], job[y])
    <2>1. CASE y = x
      BY <1>2, <2>1 DEF Moves, Ignores, Busy
    <2>2. CASE y # x
      BY <2>2 DEF Moves, SameCall
    <2> QED
      BY <2>1, <2>2
  <1> QED
    BY <1>1, <1>2 DEF Apart

LEMMA ViewSame ==
  ASSUME Whole, Whole', NEW c \in Conns, Keeps(c), Sound(c), Apart(c)
  PROVE  Sound(c)'
  <1>1. /\ job'[Read(c)].pc = job[Read(c)].pc /\ (job'[Accept(c)].pc = "plugins") = (job[Accept(c)].pc = "plugins")
        /\ job[Read(c)].pc \in Minting \cup Dropping =>
              job'[Read(c)].part = job[Read(c)].part /\ job'[Read(c)].present = job[Read(c)].present
    BY DEF Apart
  <1>2. ASSUME NEW y \in Actors, Busy(y, c) \/ Busy(y, c)' PROVE SameCall(job'[y], job[y])
    BY <1>2 DEF Apart
  <1>3. ASSUME NEW y \in Actors
        PROVE  /\ Busy(y, c)' <=> Busy(y, c)
               /\ \A S \in SUBSET (Before \cup Late) : On(y, c, S)' <=> On(y, c, S)
               /\ Bids(y, c)' <=> Bids(y, c)
    <2>1. "no" \notin Before \cup Late
      BY DEF Before, Late, Parting
    <2> QED
      BY <1>2, <2>1 DEF Busy, On, Bids, SameCall, Late, Before
  <1>4. Mine(c)' = Mine(c)
    BY DEF Mine, Keeps, Stays
  <1>5. Going(c)'
    <2>1. Handling(c)' <=> Handling(c)
      BY <1>1 DEF Handling, Read
    <2>2. Ending(c)' <=> Ending(c)
      BY <1>3 DEF Ending, Cleaning, Busy, Keeps, Stays
    <2>3. Before \in SUBSET (Before \cup Late) /\ {"room"} \in SUBSET (Before \cup Late)
          /\ {"room", "session"} \in SUBSET (Before \cup Late)
      BY DEF Late
    <2> QED
      BY <1>1, <1>3, <1>4, <2>1, <2>2, <2>3 DEF Sound, Going, Keeps, Stays, Read, Accept
  <1>6. Leaves(c)'
    BY <1>1, <1>3 DEF Sound, Leaves, Keeps, Stays, Read
  <1>7. ASSUME NEW y \in Actors PROVE Cleans(y, c)'
    <2>1. /\ Parting \cup {"member"} \cup Late \in SUBSET (Before \cup Late) /\ Parting \in SUBSET (Before \cup Late)
          /\ {"member"} \cup Late \in SUBSET (Before \cup Late)
      BY DEF Before
    <2>2. Cleans(y, c)
      BY DEF Sound
    <2>3. On(y, c, Parting \cup {"member"} \cup Late) => SameCall(job'[y], job[y])
      BY <1>2 DEF On, Busy, Parting, Late
    <2>4. On(y, c, Parting) => On(y, c, Parting \cup {"member"} \cup Late)
      BY DEF On
    <2> QED
      BY <1>3, <1>4, <2>1, <2>2, <2>3, <2>4 DEF Cleans, SameCall, Keeps, Stays
  <1>8. ASSUME NEW i \in Parts, owner'[i] = c PROVE Part(c, i)'
    <2>1. owner[i] = c /\ Part(c, i)
      BY <1>8 DEF Keeps, Stays, Sound
    <2>2. ASSUME NEW y \in Actors PROVE /\ Serves(y, i)' <=> Serves(y, i)
                                        /\ Serves(y, i) => job'[y].call = job[y].call
      <3>1. Serves(y, i) => Busy(y, c)
        BY <2>1 DEF Serves, Busy, Whole, CallOK
      <3>2. Serves(y, i)' => Busy(y, c)'
        BY <1>8 DEF Serves, Busy, Whole, CallOK
      <3> QED
        BY <1>2, <3>1, <3>2 DEF Serves, SameCall
    <2>3. \A S \in SUBSET (Minting \cup Dropping) : Handles(c, i, S)' <=> Handles(c, i, S)
      BY <1>1 DEF Handles, Read
    <2>4. /\ {"mint"} \in SUBSET (Minting \cup Dropping) /\ {"mint", "minted", "drop"} \in SUBSET (Minting \cup Dropping)
          /\ Dropping \in SUBSET (Minting \cup Dropping) /\ {"dropping", "dropped"} \in SUBSET (Minting \cup Dropping)
          /\ {"dropping"} \in SUBSET (Minting \cup Dropping)
      BY DEF Minting, Dropping
    <2>5. Handles(c, i, Dropping) => job'[Read(c)].present = job[Read(c)].present
      BY <1>1 DEF Handles
    <2> QED
      BY <2>1, <2>2, <2>3, <2>4, <2>5 DEF Part, Keeps, Stays, Read
  <1> QED
    BY <1>5, <1>6, <1>7, <1>8 DEF Sound

(* What a step on c may touch: c and its participants *)
Touches(c) ==
    /\ \A i \in Ids : (i # c /\ ~(i \in Parts /\ owner'[i] = c)) =>
          /\ i \in members' <=> i \in members
          /\ i \in placed' <=> i \in placed
          /\ i \in shown' <=> i \in shown
          /\ left'[i] = left[i]
    /\ \A d \in Conns \ {c} : (d \in sessions' <=> d \in sessions) /\ (d \in ctrl' <=> d \in ctrl)
    /\ \A i \in Parts : owner'[i] = owner[i] \/ (owner[i] = None /\ owner'[i] = c)
    /\ authed \subseteq authed' /\ ctrl \subseteq ctrl' /\ collided \subseteq collided'
    /\ \A d \in Conns : (link'[d] = "none") = (link[d] = "none")
    /\ \A d \in Conns \ {c} : d \in torn' <=> d \in torn

LEMMA TouchesKeeps ==
  ASSUME Whole, NEW c \in Conns, Touches(c), NEW d \in Conns \ {c}
  PROVE  Keeps(d)
  <1>1. d \in Ids /\ d \notin Parts /\ d # None
    BY SessionConstants DEF Ids
  <1>2. ASSUME NEW i \in Parts
        PROVE  /\ owner'[i] = d <=> owner[i] = d
               /\ owner[i] = d => /\ (i \in members' <=> i \in members) /\ (i \in placed' <=> i \in placed)
                                  /\ (i \in shown' <=> i \in shown) /\ left'[i] = left[i]
    <2>1. i \in Ids /\ i # c
      BY SessionConstants DEF Ids
    <2> QED
      BY <1>1, <2>1 DEF Touches
  <1> QED
    BY <1>1, <1>2 DEF Touches, Keeps, Stays

LEMMA TouchesWhole ==
  ASSUME Whole, NEW c \in Conns, Touches(c), Kinds', NEW x \in Actors, NEW s, Moves(x, s), CallOK(s)',
         \A d \in Conns : (x = Read(d) => HandlerOK(d, s)') /\ (x = Side(d) => AtPart(d, s)'),
         c \in ctrl' \ ctrl => x = Read(c),
         Known(c)', \A i \in Parts : owner'[i] = c => c \in ctrl' \cup collided'
  PROVE  Whole'
  <1>1. ASSUME NEW y \in Actors PROVE CallOK(job[y])'
    <2>1. CASE y = x
      BY <2>1 DEF Moves, CallOK
    <2>2. CASE y # x
      <3>1. job'[y] = job[y] /\ job[y] \in JobStates' /\ CallOK(job[y])
        BY <2>2 DEF Moves, Whole, JobStates
      <3>2. job[y].parts \subseteq Parts
        BY <3>1 DEF JobStates
      <3>3. ASSUME NEW i \in Parts, owner[i] = job[y].target, job[y].target \in Conns
            PROVE  owner'[i] = job[y].target
        BY <3>3, SessionConstants DEF Touches
      <3> QED
        BY <3>1, <3>2, <3>3 DEF CallOK, Parting
    <2> QED
      BY <2>1, <2>2
  <1>2. ASSUME NEW d \in Conns PROVE HandlerOK(d, job[Read(d)])'
    <2>0. Read(d) \in Actors
      BY ActorTypes
    <2>1. CASE x = Read(d)
      BY <2>1 DEF Moves, HandlerOK, Read
    <2>2. CASE x # Read(d)
      <3>1. job'[Read(d)] = job[Read(d)] /\ HandlerOK(d, job[Read(d)])
        BY <2>0, <2>2 DEF Moves, Whole
      <3>2. d \in ctrl' <=> d \in ctrl
        BY <2>2 DEF Touches
      <3>3. ASSUME NEW i \in Parts, owner[i] = d PROVE owner'[i] = d
        BY <3>3, SessionConstants DEF Touches
      <3>4. authed \subseteq authed' /\ collided \subseteq collided'
        BY DEF Touches
      <3> QED
        BY <3>1, <3>2, <3>3, <3>4 DEF HandlerOK, Read
    <2> QED
      BY <2>1, <2>2
  <1>5. ASSUME NEW d \in Conns PROVE AtPart(d, job[Side(d)])'
    <2>0. Side(d) \in Actors
      BY SideTypes
    <2>1. CASE x = Side(d)
      BY <2>1 DEF Moves, AtPart, Side
    <2>2. CASE x # Side(d)
      <3>1. job'[Side(d)] = job[Side(d)] /\ AtPart(d, job[Side(d)])
        BY <2>0, <2>2 DEF Moves, Whole
      <3>2. ASSUME NEW i \in Parts, owner[i] = d PROVE owner'[i] = d
        BY <3>2, SessionConstants DEF Touches
      <3> QED
        BY <3>1, <3>2 DEF AtPart, Side
    <2> QED
      BY <2>1, <2>2
  <1>3. ASSUME NEW d \in Conns PROVE Known(d)'
    <2>1. CASE d = c
      BY <2>1
    <2>2. CASE d # c
      <3>1. Known(d) /\ Keeps(d)
        BY <2>2, TouchesKeeps DEF Whole
      <3> QED
        BY <3>1 DEF Known, Keeps, Stays, Touches
    <2> QED
      BY <2>1, <2>2
  <1>4. ASSUME NEW i \in Parts PROVE Unused(i)'
    <2>1. Unused(i) /\ i \in Ids /\ i # c /\ c # None
      BY SessionConstants DEF Whole, Ids
    <2>2. CASE owner'[i] = c
      BY <2>1, <2>2 DEF Unused
    <2>3. CASE owner'[i] # c
      <3>1. owner'[i] = owner[i] /\ ctrl \subseteq ctrl' /\ collided \subseteq collided'
        BY <2>3 DEF Touches
      <3>2. (i \in members' <=> i \in members) /\ (i \in placed' <=> i \in placed)
            /\ (i \in shown' <=> i \in shown) /\ left'[i] = left[i]
        BY <2>1, <2>3 DEF Touches
      <3> QED
        BY <2>1, <3>1, <3>2 DEF Unused
    <2> QED
      BY <2>2, <2>3
  <1> QED
    BY <1>1, <1>2, <1>3, <1>4, <1>5 DEF Whole

(* As long as nobody tears c down only its read loop changes its entries. *)
Tends(j, i, S) == j.pc \in S /\ j.part = i
Kept(j, i) ==
    /\ left[i] <= 1
    /\ i \in members => left[i] = 0 /\ (i \in placed \/ Tends(j, i, {"mint"}))
    /\ Tends(j, i, {"mint", "minted", "drop"}) => i \in members
    /\ Tends(j, i, Dropping) => j.present
    /\ Tends(j, i, {"dropping", "dropped"}) => i \notin members /\ left[i] = 0
    /\ i \notin members => /\ i \in placed => Tends(j, i, {"dropping"})
                           /\ i \in shown => Tends(j, i, {"dropping", "dropped"})
Lively(c, j) ==
    /\ j.pc \notin {"plugins", "close", "done"}
    /\ c \in shown /\ c \in ctrl => j.pc \in Hiding
    /\ left[c] <= 1
    /\ j.pc \in Hiding => left[c] = 0
    /\ c \notin ctrl => left[c] = 0
    /\ \A i \in Parts : owner[i] = c => Kept(j, i)

LEMMA ToLively ==
  ASSUME Whole, NEW c \in Conns, Sound(c), ~Ending(c)
  PROVE  Lively(c, job[Read(c)])
  <1>1. c \in members /\ c \notin torn /\ \A x \in Actors : ~Busy(x, c)
    BY DEF Ending, Cleaning, Busy
  <1>2. job[Read(c)].pc \notin {"plugins", "close", "done"}
    BY <1>1 DEF Sound, Going
  <1>3. ASSUME NEW i \in Parts, owner[i] = c PROVE Kept(job[Read(c)], i)
    <2>1. Part(c, i)
      BY <1>3 DEF Sound
    <2>2. \A x \in Actors : ~Serves(x, i)
      BY <1>1, <1>3 DEF Whole, CallOK, Serves, Busy
    <2> QED
      BY <2>1, <2>2 DEF Part, Kept, Tends, Handles
  <1> QED
    BY <1>1, <1>2, <1>3 DEF Sound, Leaves, Lively

LEMMA FromLively ==
  ASSUME Whole', NEW c \in Conns, ~Ending(c)', NEW s, job'[Read(c)] = s, Lively(c, s)'
  PROVE  Sound(c)'
  <1>1. c \in members' /\ c \notin torn' /\ \A x \in Actors : ~Busy(x, c)'
    BY DEF Ending, Cleaning, Busy
  <1>2. \A x \in Actors : /\ job'[x].call # "no" => job'[x].target # c
                          /\ job'[x].call \in Parting \cup {"member"} \cup Late => job'[x].target # c
    BY <1>1 DEF Busy, Parting, Late
  <1>3. Going(c)'
    BY <1>1 DEF Going, Lively, Read
  <1>4. \A x \in Actors : Cleans(x, c)'
    BY <1>2 DEF Cleans, On
  <1>5. Leaves(c)'
    BY <1>2 DEF Leaves, Lively, Bids, On, Read
  <1>6. ASSUME NEW i \in Parts, owner'[i] = c PROVE Part(c, i)'
    <2>1. Kept(s, i)'
      BY <1>6 DEF Lively
    <2>2. \A x \in Actors : ~Serves(x, i)'
      BY <1>1, <1>6 DEF Whole, CallOK, Serves, Busy
    <2> QED
      BY <2>1, <2>2 DEF Part, Kept, Tends, Handles, Read
  <1> QED
    BY <1>3, <1>4, <1>5, <1>6 DEF Sound

(* A step of a handler of c *)
LEMMA HandlerMove ==
  ASSUME TeardownInv, SoleInv, SoundInv, NEW c \in Conns, Touches(c), Kinds', torn' = torn, c \in members => c \in members',
         NEW s, Moves(Read(c), s), job[Read(c)].call = "no", job[Read(c)].pc # "none", s.call = "no",
         HandlerOK(c, s)', c \in placed' \cup shown' \cup sessions' \cup ctrl' => c \in authed',
         \A i \in Parts : owner'[i] = c => c \in ctrl' \cup collided',
         Handling(c) \/ (Ending(c) => c \in collided'),
         c \notin collided' /\ Lively(c, job[Read(c)]) => Lively(c, s)'
  PROVE  SoundInv'
  <1>0. Whole /\ collided \subseteq collided' /\ Read(c) \in Actors /\ link[c] # "none" /\ Fresh(c)
    BY ActorTypes DEF SoundInv, Touches, SoleInv, Tables, Fresh
  <1>1. Whole'
    <2>1. CallOK(s)'
      BY DEF CallOK, Parting
    <2>2. \A d \in Conns : (Read(c) = Read(d) => HandlerOK(d, s)') /\ Read(c) # Side(d)
      BY SideTypes DEF Read
    <2>3. Known(c)'
      BY <1>0 DEF Known, Touches
    <2> QED
      BY <1>0, <2>1, <2>2, <2>3, TouchesWhole
  <1>2. ASSUME NEW d \in Conns \ collided', d # c PROVE Sound(d)'
    <2>1. Sound(d) /\ Keeps(d)
      BY <1>0, <1>2, TouchesKeeps DEF SoundInv
    <2>2. Ignores(Read(c), s, d)
      BY <1>2, ActorTypes DEF Ignores, Busy
    <2> QED
      BY <1>0, <1>1, <2>1, <2>2, MovesApart, ViewSame
  <1>3. ASSUME c \notin collided' PROVE Sound(c)'
    <2>1. Sound(c) /\ ~Ending(c)
      BY <1>0, <1>3 DEF SoundInv, Sound, Going
    <2>2. Lively(c, s)'
      BY <1>0, <1>3, <2>1, ToLively
    <2>3. \A y \in Actors : ~(job'[y].call # "no" /\ job'[y].target = c)
      BY <2>1 DEF Ending, Cleaning, Moves
    <2>4. ~Ending(c)'
      BY <2>1, <2>3 DEF Ending, Cleaning
    <2> QED
      BY <1>0, <1>1, <2>2, <2>4, FromLively DEF Moves
  <1> QED
    BY <1>1, <1>2, <1>3 DEF SoundInv

-----------------------------------------------------------------------------
(* How a task moves *)
Steps == {"idle", "evict", "evicting", "session", "place", "send", "joined", "hide", "hidden",
          "mint", "minted", "drop", "dropping", "dropped", "kick", "plugins", "close", "done"}

LEMMA GotoMoves ==
  ASSUME TeardownInv, NEW x \in Actors, NEW p \in Steps, Goto(x, p)
  PROVE  \E s : Moves(x, s) /\ s.pc = p /\ SameCall(s, job[x])
  <1>1. job[x] \in JobStates /\ Typed
    BY DEF TeardownInv, Typed
  <1>2. PICK s : s = [job[x] EXCEPT !.pc = p]
    OBVIOUS
  <1>3. s \in JobStates /\ s.pc = p /\ SameCall(s, job[x])
    BY <1>1, <1>2 DEF JobStates, Steps, SameCall
  <1>4. job' = [job EXCEPT ![x] = s]
    BY <1>2 DEF Goto
  <1>5. Moves(x, s)
    BY <1>1, <1>3, <1>4, JobUpdate DEF Moves
  <1> QED
    BY <1>3, <1>5

LEMMA EndsMoves ==
  ASSUME TeardownInv, NEW x \in Actors, NEW p \in Steps, Ends(x, p)
  PROVE  \E s : Moves(x, s) /\ s.pc = p /\ s.call = "no"
  <1>1. Typed
    BY DEF TeardownInv
  <1>2. PICK s : s = [NoJob EXCEPT !.pc = p]
    OBVIOUS
  <1>3. s \in JobStates /\ s.pc = p /\ s.call = "no"
    BY <1>2, NoJobType DEF JobStates, Steps, NoJob
  <1>4. job' = [job EXCEPT ![x] = s]
    BY <1>2 DEF Ends
  <1>5. Moves(x, s)
    BY <1>1, <1>3, <1>4, JobUpdate DEF Moves
  <1> QED
    BY <1>3, <1>5

(* A step of a handler that is at no participant *)
OnlyAt(c) ==
    /\ UNCHANGED <<link, torn, members, owner>> /\ collided \subseteq collided'
    /\ \A i \in Ids \ {c} : (i \in placed' <=> i \in placed) /\ (i \in shown' <=> i \in shown) /\ left'[i] = left[i]
    /\ \A d \in Conns \ {c} : (d \in sessions' <=> d \in sessions) /\ (d \in ctrl' <=> d \in ctrl)
    /\ left' \in [Ids -> Nat] /\ authed \subseteq authed' /\ ctrl \subseteq ctrl'

LEMMA PlainMove ==
  ASSUME TeardownInv, SoleInv, SoundInv, NEW c \in Conns, OnlyAt(c),
         NEW s, Moves(Read(c), s), job[Read(c)].call = "no", s.call = "no",
         job[Read(c)].pc \notin {"none"} \cup Minting \cup Dropping,
         s.pc \notin Minting \cup Dropping \cup {"plugins", "close", "done"},
         s.pc \in Entering => c \in authed' /\ (c \in ctrl' => c \in collided'), s.pc \in Hiding => c \in ctrl',
         c \in placed' \cup shown' \cup sessions' \cup ctrl' => c \in authed',
         Handling(c) \/ (Ending(c) => c \in collided'),
         c \notin collided' /\ Lively(c, job[Read(c)]) =>
             /\ c \in shown' /\ c \in ctrl' => s.pc \in Hiding
             /\ left'[c] <= 1
             /\ s.pc \in Hiding => left'[c] = 0
             /\ c \notin ctrl' => left'[c] = 0
  PROVE  SoundInv'
  <1>0. Whole /\ Kinds
    BY DEF SoundInv, Whole
  <1>1. Touches(c) /\ Kinds'
    BY <1>0 DEF OnlyAt, Touches, Kinds
  <1>2. HandlerOK(c, s)'
    BY DEF HandlerOK
  <1>3. \A i \in Parts : owner'[i] = c => c \in ctrl' \cup collided'
    BY <1>0, SessionConstants DEF OnlyAt, Whole, Unused
  <1>4. ASSUME c \notin collided', Lively(c, job[Read(c)]) PROVE Lively(c, s)'
    <2>1. ASSUME NEW i \in Parts, owner'[i] = c PROVE Kept(s, i)'
      <3>1. Kept(job[Read(c)], i) /\ i \in Ids /\ i # c
        BY <1>4, <2>1, SessionConstants DEF Lively, OnlyAt, Ids
      <3>2. (i \in placed' <=> i \in placed) /\ (i \in shown' <=> i \in shown) /\ left'[i] = left[i]
            /\ (i \in members' <=> i \in members)
        BY <3>1 DEF OnlyAt
      <3>3. \A S \in SUBSET (Minting \cup Dropping) : ~Tends(job[Read(c)], i, S) /\ ~Tends(s, i, S)
        BY DEF Tends
      <3>4. /\ {"mint"} \in SUBSET (Minting \cup Dropping) /\ {"mint", "minted", "drop"} \in SUBSET (Minting \cup Dropping)
            /\ Dropping \in SUBSET (Minting \cup Dropping) /\ {"dropping", "dropped"} \in SUBSET (Minting \cup Dropping)
            /\ {"dropping"} \in SUBSET (Minting \cup Dropping)
        BY DEF Minting, Dropping
      <3> QED
        BY <3>1, <3>2, <3>3, <3>4 DEF Kept
    <2> QED
      BY <1>4, <2>1 DEF Lively
  <1> QED
    BY <1>1, <1>2, <1>3, <1>4, HandlerMove DEF OnlyAt

LEMMA SoundPlain ==
  ASSUME TeardownInv, SoleInv, SoundInv, NEW c \in Conns,
         \/ Authenticate(Read(c), c) \/ ListSuperseded(Read(c), c) \/ Evicted(Read(c), c) \/ AddSession(Read(c), c) \/ SetUserRoom(Read(c), c)
         \/ SendState(Read(c), c) \/ AnnounceJoined(Read(c), c) \/ ControllerHello(Read(c), c) \/ HideController(Read(c), c) \/ AnnounceHidden(Read(c), c)
  PROVE  SoundInv'
  <1> USE ActorTypes
  <1>0. /\ Read(c) \in Actors /\ job[Read(c)] \in JobStates /\ Called(Read(c)) /\ Admitted(c)
        /\ HandlerOK(c, job[Read(c)]) /\ Known(c) /\ owner \in [Parts -> Conns \cup {None}] /\ left \in [Ids -> Nat]
        /\ c \in Ids
    BY JobFacts DEF SoundInv, Whole, Kinds, SoleInv, Tables, Ids
  <1>1. CASE Authenticate(Read(c), c)
    <2>1. PICK s : Moves(Read(c), s) /\ s.pc = "evict" /\ SameCall(s, job[Read(c)])
      BY <1>0, <1>1, GotoMoves DEF Authenticate, Steps
    <2>2. OnlyAt(c) /\ job[Read(c)].pc = "idle" /\ c \in authed' /\ ctrl' = ctrl /\ shown' = shown /\ left' = left
      BY <1>0, <1>1 DEF Authenticate, OnlyAt, table, seen
    <2>3. c \in ctrl => c \in collided'
      BY <1>1 DEF Authenticate
    <2>4. Ending(c) => c \in collided'
      BY <1>1 DEF Authenticate
    <2>5. job[Read(c)].call = "no" /\ s.call = "no"
      BY <1>0, <2>1, <2>2 DEF Called, SameCall
    <2>6. c \notin collided' /\ Lively(c, job[Read(c)]) => left'[c] = 0
      BY <2>2, <2>3 DEF Lively
    <2> QED
      BY <2>1, <2>2, <2>3, <2>4, <2>5, <2>6, PlainMove DEF Minting, Dropping, Hiding
  <1>2. CASE ListSuperseded(Read(c), c)
    <2>1. PICK o : o = {d \in sessions \ {c} : Identity[d] = Identity[c]}
      OBVIOUS
    <2>2. PICK s : s = [job[Read(c)] EXCEPT !.pc = "evicting", !.old = o]
      OBVIOUS
    <2>3. o \in SUBSET Conns /\ Typed
      BY <2>1 DEF TeardownInv, Typed
    <2>4. s \in JobStates /\ s.pc = "evicting" /\ s.call = job[Read(c)].call
      BY <1>0, <2>2, <2>3 DEF JobStates
    <2>5. job' = [job EXCEPT ![Read(c)] = s]
      BY <1>2, <2>1, <2>2 DEF ListSuperseded
    <2>6. Moves(Read(c), s)
      BY <1>0, <2>3, <2>4, <2>5, JobUpdate DEF Moves
    <2>7. OnlyAt(c) /\ job[Read(c)].pc = "evict"
          /\ UNCHANGED <<authed, ctrl, shown, left, placed, sessions>>
      BY <1>0, <1>2 DEF ListSuperseded, OnlyAt, conn, table, seen
    <2>8. job[Read(c)].call = "no" /\ c \in authed /\ (c \in ctrl => c \in collided) /\ collided \subseteq collided' /\ Handling(c)
      BY <1>0, <2>7 DEF Called, HandlerOK, Entering, Handling, OnlyAt
    <2>9. c \notin collided' /\ Lively(c, job[Read(c)]) => left'[c] = 0
      BY <2>7, <2>8 DEF Lively
    <2> QED
      BY <2>4, <2>6, <2>7, <2>8, <2>9, PlainMove DEF Minting, Dropping, Hiding
  <1>3. CASE Evicted(Read(c), c)
    <2>1. PICK s : Moves(Read(c), s) /\ s.pc = "session" /\ SameCall(s, job[Read(c)])
      BY <1>0, <1>3, GotoMoves DEF Evicted, Steps
    <2>2. OnlyAt(c) /\ job[Read(c)].pc = "evicting" /\ UNCHANGED <<authed, ctrl, shown, left, placed, sessions>>
      BY <1>0, <1>3 DEF Evicted, OnlyAt, conn, table, seen
    <2>3. job[Read(c)].call = "no" /\ s.call = "no"
      BY <1>0, <1>3, <2>1, <2>2 DEF Evicted, Called, SameCall
    <2>4. c \in authed /\ (c \in ctrl => c \in collided) /\ collided \subseteq collided' /\ Handling(c)
      BY <1>0, <2>2 DEF HandlerOK, Entering, Handling, OnlyAt
    <2>5. c \notin collided' /\ Lively(c, job[Read(c)]) => left'[c] = 0
      BY <2>2, <2>4 DEF Lively
    <2> QED
      BY <2>1, <2>2, <2>3, <2>4, <2>5, PlainMove DEF Minting, Dropping, Hiding
  <1>4. CASE AddSession(Read(c), c)
    <2>1. PICK s : Moves(Read(c), s) /\ s.pc = "place" /\ SameCall(s, job[Read(c)])
      BY <1>0, <1>4, GotoMoves DEF AddSession, Steps
    <2>2. OnlyAt(c) /\ job[Read(c)].pc = "session" /\ UNCHANGED <<authed, ctrl, shown, left>>
      BY <1>0, <1>4 DEF AddSession, OnlyAt, conn, seen
    <2>3. job[Read(c)].call = "no" /\ s.call = "no"
      BY <1>0, <1>4, <2>1, <2>2 DEF AddSession, Called, SameCall
    <2>4. c \in authed /\ (c \in ctrl => c \in collided) /\ collided \subseteq collided' /\ Handling(c)
      BY <1>0, <2>2 DEF HandlerOK, Entering, Handling, OnlyAt
    <2>5. c \notin collided' /\ Lively(c, job[Read(c)]) => left'[c] = 0
      BY <2>2, <2>4 DEF Lively
    <2> QED
      BY <2>1, <2>2, <2>3, <2>4, <2>5, PlainMove DEF Minting, Dropping, Hiding
  <1>5. CASE SetUserRoom(Read(c), c)
    <2>1. PICK s : Moves(Read(c), s) /\ s.pc = "send" /\ SameCall(s, job[Read(c)])
      BY <1>0, <1>5, GotoMoves DEF SetUserRoom, Steps
    <2>2. OnlyAt(c) /\ job[Read(c)].pc = "place" /\ UNCHANGED <<authed, ctrl, shown, left>>
      BY <1>0, <1>5 DEF SetUserRoom, OnlyAt, conn, seen
    <2>3. job[Read(c)].call = "no" /\ s.call = "no"
      BY <1>0, <1>5, <2>1, <2>2 DEF SetUserRoom, Called, SameCall
    <2>4. c \in authed /\ (c \in ctrl => c \in collided) /\ collided \subseteq collided' /\ Handling(c)
      BY <1>0, <2>2 DEF HandlerOK, Entering, Handling, OnlyAt
    <2>5. c \notin collided' /\ Lively(c, job[Read(c)]) => left'[c] = 0
      BY <2>2, <2>4 DEF Lively
    <2> QED
      BY <2>1, <2>2, <2>3, <2>4, <2>5, PlainMove DEF Minting, Dropping, Hiding
  <1>6. CASE SendState(Read(c), c)
    <2>1. PICK p \in {"joined", "idle"} : Goto(Read(c), p)
      BY <1>6 DEF SendState
    <2>2. PICK s : Moves(Read(c), s) /\ s.pc = p /\ SameCall(s, job[Read(c)])
      BY <1>0, <2>1, GotoMoves DEF Steps
    <2>3. OnlyAt(c) /\ job[Read(c)].pc = "send" /\ UNCHANGED <<authed, ctrl, shown, left, placed, sessions>>
      BY <1>0, <1>6 DEF SendState, OnlyAt, conn, table, seen
    <2>4. job[Read(c)].call = "no" /\ s.call = "no"
      BY <1>0, <2>2, <2>3 DEF Called, SameCall
    <2>5. c \in authed /\ (c \in ctrl => c \in collided) /\ collided \subseteq collided' /\ Handling(c)
      BY <1>0, <2>3 DEF HandlerOK, Entering, Handling, OnlyAt
    <2>6. c \notin collided' /\ Lively(c, job[Read(c)]) => left'[c] = 0
      BY <2>3, <2>5 DEF Lively
    <2> QED
      BY <2>1, <2>2, <2>3, <2>4, <2>5, <2>6, PlainMove DEF Minting, Dropping, Hiding
  <1>7. CASE AnnounceJoined(Read(c), c)
    <2>1. PICK s : Moves(Read(c), s) /\ s.pc = "idle" /\ SameCall(s, job[Read(c)])
      BY <1>0, <1>7, GotoMoves DEF AnnounceJoined, Steps
    <2>2. OnlyAt(c) /\ job[Read(c)].pc = "joined" /\ UNCHANGED <<authed, ctrl, left>>
      BY <1>0, <1>7 DEF AnnounceJoined, BroadcastJoined, OnlyAt, conn, table
    <2>3. job[Read(c)].call = "no" /\ s.call = "no"
      BY <1>0, <2>1, <2>2 DEF Called, SameCall
    <2>4. c \in authed /\ (c \in ctrl => c \in collided) /\ collided \subseteq collided' /\ Handling(c)
      BY <1>0, <2>2 DEF HandlerOK, Entering, Handling, OnlyAt
    <2>5. c \notin collided' /\ Lively(c, job[Read(c)]) => left'[c] = 0
      BY <2>2, <2>4 DEF Lively
    <2> QED
      BY <2>1, <2>2, <2>3, <2>4, <2>5, PlainMove DEF Minting, Dropping, Hiding, Entering
  <1>8. CASE ControllerHello(Read(c), c)
    <2>1. PICK s : Moves(Read(c), s) /\ s.pc = "hide" /\ SameCall(s, job[Read(c)])
      BY <1>0, <1>8, GotoMoves DEF ControllerHello, Steps
    <2>2. OnlyAt(c) /\ job[Read(c)].pc = "idle" /\ UNCHANGED <<authed, left>>
      BY <1>0, <1>8 DEF ControllerHello, Begins, Controls, OnlyAt, conn, table, seen
    <2>3. job[Read(c)].call = "no" /\ s.call = "no"
      BY <1>0, <2>1, <2>2 DEF Called, SameCall
    <2>4. c \in authed \ ctrl /\ c \in ctrl' /\ (Ending(c) => c \in collided')
      BY <1>8 DEF ControllerHello, Begins, Controls
    <2>5. c \notin collided' /\ Lively(c, job[Read(c)]) => left'[c] = 0
      BY <2>2, <2>4 DEF Lively
    <2> QED
      BY <2>1, <2>2, <2>3, <2>4, <2>5, PlainMove DEF Minting, Dropping, Hiding, Entering
  <1>9. CASE HideController(Read(c), c)
    <2>1. PICK s : Moves(Read(c), s) /\ s.pc = "hidden" /\ SameCall(s, job[Read(c)])
      BY <1>0, <1>9, GotoMoves DEF HideController, Steps
    <2>2. OnlyAt(c) /\ job[Read(c)].pc = "hide" /\ UNCHANGED <<authed, ctrl, shown, left, sessions>>
      BY <1>0, <1>9 DEF HideController, OnlyAt, conn, seen
    <2>3. job[Read(c)].call = "no" /\ s.call = "no"
      BY <1>0, <2>1, <2>2 DEF Called, SameCall
    <2>4. c \in authed /\ c \in ctrl /\ Handling(c)
      BY <1>0, <2>2 DEF HandlerOK, Hiding, Handling, Known
    <2>5. c \notin collided' /\ Lively(c, job[Read(c)]) => left'[c] = 0
      BY <2>2 DEF Lively, Hiding
    <2> QED
      BY <2>1, <2>2, <2>3, <2>4, <2>5, PlainMove DEF Minting, Dropping, Hiding, Entering
  <1>10. CASE AnnounceHidden(Read(c), c)
    <2>1. PICK s : Moves(Read(c), s) /\ s.pc = "idle" /\ SameCall(s, job[Read(c)])
      BY <1>0, <1>10, GotoMoves DEF AnnounceHidden, Steps
    <2>2. OnlyAt(c) /\ job[Read(c)].pc = "hidden" /\ UNCHANGED <<authed, ctrl>>
          /\ left'[c] = left[c] + 1 /\ c \notin shown'
      BY <1>0, <1>10 DEF AnnounceHidden, BroadcastLeft, OnlyAt, conn, table
    <2>3. job[Read(c)].call = "no" /\ s.call = "no"
      BY <1>0, <2>1, <2>2 DEF Called, SameCall
    <2>4. c \in authed /\ c \in ctrl /\ Handling(c)
      BY <1>0, <2>2 DEF HandlerOK, Hiding, Handling, Known
    <2>5. Lively(c, job[Read(c)]) => left'[c] = 1
      BY <2>2 DEF Lively, Hiding
    <2> QED
      BY <2>1, <2>2, <2>3, <2>4, <2>5, PlainMove DEF Minting, Dropping, Hiding, Entering
  <1> QED
    BY <1>1, <1>2, <1>3, <1>4, <1>5, <1>6, <1>7, <1>8, <1>9, <1>10

(* A step of a handler that is at participant p *)
OnlyPart(c, p) ==
    /\ UNCHANGED <<link, torn, authed, ctrl, sessions>> /\ collided \subseteq collided'
    /\ \A i \in Ids \ {p} : /\ (i \in members' <=> i \in members) /\ (i \in placed' <=> i \in placed)
                            /\ (i \in shown' <=> i \in shown) /\ left'[i] = left[i]
    /\ \A i \in Parts \ {p} : owner'[i] = owner[i]
    /\ owner[p] \in {c, None} /\ owner'[p] = c
    /\ Kinds'

LEMMA PartMove ==
  ASSUME TeardownInv, SoleInv, SoundInv, NEW c \in Conns, NEW p \in Parts, OnlyPart(c, p), c \in ctrl \cup collided,
         NEW s, Moves(Read(c), s), job[Read(c)].call = "no", s.call = "no",
         job[Read(c)].pc \in Minting \cup Dropping \cup {"idle"}, s.pc \in Minting \cup Dropping \cup {"idle"},
         job[Read(c)].pc \in Minting \cup Dropping => job[Read(c)].part = p,
         s.pc \in Minting \cup Dropping => s.part = p,
         Handling(c) \/ (Ending(c) => c \in collided'),
         c \notin collided' /\ (owner[p] = c => Kept(job[Read(c)], p)) => Kept(s, p)'
  PROVE  SoundInv'
  <1>0. Whole /\ Known(c) /\ c \in Ids /\ p \in Ids /\ c # p /\ c # None
    BY SessionConstants DEF SoundInv, Whole, Ids
  <1>1. Touches(c)
    BY <1>0 DEF OnlyPart, Touches
  <1>2. HandlerOK(c, s)'
    BY DEF HandlerOK, Entering, Hiding, Minting, Dropping, OnlyPart
  <1>3. c \in placed' \cup shown' \cup sessions' \cup ctrl' => c \in authed'
    BY <1>0 DEF Known, OnlyPart
  <1>4. ASSUME c \notin collided', Lively(c, job[Read(c)]) PROVE Lively(c, s)'
    <2>1. ASSUME NEW i \in Parts \ {p}, owner'[i] = c PROVE Kept(s, i)'
      <3>1. Kept(job[Read(c)], i) /\ i \in Ids
        BY <1>4, <2>1 DEF Lively, OnlyPart, Ids
      <3>2. (i \in placed' <=> i \in placed) /\ (i \in shown' <=> i \in shown) /\ left'[i] = left[i]
            /\ (i \in members' <=> i \in members)
        BY <3>1 DEF OnlyPart
      <3>3. \A S \in SUBSET (Minting \cup Dropping) : ~Tends(job[Read(c)], i, S) /\ ~Tends(s, i, S)
        BY DEF Tends
      <3>4. /\ {"mint"} \in SUBSET (Minting \cup Dropping) /\ {"mint", "minted", "drop"} \in SUBSET (Minting \cup Dropping)
            /\ Dropping \in SUBSET (Minting \cup Dropping) /\ {"dropping", "dropped"} \in SUBSET (Minting \cup Dropping)
            /\ {"dropping"} \in SUBSET (Minting \cup Dropping)
        BY DEF Minting, Dropping
      <3> QED
        BY <3>1, <3>2, <3>3, <3>4 DEF Kept
    <2>2. Kept(s, p)'
      BY <1>4 DEF Lively
    <2>3. \A i \in Parts : owner'[i] = c => Kept(s, i)'
      BY <2>1, <2>2
    <2>4. /\ job[Read(c)].pc \notin Hiding /\ s.pc \notin Hiding /\ s.pc \notin {"plugins", "close", "done"}
      BY DEF Hiding, Minting, Dropping
    <2>5. /\ (c \in shown' <=> c \in shown) /\ left'[c] = left[c] /\ ctrl' = ctrl
      BY <1>0 DEF OnlyPart
    <2> QED
      BY <1>4, <2>3, <2>4, <2>5 DEF Lively
  <1>5. torn' = torn /\ (c \in members => c \in members') /\ Kinds' /\ c \in ctrl' \cup collided' /\ job[Read(c)].pc # "none"
    BY <1>0 DEF OnlyPart, Minting, Dropping
  <1> QED
    BY <1>1, <1>2, <1>3, <1>4, <1>5, HandlerMove

LEMMA SoundPart ==
  ASSUME TeardownInv, SoleInv, SoundInv, NEW c \in Conns,
         \/ \E p \in Parts : RegisterParticipant(Read(c), c, p) \/ UnregisterParticipant(Read(c), c, p)
         \/ PlaceParticipant(Read(c), c) \/ AnnounceParticipant(Read(c), c) \/ DropParticipant(Read(c), c)
         \/ UnplaceParticipant(Read(c), c) \/ AnnounceDropped(Read(c), c)
  PROVE  SoundInv'
  <1> USE ActorTypes, SideTypes
  <1>0. /\ Read(c) \in Actors /\ job[Read(c)] \in JobStates /\ Called(Read(c)) /\ Typed
        /\ HandlerOK(c, job[Read(c)]) /\ owner \in [Parts -> Conns \cup {None}] /\ left \in [Ids -> Nat]
        /\ c # None /\ \A i \in Parts : i \in Ids /\ Unused(i)
    BY JobFacts, SessionConstants DEF SoundInv, Whole, Kinds, Ids, TeardownInv
  <1>1. ASSUME NEW p \in Parts, RegisterParticipant(Read(c), c, p) PROVE SoundInv'
    <2>1. PICK s : s = [job[Read(c)] EXCEPT !.pc = "mint", !.part = p]
      OBVIOUS
    <2>2. s \in JobStates /\ s.pc = "mint" /\ s.part = p /\ s.call = job[Read(c)].call
      BY <1>0, <2>1 DEF JobStates
    <2>3. job' = [job EXCEPT ![Read(c)] = s]
      BY <1>1, <2>1 DEF RegisterParticipant
    <2>4. Moves(Read(c), s)
      BY <1>0, <2>2, <2>3, JobUpdate DEF Moves
    <2>5. OnlyPart(c, p)
      BY <1>0, <1>1 DEF RegisterParticipant, Begins, OnlyPart, Kinds, conn, seen
    <2>6. job[Read(c)].pc = "idle" /\ job[Read(c)].call = "no" /\ c \in ctrl /\ (Ending(c) => c \in collided')
      BY <1>0, <1>1 DEF RegisterParticipant, Begins, Controls, Called
    <2>7. Kept(s, p)'
      <3>1. p \notin placed /\ p \notin shown /\ left[p] = 0
        BY <1>0, <1>1 DEF RegisterParticipant, Unused
      <3>2. p \in members' /\ placed' = placed /\ shown' = shown /\ left' = left
        BY <1>1 DEF RegisterParticipant, seen
      <3> QED
        BY <2>2, <3>1, <3>2 DEF Kept, Tends, Dropping
    <2> QED
      BY <2>2, <2>4, <2>5, <2>6, <2>7, PartMove DEF Minting, Dropping
  <1>2. ASSUME NEW p \in Parts, UnregisterParticipant(Read(c), c, p) PROVE SoundInv'
    <2>0. PICK b \in BOOLEAN : b = (p \in placed)
      <3>1. CASE p \in placed
        <4>1. TRUE = (p \in placed)
          BY <3>1
        <4> QED
          BY <4>1
      <3>2. CASE p \notin placed
        <4>1. FALSE = (p \in placed)
          BY <3>2
        <4> QED
          BY <4>1
      <3> QED
        BY <3>1, <3>2
    <2>1. PICK s : s = [job[Read(c)] EXCEPT !.pc = "drop", !.part = p, !.present = b]
      OBVIOUS
    <2>2. s \in JobStates /\ s.pc = "drop" /\ s.part = p /\ s.call = job[Read(c)].call /\ s.present = b
      BY <1>0, <2>1 DEF JobStates
    <2>3. job' = [job EXCEPT ![Read(c)] = s]
      BY <1>2, <2>0, <2>1 DEF UnregisterParticipant
    <2>4. Moves(Read(c), s)
      BY <1>0, <2>2, <2>3, JobUpdate DEF Moves
    <2>5. OnlyPart(c, p)
      BY <1>0, <1>2 DEF UnregisterParticipant, Begins, OnlyPart, Kinds, conn, table, seen
    <2>6. /\ job[Read(c)].pc = "idle" /\ job[Read(c)].call = "no" /\ c \in ctrl /\ (Ending(c) => c \in collided')
          /\ p \in members /\ owner[p] = c
      BY <1>0, <1>2 DEF UnregisterParticipant, Begins, Controls, Called
    <2>7. ASSUME Kept(job[Read(c)], p) PROVE Kept(s, p)'
      <3>1. p \in placed /\ left[p] = 0
        BY <2>6, <2>7 DEF Kept, Tends
      <3>2. UNCHANGED <<members, placed, shown, left>>
        BY <1>2 DEF UnregisterParticipant, table, seen
      <3>3. b = TRUE
        BY <2>0, <3>1
      <3>4. s.present
        BY <2>2, <3>3
      <3> QED
        BY <2>2, <2>6, <3>1, <3>2, <3>4 DEF Kept, Tends, Dropping
    <2> QED
      BY <2>2, <2>4, <2>5, <2>6, <2>7, PartMove DEF Minting, Dropping
  <1>a. ASSUME job[Read(c)].pc \in Minting \cup Dropping
        PROVE  /\ job[Read(c)].part \in Parts /\ owner[job[Read(c)].part] = c
               /\ c \in ctrl \cup collided /\ Handling(c) /\ job[Read(c)].call = "no"
    BY <1>0, <1>a DEF HandlerOK, Unused, Handling, Called, Minting, Dropping
  <1>3. CASE PlaceParticipant(Read(c), c)
    <2>1. job[Read(c)].pc = "mint"
      BY <1>3 DEF PlaceParticipant
    <2>2. PICK p : p = job[Read(c)].part
      OBVIOUS
    <2>3. p \in Parts /\ owner[p] = c /\ c \in ctrl \cup collided /\ Handling(c) /\ job[Read(c)].call = "no"
      BY <1>a, <2>1, <2>2 DEF Minting
    <2>4. PICK s : Moves(Read(c), s) /\ s.pc = "minted" /\ SameCall(s, job[Read(c)])
      BY <1>0, <1>3, GotoMoves DEF PlaceParticipant, Steps
    <2>5. OnlyPart(c, p) /\ UNCHANGED <<members, shown, left>> /\ p \in placed'
      BY <1>0, <1>3, <2>2, <2>3 DEF PlaceParticipant, OnlyPart, Kinds, conn, seen
    <2>6. s.call = "no" /\ s.part = p
      BY <2>2, <2>3, <2>4 DEF SameCall
    <2>7. ASSUME Kept(job[Read(c)], p) PROVE Kept(s, p)'
      BY <2>1, <2>2, <2>4, <2>5, <2>6, <2>7 DEF Kept, Tends, Dropping
    <2> QED
      BY <2>1, <2>2, <2>3, <2>4, <2>5, <2>6, <2>7, PartMove DEF Minting, Dropping
  <1>4. CASE AnnounceParticipant(Read(c), c)
    <2>1. job[Read(c)].pc = "minted"
      BY <1>4 DEF AnnounceParticipant
    <2>2. PICK p : p = job[Read(c)].part
      OBVIOUS
    <2>3. p \in Parts /\ owner[p] = c /\ c \in ctrl \cup collided /\ Handling(c) /\ job[Read(c)].call = "no"
      BY <1>a, <2>1, <2>2 DEF Minting
    <2>4. PICK s : Moves(Read(c), s) /\ s.pc = "idle" /\ s.call = "no"
      BY <1>0, <1>4, EndsMoves DEF AnnounceParticipant, Steps
    <2>5. OnlyPart(c, p) /\ UNCHANGED <<members, placed, left>>
      BY <1>0, <1>4, <2>2, <2>3 DEF AnnounceParticipant, BroadcastJoined, OnlyPart, Kinds, conn, table
    <2>7. ASSUME Kept(job[Read(c)], p) PROVE Kept(s, p)'
      BY <2>1, <2>2, <2>4, <2>5, <2>7 DEF Kept, Tends, Dropping
    <2> QED
      BY <2>1, <2>2, <2>3, <2>4, <2>5, <2>7, PartMove DEF Minting, Dropping
  <1>5. CASE DropParticipant(Read(c), c)
    <2>1. job[Read(c)].pc = "drop"
      BY <1>5 DEF DropParticipant
    <2>2. PICK p : p = job[Read(c)].part
      OBVIOUS
    <2>3. p \in Parts /\ owner[p] = c /\ c \in ctrl \cup collided /\ Handling(c) /\ job[Read(c)].call = "no"
      BY <1>a, <2>1, <2>2 DEF Dropping
    <2>4. PICK s : Moves(Read(c), s) /\ s.pc = "dropping" /\ SameCall(s, job[Read(c)])
      BY <1>0, <1>5, GotoMoves DEF DropParticipant, Steps
    <2>5. OnlyPart(c, p) /\ UNCHANGED <<placed, shown, left>> /\ p \notin members'
      BY <1>0, <1>5, <2>2, <2>3 DEF DropParticipant, OnlyPart, Kinds, conn, seen
    <2>6. s.call = "no" /\ s.part = p /\ s.present = job[Read(c)].present
      BY <2>2, <2>3, <2>4 DEF SameCall
    <2>7. ASSUME Kept(job[Read(c)], p) PROVE Kept(s, p)'
      BY <2>1, <2>2, <2>4, <2>5, <2>6, <2>7 DEF Kept, Tends, Dropping
    <2> QED
      BY <2>1, <2>2, <2>3, <2>4, <2>5, <2>6, <2>7, PartMove DEF Minting, Dropping
  <1>6. CASE UnplaceParticipant(Read(c), c)
    <2>1. job[Read(c)].pc = "dropping"
      BY <1>6 DEF UnplaceParticipant
    <2>2. PICK p : p = job[Read(c)].part
      OBVIOUS
    <2>3. p \in Parts /\ owner[p] = c /\ c \in ctrl \cup collided /\ Handling(c) /\ job[Read(c)].call = "no"
      BY <1>a, <2>1, <2>2 DEF Dropping
    <2>4. PICK s : Moves(Read(c), s) /\ s.pc = "dropped" /\ SameCall(s, job[Read(c)])
      BY <1>0, <1>6, GotoMoves DEF UnplaceParticipant, Steps
    <2>5. OnlyPart(c, p) /\ UNCHANGED <<members, shown, left>> /\ p \notin placed'
      BY <1>0, <1>6, <2>2, <2>3 DEF UnplaceParticipant, OnlyPart, Kinds, conn, seen
    <2>6. s.call = "no" /\ s.part = p /\ s.present = job[Read(c)].present
      BY <2>2, <2>3, <2>4 DEF SameCall
    <2>7. ASSUME Kept(job[Read(c)], p) PROVE Kept(s, p)'
      BY <2>1, <2>2, <2>4, <2>5, <2>6, <2>7 DEF Kept, Tends, Dropping
    <2> QED
      BY <2>1, <2>2, <2>3, <2>4, <2>5, <2>6, <2>7, PartMove DEF Minting, Dropping
  <1>7. CASE AnnounceDropped(Read(c), c)
    <2>1. job[Read(c)].pc = "dropped"
      BY <1>7 DEF AnnounceDropped
    <2>2. PICK p : p = job[Read(c)].part
      OBVIOUS
    <2>3. p \in Parts /\ p \in Ids /\ owner[p] = c /\ c \in ctrl \cup collided /\ Handling(c) /\ job[Read(c)].call = "no"
      BY <1>0, <1>a, <2>1, <2>2 DEF Dropping
    <2>4. PICK s : Moves(Read(c), s) /\ s.pc = "idle" /\ s.call = "no"
      BY <1>0, <1>7, EndsMoves DEF AnnounceDropped, Steps
    <2>5. /\ OnlyPart(c, p) /\ UNCHANGED <<members, placed>>
          /\ job[Read(c)].present => p \notin shown' /\ left'[p] = left[p] + 1
      BY <1>0, <1>7, <2>2, <2>3 DEF AnnounceDropped, BroadcastLeft, OnlyPart, Kinds, conn, table, seen
    <2>7. ASSUME Kept(job[Read(c)], p) PROVE Kept(s, p)'
      <3>1. job[Read(c)].present /\ p \notin members /\ left[p] = 0 /\ p \notin placed
        BY <2>1, <2>2, <2>7 DEF Kept, Tends, Dropping
      <3>2. p \notin members' /\ left'[p] = 1 /\ p \notin placed' /\ p \notin shown'
        BY <2>5, <3>1
      <3> QED
        BY <2>4, <3>2 DEF Kept, Tends, Dropping
    <2> QED
      BY <2>1, <2>2, <2>3, <2>4, <2>5, <2>7, PartMove DEF Minting, Dropping
  <1> QED
    BY <1>1, <1>2, <1>3, <1>4, <1>5, <1>6, <1>7

-----------------------------------------------------------------------------
(* No handler of c runs: its entries change at the hands of those who clean up. *)
Front(c) ==
    /\ job[Read(c)].pc \in {"plugins", "close", "done"} => c \in torn
    /\ c \in torn \cap members =>
          job[Read(c)].pc = "plugins" \/ job[Accept(c)].pc = "plugins" \/ \E x \in Actors : On(x, c, Before)
Traces(c) ==
    c \notin members =>
          /\ Mine(c) = {}
          /\ c \in placed => \E x \in Actors : On(x, c, {"room"})
          /\ c \in sessions => \E x \in Actors : On(x, c, {"room", "session"})
          /\ c \in shown => \E x \in Actors : Bids(x, c)
Byes(c) ==
    /\ ~(c \in shown /\ c \in ctrl)
    /\ left[c] <= 1
    /\ c \notin ctrl /\ c \in members => left[c] = 0
    /\ \A x \in Actors : Bids(x, c) => /\ c \notin ctrl => left[c] = 0
                                       /\ \A y \in Actors : Bids(y, c) => y = x
Freed(i) ==
    /\ left[i] <= 1
    /\ i \in members => left[i] = 0 /\ i \in placed
    /\ \A x \in Actors : Serves(x, i) => /\ i \notin members /\ left[i] = 0
                                         /\ \A y \in Actors : Serves(y, i) => y = x
    /\ i \notin members => /\ i \in placed => \E x \in Actors : Serves(x, i) /\ job[x].call = "unplace"
                           /\ i \in shown => \E x \in Actors : Serves(x, i)
Back(c) ==
    /\ Traces(c) /\ Byes(c)
    /\ \A x \in Actors : Cleans(x, c)
    /\ \A i \in Parts : owner[i] = c => Freed(i)

LEMMA ToBack ==
  ASSUME NEW c \in Conns, Sound(c), ~Handling(c)
  PROVE  Front(c) /\ Back(c)
  <1>1. job[Read(c)].pc \notin Hiding \cup Minting \cup Dropping
    BY DEF Handling, Hiding, Minting, Dropping
  <1>2. ASSUME NEW i \in Parts, owner[i] = c PROVE Freed(i)
    <2>1. Part(c, i)
      BY <1>2 DEF Sound
    <2>2. ~Handles(c, i, {"mint"}) /\ ~Handles(c, i, {"dropping"}) /\ ~Handles(c, i, {"dropping", "dropped"})
      BY <1>1 DEF Handles, Minting, Dropping
    <2> QED
      BY <2>1, <2>2 DEF Part, Freed
  <1>3. Front(c) /\ Traces(c)
    BY DEF Sound, Going, Front, Traces
  <1>4. Byes(c)
    BY <1>1 DEF Sound, Leaves, Byes
  <1> QED
    BY <1>2, <1>3, <1>4 DEF Back, Sound

LEMMA FromBack ==
  ASSUME NEW c \in Conns, ~Handling(c)', Front(c)', Back(c)'
  PROVE  Sound(c)'
  <1>1. job'[Read(c)].pc \notin Hiding \cup Minting \cup Dropping
    BY DEF Handling, Hiding, Minting, Dropping, Read
  <1>2. ASSUME NEW i \in Parts, owner'[i] = c PROVE Part(c, i)'
    <2>1. Freed(i)'
      BY <1>2 DEF Back
    <2>2. \A S \in SUBSET (Minting \cup Dropping) : ~Handles(c, i, S)'
      BY <1>1 DEF Handles, Read
    <2>3. /\ {"mint"} \in SUBSET (Minting \cup Dropping) /\ {"mint", "minted", "drop"} \in SUBSET (Minting \cup Dropping)
          /\ Dropping \in SUBSET (Minting \cup Dropping) /\ {"dropping", "dropped"} \in SUBSET (Minting \cup Dropping)
          /\ {"dropping"} \in SUBSET (Minting \cup Dropping)
      BY DEF Minting, Dropping
    <2> QED
      BY <2>1, <2>2, <2>3 DEF Part, Freed
  <1>3. Going(c)'
    BY DEF Going, Front, Back, Traces, Read, Accept
  <1>4. Leaves(c)'
    BY <1>1 DEF Leaves, Back, Byes, Read
  <1> QED
    BY <1>2, <1>3, <1>4 DEF Back, Sound

(* A call of cleanup_client that begins takes nothing out yet. *)
LEMMA BackSame ==
  ASSUME Whole, Whole', NEW c \in Conns, Stays(c), Back(c),
         \A y \in Actors : Busy(y, c) \/ Busy(y, c)' =>
             SameCall(job'[y], job[y]) \/ (job[y].call = "no" /\ job'[y].call = "start")
  PROVE  Back(c)'
  <1> DEFINE Rest == Parting \cup {"member"} \cup Late
  <1>1. ASSUME NEW y \in Actors
        PROVE  /\ \A S \in SUBSET Rest : On(y, c, S)' <=> On(y, c, S)
               /\ Bids(y, c)' <=> Bids(y, c)
               /\ On(y, c, Rest) => SameCall(job'[y], job[y])
    <2>1. "no" \notin Rest /\ "start" \notin Rest /\ Late \subseteq Rest
      BY DEF Late, Parting
    <2>2. ASSUME NEW S \in SUBSET Rest PROVE On(y, c, S)' <=> On(y, c, S)
      BY <2>1, <2>2 DEF Busy, On, SameCall
    <2>3. On(y, c, Rest) => SameCall(job'[y], job[y])
      BY <2>1 DEF Busy, On
    <2>4. On(y, c, Late)' <=> On(y, c, Late)
      BY <2>1, <2>2
    <2>5. On(y, c, Late) => On(y, c, Rest)
      BY DEF On
    <2>6. Bids(y, c)' <=> Bids(y, c)
      BY <2>3, <2>4, <2>5 DEF Bids, SameCall
    <2> QED
      BY <2>2, <2>3, <2>6
  <1>2. /\ {"room"} \in SUBSET Rest /\ {"room", "session"} \in SUBSET Rest /\ Rest \in SUBSET Rest
        /\ Parting \in SUBSET Rest /\ {"member"} \cup Late \in SUBSET Rest
    BY DEF Late
  <1>3. Mine(c)' = Mine(c)
    BY DEF Mine, Stays
  <1>4. Traces(c)'
    BY <1>1, <1>2, <1>3 DEF Back, Traces, Stays
  <1>5. Byes(c)'
    BY <1>1 DEF Back, Byes, Stays
  <1>6. ASSUME NEW y \in Actors PROVE Cleans(y, c)'
    <2>1. Cleans(y, c) /\ (On(y, c, Parting) => On(y, c, Rest))
      BY DEF Back, On
    <2>2. /\ On(y, c, Parting \cup {"member"} \cup Late)' <=> On(y, c, Parting \cup {"member"} \cup Late)
          /\ On(y, c, Parting)' <=> On(y, c, Parting)
          /\ On(y, c, {"member"} \cup Late)' <=> On(y, c, {"member"} \cup Late)
      BY <1>1, <1>2
    <2>3. On(y, c, Parting \cup {"member"} \cup Late) => SameCall(job'[y], job[y])
      BY <1>1
    <2> QED
      BY <1>3, <2>1, <2>2, <2>3 DEF Cleans, SameCall, Stays
  <1>7. ASSUME NEW i \in Parts, owner'[i] = c PROVE Freed(i)'
    <2>1. owner[i] = c /\ Freed(i)
      BY <1>7 DEF Back, Stays
    <2>2. ASSUME NEW y \in Actors PROVE /\ Serves(y, i)' <=> Serves(y, i)
                                        /\ Serves(y, i) => job'[y].call = job[y].call
      <3>1. Serves(y, i) => Busy(y, c)
        BY <2>1 DEF Serves, Busy, Whole, CallOK
      <3>2. Serves(y, i)' => Busy(y, c)'
        BY <1>7 DEF Serves, Busy, Whole, CallOK
      <3> QED
        BY <3>1, <3>2 DEF Serves, SameCall
    <2> QED
      BY <2>1, <2>2 DEF Freed, Stays
  <1> QED
    BY <1>4, <1>5, <1>6, <1>7 DEF Back

(* A loop that ends claims the teardown, tells the plugins, calls and leaves. *)
LEMMA RestMove ==
  ASSUME TeardownInv, SoleInv, SoundInv, NEW c \in Conns, Touches(c),
         UNCHANGED <<authed, ctrl, members, owner, placed, sessions, shown, left>>,
         NEW x \in Actors, NEW s, Moves(x, s), job[x].call = "no", job[x].pc # "none",
         s.call = "no" \/ (s.call = "start" /\ s.target = c), s.pc \notin Hiding \cup Minting \cup Dropping,
         \A d \in Conns : x = Read(d) => s.pc \in {"plugins", "close", "done"} \/ s.pc = job[x].pc,
         \A d \in Conns \ {c} : x # Accept(d) /\ (x = Read(d) => s.pc = job[x].pc),
         link[c] # "none",
         c \notin collided' => /\ ~Handling(c)
                               /\ x = Read(c) => s.pc \in {"plugins", "close", "done"}
                               /\ Sound(c) /\ Front(c) => Front(c)'
  PROVE  SoundInv'
  <1>0. Whole /\ collided \subseteq collided' /\ \A d \in Conns : d \in Ids
    BY DEF SoundInv, Touches, Ids
  <1>1. Whole'
    <2>1. CallOK(s)'
      BY DEF CallOK, Parting
    <2>2. ASSUME NEW d \in Conns, x = Read(d) PROVE HandlerOK(d, s)'
      <3>1. HandlerOK(d, job[Read(d)])
        BY <1>0 DEF Whole
      <3> QED
        BY <1>0, <2>2, <3>1 DEF HandlerOK, Entering
    <2>6. \A d \in Conns : AtPart(d, s)'
      BY DEF AtPart
    <2>3. Known(c)'
      BY <1>0 DEF Known, Touches, Whole
    <2>4. Kinds'
      BY <1>0 DEF Kinds, Whole
    <2>5. \A i \in Parts : owner'[i] = c => c \in ctrl' \cup collided'
      BY <1>0, SessionConstants DEF Whole, Unused
    <2> QED
      BY <1>0, <2>1, <2>2, <2>3, <2>4, <2>5, <2>6, TouchesWhole
  <1>2. ASSUME NEW d \in Conns \ collided', d # c PROVE Sound(d)'
    <2>1. Sound(d) /\ Keeps(d)
      BY <1>0, <1>2, TouchesKeeps DEF SoundInv
    <2>2. Ignores(x, s, d)
      BY <1>2 DEF Ignores, Busy
    <2> QED
      BY <1>0, <1>1, <2>1, <2>2, MovesApart, ViewSame
  <1>3. ASSUME c \notin collided' PROVE Sound(c)'
    <2>1. Sound(c) /\ ~Handling(c)
      BY <1>0, <1>3 DEF SoundInv
    <2>2. Front(c) /\ Back(c)
      BY <2>1, ToBack
    <2>3. Front(c)'
      BY <1>3, <2>1, <2>2
    <2>4. Stays(c)
      BY DEF Stays
    <2>5. ASSUME NEW y \in Actors, Busy(y, c) \/ Busy(y, c)'
          PROVE  SameCall(job'[y], job[y]) \/ (job[y].call = "no" /\ job'[y].call = "start")
      <3>1. CASE y = x
        BY <2>5, <3>1 DEF Busy, Moves
      <3>2. CASE y # x
        BY <3>2 DEF Moves, SameCall
      <3> QED
        BY <3>1, <3>2
    <2>6. Back(c)'
      BY <1>0, <1>1, <2>2, <2>4, <2>5, BackSame
    <2>7. ~Handling(c)'
      <3>1. Read(c) \in Actors
        BY ActorTypes
      <3>2. job'[Read(c)].pc = job[Read(c)].pc \/ job'[Read(c)].pc \in {"plugins", "close", "done"}
        BY <1>3, <3>1 DEF Moves
      <3> QED
        BY <2>1, <3>2 DEF Handling, Read
    <2> QED
      BY <2>3, <2>6, <2>7, FromBack
  <1> QED
    BY <1>1, <1>2, <1>3 DEF SoundInv

(* A step nobody's entries and calls take part in *)
LEMMA StillMove ==
  ASSUME TeardownInv, SoundInv, UNCHANGED <<torn, authed, ctrl, table, shown, left>>, collided \subseteq collided',
         \A d \in Conns : (link'[d] = "none") = (link[d] = "none"),
         \A y \in Actors : /\ SameCall(job'[y], job[y]) \/ (job[y].call = "no" /\ job'[y].call = "no")
                           /\ \A d \in Conns : y = Read(d) => job'[y] = job[y]
                           /\ \A d \in Conns : y = Accept(d) => (job'[y].pc = "plugins") = (job[y].pc = "plugins")
                           /\ \A d \in Conns : y = Side(d) =>
                                 job'[y] = job[y] \/ job'[y].pc \notin Minting \cup Dropping
  PROVE  SoundInv'
  <1>0. Whole /\ UNCHANGED <<members, owner, placed, sessions>>
    BY DEF SoundInv, table
  <1>1. Whole'
    <2>1. \A y \in Actors : CallOK(job[y])'
      BY <1>0 DEF Whole, CallOK, SameCall, Parting
    <2>2. ASSUME NEW d \in Conns PROVE HandlerOK(d, job[Read(d)])' /\ AtPart(d, job[Side(d)])' /\ Known(d)'
      <3>1. job'[Read(d)] = job[Read(d)]
        BY ActorTypes
      <3>2. job'[Side(d)] = job[Side(d)] \/ job'[Side(d)].pc \notin Minting \cup Dropping
        BY SideTypes
      <3>3. AtPart(d, job[Side(d)])'
        BY <1>0, <3>2 DEF Whole, AtPart, Side
      <3> QED
        BY <1>0, <3>1, <3>3 DEF Whole, HandlerOK, Known, Read
    <2>3. \A i \in Parts : Unused(i)'
      BY <1>0 DEF Whole, Unused
    <2>4. Kinds'
      BY <1>0 DEF Kinds, Whole
    <2> QED
      BY <2>1, <2>2, <2>3, <2>4 DEF Whole
  <1>2. ASSUME NEW d \in Conns \ collided' PROVE Sound(d)'
    <2>1. Sound(d) /\ Keeps(d)
      BY <1>0, <1>2 DEF SoundInv, Keeps, Stays
    <2>2. job'[Read(d)] = job[Read(d)] /\ (job'[Accept(d)].pc = "plugins") = (job[Accept(d)].pc = "plugins")
      BY ActorTypes
    <2>3. Apart(d)
      BY <2>2 DEF Apart, Busy, SameCall
    <2> QED
      BY <1>0, <1>1, <2>1, <2>3, ViewSame
  <1> QED
    BY <1>1, <1>2 DEF SoundInv

LEMMA SoundStill ==
  ASSUME TeardownInv, SoleInv, SoundInv, NEW c \in Conns,
         \/ Close(c) \/ (\E x \in Streams(c) : ClientHello(x, c) \/ AuthFails(x, c)) \/ KickCheck(c)
         \/ SecondStream(c) \/ SecondEnds(c) \/ TornDown(Accept(c)) \/ TornDown(Kick(c))
  PROVE  SoundInv'
  <1> USE ActorTypes, SideTypes
  <1>0. \A y \in Actors : SameCall(job[y], job[y])
    BY DEF SameCall
  <1>1. CASE Close(c) \/ \E x \in Streams(c) : AuthFails(x, c)
    <2>1. \A x \in Streams(c) : job[x].pc = "idle" => link[c] # "none"
      BY DEF SoleInv, Tables, Fresh, Streams
    <2>2. /\ link[c] # "none" /\ link' = [link EXCEPT ![c] = "closed"] /\ collided \subseteq collided'
          /\ UNCHANGED <<torn, authed, ctrl, table, shown, left, job>>
      BY <1>1, <2>1 DEF Close, AuthFails, Begins, seen
    <2>3. \A d \in Conns : (link'[d] = "none") = (link[d] = "none")
      BY <2>2 DEF SoleInv, Tables, Links
    <2> QED
      BY <1>0, <2>2, <2>3, StillMove
  <1>2. CASE \E x \in Streams(c) : ClientHello(x, c)
    <2>1. collided \subseteq collided' /\ UNCHANGED <<link, torn, authed, ctrl, table, shown, left, job>>
      BY <1>2 DEF ClientHello, Begins, seen
    <2> QED
      BY <1>0, <2>1, StillMove
  <1>a. ASSUME NEW x \in {Accept(c), Kick(c), Side(c)}, UNCHANGED <<link, authed, torn, ctrl, table, shown, left, collided>>,
               NEW s, Moves(x, s), s.call = "no", job[x].call = "no", s.pc # "plugins", job[x].pc # "plugins",
               s.pc \notin Minting \cup Dropping
        PROVE  SoundInv'
    <2>0. x \in Actors
      BY <1>a
    <2>b. \A d \in Conns : x # Read(d)
      BY <1>a DEF Read, Accept, Kick, Side
    <2>2. \A y \in Actors : /\ SameCall(job'[y], job[y]) \/ (job[y].call = "no" /\ job'[y].call = "no")
                            /\ \A d \in Conns : y = Read(d) => job'[y] = job[y]
                            /\ \A d \in Conns : y = Accept(d) => (job'[y].pc = "plugins") = (job[y].pc = "plugins")
                            /\ \A d \in Conns : y = Side(d) =>
                                  job'[y] = job[y] \/ job'[y].pc \notin Minting \cup Dropping
      BY <1>0, <1>a, <2>0, <2>b DEF Moves
    <2> QED
      BY <1>a, <2>2, StillMove
  <1>3. CASE KickCheck(c)
    <2>1. PICK s : Moves(Kick(c), s) /\ s.pc = "kick" /\ SameCall(s, job[Kick(c)])
      BY <1>3, GotoMoves DEF KickCheck, Steps
    <2>2. job[Kick(c)].pc = "idle" /\ job[Kick(c)].call = "no"
      BY <1>3, JobFacts DEF KickCheck, Called
    <2>3. UNCHANGED <<link, authed, torn, ctrl, table, shown, left, collided>>
      BY <1>3 DEF KickCheck, conn, seen
    <2> QED
      BY <1>a, <2>1, <2>2, <2>3 DEF SameCall, Minting, Dropping
  <1>4. ASSUME NEW x \in {Accept(c), Kick(c)}, TornDown(x) PROVE SoundInv'
    <2>1. x \in Actors
      OBVIOUS
    <2>2. PICK s : Moves(x, s) /\ s.pc = "done" /\ s.call = "no"
      BY <1>4, <2>1, EndsMoves DEF TornDown, Steps
    <2>3. UNCHANGED <<link, authed, torn, ctrl, table, shown, left, collided>>
          /\ job[x].call = "no" /\ job[x].pc = "close"
      BY <1>4 DEF TornDown, conn, seen
    <2> QED
      BY <1>a, <2>2, <2>3 DEF Minting, Dropping
  <1>5. CASE SecondStream(c) \/ SecondEnds(c)
    <2>1. PICK p \in {"none", "idle"} : Goto(Side(c), p)
      BY <1>5 DEF SecondStream, SecondEnds
    <2>2. PICK s : s = [job[Side(c)] EXCEPT !.pc = p]
      OBVIOUS
    <2>3. job[Side(c)].pc \in {"none", "idle"} /\ job[Side(c)].call = "no" /\ job[Side(c)] \in JobStates /\ Typed
      BY <1>5, JobFacts DEF SecondStream, SecondEnds, Called, TeardownInv
    <2>4. s \in JobStates /\ s.pc = p /\ s.call = "no"
      BY <2>2, <2>3 DEF JobStates
    <2>5. job' = [job EXCEPT ![Side(c)] = s]
      BY <2>1, <2>2 DEF Goto
    <2>6. Moves(Side(c), s)
      BY <2>3, <2>4, <2>5, JobUpdate DEF Moves
    <2>7. UNCHANGED <<link, authed, torn, ctrl, table, shown, left, collided>>
      BY <1>5 DEF SecondStream, SecondEnds, conn, seen
    <2> QED
      BY <1>a, <2>3, <2>4, <2>6, <2>7 DEF Minting, Dropping
  <1> QED
    BY <1>1, <1>2, <1>3, <1>4, <1>5

LEMMA SoundClaim ==
  ASSUME TeardownInv, SoleInv, SoundInv, NEW c \in Conns, ReadEnds(c) \/ AcceptEnds(c)
  PROVE  SoundInv'
  <1> USE ActorTypes
  <1>1. PICK x \in {Read(c), Accept(c)} : Claim(x, c) /\ (x = Read(c) => job[x].pc = "idle")
                                          /\ (x = Accept(c) => job[x].pc = "wait")
    BY DEF ReadEnds, AcceptEnds
  <1>2. x \in Actors /\ job[x].pc \in {"idle", "wait"} /\ job[x].call = "no" /\ Fresh(c)
    BY <1>1, JobFacts DEF Called, SoleInv, Tables
  <1>3. UNCHANGED <<link, authed, ctrl, members, owner, placed, sessions, shown, left>>
    BY DEF ReadEnds, AcceptEnds, conn, table, seen
  <1>4. PICK p \in {"done", "plugins"} : Goto(x, p) /\ (p = "done" <=> c \in torn)
    BY <1>1 DEF Claim
  <1>5. PICK s : Moves(x, s) /\ s.pc = p /\ SameCall(s, job[x])
    BY <1>2, <1>4, GotoMoves DEF Steps
  <1>6. torn' = torn \cup {c} /\ collided \subseteq collided'
        /\ (c \notin torn /\ x # Read(c) /\ Handling(c) => c \in collided')
    BY <1>1 DEF Claim
  <1>7. Touches(c) /\ link[c] # "none"
    BY <1>1, <1>2, <1>3, <1>6 DEF Touches, Fresh
  <1>8. ASSUME c \notin collided' PROVE ~Handling(c) /\ (Front(c) => Front(c)')
    <2>1. Sound(c)
      BY <1>6, <1>8 DEF SoundInv
    <2>2. ~Handling(c)
      <3>1. CASE c \in torn
        BY <2>1, <3>1 DEF Sound, Going, Ending
      <3>2. CASE x = Read(c)
        BY <1>1, <3>2 DEF Handling
      <3> QED
        BY <1>6, <1>8, <3>1, <3>2
    <2>3. ASSUME Front(c) PROVE Front(c)'
      <3>1. CASE c \notin torn
        <4>1. job'[x].pc = "plugins"
          BY <1>4, <1>5, <3>1 DEF Moves
        <4> QED
          BY <1>1, <1>6, <4>1 DEF Front, Read, Accept
      <3>2. CASE c \in torn
        <4>1. \A y \in Actors : On(y, c, Before) => On(y, c, Before)'
          BY <1>2, <1>5 DEF On, Moves, SameCall, Before, Parting
        <4>2. \A y \in {Read(c), Accept(c)} : job[y].pc = "plugins" => job'[y].pc = "plugins"
          BY <1>2, <1>5 DEF Moves
        <4> QED
          BY <1>3, <1>6, <2>3, <3>2, <4>1, <4>2 DEF Front, Read, Accept
      <3> QED
        BY <3>1, <3>2
    <2> QED
      BY <2>2, <2>3
  <1>9. /\ \A d \in Conns \ {c} : x # Accept(d) /\ x # Read(d)
        /\ s.call = "no" /\ s.pc \in {"plugins", "close", "done"} /\ s.pc \notin Hiding \cup Minting \cup Dropping
    BY <1>2, <1>5 DEF SameCall, Hiding, Minting, Dropping
  <1>10. job[x].pc # "none" /\ UNCHANGED <<authed, ctrl, members, owner, placed, sessions, shown, left>>
    BY <1>2, <1>3
  <1> QED
    BY <1>2, <1>5, <1>7, <1>8, <1>9, <1>10, RestMove

(* A call of cleanup_client begins, on a connection that no handler serves. *)
LEMMA SoundStart ==
  ASSUME TeardownInv, SoleInv, SoundInv, NEW c \in Conns, Touches(c),
         UNCHANGED <<authed, ctrl, members, owner, placed, sessions, shown, left>>,
         NEW x \in Actors, NEW s, Moves(x, s), job[x].call = "no", job[x].pc # "none", link[c] # "none",
         s.call = "start", s.target = c,
         \/ x \in {Read(c), Accept(c), Kick(c)} /\ s.pc = "close"
         \/ s.pc = "evicting" /\ job[x].pc = "evicting" /\ \E d \in Conns : x \in Streams(d),
         c \notin collided' => ~Handling(c),
         x = Read(c) \/ c \in torn => c \in torn'
  PROVE  SoundInv'
  <1> USE ActorTypes, SideTypes DEF Streams
  <1>1. /\ \A d \in Conns : x = Read(d) => s.pc \in {"plugins", "close", "done"} \/ s.pc = job[x].pc
        /\ s.pc \notin Hiding \cup Minting \cup Dropping
    BY DEF Hiding, Minting, Dropping
  <1>2. ASSUME NEW d \in Conns \ {c} PROVE x # Accept(d) /\ (x = Read(d) => s.pc = job[x].pc)
    BY DEF Read, Accept, Kick
  <1>3. ASSUME c \notin collided' PROVE x = Read(c) => s.pc \in {"plugins", "close", "done"}
    BY <1>3 DEF Handling
  <1>4. ASSUME c \notin collided', Front(c) PROVE Front(c)'
    <2>1. On(x, c, Before)'
      BY DEF On, Before, Moves
    <2>2. Read(c) # x => job'[Read(c)].pc = job[Read(c)].pc
      BY DEF Moves
    <2> QED
      BY <1>4, <2>1, <2>2 DEF Front, Read
  <1> QED
    BY <1>1, <1>2, <1>3, <1>4, RestMove

LEMMA SoundTeardown ==
  ASSUME TeardownInv, SoleInv, SoundInv, NEW c \in Conns,
         \/ TellPlugins(Read(c), c) \/ TellPlugins(Accept(c), c) \/ KickClose(c) \/ TornDown(Read(c))
  PROVE  SoundInv'
  <1> USE ActorTypes
  <1>0. Typed /\ Links /\ Fresh(c) /\ Once(c)
    BY DEF SoleInv, Tables, TeardownInv
  <1>a. ASSUME NEW x \in {Read(c), Accept(c), Kick(c)}, job[x].pc \in {"plugins", "kick"},
               job' = [job EXCEPT ![x].pc = "close", ![x].call = "start", ![x].target = c]
        PROVE  \E s : /\ Moves(x, s) /\ s.pc = "close" /\ s.call = "start" /\ s.target = c
                      /\ x \in Actors /\ job[x].call = "no" /\ job[x].pc # "none" /\ link[c] # "none"
    <2>1. x \in Actors /\ job[x] \in JobStates /\ job[x].call = "no" /\ link[c] # "none"
      BY <1>0, <1>a, JobFacts DEF Called, Fresh
    <2>2. PICK s : s = [job[x] EXCEPT !.pc = "close", !.call = "start", !.target = c]
      OBVIOUS
    <2>3. s \in JobStates /\ s.pc = "close" /\ s.call = "start" /\ s.target = c
      BY <2>1, <2>2 DEF JobStates
    <2>4. job' = [job EXCEPT ![x] = s]
      BY <1>a, <2>2
    <2>5. Moves(x, s)
      BY <1>0, <2>1, <2>3, <2>4, JobUpdate DEF Moves
    <2> QED
      BY <1>a, <2>1, <2>3, <2>5
  <1>1. ASSUME NEW x \in {Read(c), Accept(c)}, TellPlugins(x, c) PROVE SoundInv'
    <2>1. PICK s : /\ Moves(x, s) /\ s.pc = "close" /\ s.call = "start" /\ s.target = c
                   /\ x \in Actors /\ job[x].call = "no" /\ job[x].pc # "none" /\ link[c] # "none"
      BY <1>1, <1>a DEF TellPlugins
    <2>2. UNCHANGED <<link, torn, authed, ctrl, members, owner, placed, sessions, shown, left, collided>>
      BY <1>1 DEF TellPlugins, conn, table
    <2>3. Touches(c)
      BY <2>2 DEF Touches
    <2>4. c \in torn
      BY <1>0, <1>1 DEF Once, TellPlugins
    <2>5. c \notin collided' => ~Handling(c)
      BY <2>2, <2>4 DEF SoundInv, Sound, Going, Ending
    <2>6. UNCHANGED <<authed, ctrl, members, owner, placed, sessions, shown, left>> /\ c \in torn'
      BY <2>2, <2>4
    <2> QED
      BY <2>1, <2>3, <2>5, <2>6, SoundStart
  <1>2. CASE KickClose(c)
    <2>1. PICK s : /\ Moves(Kick(c), s) /\ s.pc = "close" /\ s.call = "start" /\ s.target = c
                   /\ Kick(c) \in Actors /\ job[Kick(c)].call = "no" /\ job[Kick(c)].pc # "none" /\ link[c] # "none"
      BY <1>2, <1>a DEF KickClose
    <2>2. UNCHANGED <<authed, ctrl, members, owner, placed, sessions, shown, left>> /\ torn' = torn
      BY <1>2 DEF KickClose, table, seen
    <2>3. collided \subseteq collided' /\ (c \notin collided' => ~Handling(c))
      BY <1>2 DEF KickClose
    <2>4. \A d \in Conns : (link'[d] = "none") = (link[d] = "none")
      BY <1>0, <1>2, <2>1 DEF KickClose, Links
    <2>5. Touches(c)
      BY <2>2, <2>3, <2>4 DEF Touches
    <2>6. UNCHANGED <<authed, ctrl, members, owner, placed, sessions, shown, left>>
      BY <2>2
    <2> QED
      BY <2>1, <2>2, <2>3, <2>5, <2>6, SoundStart
  <1>3. CASE TornDown(Read(c))
    <2>1. PICK s : Moves(Read(c), s) /\ s.pc = "done" /\ s.call = "no"
      BY <1>3, EndsMoves DEF TornDown, Steps
    <2>2. UNCHANGED <<link, torn, authed, ctrl, members, owner, placed, sessions, shown, left, collided>>
      BY <1>3 DEF TornDown, conn, table, seen
    <2>3. Touches(c)
      BY <2>2 DEF Touches
    <2>4. job[Read(c)].pc = "close" /\ job[Read(c)].call = "no" /\ link[c] # "none"
      BY <1>0, <1>3 DEF TornDown, Fresh
    <2>5. ~Handling(c)
      BY <2>4 DEF Handling
    <2>6. ASSUME Front(c) PROVE Front(c)'
      <3>1. \A y \in Actors : On(y, c, Before) => On(y, c, Before)'
        BY <2>1, <2>4 DEF On, Moves, Before, Parting
      <3>2. job'[Accept(c)] = job[Accept(c)] /\ job'[Read(c)].pc = "done"
        BY <2>1 DEF Moves
      <3> QED
        BY <2>2, <2>4, <2>6, <3>1, <3>2 DEF Front, Read, Accept
    <2>7. /\ \A d \in Conns \ {c} : Read(c) # Accept(d) /\ Read(c) # Read(d)
          /\ s.pc \in {"plugins", "close", "done"} /\ s.pc \notin Hiding \cup Minting \cup Dropping
      BY <2>1 DEF Hiding, Minting, Dropping
    <2>8. UNCHANGED <<authed, ctrl, members, owner, placed, sessions, shown, left>>
      BY <2>2
    <2> QED
      BY <2>1, <2>3, <2>4, <2>5, <2>6, <2>7, <2>8, RestMove
  <1> QED
    BY <1>1, <1>2, <1>3

(* One round of a takeover, on either stream, that tears d down *)
LEMMA SoundEvictStart ==
  ASSUME TeardownInv, SoleInv, SoundInv, NEW c \in Conns, NEW x \in Streams(c), NEW d \in Conns,
         Evict(x, c, d), d \in members /\ d \notin torn
  PROVE  SoundInv'
  <1> USE StreamTypes
  <1>0. Typed /\ Links /\ Fresh(d) /\ x \in Actors
    BY ActorTypes DEF SoleInv, Tables, TeardownInv
  <1>1. job[x] \in JobStates /\ job[x].pc = "evicting" /\ job[x].call = "no"
    BY <1>0 DEF Evict, Typed
  <1>2. PICK o : o = job[x].old \ {d}
    OBVIOUS
  <1>3. o \in SUBSET Conns
    BY <1>1, <1>2 DEF JobStates
  <1>4. UNCHANGED <<authed, ctrl, members, owner, placed, sessions, shown, left>>
    BY DEF Evict, table
  <1>5. PICK s : s = [job[x] EXCEPT !.old = o, !.call = "start", !.target = d]
    OBVIOUS
  <1>6. s \in JobStates /\ s.pc = "evicting" /\ s.call = "start" /\ s.target = d
    BY <1>1, <1>3, <1>5 DEF JobStates
  <1>7. job' = [job EXCEPT ![x] = s]
    BY <1>2, <1>5 DEF Evict
  <1>8. Moves(x, s)
    BY <1>0, <1>6, <1>7, JobUpdate DEF Moves
  <1>9. torn' = torn \cup {d} /\ link' = [link EXCEPT ![d] = "closed"]
        /\ collided \subseteq collided' /\ (d \notin collided' => ~Handling(d))
    BY DEF Evict
  <1>10. link[d] # "none"
    BY <1>0 DEF Fresh
  <1>11. Touches(d)
    BY <1>0, <1>4, <1>9, <1>10 DEF Touches, Links
  <1>12. d \in torn' /\ \E e \in Conns : x \in Streams(e)
    BY <1>9
  <1> QED
    BY <1>0, <1>1, <1>4, <1>6, <1>8, <1>9, <1>10, <1>11, <1>12, SoundStart

LEMMA SoundEvict ==
  ASSUME TeardownInv, SoleInv, SoundInv, NEW c \in Conns, NEW d \in Conns, Evict(Read(c), c, d)
  PROVE  SoundInv'
  <1> USE ActorTypes
  <1>0. Typed /\ Whole /\ Kinds
    BY DEF TeardownInv, SoundInv, Whole
  <1>1. job[Read(c)] \in JobStates /\ job[Read(c)].pc = "evicting" /\ job[Read(c)].call = "no"
    BY <1>0 DEF Evict, Typed
  <1>2. PICK o : o = job[Read(c)].old \ {d}
    OBVIOUS
  <1>3. o \in SUBSET Conns
    BY <1>1, <1>2 DEF JobStates
  <1>4. UNCHANGED <<authed, ctrl, members, owner, placed, sessions, shown, left>>
    BY DEF Evict, table
  <1>5. CASE d \in members /\ d \notin torn
    BY <1>5, SoundEvictStart DEF Streams
  <1>6. CASE ~(d \in members /\ d \notin torn)
    <2>1. PICK s : s = [job[Read(c)] EXCEPT !.old = o]
      OBVIOUS
    <2>2. s \in JobStates /\ s.pc = "evicting" /\ s.call = "no"
      BY <1>1, <1>3, <2>1 DEF JobStates
    <2>3. job' = [job EXCEPT ![Read(c)] = s]
      BY <1>2, <1>6, <2>1 DEF Evict
    <2>4. Moves(Read(c), s)
      BY <1>0, <2>2, <2>3, JobUpdate DEF Moves
    <2>5. UNCHANGED <<link, torn, collided>>
      BY <1>6 DEF Evict
    <2>6. OnlyAt(c)
      BY <1>0, <1>4, <2>5 DEF OnlyAt, Kinds
    <2>7. HandlerOK(c, job[Read(c)]) /\ Known(c)
      BY <1>0 DEF Whole
    <2>8. c \in authed' /\ (c \in ctrl' => c \in collided') /\ Handling(c)
      BY <1>1, <1>4, <2>5, <2>7 DEF HandlerOK, Entering, Handling
    <2>9. c \notin collided' /\ Lively(c, job[Read(c)]) => left'[c] = 0
      BY <1>4, <2>8 DEF Lively
    <2> QED
      BY <1>1, <1>4, <2>2, <2>4, <2>6, <2>8, <2>9, PlainMove DEF Minting, Dropping, Hiding
  <1> QED
    BY <1>5, <1>6

-----------------------------------------------------------------------------
(* A handler on the second stream of c, which is recorded in collided *)
LEMMA SideTouches ==
  ASSUME TeardownInv, SoleInv, SoundInv, NEW c \in Conns, SideWork(c), torn' = torn
  PROVE  Touches(c) /\ Kinds'
  <1> USE SideTypes
  <1>0. /\ Kinds /\ AtPart(c, job[Side(c)]) /\ c \in Ids /\ c \notin Parts /\ c # None
        /\ \A i \in Parts : i \in Ids
    BY SessionConstants DEF SoundInv, Whole, Ids
  <1>1. /\ authed \subseteq authed' /\ ctrl' = ctrl /\ collided \subseteq collided'
        /\ \A d \in Conns : (link'[d] = "none") = (link[d] = "none")
    BY SideTame DEF Tame
  <1>a. ASSUME UNCHANGED <<members, owner>>,
               \A i \in Ids \ {c} : (i \in placed' <=> i \in placed) /\ (i \in shown' <=> i \in shown) /\ left'[i] = left[i],
               \A d \in Conns \ {c} : d \in sessions' <=> d \in sessions,
               left' \in [Ids -> Nat]
        PROVE  Touches(c) /\ Kinds'
    BY <1>0, <1>1, <1>a DEF Touches, Kinds
  <1>b. ASSUME NEW p \in Parts, sessions' = sessions, owner' \in [Parts -> Conns \cup {None}], left' \in [Ids -> Nat],
               owner[p] \in {c, None}, owner'[p] = c, \A i \in Parts \ {p} : owner'[i] = owner[i],
               \A i \in Ids \ {p} : /\ (i \in members' <=> i \in members) /\ (i \in placed' <=> i \in placed)
                                    /\ (i \in shown' <=> i \in shown) /\ left'[i] = left[i]
        PROVE  Touches(c) /\ Kinds'
    BY <1>0, <1>1, <1>b DEF Touches, Kinds
  <1>2. CASE \/ Authenticate(Side(c), c) \/ ControllerHello(Side(c), c) \/ ListSuperseded(Side(c), c)
             \/ (\E d \in Conns : Evict(Side(c), c, d)) \/ Evicted(Side(c), c) \/ SendState(Side(c), c)
    <2>1. UNCHANGED <<members, owner, placed, sessions, shown, left>>
      BY <1>2 DEF Authenticate, ControllerHello, ListSuperseded, Evict, Evicted, SendState, table, seen
    <2> QED
      BY <1>0, <1>a, <2>1 DEF Kinds
  <1>3. CASE AddSession(Side(c), c) \/ SetUserRoom(Side(c), c) \/ HideController(Side(c), c)
    <2>1. /\ UNCHANGED <<members, owner, shown, left>> /\ sessions' \in {sessions, sessions \cup {c}}
          /\ placed' \in {placed, placed \cup {c}, placed \ {c}}
      BY <1>3 DEF AddSession, SetUserRoom, HideController, seen
    <2> QED
      BY <1>0, <1>a, <2>1 DEF Kinds
  <1>4. CASE AnnounceJoined(Side(c), c)
    <2>1. UNCHANGED <<members, owner, placed, sessions, left>> /\ shown' = shown \cup {c}
      BY <1>4 DEF AnnounceJoined, BroadcastJoined, table
    <2> QED
      BY <1>0, <1>a, <2>1 DEF Kinds
  <1>5. CASE AnnounceHidden(Side(c), c)
    <2>1. /\ UNCHANGED <<members, owner, placed, sessions>> /\ shown' = shown \ {c}
          /\ left' = [left EXCEPT ![c] = left[c] + 1]
      BY <1>5 DEF AnnounceHidden, BroadcastLeft, table
    <2> QED
      BY <1>0, <1>a, <2>1 DEF Kinds
  <1>6. ASSUME NEW p \in Parts, RegisterParticipant(Side(c), c, p) PROVE Touches(c) /\ Kinds'
    <2>1. /\ owner[p] = None /\ owner' = [owner EXCEPT ![p] = c] /\ members' = members \cup {p}
          /\ UNCHANGED <<placed, sessions, shown, left>>
      BY <1>6 DEF RegisterParticipant, seen
    <2> QED
      BY <1>0, <1>b, <2>1 DEF Kinds
  <1>7. ASSUME NEW p \in Parts, UnregisterParticipant(Side(c), c, p) PROVE Touches(c) /\ Kinds'
    <2>1. UNCHANGED <<members, owner, placed, sessions, shown, left>>
      BY <1>7 DEF UnregisterParticipant, table, seen
    <2> QED
      BY <1>0, <1>a, <2>1 DEF Kinds
  <1>c. ASSUME job[Side(c)].pc \in Minting \cup Dropping
        PROVE  job[Side(c)].part \in Parts /\ owner[job[Side(c)].part] = c
    BY <1>0, <1>c DEF AtPart
  <1>8. CASE \/ PlaceParticipant(Side(c), c) \/ AnnounceParticipant(Side(c), c) \/ DropParticipant(Side(c), c)
             \/ UnplaceParticipant(Side(c), c) \/ AnnounceDropped(Side(c), c)
    <2>1. PICK p \in Parts : p = job[Side(c)].part /\ owner[p] = c
      BY <1>8, <1>c DEF PlaceParticipant, AnnounceParticipant, DropParticipant, UnplaceParticipant,
                        AnnounceDropped, Minting, Dropping
    <2>2. /\ UNCHANGED <<owner, sessions>> /\ members' \in {members, members \ {p}}
          /\ placed' \in {placed, placed \cup {p}, placed \ {p}}
          /\ shown' \in {shown, shown \cup {p}, shown \ {p}}
          /\ left' = left \/ left' = [left EXCEPT ![p] = left[p] + 1]
      BY <1>8, <2>1 DEF PlaceParticipant, AnnounceParticipant, DropParticipant, UnplaceParticipant,
                        AnnounceDropped, BroadcastJoined, BroadcastLeft, table, seen
    <2>3. left' \in [Ids -> Nat] /\ \A i \in Ids \ {p} : left'[i] = left[i]
      BY <1>0, <2>1, <2>2 DEF Kinds
    <2>4. \A i \in Ids \ {p} : /\ (i \in members' <=> i \in members) /\ (i \in placed' <=> i \in placed)
                                /\ (i \in shown' <=> i \in shown)
      BY <2>2
    <2>5. owner' \in [Parts -> Conns \cup {None}] /\ owner'[p] = c /\ \A i \in Parts \ {p} : owner'[i] = owner[i]
      BY <1>0, <2>1, <2>2 DEF Kinds
    <2> QED
      BY <1>b, <2>1, <2>2, <2>3, <2>4, <2>5
  <1> QED
    BY <1>2, <1>3, <1>4, <1>5, <1>6, <1>7, <1>8 DEF SideWork, HandlerStep

LEMMA SoundSide ==
  ASSUME TeardownInv, SoleInv, SoundInv, NEW c \in Conns, SideWork(c)
  PROVE  SoundInv'
  <1> USE SideTypes
  <1>1. CASE torn' # torn
    <2>1. PICK d \in Conns : Evict(Side(c), c, d) /\ d \in members /\ d \notin torn
      BY <1>1 DEF SideWork, HandlerStep, Authenticate, ControllerHello, RegisterParticipant, UnregisterParticipant,
              ListSuperseded, Evict, Evicted, AddSession, SetUserRoom, SendState,
              AnnounceJoined, HideController, AnnounceHidden, PlaceParticipant, AnnounceParticipant,
              DropParticipant, UnplaceParticipant, AnnounceDropped
    <2> QED
      BY <2>1, SoundEvictStart DEF Streams
  <1>2. CASE torn' = torn
    <2>0. Typed /\ Whole /\ Kinds /\ AtPart(c, job[Side(c)])
      BY DEF TeardownInv, SoundInv, Whole
    <2>1. Touches(c) /\ Kinds'
      BY <1>2, SideTouches
    <2>2. PICK s : SideMoves(c, s)
      BY SideSteps
    <2>3. job[Side(c)].call = "no" /\ s.call = "no"
      BY <1>2, <2>2 DEF SideMoves, Starting
    <2>4. Moves(Side(c), s)
      BY <2>0, <2>2, JobUpdate DEF SideMoves, Moves
    <2>5. ctrl' = ctrl /\ c \in collided' /\ c \in authed' /\ link[c] # "none" /\ collided \subseteq collided'
      BY SideTame DEF Tame
    <2>6. AtPart(c, s)'
      <3>1. ASSUME s.pc \in Minting \cup Dropping PROVE s.part \in Parts /\ owner'[s.part] = c
        <4>1. CASE s.part \in Parts /\ owner' = [owner EXCEPT ![s.part] = c]
          BY <2>0, <4>1 DEF Kinds
        <4>2. CASE s.part \in Parts /\ owner[s.part] = c /\ owner' = owner
          BY <4>2
        <4>3. CASE job[Side(c)].pc \in Minting \cup Dropping /\ s.part = job[Side(c)].part
          BY <2>0, <2>1, <4>3, SessionConstants DEF AtPart, Touches
        <4> QED
          BY <2>2, <3>1, <4>1, <4>2, <4>3 DEF SideMoves
      <3> QED
        BY <3>1 DEF AtPart
    <2>7. Known(c)'
      BY <2>1, <2>5 DEF Known, Touches
    <2>8. Whole'
      <3>1. CallOK(s)'
        BY <2>3 DEF CallOK, Parting
      <3>2. \A d \in Conns : Side(c) # Read(d) /\ (Side(c) = Side(d) => AtPart(d, s)')
        BY <2>6
      <3>3. Side(c) \in Actors /\ c \notin ctrl' \ ctrl
        BY <2>5
      <3> QED
        BY <2>0, <2>1, <2>4, <2>5, <2>7, <3>1, <3>2, <3>3, TouchesWhole
    <2>9. ASSUME NEW d \in Conns \ collided' PROVE Sound(d)'
      <3>1. d # c /\ d \notin collided
        BY <2>5, <2>9
      <3>2. Sound(d) /\ Keeps(d)
        BY <2>0, <2>1, <3>1, TouchesKeeps DEF SoundInv
      <3>3. Ignores(Side(c), s, d)
        BY <2>3, <3>1 DEF Ignores, Busy
      <3> QED
        BY <2>0, <2>4, <2>8, <3>2, <3>3, MovesApart, ViewSame
    <2> QED
      BY <2>8, <2>9 DEF SoundInv
  <1> QED
    BY <1>1, <1>2

LEMMA SoundConnect ==
  ASSUME TeardownInv, SoleInv, SoundInv, NEW c \in Conns, Connect(c)
  PROVE  SoundInv'
  <1> USE ActorTypes, SideTypes
  <1>0. /\ Whole /\ job \in [Actors -> JobStates] /\ link[c] = "none" /\ Fresh(c) /\ Known(c) /\ Links
        /\ \A x \in Actors : Called(x)
    BY DEF SoleInv, Tables, TeardownInv, Typed, Connect, SoundInv, Whole
  <1>1. /\ members' = members \cup {c} /\ UNCHANGED <<authed, torn, ctrl, owner, placed, sessions, shown, left, collided>>
        /\ link' = [link EXCEPT ![c] = "open"]
    BY DEF Connect, seen
  <1>2. ASSUME NEW x \in Actors
        PROVE  /\ SameCall(job'[x], job[x])
               /\ x \notin {Read(c), Accept(c), Kick(c)} => job'[x] = job[x]
               /\ x = Read(c) => job'[x].pc = "idle"
    <2>1. job[x] \in JobStates
      BY <1>0
    <2>2. job'[x] = IF x = Read(c) THEN [job[x] EXCEPT !.pc = "idle"]
                    ELSE IF x = Accept(c) THEN [job[x] EXCEPT !.pc = "wait"]
                    ELSE IF x = Kick(c) THEN [job[x] EXCEPT !.pc = "idle"] ELSE job[x]
      BY <1>0 DEF Connect
    <2> QED
      BY <2>1, <2>2 DEF JobStates, SameCall
  <1>3. c \notin authed /\ c \notin ctrl /\ c \notin shown /\ left[c] = 0 /\ c \notin torn /\ c \in Ids /\ c \notin Parts /\ c # None
    BY <1>0, SessionConstants DEF Fresh, Known, Ids
  <1>4. Whole'
    <2>1. \A x \in Actors : CallOK(job[x])'
      BY <1>0, <1>1, <1>2 DEF Whole, CallOK, SameCall, Parting
    <2>2. ASSUME NEW d \in Conns PROVE HandlerOK(d, job[Read(d)])'
      <3>1. CASE d = c
        <4>1. job'[Read(c)].pc = "idle"
          BY <1>2
        <4> QED
          BY <3>1, <4>1 DEF HandlerOK, Read, Entering, Hiding, Minting, Dropping
      <3>2. CASE d # c
        <4>1. job'[Read(d)] = job[Read(d)] /\ HandlerOK(d, job[Read(d)])
          BY <1>0, <1>2, <3>2 DEF Whole, Read, Accept, Kick
        <4> QED
          BY <1>1, <4>1 DEF HandlerOK, Read
      <3> QED
        BY <3>1, <3>2
    <2>6. ASSUME NEW d \in Conns PROVE AtPart(d, job[Side(d)])'
      <3>1. job'[Side(d)] = job[Side(d)] /\ AtPart(d, job[Side(d)])
        BY <1>0, <1>2 DEF Whole
      <3> QED
        BY <1>1, <3>1 DEF AtPart, Side
    <2>3. ASSUME NEW d \in Conns PROVE Known(d)'
      <3>1. Known(d) /\ (link'[d] = "none" => link[d] = "none")
        BY <1>0, <1>1 DEF Whole, Links
      <3> QED
        BY <1>1, <3>1 DEF Known
    <2>4. ASSUME NEW i \in Parts PROVE Unused(i)'
      BY <1>0, <1>1, <1>3 DEF Whole, Unused
    <2>5. Kinds'
      BY <1>0, <1>1 DEF Whole, Kinds
    <2> QED
      BY <2>1, <2>2, <2>3, <2>4, <2>5, <2>6 DEF Whole
  <1>5. ASSUME NEW d \in Conns \ collided', d # c PROVE Sound(d)'
    <2>1. Sound(d)
      BY <1>1, <1>5 DEF SoundInv
    <2>2. Keeps(d)
      BY <1>1, <1>3, <1>5 DEF Keeps, Stays
    <2>3. job'[Read(d)] = job[Read(d)] /\ job'[Accept(d)] = job[Accept(d)]
      BY <1>2, <1>5 DEF Read, Accept, Kick
    <2>4. Apart(d)
      BY <1>2, <2>3 DEF Apart
    <2> QED
      BY <1>0, <1>4, <2>1, <2>2, <2>4, ViewSame
  <1>6. ASSUME c \notin collided' PROVE Sound(c)'
    <2>1. PICK s : s = job'[Read(c)]
      OBVIOUS
    <2>2. s.pc = "idle"
      BY <1>2, <2>1
    <2>3. \A i \in Parts : owner'[i] # c
      BY <1>0, <1>1, <1>3, <1>6 DEF Whole, Unused
    <2>4. Lively(c, s)'
      BY <1>1, <1>3, <2>2, <2>3 DEF Lively, Hiding
    <2>5. ~Ending(c)'
      <3>1. \A x \in Actors : job'[x].target # c
        BY <1>0, <1>2 DEF Fresh, SameCall
      <3> QED
        BY <1>1, <1>3, <3>1 DEF Ending, Cleaning
    <2> QED
      BY <1>4, <2>1, <2>4, <2>5, FromLively
  <1> QED
    BY <1>4, <1>5, <1>6 DEF SoundInv

-----------------------------------------------------------------------------
(* The steps of cleanup_client, called by x on t *)
LEMMA CleanMove ==
  ASSUME TeardownInv, SoleInv, SoundInv, NEW x \in Actors, NEW t \in Conns, job[x].call # "no", job[x].target = t,
         NEW s, Moves(x, s), s.pc = job[x].pc, s.call = "no" \/ s.target = t,
         Touches(t), UNCHANGED <<torn, authed, ctrl, owner, collided>>, Kinds', CallOK(s)',
         t \in placed' \cup shown' \cup sessions' => t \in placed \cup shown \cup sessions,
         t \notin collided /\ Front(t) /\ Back(t) => Front(t)' /\ Back(t)'
  PROVE  SoundInv'
  <1> USE ActorTypes
  <1>0. /\ Whole /\ Fresh(t) /\ Called(x) /\ Known(t)
    BY JobFacts DEF SoundInv, SoleInv, Tables, Whole
  <1>1. link[t] # "none" /\ job[x].pc \in {"evicting", "close"}
    BY <1>0 DEF Fresh, Called
  <1>2. Whole'
    <2>1. ASSUME NEW d \in Conns, x = Read(d) PROVE HandlerOK(d, s)'
      <3>1. HandlerOK(d, job[Read(d)])
        BY <1>0 DEF Whole
      <3> QED
        BY <1>1, <2>1, <3>1 DEF HandlerOK, Hiding, Minting, Dropping
    <2>5. \A d \in Conns : AtPart(d, s)'
      BY <1>1 DEF AtPart, Minting, Dropping
    <2>2. Known(t)'
      BY <1>0, <1>1 DEF Known, Touches
    <2>3. \A i \in Parts : owner'[i] = t => t \in ctrl' \cup collided'
      BY <1>0, SessionConstants DEF Whole, Unused
    <2>4. t \notin ctrl' \ ctrl
      OBVIOUS
    <2> QED
      BY <1>0, <2>1, <2>2, <2>3, <2>4, <2>5, TouchesWhole
  <1>3. ASSUME NEW d \in Conns \ collided', d # t PROVE Sound(d)'
    <2>1. Sound(d) /\ Keeps(d)
      BY <1>0, <1>3, TouchesKeeps DEF SoundInv
    <2>2. Ignores(x, s, d)
      BY <1>1, <1>3 DEF Ignores, Busy, Minting, Dropping
    <2> QED
      BY <1>0, <1>2, <2>1, <2>2, MovesApart, ViewSame
  <1>4. ASSUME t \notin collided' PROVE Sound(t)'
    <2>1. Sound(t) /\ Ending(t)
      BY <1>4 DEF SoundInv, Ending, Cleaning
    <2>2. ~Handling(t)
      BY <2>1 DEF Sound, Going
    <2>3. Front(t)' /\ Back(t)'
      BY <1>4, <2>1, <2>2, ToBack
    <2>4. ~Handling(t)'
      <3>1. job'[Read(t)].pc = job[Read(t)].pc
        BY DEF Moves
      <3> QED
        BY <2>2, <3>1 DEF Handling, Read
    <2> QED
      BY <2>3, <2>4, FromBack
  <1> QED
    BY <1>2, <1>3, <1>4 DEF SoundInv

LEMMA CallMoves ==
  ASSUME TeardownInv, NEW x \in Actors,
         NEW k \in {"parts", "unplace", "leave", "member", "room", "session", "bye"}, Call(x, k)
  PROVE  \E s : /\ Moves(x, s) /\ s.pc = job[x].pc /\ s.call = k /\ s.target = job[x].target /\ s.ctl = job[x].ctl
                /\ s.parts = job[x].parts /\ s.part = job[x].part /\ s.present = job[x].present
  <1>1. job[x] \in JobStates /\ Typed
    BY DEF TeardownInv, Typed
  <1>2. PICK s : s = [job[x] EXCEPT !.call = k]
    OBVIOUS
  <1>3. /\ s \in JobStates /\ s.pc = job[x].pc /\ s.call = k /\ s.target = job[x].target /\ s.ctl = job[x].ctl
        /\ s.parts = job[x].parts /\ s.part = job[x].part /\ s.present = job[x].present
    BY <1>1, <1>2 DEF JobStates
  <1>4. job' = [job EXCEPT ![x] = s]
    BY <1>2 DEF Call
  <1>5. Moves(x, s)
    BY <1>1, <1>3, <1>4, JobUpdate DEF Moves
  <1> QED
    BY <1>3, <1>5

LEMMA CallFacts ==
  ASSUME TeardownInv, SoleInv, SoundInv, NEW x \in Actors, job[x].call # "no"
  PROVE  /\ job[x].target \in Conns /\ CallOK(job[x]) /\ job[x] \in JobStates /\ Removed(x)
         /\ Whole /\ Kinds /\ Typed
  BY JobFacts DEF SoundInv, Whole, CallOK, TeardownInv

(* The call of x moves on, and nobody else's. *)
LEMMA OthersOn ==
  ASSUME NEW x \in Actors, NEW s, Moves(x, s), NEW t
  PROVE  /\ \A y \in Actors \ {x} : /\ \A S : On(y, t, S)' <=> On(y, t, S)
                                    /\ Bids(y, t)' <=> Bids(y, t)
                                    /\ \A i : Serves(y, i)' <=> Serves(y, i)
                                    /\ job'[y] = job[y]
         /\ \A S : On(x, t, S)' <=> s.call \in S /\ s.target = t
         /\ Bids(x, t)' <=> s.call \in Late /\ s.target = t /\ s.present
         /\ \A i : Serves(x, i)' <=> s.call \in {"unplace", "leave"} /\ s.part = i
  BY DEF Moves, On, Bids, Serves

LEMMA FrontStays ==
  ASSUME NEW x \in Actors, NEW t \in Conns, NEW s, Moves(x, s), s.pc = job[x].pc, s.call \in Before, s.target = t,
         torn' = torn, t \in members' => t \in members, Front(t)
  PROVE  Front(t)'
  <1>1. On(x, t, Before)'
    BY OthersOn
  <1>2. Read(t) \in Actors /\ job'[Read(t)].pc = job[Read(t)].pc
    BY ActorTypes DEF Moves
  <1> QED
    BY <1>1, <1>2 DEF Front, Read

(* It goes over to the participants or to the member. *)
LEMMA CleanQuiet ==
  ASSUME TeardownInv, SoleInv, SoundInv, NEW x \in Actors, NEW t \in Conns, job[x].target = t,
         job[x].call \in {"start", "parts"}, UNCHANGED <<conn, torn, ctrl, table, seen, collided>>,
         NEW s, Moves(x, s), s.pc = job[x].pc, s.call \in {"parts", "member"}, s.target = t,
         s.call = "parts" => \A i \in s.parts : owner[i] = t,
         t \notin collided /\ Back(t) => /\ s.ctl = (t \in ctrl)
                                         /\ s.call = "parts" => Mine(t) \subseteq s.parts
                                         /\ s.call = "member" => Mine(t) = {}
  PROVE  SoundInv'
  <1>0. /\ UNCHANGED <<link, torn, authed, ctrl, members, owner, placed, sessions, shown, left, collided>>
        /\ Whole /\ Kinds /\ job[x].call # "no"
    BY CallFacts DEF conn, table, seen
  <1>1. Touches(t) /\ Kinds' /\ CallOK(s)'
    BY <1>0 DEF Touches, Kinds, CallOK, Parting
  <1>2. ASSUME t \notin collided, Front(t), Back(t) PROVE Front(t)' /\ Back(t)'
    <2>1. Front(t)'
      BY <1>0, <1>2, FrontStays DEF Before, Parting
    <2>2. ASSUME NEW y \in Actors
          PROVE  /\ On(y, t, {"room"}) => On(y, t, {"room"})'
                 /\ On(y, t, {"room", "session"}) => On(y, t, {"room", "session"})'
                 /\ Bids(y, t)' <=> Bids(y, t)
                 /\ \A i \in Parts : /\ Serves(y, i)' <=> Serves(y, i)
                                     /\ Serves(y, i) => job'[y].call = job[y].call
      <3>1. CASE y = x
        <4>1. /\ ~On(x, t, {"room"}) /\ ~On(x, t, {"room", "session"})
              /\ ~Bids(x, t) /\ ~Bids(x, t)' /\ \A i \in Parts : ~Serves(x, i) /\ ~Serves(x, i)'
          BY OthersOn DEF On, Bids, Serves, Late
        <4> QED
          BY <3>1, <4>1
      <3>2. CASE y # x
        BY <3>2, OthersOn
      <3> QED
        BY <3>1, <3>2
    <2>3. Mine(t)' = Mine(t)
      BY <1>0 DEF Mine
    <2>4. Traces(t)'
      BY <1>0, <1>2, <2>2, <2>3 DEF Back, Traces
    <2>5. Byes(t)'
      BY <1>0, <1>2, <2>2 DEF Back, Byes
    <2>6. ASSUME NEW y \in Actors PROVE Cleans(y, t)'
      <3>1. CASE y = x
        <4>1. job'[x] = s
          BY DEF Moves
        <4> QED
          BY <1>0, <1>2, <2>3, <3>1, <4>1 DEF Cleans, On, Parting, Late
      <3>2. CASE y # x
        <4>1. Cleans(y, t) /\ job'[y] = job[y]
          BY <1>2, <3>2 DEF Back, Moves
        <4> QED
          BY <1>0, <2>3, <4>1 DEF Cleans, On
      <3> QED
        BY <3>1, <3>2
    <2>7. ASSUME NEW i \in Parts, owner'[i] = t PROVE Freed(i)'
      <3>1. Freed(i)
        BY <1>0, <1>2, <2>7 DEF Back
      <3> QED
        BY <1>0, <2>2, <3>1 DEF Freed
    <2> QED
      BY <2>1, <2>4, <2>5, <2>6, <2>7 DEF Back
  <1>3. UNCHANGED <<torn, authed, ctrl, owner, collided>>
        /\ (t \in placed' \cup shown' \cup sessions' => t \in placed \cup shown \cup sessions)
    BY <1>0
  <1> QED
    BY <1>0, <1>1, <1>2, <1>3, CleanMove

(* It is at a participant. *)
LEMMA CleanParting ==
  ASSUME TeardownInv, SoleInv, SoundInv, NEW x \in Actors, NEW t \in Conns, job[x].target = t,
         job[x].call \in Parting, UNCHANGED <<link, authed, torn, ctrl, owner, sessions, collided>>, Kinds',
         NEW p \in Parts, owner[p] = t,
         \A i \in Ids \ {p} : /\ (i \in members' <=> i \in members) /\ (i \in placed' <=> i \in placed)
                              /\ (i \in shown' <=> i \in shown) /\ left'[i] = left[i],
         members' \subseteq members,
         NEW s, Moves(x, s), s.pc = job[x].pc, s.call \in Parting, s.target = t, s.ctl = job[x].ctl,
         s.parts \subseteq job[x].parts, \A i \in job[x].parts \ s.parts : i \notin members',
         s.call \in {"unplace", "leave"} => s.part = p,
         job[x].call \in {"unplace", "leave"} => job[x].part = p,
         t \notin collided /\ Freed(p) => Freed(p)'
  PROVE  SoundInv'
  <1>0. /\ Whole /\ Kinds /\ job[x].call # "no" /\ job[x] \in JobStates /\ CallOK(job[x])
        /\ t \in Ids /\ t # p /\ t \notin Parts /\ p \in Ids
    BY CallFacts, SessionConstants DEF Parting, Ids
  <1>1. Touches(t) /\ CallOK(s)'
    BY <1>0 DEF Touches, CallOK, Parting
  <1>2. (t \in members' <=> t \in members) /\ (t \in placed' <=> t \in placed)
        /\ (t \in shown' <=> t \in shown) /\ left'[t] = left[t]
    BY <1>0
  <1>3. ASSUME t \notin collided, Front(t), Back(t) PROVE Front(t)' /\ Back(t)'
    <2>1. Front(t)'
      BY <1>2, <1>3, FrontStays DEF Before
    <2>2. ASSUME NEW y \in Actors
          PROVE  /\ On(y, t, {"room"}) => On(y, t, {"room"})'
                 /\ On(y, t, {"room", "session"}) => On(y, t, {"room", "session"})'
                 /\ Bids(y, t)' <=> Bids(y, t)
                 /\ \A i \in Parts \ {p} : /\ Serves(y, i)' <=> Serves(y, i)
                                           /\ Serves(y, i) => job'[y].call = job[y].call
      <3>1. CASE y = x
        <4>1. /\ ~On(x, t, {"room"}) /\ ~On(x, t, {"room", "session"})
              /\ ~Bids(x, t) /\ ~Bids(x, t)' /\ \A i \in Parts \ {p} : ~Serves(x, i) /\ ~Serves(x, i)'
          BY OthersOn DEF On, Bids, Serves, Late, Parting
        <4> QED
          BY <3>1, <4>1
      <3>2. CASE y # x
        BY <3>2, OthersOn
      <3> QED
        BY <3>1, <3>2
    <2>3. Mine(t)' \subseteq Mine(t) /\ \A i \in Mine(t)' : i \in members'
      BY DEF Mine
    <2>4. Traces(t)'
      BY <1>2, <1>3, <2>2, <2>3 DEF Back, Traces
    <2>5. Byes(t)'
      BY <1>2, <1>3, <2>2 DEF Back, Byes
    <2>6. ASSUME NEW y \in Actors PROVE Cleans(y, t)'
      <3>0. Cleans(y, t)
        BY <1>3 DEF Back
      <3>1. CASE y = x
        <4>1. job'[x] = s
          BY DEF Moves
        <4>2. job[x].ctl = (t \in ctrl) /\ Mine(t) \subseteq job[x].parts
          BY <3>0, <3>1 DEF Cleans, On
        <4>3. Mine(t)' \subseteq s.parts
          BY <2>3, <4>2
        <4>4. s.call \notin {"member"} \cup Late
          BY DEF Parting, Late
        <4> QED
          BY <3>1, <4>1, <4>2, <4>3, <4>4 DEF Cleans, On
      <3>2. CASE y # x
        <4>1. job'[y] = job[y]
          BY <3>2 DEF Moves
        <4> QED
          BY <2>3, <3>0, <4>1 DEF Cleans, On
      <3> QED
        BY <3>1, <3>2
    <2>7. ASSUME NEW i \in Parts, owner'[i] = t PROVE Freed(i)'
      <3>1. Freed(i) /\ i \in Ids
        BY <1>3, <2>7 DEF Back, Ids
      <3>2. CASE i = p
        BY <1>3, <3>1, <3>2
      <3>3. CASE i # p
        <4>1. (i \in members' <=> i \in members) /\ (i \in placed' <=> i \in placed)
              /\ (i \in shown' <=> i \in shown) /\ left'[i] = left[i]
          BY <3>1, <3>3
        <4> QED
          BY <2>2, <3>1, <3>3, <4>1 DEF Freed
      <3> QED
        BY <3>2, <3>3
    <2> QED
      BY <2>1, <2>4, <2>5, <2>6, <2>7 DEF Back
  <1>4. t \in placed' \cup shown' \cup sessions' => t \in placed \cup shown \cup sessions
    BY <1>2
  <1> QED
    BY <1>0, <1>1, <1>3, <1>4, CleanMove

(* It is at t itself, whose member it has taken out. *)
LEMMA CleanSelf ==
  ASSUME TeardownInv, SoleInv, SoundInv, NEW x \in Actors, NEW t \in Conns, job[x].target = t,
         job[x].call \in {"member"} \cup Late, UNCHANGED <<link, authed, torn, ctrl, owner, collided>>, Kinds',
         \A i \in Ids \ {t} : /\ (i \in members' <=> i \in members) /\ (i \in placed' <=> i \in placed)
                              /\ (i \in shown' <=> i \in shown) /\ left'[i] = left[i],
         \A d \in Conns \ {t} : d \in sessions' <=> d \in sessions,
         t \notin members', t \in placed' => t \in placed, t \in sessions' => t \in sessions, t \in shown' => t \in shown,
         NEW s, Moves(x, s), s.pc = job[x].pc,
         s.call = "no" \/ (s.call \in Late /\ s.target = t /\ s.ctl = job[x].ctl),
         t \notin collided /\ Back(t) =>
             /\ t \in placed' => \E y \in Actors : On(y, t, {"room"})'
             /\ t \in sessions' => \E y \in Actors : On(y, t, {"room", "session"})'
             /\ t \in shown' => \E y \in Actors : Bids(y, t)'
             /\ left'[t] <= 1
             /\ \A y \in Actors : Bids(y, t)' => /\ t \notin ctrl => left'[t] = 0
                                                 /\ \A z \in Actors : Bids(z, t)' => z = y
  PROVE  SoundInv'
  <1>0. /\ Whole /\ Kinds /\ job[x].call # "no" /\ job[x] \in JobStates /\ CallOK(job[x])
        /\ t \in Ids /\ t \notin Parts
    BY CallFacts, SessionConstants DEF Late, Ids
  <1>1. Touches(t)
    BY <1>0 DEF Touches
  <1>2. CallOK(s)'
    BY <1>0 DEF CallOK, Parting, Late
  <1>3. ASSUME t \notin collided, Front(t), Back(t) PROVE Front(t)' /\ Back(t)'
    <2>1. Front(t)'
      <3>1. Read(t) \in Actors /\ job'[Read(t)].pc = job[Read(t)].pc
        BY ActorTypes DEF Moves
      <3> QED
        BY <1>3, <3>1 DEF Front, Read
    <2>2. \A i \in Parts : /\ (i \in members' <=> i \in members) /\ (i \in placed' <=> i \in placed)
                           /\ (i \in shown' <=> i \in shown) /\ left'[i] = left[i]
      BY <1>0 DEF Ids
    <2>3. Mine(t)' = Mine(t) /\ Mine(t) = {} /\ job[x].ctl = (t \in ctrl)
      <3>1. Mine(t)' = Mine(t)
        BY <2>2 DEF Mine
      <3>2. Cleans(x, t)
        BY <1>3 DEF Back
      <3> QED
        BY <3>1, <3>2 DEF Cleans, On
    <2>4. Traces(t)'
      BY <1>3, <2>3 DEF Traces
    <2>5. Byes(t)'
      BY <1>3 DEF Back, Byes
    <2>6. ASSUME NEW y \in Actors PROVE Cleans(y, t)'
      <3>1. CASE y = x
        <4>1. job'[x] = s
          BY DEF Moves
        <4> QED
          BY <2>3, <3>1, <4>1 DEF Cleans, On, Parting, Late
      <3>2. CASE y # x
        <4>1. Cleans(y, t) /\ job'[y] = job[y]
          BY <1>3, <3>2 DEF Back, Moves
        <4> QED
          BY <2>3, <4>1 DEF Cleans, On
      <3> QED
        BY <3>1, <3>2
    <2>7. ASSUME NEW i \in Parts, owner'[i] = t PROVE Freed(i)'
      <3>1. Freed(i)
        BY <1>3, <2>7 DEF Back
      <3>2. ~Serves(x, i) /\ ~Serves(x, i)'
        BY OthersOn DEF Serves, Late
      <3>3. \A y \in Actors : (Serves(y, i)' <=> Serves(y, i)) /\ (Serves(y, i) => job'[y] = job[y])
        BY <3>2, OthersOn
      <3> QED
        BY <2>2, <3>1, <3>3 DEF Freed
    <2> QED
      BY <2>1, <2>4, <2>5, <2>6, <2>7 DEF Back
  <1>4. t \in placed' \cup shown' \cup sessions' => t \in placed \cup shown \cup sessions
    OBVIOUS
  <1> QED
    BY <1>0, <1>1, <1>2, <1>3, <1>4, CleanMove

LEMMA SoundCleanStart ==
  ASSUME TeardownInv, SoleInv, SoundInv, NEW x \in Actors, CleanStart(x)
  PROVE  SoundInv'
  <1>0. job[x].call = "start"
    BY DEF CleanStart
  <1>1. PICK t \in Conns : t = job[x].target
    BY <1>0, CallFacts
  <1>2. Whole /\ Typed /\ job[x] \in JobStates /\ \A i \in Parts : owner[i] = t => t \in ctrl \cup collided
    BY <1>0, CallFacts, SessionConstants DEF Whole, Unused
  <1>3. CASE t \in ctrl
    <2>1. PICK q \in SUBSET Parts : q = Mine(t)
      BY DEF Mine
    <2>2. PICK s : s = [job[x] EXCEPT !.call = "parts", !.ctl = TRUE, !.parts = q]
      OBVIOUS
    <2>3. s \in JobStates /\ s.pc = job[x].pc /\ s.call = "parts" /\ s.target = t /\ s.ctl = TRUE /\ s.parts = q
      BY <1>1, <1>2, <2>1, <2>2 DEF JobStates
    <2>4. (t \in ctrl) = TRUE
      BY <1>3
    <2>5. job' = [job EXCEPT ![x] = s]
      BY <1>1, <1>3, <2>1, <2>2, <2>4 DEF CleanStart, Mine
    <2>6. Moves(x, s)
      BY <1>2, <2>3, <2>5, JobUpdate DEF Moves
    <2>7. \A i \in s.parts : owner[i] = t
      BY <2>1, <2>3 DEF Mine
    <2> QED
      BY <1>0, <1>1, <2>1, <2>3, <2>4, <2>6, <2>7, CleanQuiet DEF CleanStart
  <1>4. CASE t \notin ctrl
    <2>2. PICK s : s = [job[x] EXCEPT !.call = "member", !.ctl = FALSE, !.parts = {}]
      OBVIOUS
    <2>3. s \in JobStates /\ s.pc = job[x].pc /\ s.call = "member" /\ s.target = t /\ s.ctl = FALSE
      BY <1>1, <1>2, <2>2 DEF JobStates
    <2>4. (t \in ctrl) = FALSE
      BY <1>4
    <2>5. job' = [job EXCEPT ![x] = s]
      BY <1>1, <1>4, <2>2, <2>4 DEF CleanStart
    <2>6. Moves(x, s)
      BY <1>2, <2>3, <2>5, JobUpdate DEF Moves
    <2>7. t \notin collided => Mine(t) = {}
      BY <1>2, <1>4 DEF Mine
    <2> QED
      BY <1>0, <1>1, <2>3, <2>4, <2>6, <2>7, CleanQuiet DEF CleanStart
  <1> QED
    BY <1>3, <1>4

LEMMA SoundCleanPart ==
  ASSUME TeardownInv, SoleInv, SoundInv, NEW x \in Actors, CleanPart(x) \/ UnplacePart(x) \/ AnnouncePart(x)
  PROVE  SoundInv'
  <1>0. job[x].call \in Parting /\ job[x].call # "no"
    BY DEF CleanPart, UnplacePart, AnnouncePart, Parting
  <1>1. PICK t \in Conns : t = job[x].target
    BY <1>0, CallFacts
  <1>2. /\ Whole /\ Typed /\ Kinds /\ job[x] \in JobStates /\ CallOK(job[x])
        /\ \A i \in Parts : i \in Ids
    BY <1>0, CallFacts DEF Ids
  <1>3. CASE job[x].call = "parts" /\ job[x].parts = {} /\ Call(x, "member") /\ CleanPart(x) /\ UNCHANGED members
    <2>1. PICK s : /\ Moves(x, s) /\ s.pc = job[x].pc /\ s.call = "member" /\ s.target = job[x].target
                   /\ s.ctl = job[x].ctl
      BY <1>3, CallMoves
    <2>2. UNCHANGED <<conn, torn, ctrl, table, seen, collided>>
      BY <1>3 DEF CleanPart, table
    <2>3. ASSUME Back(t) PROVE s.ctl = (t \in ctrl) /\ Mine(t) = {}
      BY <1>1, <1>3, <2>1, <2>3 DEF Back, Cleans, On, Parting
    <2> QED
      BY <1>1, <1>3, <2>1, <2>2, <2>3, CleanQuiet
  <1>4. ASSUME NEW p \in job[x].parts, job[x].call = "parts", CleanPart(x), members' = members \ {p},
               job' = [job EXCEPT ![x].parts = job[x].parts \ {p}, ![x].part = p,
                                  ![x].call = IF p \in members THEN "unplace" ELSE "parts"]
        PROVE  SoundInv'
    <2>1. PICK k \in {"unplace", "parts"} : k = IF p \in members THEN "unplace" ELSE "parts"
      OBVIOUS
    <2>2. PICK q : q = job[x].parts \ {p}
      OBVIOUS
    <2>3. q \in SUBSET Parts /\ p \in Parts /\ owner[p] = t
      BY <1>1, <1>2, <1>4, <2>2 DEF JobStates, CallOK, Parting
    <2>4. PICK s : s = [job[x] EXCEPT !.parts = q, !.part = p, !.call = k]
      OBVIOUS
    <2>5. /\ s \in JobStates /\ s.pc = job[x].pc /\ s.call = k /\ s.target = t /\ s.ctl = job[x].ctl
          /\ s.parts = q /\ s.part = p
      BY <1>1, <1>2, <2>3, <2>4 DEF JobStates
    <2>6. job' = [job EXCEPT ![x] = s]
      BY <1>4, <2>1, <2>2, <2>4
    <2>7. Moves(x, s)
      BY <1>2, <2>5, <2>6, JobUpdate DEF Moves
    <2>8. UNCHANGED <<link, authed, torn, ctrl, owner, sessions, collided>> /\ UNCHANGED <<placed, shown, left>>
      BY <1>4 DEF CleanPart, conn, seen
    <2>9. Kinds'
      BY <1>2, <2>8 DEF Kinds
    <2>10. ASSUME Freed(p) PROVE Freed(p)'
      <3>1. ~Serves(x, p) /\ (Serves(x, p)' <=> k = "unplace") /\ job'[x].call = k
        BY <1>4, <2>1, <2>5, <2>7, OthersOn DEF Serves, Moves
      <3>2. \A y \in Actors \ {x} : (Serves(y, p)' <=> Serves(y, p)) /\ job'[y] = job[y]
        BY <2>7, OthersOn
      <3>3. p \notin members'
        BY <1>4
      <3>4. CASE p \in members
        <4>1. k = "unplace" /\ left[p] = 0 /\ \A y \in Actors : ~Serves(y, p)
          BY <2>1, <2>10, <3>4 DEF Freed
        <4> QED
          BY <2>8, <3>1, <3>2, <3>3, <4>1 DEF Freed
      <3>5. CASE p \notin members
        <4>1. k = "parts" /\ \A y \in Actors : Serves(y, p)' <=> Serves(y, p)
          BY <2>1, <3>1, <3>2, <3>5
        <4>2. \A y \in Actors : Serves(y, p) => job'[y] = job[y]
          BY <3>1, <3>2
        <4> QED
          BY <2>8, <2>10, <3>3, <3>5, <4>1, <4>2 DEF Freed
      <3> QED
        BY <3>4, <3>5
    <2>11. /\ \A i \in Ids \ {p} : i \in members' <=> i \in members
           /\ members' \subseteq members /\ s.parts \subseteq job[x].parts
           /\ \A i \in job[x].parts \ s.parts : i \notin members'
      BY <1>4, <2>2, <2>5
    <2>12. s.call \in Parting
      BY <2>5 DEF Parting
    <2> QED
      BY <1>0, <1>1, <1>4, <2>3, <2>5, <2>7, <2>8, <2>9, <2>10, <2>11, <2>12, CleanParting
  <1>5. CASE UnplacePart(x)
    <2>1. job[x].call = "unplace" /\ Call(x, "leave")
      BY <1>5 DEF UnplacePart
    <2>2. PICK p \in Parts : p = job[x].part /\ owner[p] = t
      BY <1>1, <1>2, <2>1 DEF CallOK
    <2>3. PICK s : /\ Moves(x, s) /\ s.pc = job[x].pc /\ s.call = "leave" /\ s.target = job[x].target
                   /\ s.ctl = job[x].ctl /\ s.parts = job[x].parts /\ s.part = job[x].part
      BY <2>1, CallMoves
    <2>4. UNCHANGED <<link, authed, torn, ctrl, owner, sessions, collided>> /\ UNCHANGED <<members, shown, left>>
          /\ placed' = placed \ {p}
      BY <1>5, <2>2 DEF UnplacePart, conn, seen
    <2>5. Kinds'
      BY <1>2, <2>4 DEF Kinds
    <2>6. ASSUME Freed(p) PROVE Freed(p)'
      <3>1. Serves(x, p) /\ Serves(x, p)'
        BY <2>1, <2>2, <2>3, OthersOn DEF Serves
      <3>2. \A y \in Actors : Serves(y, p)' <=> Serves(y, p)
        BY <2>3, <3>1, OthersOn
      <3>3. p \notin placed'
        BY <2>4
      <3> QED
        BY <2>4, <2>6, <3>1, <3>2, <3>3 DEF Freed
    <2>7. s.call \in Parting
      BY <2>3 DEF Parting
    <2> QED
      BY <1>0, <1>1, <2>2, <2>3, <2>4, <2>5, <2>6, <2>7, CleanParting
  <1>6. CASE AnnouncePart(x)
    <2>1. job[x].call = "leave" /\ Call(x, "parts")
      BY <1>6 DEF AnnouncePart
    <2>2. PICK p \in Parts : p = job[x].part /\ owner[p] = t
      BY <1>1, <1>2, <2>1 DEF CallOK
    <2>3. PICK s : /\ Moves(x, s) /\ s.pc = job[x].pc /\ s.call = "parts" /\ s.target = job[x].target
                   /\ s.ctl = job[x].ctl /\ s.parts = job[x].parts /\ s.part = job[x].part
      BY <2>1, CallMoves
    <2>4. /\ UNCHANGED <<link, authed, torn, ctrl, owner, sessions, collided>> /\ UNCHANGED <<members, placed>>
          /\ shown' = shown \ {p} /\ left' = [left EXCEPT ![p] = left[p] + 1]
      BY <1>6, <2>2 DEF AnnouncePart, BroadcastLeft, conn, table
    <2>5. Kinds' /\ left'[p] = left[p] + 1 /\ \A i \in Ids \ {p} : left'[i] = left[i]
      BY <1>2, <2>4 DEF Kinds
    <2>6. ASSUME Freed(p) PROVE Freed(p)'
      <3>1. Serves(x, p) /\ ~Serves(x, p)'
        BY <2>1, <2>2, <2>3, OthersOn DEF Serves
      <3>2. p \notin members /\ left[p] = 0 /\ \A y \in Actors \ {x} : ~Serves(y, p)
        BY <2>6, <3>1 DEF Freed
      <3>3. \A y \in Actors : ~Serves(y, p)'
        BY <2>3, <3>1, <3>2, OthersOn
      <3>4. p \notin placed
        BY <2>1, <2>6, <3>1, <3>2 DEF Freed
      <3>5. p \notin members' /\ p \notin placed' /\ p \notin shown' /\ left'[p] = 1
        BY <2>4, <2>5, <3>2, <3>4
      <3> QED
        BY <3>3, <3>5 DEF Freed
    <2>7. s.call \in Parting
      BY <2>3 DEF Parting
    <2> QED
      BY <1>0, <1>1, <2>2, <2>3, <2>4, <2>5, <2>6, <2>7, CleanParting
  <1>7. CASE CleanPart(x)
    BY <1>3, <1>4, <1>7 DEF CleanPart
  <1> QED
    BY <1>5, <1>6, <1>7

LEMMA SoundCleanSelf ==
  ASSUME TeardownInv, SoleInv, SoundInv, NEW x \in Actors,
         CleanMember(x) \/ CleanRoom(x) \/ CleanSession(x) \/ CleanBye(x)
  PROVE  SoundInv'
  <1>0. job[x].call \in {"member"} \cup Late /\ job[x].call # "no"
    BY DEF CleanMember, CleanRoom, CleanSession, CleanBye, Late
  <1>1. PICK t \in Conns : t = job[x].target
    BY <1>0, CallFacts
  <1>2. /\ Whole /\ Typed /\ Kinds /\ job[x] \in JobStates /\ Removed(x) /\ t \in Ids /\ t \notin Parts
        /\ \A y \in Actors : Removed(y)
    BY <1>0, CallFacts, SessionConstants DEF Ids, SoleInv, Tables
  <1>3. CASE CleanMember(x)
    <2>0. PICK b \in BOOLEAN : b = (t \in members)
      <3>1. CASE t \in members
        <4>1. TRUE = (t \in members)
          BY <3>1
        <4> QED
          BY <4>1
      <3>2. CASE t \notin members
        <4>1. FALSE = (t \in members)
          BY <3>2
        <4> QED
          BY <4>1
      <3> QED
        BY <3>1, <3>2
    <2>1. PICK s : s = [job[x] EXCEPT !.call = "room", !.present = b]
      OBVIOUS
    <2>2. /\ s \in JobStates /\ s.pc = job[x].pc /\ s.call = "room" /\ s.target = t /\ s.ctl = job[x].ctl
          /\ s.present = b
      BY <1>1, <1>2, <2>0, <2>1 DEF JobStates
    <2>3. job' = [job EXCEPT ![x] = s]
      BY <1>1, <1>3, <2>0, <2>1 DEF CleanMember
    <2>4. Moves(x, s)
      BY <1>2, <2>2, <2>3, JobUpdate DEF Moves
    <2>5. /\ UNCHANGED <<link, authed, torn, ctrl, owner, collided>> /\ UNCHANGED <<placed, sessions, shown, left>>
          /\ members' = members \ {t} /\ job[x].call = "member"
      BY <1>1, <1>3 DEF CleanMember, conn, seen
    <2>6. Kinds'
      BY <1>2, <2>5 DEF Kinds
    <2>7. On(x, t, {"room"})' /\ On(x, t, {"room", "session"})' /\ (Bids(x, t)' <=> t \in members) /\ ~Bids(x, t)
      <3>1. s.present <=> t \in members
        <4>1. CASE b = TRUE
          BY <2>0, <2>2, <4>1
        <4>2. CASE b = FALSE
          BY <2>0, <2>2, <4>2
        <4> QED
          BY <4>1, <4>2
      <3>2. /\ On(x, t, {"room"})' <=> s.call \in {"room"} /\ s.target = t
            /\ On(x, t, {"room", "session"})' <=> s.call \in {"room", "session"} /\ s.target = t
        BY <2>4 DEF On, Moves
      <3>b. Bids(x, t)' <=> s.call \in Late /\ s.target = t /\ s.present
        BY <2>4, OthersOn
      <3>3. ~Bids(x, t)
        BY <2>5 DEF Bids, On, Late
      <3> QED
        BY <2>2, <3>1, <3>2, <3>b, <3>3 DEF Late
    <2>8. \A y \in Actors \ {x} : Bids(y, t)' <=> Bids(y, t)
      BY <2>4, OthersOn
    <2>9. ASSUME Back(t)
          PROVE  /\ t \in shown' => \E y \in Actors : Bids(y, t)'
                 /\ left'[t] <= 1
                 /\ \A y \in Actors : Bids(y, t)' => /\ t \notin ctrl => left'[t] = 0
                                                     /\ \A z \in Actors : Bids(z, t)' => z = y
      <3>1. CASE t \in members
        <4>1. \A y \in Actors : ~Bids(y, t)
          BY <1>2, <3>1 DEF Removed, Bids, On, Late
        <4>2. left[t] <= 1 /\ (t \notin ctrl => left[t] = 0)
          BY <2>9, <3>1 DEF Back, Byes
        <4> QED
          BY <2>5, <2>7, <2>8, <3>1, <4>1, <4>2
      <3>2. CASE t \notin members
        <4>1. \A y \in Actors : Bids(y, t)' <=> Bids(y, t)
          BY <2>7, <2>8, <3>2
        <4> QED
          BY <2>5, <2>9, <3>2, <4>1 DEF Back, Byes, Traces
      <3> QED
        BY <3>1, <3>2
    <2>10. /\ \A i \in Ids \ {t} : i \in members' <=> i \in members
           /\ t \notin members' /\ s.call \in Late
      BY <2>2, <2>5 DEF Late
    <2> QED
      BY <1>0, <1>1, <2>2, <2>4, <2>5, <2>6, <2>7, <2>9, <2>10, CleanSelf
  <1>4. CASE CleanRoom(x)
    <2>1. job[x].call = "room" /\ Call(x, "session")
      BY <1>4 DEF CleanRoom
    <2>2. PICK s : /\ Moves(x, s) /\ s.pc = job[x].pc /\ s.call = "session" /\ s.target = job[x].target
                   /\ s.ctl = job[x].ctl /\ s.present = job[x].present
      BY <2>1, CallMoves
    <2>3. /\ UNCHANGED <<link, authed, torn, ctrl, owner, collided>> /\ UNCHANGED <<members, sessions, shown, left>>
          /\ placed' = placed \ {t}
      BY <1>1, <1>4 DEF CleanRoom, conn, seen
    <2>4. Kinds' /\ t \notin members /\ s.call \in Late
      BY <1>1, <1>2, <2>1, <2>2, <2>3 DEF Kinds, Removed, Late
    <2>5. /\ On(x, t, {"room", "session"})' /\ (Bids(x, t)' <=> Bids(x, t))
      <3>1. /\ On(x, t, {"room", "session"})' <=> s.call \in {"room", "session"} /\ s.target = t
            /\ Bids(x, t)' <=> s.call \in Late /\ s.target = t /\ s.present
        BY <2>2, OthersOn
      <3>2. Bids(x, t) <=> job[x].present
        BY <1>1, <2>1 DEF Bids, On, Late
      <3> QED
        BY <1>1, <2>2, <3>1, <3>2 DEF Late
    <2>6. \A y \in Actors : Bids(y, t)' <=> Bids(y, t)
      BY <2>2, <2>5, OthersOn
    <2>7. ASSUME Back(t)
          PROVE  /\ t \in shown' => \E y \in Actors : Bids(y, t)'
                 /\ left'[t] <= 1
                 /\ \A y \in Actors : Bids(y, t)' => /\ t \notin ctrl => left'[t] = 0
                                                     /\ \A z \in Actors : Bids(z, t)' => z = y
      BY <2>3, <2>4, <2>6, <2>7 DEF Back, Byes, Traces
    <2> QED
      BY <1>0, <1>1, <2>2, <2>3, <2>4, <2>5, <2>7, CleanSelf
  <1>5. CASE CleanSession(x)
    <2>1. job[x].call = "session" /\ Call(x, "bye")
      BY <1>5 DEF CleanSession
    <2>2. PICK s : /\ Moves(x, s) /\ s.pc = job[x].pc /\ s.call = "bye" /\ s.target = job[x].target
                   /\ s.ctl = job[x].ctl /\ s.present = job[x].present
      BY <2>1, CallMoves
    <2>3. /\ UNCHANGED <<link, authed, torn, ctrl, owner, collided>> /\ UNCHANGED <<members, placed, shown, left>>
          /\ sessions' = sessions \ {t}
      BY <1>1, <1>5 DEF CleanSession, conn, seen
    <2>4. Kinds' /\ t \notin members /\ s.call \in Late
      BY <1>1, <1>2, <2>1, <2>2, <2>3 DEF Kinds, Removed, Late
    <2>5. /\ ~On(x, t, {"room"}) /\ (Bids(x, t)' <=> Bids(x, t))
      BY <1>1, <2>1, <2>2, OthersOn DEF Bids, On, Late
    <2>6. \A y \in Actors : (Bids(y, t)' <=> Bids(y, t)) /\ (On(y, t, {"room"}) => On(y, t, {"room"})')
      BY <2>2, <2>5, OthersOn
    <2>7. ASSUME Back(t)
          PROVE  /\ t \in placed' => \E y \in Actors : On(y, t, {"room"})'
                 /\ t \in shown' => \E y \in Actors : Bids(y, t)'
                 /\ left'[t] <= 1
                 /\ \A y \in Actors : Bids(y, t)' => /\ t \notin ctrl => left'[t] = 0
                                                     /\ \A z \in Actors : Bids(z, t)' => z = y
      BY <2>3, <2>4, <2>6, <2>7 DEF Back, Byes, Traces
    <2> QED
      BY <1>0, <1>1, <2>2, <2>3, <2>4, <2>7, CleanSelf
  <1>6. CASE CleanBye(x)
    <2>1. PICK s : s = [NoJob EXCEPT !.pc = job[x].pc, !.old = job[x].old]
      OBVIOUS
    <2>2. s \in JobStates /\ s.pc = job[x].pc /\ s.call = "no"
      BY <1>2, <2>1, NoJobType DEF JobStates, NoJob
    <2>3. job' = [job EXCEPT ![x] = s] /\ job[x].call = "bye"
      BY <1>6, <2>1 DEF CleanBye
    <2>4. Moves(x, s)
      BY <1>2, <2>2, <2>3, JobUpdate DEF Moves
    <2>5. UNCHANGED <<link, authed, torn, ctrl, owner, collided>> /\ UNCHANGED <<members, placed, sessions>>
      BY <1>6 DEF CleanBye, conn, table
    <2>6. t \notin members /\ ~On(x, t, {"room"}) /\ ~On(x, t, {"room", "session"}) /\ ~Bids(x, t)'
          /\ (Bids(x, t) <=> job[x].present)
      BY <1>1, <1>2, <2>2, <2>3, <2>4, OthersOn DEF Removed, On, Bids, Late
    <2>7. \A y \in Actors : /\ On(y, t, {"room"}) => On(y, t, {"room"})'
                            /\ On(y, t, {"room", "session"}) => On(y, t, {"room", "session"})'
                            /\ y # x => (Bids(y, t)' <=> Bids(y, t))
      BY <2>4, <2>6, OthersOn
    <2>8. CASE job[x].present /\ t \in authed /\ ~job[x].ctl
      <3>1. shown' = shown \ {t} /\ left' = [left EXCEPT ![t] = left[t] + 1]
        BY <1>1, <1>6, <2>8 DEF CleanBye, BroadcastLeft
      <3>2. Kinds' /\ left'[t] = left[t] + 1 /\ \A i \in Ids \ {t} : left'[i] = left[i]
        BY <1>2, <2>5, <3>1 DEF Kinds
      <3>3. ASSUME Back(t)
            PROVE  /\ t \in placed' => \E y \in Actors : On(y, t, {"room"})'
                   /\ t \in sessions' => \E y \in Actors : On(y, t, {"room", "session"})'
                   /\ left'[t] <= 1 /\ \A y \in Actors : ~Bids(y, t)'
        <4>1. Cleans(x, t)
          BY <3>3 DEF Back
        <4>2. t \notin ctrl
          <5>1. job[x].ctl = (t \in ctrl)
            BY <1>1, <2>3, <4>1 DEF Cleans, On, Late
          <5> QED
            BY <2>8, <5>1
        <4>3. left[t] = 0 /\ \A y \in Actors : Bids(y, t) => y = x
          BY <2>6, <2>8, <3>3, <4>2 DEF Back, Byes
        <4>4. \A y \in Actors : ~Bids(y, t)'
          BY <2>6, <2>7, <4>3
        <4>5. /\ t \in placed' => \E y \in Actors : On(y, t, {"room"})'
              /\ t \in sessions' => \E y \in Actors : On(y, t, {"room", "session"})'
          BY <2>5, <2>6, <2>7, <3>3 DEF Back, Traces
        <4> QED
          BY <3>2, <4>3, <4>4, <4>5
      <3> QED
        BY <1>0, <1>1, <2>2, <2>4, <2>5, <2>6, <3>1, <3>2, <3>3, CleanSelf
    <2>9. CASE ~(job[x].present /\ t \in authed /\ ~job[x].ctl)
      <3>1. UNCHANGED <<shown, left>>
        BY <1>1, <1>6, <2>9 DEF CleanBye, seen
      <3>2. Kinds'
        BY <1>2, <2>5, <3>1 DEF Kinds
      <3>3. ASSUME Back(t)
            PROVE  /\ t \in placed' => \E y \in Actors : On(y, t, {"room"})'
                   /\ t \in sessions' => \E y \in Actors : On(y, t, {"room", "session"})'
                   /\ t \in shown' => \E y \in Actors : Bids(y, t)'
                   /\ left'[t] <= 1
                   /\ \A y \in Actors : Bids(y, t)' => /\ t \notin ctrl => left'[t] = 0
                                                       /\ \A z \in Actors : Bids(z, t)' => z = y
        <4>1. Cleans(x, t) /\ Known(t)
          BY <1>2, <3>3 DEF Back, Whole
        <4>2. job[x].ctl = (t \in ctrl)
          BY <1>1, <2>3, <4>1 DEF Cleans, On, Late
        <4>3. t \in shown => ~job[x].present
          <5>1. t \in shown => t \in authed /\ t \notin ctrl
            BY <3>3, <4>1 DEF Back, Byes, Known
          <5> QED
            BY <2>9, <4>2, <5>1
        <4>4. \A y \in Actors : Bids(y, t)' => Bids(y, t)
          BY <2>6, <2>7
        <4>5. /\ t \in placed' => \E y \in Actors : On(y, t, {"room"})'
              /\ t \in sessions' => \E y \in Actors : On(y, t, {"room", "session"})'
          BY <2>5, <2>6, <2>7, <3>3 DEF Back, Traces
        <4>6. t \in shown' => \E y \in Actors : Bids(y, t)'
          BY <2>6, <2>7, <3>1, <3>3, <4>3 DEF Back, Traces
        <4> QED
          BY <3>1, <3>3, <4>4, <4>5, <4>6 DEF Back, Byes
      <3> QED
        BY <1>0, <1>1, <2>2, <2>4, <2>5, <2>6, <3>1, <3>2, <3>3, CleanSelf
    <2> QED
      BY <2>8, <2>9
  <1> QED
    BY <1>3, <1>4, <1>5, <1>6

-----------------------------------------------------------------------------
LEMMA InitSound == Init => SoundInv
  <1> SUFFICES ASSUME Init PROVE SoundInv
    OBVIOUS
  <1>1. \A x \in Actors : job[x] = NoJob
    BY DEF Init
  <1>2. \A x \in Actors : job[x].pc = "none" /\ job[x].call = "no" /\ job[x].target = None
    BY <1>1 DEF NoJob
  <1>3. \A i \in Ids : left[i] = 0
    BY DEF Init
  <1>4. Whole
    <2>1. Kinds
      BY DEF Init, Kinds
    <2>2. \A x \in Actors : CallOK(job[x])
      BY <1>2 DEF CallOK, Parting
    <2>3. \A c \in Conns : HandlerOK(c, job[Read(c)]) /\ AtPart(c, job[Side(c)]) /\ Known(c)
      BY <1>2, <1>3, ActorTypes, SideTypes
         DEF HandlerOK, AtPart, Known, Init, Entering, Hiding, Minting, Dropping, Ids
    <2>4. \A i \in Parts : Unused(i)
      BY <1>3 DEF Unused, Init, Ids
    <2> QED
      BY <2>1, <2>2, <2>3, <2>4 DEF Whole
  <1>5. ASSUME NEW c \in Conns PROVE Sound(c)
    <2>1. job[Read(c)].pc = "none" /\ job[Accept(c)].pc = "none"
      BY <1>2, ActorTypes
    <2>2. c # None /\ left[c] = 0 /\ Mine(c) = {}
      BY <1>3, SessionConstants DEF Ids, Mine, Init
    <2>3. \A x \in Actors : ~Bids(x, c) /\ Cleans(x, c)
      BY <1>2 DEF Bids, On, Late, Cleans, Parting
    <2>4. Going(c)
      BY <2>1, <2>2 DEF Going, Handling, Init
    <2>5. Leaves(c)
      BY <2>1, <2>2, <2>3 DEF Leaves, Init, Hiding
    <2>6. \A i \in Parts : owner[i] # c
      BY <2>2 DEF Init
    <2> QED
      BY <2>3, <2>4, <2>5, <2>6 DEF Sound
  <1> QED
    BY <1>4, <1>5 DEF SoundInv

LEMMA SoundCleanup ==
  ASSUME TeardownInv, SoleInv, SoundInv, NEW x \in Actors, Cleanup(x)
  PROVE  SoundInv'
  BY SoundCleanStart, SoundCleanPart, SoundCleanSelf DEF Cleanup

LEMMA SoundStep == TeardownInv /\ SoleInv /\ SoundInv /\ [Next]_vars => SoundInv'
  <1> SUFFICES ASSUME TeardownInv, SoleInv, SoundInv, [Next]_vars PROVE SoundInv'
    OBVIOUS
  <1>1. CASE UNCHANGED vars
    BY <1>1, StillMove DEF vars, conn, seen, SameCall
  <1>2. ASSUME NEW c \in Conns,
               \/ Connect(c) \/ Close(c) \/ ReadEnds(c) \/ SecondStream(c) \/ SecondEnds(c) \/ KickCheck(c)
               \/ Request(Read(c), c) \/ Request(Side(c), c)
               \/ ReadStep(c) \/ SideStep(c) \/ AcceptStep(c) \/ KickStep(c)
        PROVE  SoundInv'
    <2>0. Read(c) \in Streams(c) /\ Side(c) \in Streams(c) /\ Side(c) \in Actors
      BY SideTypes DEF Streams
    <2>1. CASE \/ Connect(c) \/ Close(c) \/ ReadEnds(c) \/ SecondStream(c) \/ SecondEnds(c) \/ KickCheck(c)
      BY <2>1, SoundConnect, SoundStill, SoundClaim
    <2>2. CASE Request(Read(c), c)
      BY <2>0, <2>2, SoundStill, SoundPlain, SoundPart DEF Request
    <2>3. CASE ReadStep(c)
      <3>1. CASE \E d \in Conns : Evict(Read(c), c, d)
        BY <3>1, SoundEvict
      <3>2. CASE TellPlugins(Read(c), c) \/ TornDown(Read(c)) \/ Cleanup(Read(c))
        BY <3>2, SoundTeardown, SoundCleanup, ActorTypes
      <3> QED
        BY <2>3, <3>1, <3>2, SoundPlain, SoundPart DEF ReadStep, HandlerStep
    <2>4. CASE AcceptStep(c) \/ KickStep(c)
      BY <2>4, SoundClaim, SoundStill, SoundTeardown, SoundCleanup, ActorTypes DEF AcceptStep, KickStep
    <2>5. CASE Request(Side(c), c)
      <3>1. ClientHello(Side(c), c) \/ AuthFails(Side(c), c) \/ SideWork(c)
        BY <2>5 DEF Request, SideWork
      <3> QED
        BY <2>0, <3>1, SoundStill, SoundSide
    <2>6. CASE SideStep(c)
      <3>1. SideWork(c) \/ Cleanup(Side(c))
        BY <2>6 DEF SideStep, SideWork
      <3> QED
        BY <2>0, <3>1, SoundSide, SoundCleanup
    <2> QED
      BY <1>2, <2>1, <2>2, <2>3, <2>4, <2>5, <2>6
  <1> QED
    BY <1>1, <1>2 DEF Next

\* Teardown (cleanup_client, remove_participant): whatever the number of
\* connections and participants and however handlers, takeovers, kicks and the
\* two loops interleave, UserLeft is broadcast at most once for a connection
\* and for each of its participants, and when all its tasks are over nothing
\* of them is left in the member table, the rooms, the sessions or the roster;
\* unless a teardown of the connection met one of its handlers, it used a
\* second stream or it authenticated again as a controller.
THEOREM NothingIsLeft == Spec => []SoundUnlessCollided
  <1>1. TeardownInv /\ SoundInv => SoundUnlessCollided
    <2> SUFFICES ASSUME TeardownInv, SoundInv, NEW c \in Conns \ collided
                 PROVE  /\ left[c] <= 1 /\ \A p \in Parts : owner[p] = c => left[p] <= 1
                        /\ Over(c) => Gone(c) /\ \A p \in Parts : owner[p] = c => Gone(p)
      BY DEF SoundUnlessCollided
    <2>1. Sound(c) /\ Whole
      BY DEF SoundInv
    <2>2. left[c] <= 1 /\ \A p \in Parts : owner[p] = c => left[p] <= 1
      BY <2>1 DEF Sound, Leaves, Part
    <2>3. ASSUME Over(c) PROVE Gone(c) /\ \A p \in Parts : owner[p] = c => Gone(p)
      <3>1. /\ job[Read(c)].pc = "done" /\ job[Accept(c)].pc = "done"
            /\ \A x \in Actors : ~(job[x].call # "no" /\ job[x].target = c)
        BY <2>3 DEF Over, Cleaning
      <3>2. \A x \in Actors : /\ ~On(x, c, Before) /\ ~On(x, c, {"room"}) /\ ~On(x, c, {"room", "session"})
                              /\ ~Bids(x, c)
        BY <3>1 DEF On, Bids, Before, Late, Parting
      <3>3. c \notin members
        BY <2>1, <3>1, <3>2 DEF Sound, Going
      <3>4. Gone(c) /\ Mine(c) = {}
        BY <2>1, <3>2, <3>3 DEF Sound, Going, Gone
      <3>5. ASSUME NEW p \in Parts, owner[p] = c PROVE Gone(p)
        <4>1. Part(c, p) /\ p \notin members
          BY <2>1, <3>4, <3>5 DEF Sound, Mine
        <4>2. \A x \in Actors : ~Serves(x, p)
          BY <2>1, <3>1, <3>5 DEF Whole, CallOK, Serves
        <4>3. \A S \in SUBSET Dropping : ~Handles(c, p, S)
          BY <3>1 DEF Handles, Dropping
        <4>4. p \notin placed /\ p \notin shown
          BY <4>1, <4>2, <4>3 DEF Part, Dropping
        <4>5. p \notin sessions
          BY SessionConstants DEF TeardownInv, Typed
        <4> QED
          BY <4>1, <4>4, <4>5 DEF Gone
      <3> QED
        BY <3>4, <3>5
    <2> QED
      BY <2>2, <2>3
  <1> QED
    BY InitInv, StepInv, InitSole, SoleStep, InitSound, SoundStep, <1>1, PTL DEF Spec
================================================================================
