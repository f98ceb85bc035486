--------------------------- MODULE ClientConnProofs ---------------------------
(***************************************************************************)
(* What the client's connection task and its receivers guarantee for any   *)
(* number of connections and commands.                                     *)
(***************************************************************************)
EXTENDS ClientConn, TLAPS

(* The generations handed out so far are the connections there ever were;  *)
(* the transport held is the newest, and its flag is held with it; a       *)
(* teardown request comes from a receiver whose stream had ended; and a    *)
(* connection that was closed from here had its flag raised.               *)
Ranges ==
    /\ task \in {"ready", "connecting", "accepting", "sending", "gone"}
    /\ conn_gen \in 0..MaxConns /\ transport \in 0..MaxConns /\ local_close \in 0..MaxConns
    /\ closing \in [Conns -> BOOLEAN]
    /\ link \in [Conns -> {"none", "up", "wedged", "mute", "fin", "dead", "closed"}]
    /\ receiver \in [Conns -> {"none", "reading", "ended", "cleared", "loud", "done"}]
    /\ teardowns \in Seq(Conns)

Unborn == \A g \in Conns : g > conn_gen => link[g] = "none" /\ receiver[g] = "none"
Newest == transport # 0 => transport = conn_gen /\ local_close = transport
Ended == \A i \in 1..Len(teardowns) : link[teardowns[i]] \notin {"none", "up", "wedged", "mute"}
Born == \A g \in Conns : receiver[g] = "reading" => link[g] # "none"
RoomLeft == task \in {"connecting", "accepting"} => conn_gen < MaxConns
Flagged == \A g \in Conns : link[g] = "closed" => closing[g]

ConnInv == Ranges /\ Unborn /\ Newest /\ Ended /\ Born /\ RoomLeft /\ Flagged

LEMMA InitInv == Init => ConnInv
  BY ConnConstants DEF Init, ConnInv, Ranges, Unborn, Newest, Ended, Born, RoomLeft, Flagged, Conns

(* Serving a request leaves only requests that were there.                  *)
LEMMA TailElements ==
  ASSUME NEW q \in Seq(Conns), q # <<>>
  PROVE  /\ Tail(q) \in Seq(Conns)
         /\ \A i \in 1..Len(Tail(q)) : \E j \in 1..Len(q) : Tail(q)[i] = q[j]
  <1>1. Tail(q) \in Seq(Conns) /\ Len(Tail(q)) = Len(q) - 1 /\ Len(q) \in Nat
    OBVIOUS
  <1>2. ASSUME NEW i \in 1..Len(Tail(q)) PROVE \E j \in 1..Len(q) : Tail(q)[i] = q[j]
    <2>1. i + 1 \in 1..Len(q) /\ Tail(q)[i] = q[i + 1]
      BY <1>1, <1>2
    <2> QED
      BY <2>1
  <1> QED
    BY <1>1, <1>2

(* Taking the transport down leaves everything in order: a link that is    *)
(* closed was not a working one any more for anybody else, and its flag is *)
(* raised with it.                                                         *)
LEMMA CloseInv ==
  ASSUME ConnInv, RaiseFlag, CloseTransport, transport' = 0, local_close' \in {0, local_close},
         UNCHANGED <<conn_gen, receiver>>,
         \/ UNCHANGED teardowns
         \/ teardowns # <<>> /\ teardowns' = Tail(teardowns),
         task' \in {"ready", "connecting", "gone"},
         task' = "connecting" => conn_gen < MaxConns
  PROVE  ConnInv'
  <1>1. /\ link' \in [Conns -> {"none", "up", "wedged", "mute", "fin", "dead", "closed"}]
        /\ \A g \in Conns : link'[g] = (IF g = transport THEN "closed" ELSE link[g])
        /\ closing' \in [Conns -> BOOLEAN]
        /\ \A g \in Conns : closing'[g] <=> (closing[g] \/ g = local_close)
    BY DEF ConnInv, Ranges, CloseTransport, RaiseFlag
  <1>2. teardowns' \in Seq(Conns) /\ \A i \in 1..Len(teardowns') :
            \E j \in 1..Len(teardowns) : teardowns'[i] = teardowns[j]
    <2>1. CASE UNCHANGED teardowns
      BY <2>1 DEF ConnInv, Ranges
    <2>2. CASE teardowns # <<>> /\ teardowns' = Tail(teardowns)
      BY <2>2, TailElements DEF ConnInv, Ranges
    <2> QED
      BY <2>1, <2>2
  <1>3. Ranges'
    <2>1. transport' \in 0..MaxConns /\ local_close' \in 0..MaxConns
      BY ConnConstants DEF ConnInv, Ranges
    <2> QED
      BY <1>1, <1>2, <2>1 DEF ConnInv, Ranges
  <1>4. Unborn'
    <2> SUFFICES ASSUME NEW g \in Conns, g > conn_gen
                 PROVE  link'[g] = "none" /\ receiver'[g] = "none"
      BY DEF Unborn
    <2>1. g # transport
      BY ConnConstants DEF ConnInv, Ranges, Newest, Conns
    <2> QED
      BY <1>1, <2>1 DEF ConnInv, Unborn
  <1>7. Born' /\ Newest' /\ RoomLeft'
    BY <1>1 DEF ConnInv, Ranges, Born, Newest, RoomLeft
  <1>5. Ended'
    <2> SUFFICES ASSUME NEW i \in 1..Len(teardowns')
                 PROVE  link'[teardowns'[i]] \notin {"none", "up", "wedged", "mute"}
      BY DEF Ended
    <2>1. PICK j \in 1..Len(teardowns) : teardowns'[i] = teardowns[j]
      BY <1>2
    <2>2. teardowns[j] \in Conns /\ link[teardowns[j]] \notin {"none", "up", "wedged", "mute"}
      BY DEF ConnInv, Ranges, Ended
    <2> QED
      BY <1>1, <2>1, <2>2
  <1>6. Flagged'
    BY <1>1 DEF ConnInv, Ranges, Newest, Flagged
  <1> QED
    BY <1>3, <1>4, <1>5, <1>6, <1>7 DEF ConnInv

(* A step that touches none of what the invariant speaks of, but for the   *)
(* task coming back to its select or waiting for a handshake.              *)
LEMMA QuietInv ==
  ASSUME ConnInv,
         UNCHANGED <<conn_gen, transport, local_close, closing, link, receiver, teardowns>>,
         \/ task' \in {task, "ready", "sending"}
         \/ task' = "accepting" /\ conn_gen < MaxConns
  PROVE  ConnInv'
  BY DEF ConnInv, Ranges, Unborn, Newest, Ended, Born, RoomLeft, Flagged, Conns

LEMMA TeardownInv == ConnInv /\ Teardown => ConnInv'
  <1> SUFFICES ASSUME ConnInv, Teardown PROVE ConnInv'
    OBVIOUS
  <1>1. CASE Head(teardowns) = conn_gen
    BY <1>1, CloseInv DEF Teardown
  <1>2. CASE Head(teardowns) # conn_gen
    <2>1. teardowns' \in Seq(Conns) /\ \A i \in 1..Len(teardowns') :
              \E j \in 1..Len(teardowns) : teardowns'[i] = teardowns[j]
      BY TailElements DEF ConnInv, Ranges, Teardown
    <2>2. UNCHANGED <<task, conn_gen, transport, local_close, closing, link, receiver>>
      BY <1>2 DEF Teardown
    <2> QED
      BY <2>1, <2>2 DEF ConnInv, Ranges, Unborn, Newest, Ended, Born, RoomLeft, Flagged
  <1> QED
    BY <1>1, <1>2

LEMMA EstablishedInv == ConnInv /\ Established => ConnInv'
  <1> SUFFICES ASSUME ConnInv, Established PROVE ConnInv'
    OBVIOUS
  <1> USE ConnConstants DEF Conns
  <1> DEFINE g == conn_gen + 1
  <1>1. g \in Conns /\ conn_gen < g
    BY DEF ConnInv, Ranges, RoomLeft, Established
  <1>2. link[g] = "none" /\ receiver[g] = "none"
    BY <1>1 DEF ConnInv, Unborn
  <1>3. /\ link' = [link EXCEPT ![g] = "up"] /\ receiver' = [receiver EXCEPT ![g] = "reading"]
        /\ conn_gen' = g /\ transport' = g /\ local_close' = g /\ task' = "ready"
        /\ UNCHANGED <<closing, teardowns>>
    BY DEF Established
  <1> HIDE DEF g
  <1>4. Ranges'
    BY <1>1, <1>3 DEF ConnInv, Ranges
  <1>5. Unborn'
    <2>1. conn_gen' > conn_gen
      BY <1>1, <1>3 DEF ConnInv, Ranges
    <2> QED
      BY <1>1, <1>3, <2>1 DEF ConnInv, Ranges, Unborn
  <1>6. Ended'
    BY <1>1, <1>2, <1>3 DEF ConnInv, Ranges, Ended
  <1>7. Newest' /\ Born' /\ RoomLeft' /\ Flagged'
    BY <1>1, <1>3 DEF ConnInv, Ranges, Newest, Born, RoomLeft, Flagged
  <1> QED
    BY <1>4, <1>5, <1>6, <1>7 DEF ConnInv

LEMMA ReaderInv ==
  ASSUME NEW g \in Conns, ConnInv, ReaderEnds(g)
  PROVE  ConnInv'
  <1>1. /\ receiver[g] # "none"
        /\ \E to \in {"ended", "cleared", "loud", "done"} : receiver' = [receiver EXCEPT ![g] = to]
        /\ UNCHANGED <<task, conn_gen, transport, local_close, closing, link>>
    BY DEF ReaderEnds, RecvEnds, RecvClears, RecvJudges, RecvReportsLoss, Reader
  <1>2. \/ UNCHANGED teardowns
        \/ teardowns' = Append(teardowns, g) /\ link[g] \notin {"none", "up", "wedged", "mute"}
    BY DEF ReaderEnds, RecvEnds, RecvClears, RecvJudges, RecvReportsLoss, Reader, Readable,
           ConnInv, Born
  <1>3. Ranges'
    BY <1>1, <1>2 DEF ConnInv, Ranges
  <1>5. Ended'
    <2>1. CASE UNCHANGED teardowns
      BY <1>1, <2>1 DEF ConnInv, Ended
    <2>2. CASE teardowns' = Append(teardowns, g) /\ link[g] \notin {"none", "up", "wedged", "mute"}
      <3>1. teardowns \in Seq(Conns) /\ Len(teardowns) \in Nat
        BY DEF ConnInv, Ranges
      <3>2. Len(teardowns') = Len(teardowns) + 1 /\ teardowns'[Len(teardowns) + 1] = g
        BY <2>2, <3>1
      <3>3. \A i \in 1..Len(teardowns) : teardowns'[i] = teardowns[i]
        BY <2>2, <3>1
      <3> QED
        BY <1>1, <2>2, <3>1, <3>2, <3>3 DEF ConnInv, Ended
    <2> QED
      BY <1>2, <2>1, <2>2
  <1>4. Unborn' /\ Newest' /\ Born' /\ RoomLeft' /\ Flagged'
    BY <1>1 DEF ConnInv, Ranges, Unborn, Newest, Born, RoomLeft, Flagged
  <1> QED
    BY <1>3, <1>4, <1>5 DEF ConnInv

LEMMA LinkInv ==
  ASSUME NEW g \in Conns, ConnInv, LinkFails(g)
  PROVE  ConnInv'
  <1>1. PICK how \in {"up", "wedged", "mute", "fin", "dead"} : link' = [link EXCEPT ![g] = how]
    BY DEF LinkFails
  <1>2. /\ link[g] \in {"up", "wedged"}
        /\ UNCHANGED <<task, conn_gen, transport, local_close, closing, receiver, teardowns>>
    BY DEF LinkFails, reader
  <1> QED
    BY <1>1, <1>2 DEF ConnInv, Ranges, Unborn, Newest, Ended, Born, RoomLeft, Flagged

LEMMA StepInv == ConnInv /\ [Next]_vars => ConnInv'
  <1> SUFFICES ASSUME ConnInv, [Next]_vars PROVE ConnInv'
    OBVIOUS
  <1>1. CASE UNCHANGED vars
    BY <1>1, QuietInv DEF vars
  <1>2. CASE PingServer \/ UserSend \/ SendEnds
    <2>1. CASE SendFails
      BY <2>1, CloseInv DEF SendFails
    <2>2. CASE ~SendFails
      BY <1>2, <2>2, QuietInv DEF PingServer, UserSend, SendEnds, SendWaits, Sent
    <2> QED
      BY <2>1, <2>2
  <1>3. CASE Connect \/ Disconnect \/ Shutdown
    BY <1>3, CloseInv DEF Connect, Disconnect, Shutdown, Command, reader
  <1>4. CASE HandshakeFails \/ AcceptCertificate \/ RejectCertificate \/ Project
    BY <1>4, QuietInv DEF HandshakeFails, AcceptCertificate, RejectCertificate, Project, reader
  <1>5. ASSUME NEW g \in Conns, RecvTimeout(g) PROVE ConnInv'
    BY <1>5, QuietInv DEF RecvTimeout
  <1>6. ASSUME NEW what \in {"accept", "reject"}, Click(what) PROVE ConnInv'
    BY <1>6, QuietInv DEF Click, reader
  <1> QED
    BY <1>1, <1>2, <1>3, <1>4, <1>5, <1>6, TeardownInv, EstablishedInv, ReaderInv, LinkInv
       DEF Next, Handshake

LEMMA Invariant == Spec => []ConnInv
  BY InitInv, StepInv, PTL DEF Spec

-----------------------------------------------------------------------------
(***************************************************************************)
(* However many reconnects lie between a receiver's teardown request and   *)
(* the moment run_connection_task serves it, and whatever generation it    *)
(* names, serving it leaves a transport whose link works, and its plugin,  *)
(* alone.                                                                  *)
(***************************************************************************)
THEOREM TeardownsAreScoped == Spec => StaleTeardownSpares
  <1>1. ASSUME ConnInv, [Next]_vars
        PROVE  [Len(teardowns') < Len(teardowns) /\ transport # 0 /\ link[transport] = "up" =>
                   transport' = transport /\ ft' = ft /\ slot' = slot]_vars
    <2> SUFFICES ASSUME Next, Len(teardowns') < Len(teardowns), transport # 0,
                        link[transport] = "up"
                 PROVE  transport' = transport /\ ft' = ft /\ slot' = slot
      BY <1>1
    <2>1. ASSUME NEW g \in Conns, Append(teardowns, g) = teardowns' PROVE FALSE
      BY <1>1, <2>1 DEF ConnInv, Ranges
    <2>2. Teardown
      BY <1>1, <2>1 DEF Next, Handshake, ReaderEnds, PingServer, Established, HandshakeFails,
         AcceptCertificate, RejectCertificate, Connect, Disconnect, Shutdown, Command, UserSend,
         SendFails, SendEnds, SendWaits, Sent, RecvTimeout, RecvEnds, RecvClears, RecvJudges, RecvReportsLoss, LinkFails,
         Project, Click, reader
    <2>3. Head(teardowns) # conn_gen
      <3>1. teardowns # <<>> /\ Head(teardowns) = teardowns[1] /\ 1 \in 1..Len(teardowns)
        BY <1>1, <2>2 DEF Teardown, ConnInv, Ranges
      <3> QED
        BY <1>1, <3>1 DEF ConnInv, Ended, Newest
    <2> QED
      BY <2>2, <2>3 DEF Teardown
  <1> QED
    BY <1>1, Invariant, PTL DEF Spec, StaleTeardownSpares

(***************************************************************************)
(* A receiver never judges the end of a connection that this client closed *)
(* to be a loss: run_connection_task raises the flag of every connection   *)
(* it closes, in the same step, whichever command or failure makes it.     *)
(***************************************************************************)
THEOREM ClosesAreQuiet == Spec => NoLossAfterClose
  <1>1. ASSUME ConnInv, [Next]_vars
        PROVE  [\A g \in Conns : receiver[g] # "loud" /\ receiver'[g] = "loud" =>
                   link[g] # "closed"]_vars
    <2> SUFFICES ASSUME Next, NEW g \in Conns, receiver[g] # "loud", receiver'[g] = "loud"
                 PROVE  link[g] # "closed"
      BY <1>1
    <2>1. PICK h \in Conns : ReaderEnds(h)
      BY <1>1 DEF Next, Handshake, Teardown, PingServer, Established, HandshakeFails,
         AcceptCertificate, RejectCertificate, Connect, Disconnect, Shutdown, Command, UserSend,
         SendFails, SendEnds, SendWaits, Sent, RecvTimeout, LinkFails, Project, Click, reader, ConnInv, Ranges
    <2>2. RecvJudges(g) /\ ~closing[g]
      BY <1>1, <2>1 DEF ReaderEnds, RecvEnds, RecvClears, RecvJudges, RecvReportsLoss, Reader,
         ConnInv, Ranges
    <2> QED
      BY <1>1, <2>2 DEF ConnInv, Flagged
  <1> QED
    BY <1>1, Invariant, PTL DEF Spec, NoLossAfterClose

-----------------------------------------------------------------------------
(***************************************************************************)
(* The parts of the client agree.                                          *)
(***************************************************************************)

(* What State will show when the projection has caught up *)
Sight == IF bus = <<>> THEN shown ELSE bus[Len(bus)]

(* What each part of the client holds, and that nobody but the newest      *)
(* receiver is still at work                                               *)
Parts ==
    /\ {ft, slot, audio, local_close} \subseteq {0, conn_gen}
    /\ bus \in Seq(Event) /\ shown \in Event
    /\ \A g \in Conns : closing[g] => g <= conn_gen
Alone == \A g \in Conns : receiver[g] \notin {"none", "done"} => g = conn_gen
Owned == \A g \in Conns : link[g] \in {"up", "wedged", "mute", "fin"} => g = transport

(* A handshake begins without a transport. *)
Waits == task \in {"connecting", "accepting"} => transport = 0 /\ Sight \in {"start", "lost"}

(* While a transport is held, State is about to show it, until its receiver *)
(* has reported the loss.                                                  *)
Announced ==
    transport # 0 =>
        /\ ~closing[transport] /\ ft = transport
        /\ shown \notin {"off", "pending"} /\ \A i \in 1..Len(bus) : bus[i] \notin {"off", "pending"}
        /\ Sight = IF receiver[transport] = "done" THEN "lost" ELSE "connected"
        /\ receiver[transport] # "done" => rooms = transport
        /\ receiver[transport] \in {"reading", "ended"} => audio = transport /\ slot = transport
Unheld == transport = 0 => audio = 0 /\ Sight # "connected"
Cleared == conn_gen # 0 /\ receiver[conn_gen] \in {"cleared", "loud", "done"} => audio = 0 /\ slot = 0

(* What the receiver has left behind is released when its request is served. *)
Due == \E i \in 1..Len(teardowns) : teardowns[i] = conn_gen
Released ==
    conn_gen # 0 /\ receiver[conn_gen] # "reading" => Due \/ (transport = 0 /\ ft = 0 /\ slot = 0)

InStep == Parts /\ Alone /\ Owned /\ Waits /\ Announced /\ Unheld /\ Cleared /\ Released

AgreeInv == task # "gone" /\ ~crossed /\ ~hushed => InStep

LEMMA InitAgree == Init => AgreeInv
  BY ConnConstants DEF Init, AgreeInv, InStep, Parts, Alone, Owned, Waits, Announced, Unheld, Cleared,
     Released, Sight, Event, Conns

LEMMA SightAppend ==
  ASSUME bus \in Seq(Event), NEW e \in Event, bus' = Append(bus, e)
  PROVE  /\ bus' \in Seq(Event) /\ Sight' = e
         /\ \A i \in 1..Len(bus') : bus'[i] = e \/ \E j \in 1..Len(bus) : bus'[i] = bus[j]
  <1>1. /\ bus' \in Seq(Event) /\ Len(bus') = Len(bus) + 1 /\ Len(bus) \in Nat
        /\ bus'[Len(bus) + 1] = e
    OBVIOUS
  <1>2. \A i \in 1..Len(bus) : bus'[i] = bus[i]
    OBVIOUS
  <1>3. bus' # <<>>
    BY <1>1
  <1>4. \A i \in 1..Len(bus') : i = Len(bus) + 1 \/ i \in 1..Len(bus)
    BY <1>1
  <1>5. Sight' = e
    BY <1>1, <1>3 DEF Sight
  <1> QED
    BY <1>1, <1>2, <1>4, <1>5

LEMMA SightProject ==
  ASSUME bus \in Seq(Event), Project
  PROVE  /\ bus' \in Seq(Event) /\ shown' \in Event /\ Sight' = Sight
         /\ \E j \in 1..Len(bus) : shown' = bus[j]
         /\ \A i \in 1..Len(bus') : \E j \in 1..Len(bus) : bus'[i] = bus[j]
  <1>1. /\ bus # <<>> /\ Len(bus) \in Nat /\ Len(bus) > 0
        /\ bus' = Tail(bus) /\ bus' \in Seq(Event) /\ Len(bus') = Len(bus) - 1
        /\ shown' = bus[1] /\ shown' \in Event
    BY DEF Project
  <1>2. \A i \in 1..Len(bus') : i + 1 \in 1..Len(bus) /\ bus'[i] = bus[i + 1]
    BY <1>1
  <1>3. Sight' = Sight
    <2>1. CASE Len(bus) = 1
      <3>1. bus' = <<>>
        BY <1>1, <2>1
      <3> QED
        BY <1>1, <2>1, <3>1 DEF Sight
    <2>2. CASE Len(bus) > 1
      <3>1. Len(bus') \in 1..Len(bus') /\ Len(bus') + 1 = Len(bus) /\ bus' # <<>>
        BY <1>1, <2>2
      <3> QED
        BY <1>1, <1>2, <3>1 DEF Sight
    <2> QED
      BY <1>1, <2>1, <2>2
  <1>4. 1 \in 1..Len(bus)
    BY <1>1
  <1> QED
    BY <1>1, <1>2, <1>3, <1>4

(* The transport is taken down and State will show it. *)
LEMMA DownAgree ==
  ASSUME ConnInv, InStep, RaiseFlag, CloseTransport, transport' = 0, local_close' \in {0, local_close},
         audio' \in {0, audio}, transport # 0 => audio' = 0, ft' \in {0, ft}, slot' \in {0, slot},
         UNCHANGED <<conn_gen, receiver, teardowns, shown>>,
         NEW e \in Event \ {"connected"}, bus' = Append(bus, e),
         task' \in {"ready", "connecting"}, task' = "connecting" => e = "start"
  PROVE  InStep'
  <1>1. bus' \in Seq(Event) /\ Sight' = e
    BY SightAppend DEF InStep, Parts
  <1>2. /\ \A g \in Conns : closing'[g] => closing[g] \/ g = local_close
        /\ \A g \in Conns : link'[g] = (IF g = transport THEN "closed" ELSE link[g])
    BY DEF RaiseFlag, CloseTransport
  <1>3. audio' = 0
    BY DEF InStep, Unheld
  <1>4. Parts'
    BY <1>1, <1>2, <1>3 DEF InStep, Parts, ConnInv, Ranges
  <1>5. Alone' /\ Owned' /\ Waits' /\ Announced' /\ Unheld'
    BY <1>1, <1>2, <1>3 DEF InStep, Alone, Owned, Waits, Announced, Unheld
  <1>6. Cleared' /\ Released'
    BY <1>3 DEF InStep, Cleared, Released, Due
  <1> QED
    BY <1>4, <1>5, <1>6 DEF InStep

(* A command that changes at most what State will show. *)
LEMMA QuietAgree ==
  ASSUME ConnInv, InStep,
         UNCHANGED <<conn_gen, transport, local_close, closing, link, ft, slot, audio, rooms, receiver,
                     teardowns, shown>>,
         \/ UNCHANGED <<task, bus>>
         \/ task' \in {"ready", "sending"} /\ UNCHANGED bus
         \/ /\ transport = 0
            /\ \E e \in Event \ {"connected"} :
                  /\ bus' = Append(bus, e)
                  /\ task' \in {"connecting", "accepting"} => e \in {"start", "lost"}
  PROVE  InStep'
  <1>1. CASE (UNCHANGED task \/ task' \in {"ready", "sending"}) /\ UNCHANGED bus
    BY <1>1 DEF InStep, Parts, Alone, Owned, Waits, Announced, Unheld, Cleared, Released, Due, Sight
  <1>2. ASSUME transport = 0, NEW e \in Event \ {"connected"}, bus' = Append(bus, e),
               task' \in {"connecting", "accepting"} => e \in {"start", "lost"}
        PROVE  InStep'
    <2>1. bus' \in Seq(Event) /\ Sight' = e
      BY <1>2, SightAppend DEF InStep, Parts
    <2> QED
      BY <1>2, <2>1 DEF InStep, Parts, Alone, Owned, Waits, Announced, Unheld, Cleared, Released, Due
  <1> QED
    BY <1>1, <1>2


LEMMA TeardownAgree ==
  ASSUME ConnInv, InStep, Teardown, ~hushed'
  PROVE  InStep'
  <1>1. CASE Head(teardowns) = conn_gen
    <2>1. /\ RaiseFlag /\ CloseTransport /\ transport' = 0 /\ local_close' = 0 /\ ft' = 0 /\ slot' = 0
          /\ UNCHANGED <<task, conn_gen, audio, rooms, receiver, bus, shown>> /\ task = "ready"
          /\ local_close # 0 => receiver[local_close] = "done"
      BY <1>1 DEF Teardown
    <2>2. /\ \A g \in Conns : closing'[g] => closing[g] \/ g = local_close
          /\ \A g \in Conns : link'[g] = (IF g = transport THEN "closed" ELSE link[g])
      BY <2>1 DEF RaiseFlag, CloseTransport
    <2>3. Sight' = Sight
      BY <2>1 DEF Sight
    <2>4. audio = 0 /\ Sight # "connected"
      <3>1. CASE transport = 0
        BY <3>1 DEF InStep, Unheld
      <3>2. CASE transport # 0
        BY <2>1, <3>2 DEF InStep, Announced, Cleared, ConnInv, Newest
      <3> QED
        BY <3>1, <3>2
    <2>5. Parts'
      BY <2>1, <2>2 DEF InStep, Parts, ConnInv, Ranges
    <2>6. Alone' /\ Owned' /\ Waits' /\ Announced' /\ Unheld'
      BY <2>1, <2>2, <2>3, <2>4 DEF InStep, Alone, Owned, Waits, Announced, Unheld
    <2>7. Cleared' /\ Released'
      BY <2>1, <2>4 DEF InStep, Cleared, Released
    <2> QED
      BY <2>5, <2>6, <2>7 DEF InStep
  <1>2. CASE Head(teardowns) # conn_gen
    <2>1. UNCHANGED <<task, conn_gen, transport, local_close, closing, link, ft, slot, audio, rooms,
                      receiver, bus, shown>>
      BY <1>2 DEF Teardown
    <2>2. ASSUME Due PROVE Due'
      <3>1. PICK i \in 1..Len(teardowns) : teardowns[i] = conn_gen
        BY <2>2 DEF Due
      <3>2. /\ teardowns \in Seq(Conns) /\ teardowns # <<>> /\ Len(teardowns) \in Nat
            /\ teardowns' = Tail(teardowns)
        BY DEF ConnInv, Ranges, Teardown
      <3>3. i # 1
        BY <1>2, <3>1, <3>2
      <3>4. i - 1 \in 1..Len(teardowns') /\ teardowns'[i - 1] = teardowns[i]
        BY <3>1, <3>2, <3>3
      <3> QED
        BY <2>1, <3>1, <3>4 DEF Due
    <2> QED
      BY <2>1, <2>2 DEF InStep, Parts, Alone, Owned, Waits, Announced, Unheld, Cleared, Released, Sight
  <1> QED
    BY <1>1, <1>2

(* Nobody is behind when the new connection is announced.                  *)
LEMMA EstablishedAgree ==
  ASSUME ConnInv, InStep, Established, ~crossed'
  PROVE  InStep'
  <1> USE ConnConstants
  <1> DEFINE g == conn_gen + 1
  <1>1. g \in Conns /\ g > conn_gen /\ conn_gen \in Nat /\ 0 \notin Conns /\ g # 0
    BY DEF ConnInv, Ranges, RoomLeft, Established, Conns
  <1>2. /\ conn_gen' = g /\ transport' = g /\ local_close' = g /\ ft' = g /\ slot' = g
        /\ audio' = g /\ rooms' = g /\ task' = "ready"
        /\ link' = [link EXCEPT ![g] = "up"] /\ receiver' = [receiver EXCEPT ![g] = "reading"]
        /\ bus' = Append(bus, "connected") /\ UNCHANGED <<closing, shown>>
        /\ bus = <<>> /\ \A h \in Conns : receiver[h] \in {"none", "done"}
    BY DEF Established, FellBehind
  <1> HIDE DEF g
  <1>3. transport = 0 /\ shown \in {"start", "lost"} /\ ~closing[g]
    BY <1>1, <1>2 DEF InStep, Waits, Sight, Established, Parts, Conns
  <1>4. /\ bus' \in Seq(Event) /\ Sight' = "connected"
        /\ \A i \in 1..Len(bus') : bus'[i] = "connected"
    <2>1. bus \in Seq(Event) /\ "connected" \in Event /\ Len(bus) = 0
      BY <1>2 DEF InStep, Parts, Event
    <2>2. /\ bus' \in Seq(Event) /\ Sight' = "connected"
          /\ \A i \in 1..Len(bus') : bus'[i] = "connected" \/ \E j \in 1..Len(bus) : bus'[i] = bus[j]
      BY <1>2, <2>1, SightAppend
    <2> QED
      BY <2>1, <2>2
  <1>5. /\ receiver'[g] = "reading" /\ link'[g] = "up"
        /\ \A h \in Conns \ {g} : receiver'[h] = receiver[h] /\ link'[h] = link[h]
    BY <1>1, <1>2 DEF ConnInv, Ranges
  <1>6. Parts'
    BY <1>1, <1>2, <1>4 DEF InStep, Parts, Conns
  <1>7. Alone' /\ Owned'
    BY <1>1, <1>2, <1>3, <1>5 DEF InStep, Alone, Owned
  <1>8. Waits' /\ Announced' /\ Unheld' /\ Cleared' /\ Released'
    BY <1>1, <1>2, <1>3, <1>4, <1>5 DEF Waits, Announced, Unheld, Cleared, Released
  <1> QED
    BY <1>6, <1>7, <1>8 DEF InStep

LEMMA ReaderAgree ==
  ASSUME NEW g \in Conns, ConnInv, InStep, ReaderEnds(g)
  PROVE  InStep'
  <1>1. /\ g = conn_gen /\ g # 0 /\ (transport # 0 => transport = g)
        /\ receiver[g] \notin {"none", "done"}
    BY ConnConstants DEF ReaderEnds, RecvEnds, RecvClears, RecvJudges, RecvReportsLoss, Reader, InStep,
       Alone, ConnInv, Newest, Conns
  <1>2. /\ UNCHANGED <<task, conn_gen, transport, local_close, closing, link, ft, shown>>
        /\ \A h \in Conns \ {g} : receiver'[h] = receiver[h]
    BY DEF ReaderEnds, RecvEnds, RecvClears, RecvJudges, RecvReportsLoss, Reader, ConnInv, Ranges
  <1>3. Alone' /\ Owned'
    BY <1>1, <1>2 DEF InStep, Alone, Owned
  <1>4. CASE RecvEnds(g)
    <2>1. /\ receiver[g] = "reading" /\ receiver'[g] = "ended" /\ UNCHANGED <<slot, audio, rooms, bus>>
          /\ teardowns' = Append(teardowns, g)
      BY <1>4 DEF RecvEnds, Reader, ConnInv, Ranges
    <2>2. Due'
      <3>1. teardowns \in Seq(Conns)
        BY DEF ConnInv, Ranges
      <3>2. Len(teardowns') \in 1..Len(teardowns') /\ teardowns'[Len(teardowns')] = g
        BY <2>1, <3>1
      <3> QED
        BY <1>1, <1>2, <3>2 DEF Due
    <2> QED
      BY <1>1, <1>2, <1>3, <2>1, <2>2
         DEF InStep, Parts, Waits, Announced, Unheld, Cleared, Released, Sight
  <1>5. CASE RecvClears(g)
    <2>1. /\ receiver[g] = "ended" /\ receiver'[g] = "cleared" /\ audio' = 0 /\ slot' = 0
          /\ UNCHANGED <<teardowns, rooms, bus>>
      BY <1>5 DEF RecvClears, Reader, ConnInv, Ranges
    <2> QED
      BY <1>1, <1>2, <1>3, <2>1
         DEF InStep, Parts, Waits, Announced, Unheld, Cleared, Released, Due, Sight
  <1>6. CASE RecvJudges(g)
    <2>1. /\ receiver[g] = "cleared" /\ receiver'[g] \in {"done", "loud"}
          /\ ~closing[g] /\ shown # "off" => receiver'[g] = "loud"
          /\ UNCHANGED <<teardowns, slot, audio, rooms, bus>>
      BY <1>6 DEF RecvJudges, Reader, ConnInv, Ranges
    <2>2. transport # 0 => receiver'[g] = "loud"
      BY <1>1, <2>1 DEF InStep, Announced
    <2> QED
      BY <1>1, <1>2, <1>3, <2>1, <2>2
         DEF InStep, Parts, Waits, Announced, Unheld, Cleared, Released, Due, Sight
  <1>7. CASE RecvReportsLoss(g)
    <2>1. /\ receiver[g] = "loud" /\ receiver'[g] = "done" /\ bus' = Append(bus, "lost") /\ rooms' = 0
          /\ UNCHANGED <<teardowns, slot, audio>>
      BY <1>7 DEF RecvReportsLoss, Reader, ConnInv, Ranges
    <2>2. /\ bus' \in Seq(Event) /\ Sight' = "lost"
          /\ \A i \in 1..Len(bus') : bus'[i] = "lost" \/ \E j \in 1..Len(bus) : bus'[i] = bus[j]
      BY <2>1, SightAppend DEF InStep, Parts, Event
    <2> QED
      BY <1>1, <1>2, <1>3, <2>1, <2>2
         DEF InStep, Parts, Waits, Announced, Unheld, Cleared, Released, Due
  <1> QED
    BY <1>4, <1>5, <1>6, <1>7 DEF ReaderEnds

LEMMA NetworkAgree ==
  ASSUME ConnInv, InStep, Project \/ \E g \in Conns : LinkFails(g)
  PROVE  InStep'
  <1>1. CASE Project
    <2>1. /\ bus' \in Seq(Event) /\ shown' \in Event /\ Sight' = Sight
          /\ \E j \in 1..Len(bus) : shown' = bus[j]
          /\ \A i \in 1..Len(bus') : \E j \in 1..Len(bus) : bus'[i] = bus[j]
      BY <1>1, SightProject DEF InStep, Parts
    <2>2. UNCHANGED <<task, conn_gen, transport, local_close, closing, link, ft, slot, audio, rooms,
                      receiver, teardowns>>
      BY <1>1 DEF Project, reader
    <2> QED
      BY <2>1, <2>2
         DEF InStep, Parts, Alone, Owned, Waits, Announced, Unheld, Cleared, Released, Due
  <1>2. ASSUME NEW g \in Conns, LinkFails(g) PROVE InStep'
    <2>1. /\ link[g] \in {"up", "wedged"} /\ \A h \in Conns \ {g} : link'[h] = link[h]
          /\ UNCHANGED <<task, conn_gen, transport, local_close, closing, ft, slot, audio, rooms,
                         receiver, teardowns, bus, shown>>
      BY <1>2 DEF LinkFails, reader, ConnInv, Ranges
    <2>2. Owned'
      BY <2>1 DEF InStep, Owned
    <2> QED
      BY <2>1, <2>2
         DEF InStep, Parts, Alone, Waits, Announced, Unheld, Cleared, Released, Due, Sight
  <1> QED
    BY <1>1, <1>2

LEMMA CommandAgree ==
  ASSUME ConnInv, InStep, task' # "gone", ~crossed',
         \/ Connect \/ Disconnect \/ Shutdown \/ UserSend \/ PingServer \/ SendEnds
         \/ AcceptCertificate \/ RejectCertificate \/ HandshakeFails
  PROVE  InStep'
  <1>e. {"start", "off", "lost", "pending"} \subseteq Event \ {"connected"}
    BY DEF Event
  <1>1. CASE Connect
    <2>1. /\ audio' \in {0, audio} /\ (transport # 0 => audio' = 0) /\ ft' \in {0, ft} /\ slot' \in {0, slot}
      BY <1>1 DEF Connect
    <2> QED
      BY <1>1, <1>e, <2>1, DownAgree DEF Connect, Command, reader
  <1>2. CASE Disconnect
    BY <1>2, <1>e, DownAgree DEF Disconnect, Command, reader
  <1>3. CASE SendFails
    BY <1>3, <1>e, DownAgree DEF SendFails
  <1>4. CASE (PingServer \/ UserSend \/ SendEnds) /\ ~SendFails
    BY <1>4, QuietAgree DEF PingServer, UserSend, SendEnds, SendWaits, Sent
  <1>5. CASE AcceptCertificate
    <2>1. CASE shown = "pending"
      <3>1. transport = 0
        BY <2>1 DEF InStep, Announced
      <3> QED
        BY <1>5, <1>e, <2>1, <3>1, QuietAgree DEF AcceptCertificate, reader
    <2>2. CASE shown # "pending"
      BY <1>5, <2>2, QuietAgree DEF AcceptCertificate, reader
    <2> QED
      BY <2>1, <2>2
  <1>6. CASE RejectCertificate
    BY <1>6, <1>e, QuietAgree DEF RejectCertificate, reader
  <1>7. CASE HandshakeFails
    <2>1. transport = 0 /\ task' = "ready"
      BY <1>7 DEF HandshakeFails, InStep, Waits
    <2>2. PICK ev \in {"off", "lost", "pending"} : bus' = Append(bus, ev)
      BY <1>7 DEF HandshakeFails
    <2> QED
      BY <1>7, <1>e, <2>1, <2>2, QuietAgree DEF HandshakeFails, reader
  <1>8. CASE Shutdown
    BY <1>8 DEF Shutdown, Command
  <1> QED
    BY <1>1, <1>2, <1>3, <1>4, <1>5, <1>6, <1>7, <1>8

LEMMA StepAgree == ConnInv /\ AgreeInv /\ [Next]_vars => AgreeInv'
  <1> SUFFICES ASSUME ConnInv, AgreeInv, [Next]_vars, task' # "gone", ~crossed', ~hushed'
               PROVE  InStep'
    BY DEF AgreeInv
  <1>1. task # "gone" /\ ~crossed /\ ~hushed
    <2>1. CASE Established \/ RejectCertificate \/ Teardown
      <3>1. task # "gone"
        BY <2>1 DEF Established, RejectCertificate, Teardown
      <3>2. ~crossed /\ ~hushed
        <4>1. CASE Established
          BY <4>1, Zenon DEF Established
        <4>2. CASE RejectCertificate
          BY <4>2, Zenon DEF RejectCertificate
        <4>3. CASE Teardown /\ Head(teardowns) = conn_gen
          BY <4>3, Zenon DEF Teardown
        <4>4. CASE Teardown /\ Head(teardowns) # conn_gen
          BY <4>4 DEF Teardown
        <4> QED
          BY <2>1, <4>1, <4>2, <4>3, <4>4
      <3> QED
        BY <3>1, <3>2
    <2>2. CASE UNCHANGED <<task, history>>
      BY <2>2 DEF history
    <2>3. CASE task # "gone" /\ UNCHANGED history
      BY <2>3 DEF history
    <2>4. CASE Connect \/ Disconnect \/ Shutdown \/ UserSend \/ PingServer \/ SendEnds
                \/ AcceptCertificate \/ HandshakeFails
      BY <2>3, <2>4 DEF Connect, Disconnect, Shutdown, UserSend, PingServer, SendEnds, SendWaits, Sent,
         AcceptCertificate, HandshakeFails, Command, SendFails
    <2>5. CASE UNCHANGED vars \/ Project \/ \E g \in Conns : RecvTimeout(g) \/ ReaderEnds(g) \/ LinkFails(g)
      BY <2>2, <2>5 DEF vars, history, Project, RecvTimeout, ReaderEnds, RecvEnds, RecvClears,
         RecvJudges, RecvReportsLoss, Reader, LinkFails
    <2>6. CASE \E what \in {"accept", "reject"} : Click(what)
      BY <2>2, <2>6 DEF Click
    <2> QED
      BY <2>1, <2>4, <2>5, <2>6 DEF Next, Handshake
  <1>2. InStep
    BY <1>1 DEF AgreeInv
  <1>3. CASE UNCHANGED vars
    BY <1>2, <1>3, QuietAgree DEF vars
  <1>4. ASSUME NEW g \in Conns, RecvTimeout(g) PROVE InStep'
    BY <1>2, <1>4, QuietAgree DEF RecvTimeout
  <1>5. ASSUME NEW what \in {"accept", "reject"}, Click(what) PROVE InStep'
    BY <1>2, <1>5, QuietAgree DEF Click, reader
  <1> QED
    BY <1>2, <1>3, <1>4, <1>5, TeardownAgree, EstablishedAgree, ReaderAgree, NetworkAgree, CommandAgree
       DEF Next, Handshake

(***************************************************************************)
(* Whatever the number of connections and commands, when the connection    *)
(* task, the receivers and the projection have done what they were asked   *)
(* to, State, the audio task, the plugin and the UI's copy of it agree on  *)
(* the connection there is, and none is left without an owner, unless a    *)
(* handshake overtook a receiver or the projection.                        *)
(***************************************************************************)
THEOREM PartsAgree == Spec => []AgreeUnlessCrossed
  <1>1. ConnInv /\ AgreeInv => AgreeUnlessCrossed
    <2> SUFFICES ASSUME ConnInv, AgreeInv, AtRest, ~crossed, ~hushed
                 PROVE  /\ (shown = "connected") = (transport # 0)
                        /\ transport # 0 => rooms = transport
                        /\ audio = transport /\ ft = transport /\ slot = transport
                        /\ \A g \in Conns : link[g] \in {"up", "wedged", "mute", "fin"} => g = transport
      BY DEF AgreeUnlessCrossed
    <2>1. InStep /\ Sight = shown /\ teardowns = <<>>
      BY DEF AgreeInv, AtRest, Sight
    <2>2. conn_gen # 0 /\ receiver[conn_gen] # "reading" => transport = 0 /\ ft = 0 /\ slot = 0
      BY <2>1 DEF InStep, Released, Due
    <2>3. ASSUME conn_gen # 0, receiver[conn_gen] = "reading" PROVE transport = conn_gen
      <3>1. conn_gen \in Conns /\ Readable(conn_gen)
        BY <2>3 DEF ConnInv, Ranges, Conns, AtRest
      <3> QED
        BY <2>1, <3>1 DEF InStep, Owned, Readable
    <2>4. CASE transport = 0
      BY <2>1, <2>2, <2>3, <2>4 DEF InStep, Parts, Unheld, Owned
    <2>5. CASE transport # 0
      <3>1. transport = conn_gen /\ receiver[transport] = "reading"
        BY <2>2, <2>5 DEF ConnInv, Newest
      <3> QED
        BY <2>1, <2>5, <3>1 DEF InStep, Announced, Owned
    <2> QED
      BY <2>4, <2>5
  <1> QED
    BY <1>1, InitInv, StepInv, InitAgree, StepAgree, PTL DEF Spec
================================================================================
