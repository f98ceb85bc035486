------------------------------- MODULE ClientConn -------------------------------
(***************************************************************************)
(* The client's connection task and the tasks it spawns.                   *)
(*                                                                         *)
(* run_connection_task owns the transport, the flag that marks a close as  *)
(* its own, and the file-transfer plugin, of which it keeps a copy in a    *)
(* slot shared with the UI.  Each connection has a receiver task, which    *)
(* outlives the transport by the steps it takes when its stream ends.  The *)
(* projection applies connection events to State, which the certificate    *)
(* dialog and the receivers read.  All run on a multi-threaded runtime.    *)
(*                                                                         *)
(* A connection is the generation it was given.  The audio task's channel  *)
(* and the room channel are in order, so that only the last message on     *)
(* each matters: they are the connection last named there, 0 for none.     *)
(***************************************************************************)
EXTENDS Naturals, Sequences, FiniteSets

CONSTANTS
    MaxConns,   \* bound: connections established
    MaxCommands \* bound: commands that set up or take down a connection

ASSUME ConnConstants == MaxConns \in Nat \ {0} /\ MaxCommands \in Nat

Conns == 1..MaxConns
Event == {"start", "pending", "connected", "off", "lost"}

VARIABLES
    task,       \* what run_connection_task does
    conn_gen,   \* generations handed out
    transport,  \* the connection held, 0 for None
    local_close,\* the connection whose flag is held, 0 for None
    closing,    \* per connection: the flag
    link,       \* per connection: what has become of the QUIC connection
    ft, slot,   \* the plugin, the copy the UI sees: whose it is, 0 for None
    audio,      \* the connection the audio task holds
    rooms,      \* the connection whose rooms State shows
    receiver,   \* per connection: the receiver task
    teardowns,  \* the teardown channel
    probe,      \* a PingServer command is waiting
    bus, shown, \* the connection channel, State.connection
    clicks,     \* AcceptCertificate and RejectCertificate commands waiting
    commands,   \* commands given
    crossed,    \* history: a task fell a whole handshake behind, or a rejection came late
    hushed      \* history: a teardown was served before the receiver that sent it looked at the flag

vars == <<task, conn_gen, transport, local_close, closing, link, ft, slot, audio, rooms,
          receiver, teardowns, probe, bus, shown, clicks, commands, crossed, hushed>>
history == <<crossed, hushed>>
reader == <<receiver, teardowns, probe>>

TypeOK ==
    /\ task \in {"ready", "connecting", "accepting", "sending", "gone"}
    /\ {conn_gen, transport, local_close, ft, slot, audio, rooms} \subseteq 0..MaxConns
    /\ closing \in [Conns -> BOOLEAN]
    /\ link \in [Conns -> {"none", "up", "wedged", "mute", "fin", "dead", "closed"}]
    /\ receiver \in [Conns -> {"none", "reading", "ended", "cleared", "loud", "done"}]
    /\ teardowns \in Seq(Conns)
    /\ bus \in Seq(Event) /\ shown \in Event /\ clicks \subseteq {"accept", "reject"}
    /\ commands \in 0..MaxCommands /\ {probe, crossed, hushed} \subseteq BOOLEAN

Init ==
    /\ task = "ready" /\ conn_gen = 0 /\ transport = 0 /\ local_close = 0
    /\ closing = [g \in Conns |-> FALSE] /\ link = [g \in Conns |-> "none"]
    /\ ft = 0 /\ slot = 0 /\ audio = 0 /\ rooms = 0
    /\ receiver = [g \in Conns |-> "none"] /\ teardowns = <<>> /\ probe = FALSE
    /\ bus = <<>> /\ shown = "off" /\ clicks = {}
    /\ commands = 0 /\ crossed = FALSE /\ hushed = FALSE

\* What the server and the network leave of a connection: both directions work;
\* keep-alives hold it up, but the server neither reads nor writes ("wedged");
\* the server has stopped the stream it reads, so that a send fails ("mute"); it
\* ended the stream it writes ("fin"); the connection is gone ("dead").
Writable(g) == link[g] \in {"up", "wedged", "fin"}
Readable(g) == link[g] \in {"up", "wedged", "mute"}

-----------------------------------------------------------------------------
(* The connection task: taking a connection down *)
RaiseFlag == closing' = [g \in Conns |-> closing[g] \/ g = local_close]
CloseTransport == link' = [g \in Conns |-> IF g = transport THEN "closed" ELSE link[g]]

\* Mutants of Teardown: whose request it is does not matter; the plugin is kept
TeardownAny ==
    /\ task = "ready" /\ teardowns # <<>>
    /\ teardowns' = Tail(teardowns)
    /\ RaiseFlag /\ CloseTransport
    /\ local_close' = 0 /\ transport' = 0 /\ ft' = 0 /\ slot' = 0
    /\ hushed' = (hushed \/ (local_close # 0 /\ receiver[local_close] # "done"))
    /\ UNCHANGED <<task, conn_gen, audio, rooms, receiver, probe, bus, shown, clicks, commands, crossed>>

TeardownKeepsPlugin ==
    /\ task = "ready" /\ teardowns # <<>>
    /\ teardowns' = Tail(teardowns)
    /\ IF Head(teardowns) = conn_gen
       THEN /\ RaiseFlag /\ CloseTransport
            /\ local_close' = 0 /\ transport' = 0
            /\ hushed' = (hushed \/ (local_close # 0 /\ receiver[local_close] # "done"))
       ELSE UNCHANGED <<closing, link, local_close, transport, hushed>>
    /\ UNCHANGED <<task, conn_gen, ft, slot, audio, rooms, receiver, probe, bus, shown, clicks, commands, crossed>>

\* A teardown request of the current generation releases what is left of it.
Teardown ==
    /\ task = "ready" /\ teardowns # <<>>
    /\ teardowns' = Tail(teardowns)
    /\ IF Head(teardowns) = conn_gen
       THEN /\ RaiseFlag /\ CloseTransport
            /\ local_close' = 0 /\ transport' = 0 /\ ft' = 0 /\ slot' = 0
            /\ hushed' = (hushed \/ (local_close # 0 /\ receiver[local_close] # "done"))
       ELSE UNCHANGED <<closing, link, local_close, transport, ft, slot, hushed>>
    /\ UNCHANGED <<task, conn_gen, audio, rooms, receiver, probe, bus, shown, clicks, commands, crossed>>

Command(next) ==
    /\ task = "ready" /\ commands < MaxCommands
    /\ commands' = commands + 1
    /\ task' = next
    /\ UNCHANGED <<conn_gen, reader, shown, clicks, history>>

\* The audio task and the plugin are only told if there was a transport.
Connect ==
    /\ Command("connecting")
    /\ conn_gen < MaxConns
    /\ RaiseFlag /\ CloseTransport
    /\ local_close' = 0 /\ transport' = 0
    /\ IF transport # 0 THEN audio' = 0 /\ ft' = 0 /\ slot' = 0
                        ELSE UNCHANGED <<audio, ft, slot>>
    /\ bus' = Append(bus, "start")
    /\ UNCHANGED rooms

\* Mutant of Disconnect: the receiver is not told that the close is ours
DisconnectUnmarked ==
    /\ Command("ready")
    /\ CloseTransport
    /\ local_close' = 0 /\ transport' = 0 /\ audio' = 0 /\ ft' = 0 /\ slot' = 0 /\ rooms' = 0
    /\ bus' = Append(bus, "off")
    /\ UNCHANGED closing

Disconnect ==
    /\ Command("ready")
    /\ RaiseFlag /\ CloseTransport
    /\ local_close' = 0 /\ transport' = 0 /\ audio' = 0 /\ ft' = 0 /\ slot' = 0 /\ rooms' = 0
    /\ bus' = Append(bus, "off")

Shutdown ==
    /\ Command("gone")
    /\ RaiseFlag /\ CloseTransport
    /\ local_close' = 0 /\ transport' = 0 /\ audio' = 0
    /\ UNCHANGED <<ft, slot, rooms, bus>>

\* send_tracked, for every command that sends an envelope: a failure takes the
\* transport down and is reported; the plugin goes with the receiver's teardown.
SendFails ==
    /\ RaiseFlag /\ CloseTransport
    /\ transport' = 0 /\ audio' = 0 /\ rooms' = 0
    /\ bus' = Append(bus, "lost")
    /\ task' = "ready"
    /\ UNCHANGED <<conn_gen, local_close, ft, slot, receiver, teardowns, shown, clicks, commands, history>>

\* What goes to a wedged connection is buffered, or waits for room without a
\* timeout, and the task with it.
Sent(next) ==
    /\ task' = next
    /\ UNCHANGED <<conn_gen, transport, local_close, closing, link, ft, slot, audio, rooms, receiver,
                   teardowns, bus, shown, clicks, commands, history>>
SendWaits == transport # 0 /\ link[transport] = "wedged" /\ Sent("sending")

UserSend ==
    /\ task = "ready" /\ transport # 0
    /\ (~Writable(transport) /\ SendFails) \/ SendWaits
    /\ UNCHANGED probe

PingServer ==
    /\ task = "ready" /\ probe
    /\ probe' = FALSE
    /\ IF transport # 0 /\ ~Writable(transport) THEN SendFails ELSE Sent("ready") \/ SendWaits

SendEnds ==
    /\ task = "sending" /\ link[transport] # "wedged"
    /\ IF Writable(transport) THEN Sent("ready") ELSE SendFails
    /\ UNCHANGED probe

-----------------------------------------------------------------------------
(* The connection task: setting a connection up *)
\* The certificate is looked up in State; a connection that exists is left as it is.
AcceptCertificate ==
    /\ task = "ready" /\ "accept" \in clicks /\ conn_gen < MaxConns
    /\ clicks' = clicks \ {"accept"}
    /\ IF shown = "pending"
       THEN task' = "accepting" /\ bus' = Append(bus, "start")
       ELSE UNCHANGED <<task, bus>>
    /\ UNCHANGED <<conn_gen, transport, local_close, closing, link, ft, slot, audio, rooms, reader, shown,
                   commands, history>>

RejectCertificate ==
    /\ task = "ready" /\ "reject" \in clicks
    /\ clicks' = clicks \ {"reject"}
    /\ bus' = Append(bus, "off")
    /\ crossed' = (crossed \/ transport # 0)
    /\ UNCHANGED <<task, conn_gen, transport, local_close, closing, link, ft, slot, audio, rooms, reader, shown,
                   commands, hushed>>

\* Some receiver has not finished, or State has not been brought up to date,
\* since the handshake began.
FellBehind == bus # <<>> \/ \E g \in Conns : receiver[g] \notin {"none", "done"}

Established ==
    LET g == conn_gen + 1
    IN  /\ task \in {"connecting", "accepting"}
        /\ task' = "ready"
        /\ conn_gen' = g /\ transport' = g /\ local_close' = g /\ ft' = g /\ slot' = g
        /\ audio' = g /\ rooms' = g
        /\ link' = [link EXCEPT ![g] = "up"]
        /\ receiver' = [receiver EXCEPT ![g] = "reading"]
        /\ bus' = Append(bus, "connected")
        /\ crossed' = (crossed \/ FellBehind)
        /\ UNCHANGED <<closing, teardowns, probe, shown, clicks, commands, hushed>>

\* HANDSHAKE_TIMEOUT, an unknown certificate, or an error
HandshakeFails ==
    /\ task \in {"connecting", "accepting"}
    /\ task' = "ready"
    /\ \E ev \in {"off", "lost"} \cup (IF task = "connecting" THEN {"pending"} ELSE {}) :
          bus' = Append(bus, ev)
    /\ UNCHANGED <<conn_gen, transport, local_close, closing, link, ft, slot, audio, rooms, reader, shown,
                   clicks, commands, history>>

-----------------------------------------------------------------------------
(* A receiver task *)
\* Mutant of RecvTimeout: silence is waited out
RecvTimeoutPatient(g) ==
    /\ receiver[g] = "reading" /\ link[g] \in {"mute", "wedged"} /\ ~probe
    /\ UNCHANGED vars

\* RECV_TIMEOUT: silence is answered with a probe, not taken for a loss; a probe
\* of a connection that works changes nothing and is left out.
RecvTimeout(g) ==
    /\ receiver[g] = "reading" /\ link[g] \in {"mute", "wedged"} /\ ~probe
    /\ probe' = TRUE
    /\ UNCHANGED <<task, conn_gen, transport, local_close, closing, link, ft, slot, audio, rooms, receiver,
                   teardowns, bus, shown, clicks, commands, history>>

Reader(g, from, to) ==
    /\ receiver[g] = from
    /\ receiver' = [receiver EXCEPT ![g] = to]
    /\ UNCHANGED <<task, conn_gen, transport, local_close, closing, link, ft, probe, shown, clicks, commands, history>>

\* A receiver that was never given a close also ends with the runtime.
RecvEnds(g) ==
    /\ ~Readable(g)
    /\ Reader(g, "reading", "ended")
    /\ teardowns' = Append(teardowns, g)
    /\ UNCHANGED <<slot, audio, rooms, bus>>

RecvClears(g) ==
    /\ Reader(g, "ended", "cleared")
    /\ audio' = 0 /\ slot' = 0
    /\ UNCHANGED <<teardowns, rooms, bus>>

RecvJudges(g) ==
    /\ Reader(g, "cleared", IF closing[g] \/ shown = "off" THEN "done" ELSE "loud")
    /\ UNCHANGED <<teardowns, slot, audio, rooms, bus>>

RecvReportsLoss(g) ==
    /\ Reader(g, "loud", "done")
    /\ bus' = Append(bus, "lost")
    /\ rooms' = 0
    /\ UNCHANGED <<teardowns, slot, audio>>

-----------------------------------------------------------------------------
(* The network, the projection and the user *)
\* A wedged server may come back.
LinkFails(g) ==
    /\ link[g] \in {"up", "wedged"}
    /\ \E how \in {"up", "wedged", "mute", "fin", "dead"} \ {link[g]} :
          link' = [link EXCEPT ![g] = how]
    /\ UNCHANGED <<task, conn_gen, transport, local_close, closing, ft, slot, audio, rooms, reader, bus, shown,
                   clicks, commands, history>>

\* apply_connection
Project ==
    /\ bus # <<>>
    /\ bus' = Tail(bus)
    /\ shown' = Head(bus)
    /\ UNCHANGED <<task, conn_gen, transport, local_close, closing, link, ft, slot, audio, rooms, reader, clicks,
                   commands, history>>

\* The certificate dialog is open while State shows a pending certificate; a command
\* given from it may be served after State has moved on.
Click(what) ==
    /\ shown = "pending" /\ what \notin clicks /\ task # "gone" /\ commands < MaxCommands
    /\ clicks' = clicks \cup {what}
    /\ commands' = commands + 1
    /\ UNCHANGED <<task, conn_gen, transport, local_close, closing, link, ft, slot, audio, rooms, reader, bus,
                   shown, history>>

-----------------------------------------------------------------------------
Handshake == Established \/ HandshakeFails
ReaderEnds(g) ==
    \/ RecvEnds(g) \/ RecvClears(g) \/ RecvJudges(g) \/ RecvReportsLoss(g)

Next ==
    \/ Teardown \/ PingServer \/ SendEnds \/ Handshake
    \/ AcceptCertificate \/ RejectCertificate
    \/ Connect \/ Disconnect \/ Shutdown \/ UserSend
    \/ \E g \in Conns :
          RecvTimeout(g) \/ ReaderEnds(g) \/ LinkFails(g)
    \/ Project
    \/ \E what \in {"accept", "reject"} : Click(what)

Spec == Init /\ [][Next]_vars

\* select! takes its ready branches in random order, so that none is passed over
\* for ever while others are ready; every task and the runtime's timers run.
\* The user and the network owe nothing.
Fairness ==
    /\ SF_vars(Teardown) /\ SF_vars(PingServer)
    /\ WF_vars(SendEnds) /\ WF_vars(Handshake) /\ WF_vars(Project)
    /\ \A g \in Conns : WF_vars(ReaderEnds(g)) /\ SF_vars(RecvTimeout(g))

FairSpec == Spec /\ Fairness

-----------------------------------------------------------------------------
\* Every task has done what it was asked to.
AtRest ==
    /\ task = "ready" /\ teardowns = <<>> /\ bus = <<>>
    /\ \A g \in Conns : receiver[g] \in {"none", "done"} \/ (receiver[g] = "reading" /\ Readable(g))

\* At rest the parts of the client agree on the connection there is: State shows
\* Connected exactly while a transport is held, and then that server's rooms, the audio task holds
\* that transport, the plugin and the UI's copy belong to it, and no connection
\* that the server still sees is left without an owner -- unless a receiver or
\* the projection took longer for a few lines than a handshake took, or the
\* certificate was rejected after it had been accepted (run_connection_task,
\* run_receiver_task, send_tracked).
AgreeUnlessCrossed ==
    AtRest /\ ~crossed /\ ~hushed =>
        /\ shown = "connected" <=> transport # 0
        /\ transport # 0 => rooms = transport
        /\ audio = transport /\ ft = transport /\ slot = transport
        /\ \A g \in Conns : link[g] \in {"up", "wedged", "mute", "fin"} => g = transport

\* A stale teardown request never takes down a connection that works: a request
\* is served without touching a transport whose link has not failed.
StaleTeardownSpares ==
    [][Len(teardowns') < Len(teardowns) /\ transport # 0 /\ link[transport] = "up" =>
        transport' = transport /\ ft' = ft /\ slot' = slot]_vars

\* After the user disconnected State does not end up showing a loss, unless the
\* connection was lost before (the local_close flag).
NoLossAfterClose ==
    [][\A g \in Conns : receiver[g] # "loud" /\ receiver'[g] = "loud" => link[g] # "closed"]_vars

\* A connection that failed is noticed and released, and State stops showing it,
\* also when all that fails is what is sent, with nothing to send but the probe
\* of RECV_TIMEOUT (run_receiver_task, PingServer, send_tracked), and also when
\* the task was waiting in a send.  A server that is wedged behind a connection
\* that is kept alive is not noticed, since a probe to it does not fail.
LossNoticed ==
    \A g \in Conns : (transport = g /\ ~(link[g] \in {"up", "wedged"})) ~>
        (transport # g /\ (task = "gone" \/ crossed \/ hushed \/ shown # "connected" \/ conn_gen > g))

\* The Teardown arm's comment: when a teardown request is served, its receiver
\* "has already emitted ConnectionLost", so that at rest State does not show
\* Connected without a transport.
LossIsShown == AtRest /\ ~crossed /\ shown = "connected" => transport # 0
================================================================================
