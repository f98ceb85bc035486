------------------------------- MODULE MCSession -------------------------------
(***************************************************************************)
(* What a behaviour is about is chosen at the start.  "takeover": c1 is    *)
(* logged in and c2, of the same identity, connects.  "again": so it does, *)
(* and c1 authenticates again.  "ends": c1 alone, a controller with two    *)
(* participants, one if it is kicked, from its first stream on, on that    *)
(* stream only.  "second": c1, logged in, and its second stream, with one  *)
(* participant.                                                            *)
(***************************************************************************)
EXTENDS Session

CONSTANTS c1, c2, p, q

SameIdentity == [c \in Conns |-> "alice"]

VARIABLE about
mcvars == <<vars, about>>

\* Where Connect, ClientHello and Authenticate take c1 by themselves
LoggedIn ==
    /\ link = [c \in Conns |-> IF c = c1 THEN "open" ELSE "none"]
    /\ pending = {} /\ authed = {c1} /\ torn = {} /\ ctrl = {} /\ ctrl2 = {}
    /\ members = {c1} /\ placed = {c1} /\ sessions = {c1} /\ shown = {c1}
    /\ owner = [i \in Parts |-> None]
    /\ left = [i \in Ids |-> 0] /\ told = [c \in Conns |-> 0]
    /\ job = [x \in Actors |-> CASE x[2] # c1 -> NoJob
                                 [] x = Side(c1) -> NoJob
                                 [] x = Accept(c1) -> [NoJob EXCEPT !.pc = "wait"]
                                 [] OTHER -> [NoJob EXCEPT !.pc = "idle"]]
    /\ collided = {}

Alone == link[c2] = "none"
OneStream == \A c \in Conns : job[Side(c)].pc = "none"
Unkicked == job[Kick(c1)].pc = "idle"
Again == pending \cap authed

\* Bounds, on what clients and kickers do only: hellos are said on open
\* connections, and a second stream is opened before anybody was told of a departure.
Bounded ==
    /\ \A c \in pending' \ pending : link[c] = "open"
    /\ \A c \in Conns : job[Side(c)].pc = "none" /\ job'[Side(c)].pc # "none" => left[c] = 0

MCInit == (about = "ends" /\ Init) \/ (about \in {"takeover", "again", "second"} /\ LoggedIn)
MCNext ==
    /\ Next /\ Bounded
    /\ \/ about = "takeover" /\ (/\ OneStream /\ Again = {} /\ ctrl = {}
                                 /\ Unkicked \/ link[c2] # "closed")'
       \/ about = "again" /\ (OneStream /\ Again \subseteq {c1} /\ ctrl = {} /\ Unkicked)'
       \/ about = "ends" /\ (Alone /\ OneStream /\ Again = {} /\ (Unkicked \/ owner[q] = None))'
       \/ about = "second" /\ (/\ Alone /\ owner[q] = None /\ Unkicked
                               /\ pending = {} \/ owner[p] = None)'
    /\ UNCHANGED about

MCSpec ==
    /\ MCInit /\ [][MCNext]_mcvars
    /\ \A c \in Conns :
          /\ WF_mcvars(ReadStep(c) /\ UNCHANGED about)
          /\ WF_mcvars(SideStep(c) /\ UNCHANGED about)
          /\ WF_mcvars(AcceptStep(c) /\ UNCHANGED about)
          /\ WF_mcvars(KickStep(c) /\ UNCHANGED about)
================================================================================
