------------------------------ MODULE MCServerMute ------------------------------
(***************************************************************************)
(* Two sessions, one moderator, Root and two rooms.  Two kinds of          *)
(* behaviour, chosen at the start.  "serial": one handler at a time, every *)
(* operation, for one session, which may log in late.  "overlap": the      *)
(* handlers of both sessions and of the moderator interleave, two at once; *)
(* the sessions stay online and in Root or room a, groups stay, and of the *)
(* moves there is that of room a under room b and back.                    *)
(***************************************************************************)
EXTENDS ServerMute

CONSTANTS a, b, s1, s2, m1

\* Silent, SPEAK denied in the room, and granted there but denied below it.
MCWords == {[here |-> "silent", subs |-> "silent"], [here |-> "deny", subs |-> "silent"],
            [here |-> "grant", subs |-> "deny"]}

MaxAcls == 2       \* rooms with an ACL, in serial behaviours
MaxJobs == 2       \* handlers at work at once

Spoken == {r \in Rooms : acl[r] # Silence}

VARIABLE mode
mcvars == <<vars, mode>>

MCInit ==
    \/ mode = "serial" /\ \E late \in {{s2}, Sessions} : Start(late)
    \/ mode = "overlap" /\ Start({})
MCNext ==
    /\ Next
    /\ \/ /\ mode = "serial"
          /\ \A x, y \in Actors : job'[x].pc # "idle" /\ job'[y].pc # "idle" => x = y
          /\ <<grouped, fresh, parent>>' # <<grouped, fresh, parent>> => Quiet \/ job' # job
          /\ parent'[Root] = Root /\ s2 \in fresh' /\ Cardinality(Spoken') <= MaxAcls
       \/ /\ mode = "overlap"
          /\ grouped' = Sessions /\ online' = Sessions
          /\ Cardinality({x \in Actors : job'[x].pc # "idle"}) <= MaxJobs
          /\ crossed' \subseteq {s1}
          /\ Spoken' \in {{}, {a}, {b}} /\ acl'[a].subs = "silent" /\ acl'[b].here # "deny"
          /\ parent'[Root] = Root /\ parent'[b] = Root
          /\ \A s \in Sessions : room'[s] # b
    /\ UNCHANGED mode
MCSpec == MCInit /\ [][MCNext]_mcvars
=================================================================================
