------------------------------ MODULE MCRoomTree ------------------------------
(***************************************************************************)
(* Two kinds of behaviour, chosen at the start.  "serial": one handler at  *)
(* a time, three rooms besides Root, two labels, and a crash between any   *)
(* two steps.  "overlap": the handlers of two tasks interleave freely over *)
(* two rooms besides Root, with crashes, until a move or delete was        *)
(* overlapped: no property says anything of what follows, so exploring     *)
(* ends there.                                                             *)
(***************************************************************************)
EXTENDS RoomTree, TLC

CONSTANTS r1, r2, r3

VARIABLE mode
mcvars == <<vars, mode>>

MaxOverlapRooms == 3
OverlapBound ==
    /\ Cardinality(used') <= MaxOverlapRooms
    /\ \A t \in Tasks : task'[t].text = NewLabel

MCInit == Init /\ mode \in {"serial", "overlap"}
MCNext ==
    /\ \/ /\ mode = "serial" /\ Next
          /\ \A s, t \in Tasks : task'[s].op # "idle" /\ task'[t].op # "idle" => s = t
       \/ /\ mode = "overlap" /\ ~raced
          /\ Next
          /\ OverlapBound
       \/ /\ raced
          /\ UNCHANGED vars
    /\ UNCHANGED mode
MCSpec == MCInit /\ [][MCNext]_mcvars

\* The rooms other than Root are interchangeable, and so are the tasks.
RoomSymmetry == Permutations(RoomIds \ {Root}) \cup Permutations(Tasks)
=============================================================================
