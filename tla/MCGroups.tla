-------------------------------- MODULE MCGroups --------------------------------
(***************************************************************************)
(* One key with two connections, a group and the "banned" group.  Two      *)
(* kinds of behaviour, chosen at the start, two jobs at a time in both.    *)
(* "overlap": one connection.  "return": a second connection comes once    *)
(* the first is gone - after a kick, a crash or a disconnect - so that     *)
(* handshakes meet bans in force and bans that have run out.               *)
(***************************************************************************)
EXTENDS Groups

CONSTANTS k, g, c1, c2, a1

OneKey == [c \in Conns |-> k]

MaxReturn == 2   \* admin operations and crashes in a behaviour with a return

VARIABLE mode
mcvars == <<vars, mode>>

MCInit == Init /\ mode \in {"overlap", "return"}
MCNext ==
    /\ Next
    /\ mode = "overlap" => link'[c2] = "new"
    /\ mode = "return" => /\ link'[c2] # "new" => link[c1] = "gone"
                          /\ asked' <= MaxReturn
    /\ UNCHANGED mode
MCSpec == MCInit /\ [][MCNext]_mcvars
=================================================================================
