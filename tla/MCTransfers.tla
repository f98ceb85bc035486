------------------------------ MODULE MCTransfers ------------------------------
(***************************************************************************)
(* One client.  Downloads and uploads share nothing but the table, where   *)
(* their entries are apart: a behaviour has downloads of two offers with   *)
(* up to two fetch tasks, or two uploads of one file and room changes.   *)
(***************************************************************************)
EXTENDS Transfers
CONSTANTS o1, o2, s1, s2, p1, r1, r2

VARIABLE side
MCInit == Init /\ side \in {"downloads", "uploads"}
MCNext ==
    /\ \/ side = "downloads" /\ Downloading
       \/ side = "uploads" /\ Sharing
    /\ UNCHANGED side
mcvars == <<vars, side>>
MCSpec ==
    /\ MCInit /\ [][MCNext]_mcvars
    /\ \A k \in Tasks : WF_mcvars(side = "downloads" /\ FetchGoesOn(k) /\ UNCHANGED side)
    /\ \A s \in Shares : /\ WF_mcvars(side = "uploads" /\ UploadGoesOn(s) /\ UNCHANGED side)
                         /\ WF_mcvars(side = "uploads" /\ Watch(s) /\ UNCHANGED side)
================================================================================
