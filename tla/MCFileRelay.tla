------------------------------ MODULE MCFileRelay ------------------------------
(* Two uploads that together do not fit, one reader, the sweep and a disconnect. *)
EXTENDS FileRelay
CONSTANTS u1, u2, f1, d1, i1, i2, r1, r2
================================================================================
