------------------------------ MODULE MCClientConn ------------------------------
(* Two or three connections of one client, one after the other. *)
EXTENDS ClientConn
================================================================================
