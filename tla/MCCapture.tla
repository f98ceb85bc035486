------------------------------- MODULE MCCapture -------------------------------
(* One client's audio task with a short queue. *)
EXTENDS Capture
================================================================================
