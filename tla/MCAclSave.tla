------------------------------- MODULE MCAclSave -------------------------------
(* Two editors, Root and one room, two configurations. *)
EXTENDS AclSave

CONSTANTS r, d, x, e1, e2
================================================================================
