---------------------------- MODULE MCResources ----------------------------
(* Small instances of Resources for TLC. *)
EXTENDS Resources
=============================================================================
