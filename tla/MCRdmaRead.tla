---------------------------- MODULE MCRdmaRead ----------------------------
(* Small instances of RdmaRead for TLC. *)
EXTENDS RdmaRead
=============================================================================
