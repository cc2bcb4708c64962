---------------------------- MODULE MCRcPingPong ----------------------------
(* Small instances of RcPingPong for TLC. *)
EXTENDS RcPingPong
=============================================================================
