---------------------------- MODULE MCCmConnection ----------------------------
(* Small instances of CmConnection for TLC. *)
EXTENDS CmConnection
=============================================================================
