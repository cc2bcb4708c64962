---------------------------- MODULE MCRdmaBench ----------------------------
(* Small instances of RdmaBench for TLC. *)
EXTENDS RdmaBench
=============================================================================
