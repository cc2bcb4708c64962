---------------------------- MODULE MCSrq ----------------------------
(* Small instances of Srq for TLC. *)
EXTENDS Srq
=============================================================================
