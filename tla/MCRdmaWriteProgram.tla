-------------------------- MODULE MCRdmaWriteProgram --------------------------
(* Small instances of RdmaWriteProgram for TLC. *)
EXTENDS RdmaWriteProgram
=============================================================================
