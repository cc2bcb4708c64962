------------------------------ MODULE MCUdSend ------------------------------
(* Small instances of UdSend for TLC. *)
EXTENDS UdSend
=============================================================================
