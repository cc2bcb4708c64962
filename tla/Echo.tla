-------------------------------- MODULE Echo --------------------------------
(***************************************************************************)
(* What rc_pingpong promises: pings and pongs alternate, each arrives once *)
(* and in order, and the server holds the newest ping until it has         *)
(* answered it.                                                            *)
(***************************************************************************)
EXTENDS Integers

CONSTANT NumIters

VARIABLES
  ping,  \* pings the server has received
  pong,  \* pongs the client has received
  held   \* the payload the server holds

vars == <<ping, pong, held>>

Init == ping = 0 /\ pong = 0 /\ held = 0

\* The next ping arrives, once the one before has been answered.
Ping ==
  /\ ping = pong
  /\ ping < NumIters
  /\ ping' = ping + 1
  /\ held' = ping + 1
  /\ pong' = pong

\* Its answer arrives.
Pong ==
  /\ pong < ping
  /\ held = ping
  /\ pong' = ping
  /\ UNCHANGED <<ping, held>>

Next == Ping \/ Pong

Spec == Init /\ [][Next]_vars
=============================================================================
