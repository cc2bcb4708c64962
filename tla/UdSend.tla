------------------------------- MODULE UdSend -------------------------------
(***************************************************************************)
(* The whole of ud_send.c: the handshake of sender and receiver, then the  *)
(* datagrams.  The queue pairs are in RTS before the handshake begins.  A  *)
(* process that ends in the handshake leaves the other to itself.          *)
(***************************************************************************)
EXTENDS Handshake, UdMessaging

ProgramInit == ShakeInit /\ UdInit
programVars == <<shakeVars, udVars>>

\* A step of the handshake.
During(step) ==
  /\ step
  /\ sender' = IF stage'[Client] = "exited" THEN "failed" ELSE sender
  /\ UNCHANGED <<sending, sendCq, flying, missed, receiverVars, rq, mem, recvCq>>

RunSender ==
  /\ stage[Client] = "running"
  /\ Sender
  /\ Enter(Client, IF sender' = "done" THEN "closed"
                   ELSE IF sender' = "failed" THEN "exited" ELSE stage[Client])
  /\ UNCHANGED <<linked, wrote, got>>

RunReceiver ==
  /\ stage[Server] = "running"
  /\ Receiver
  /\ Enter(Server, IF receiver' = "done" THEN "closed" ELSE stage[Server])
  /\ UNCHANGED <<linked, wrote, got>>

Transfer == Network /\ UNCHANGED shakeVars

ProgramNext ==
  \/ During(Greet)
  \/ \E p \in Peers : During(Shake(p))
  \/ RunSender \/ RunReceiver \/ Transfer

\* Processes are scheduled, and no datagram is on its way for ever.
ProgramSpec ==
  /\ ProgramInit /\ [][ProgramNext]_programVars
  /\ WF_programVars(During(Greet))
  /\ \A p \in Peers : WF_programVars(During(Shake(p)))
  /\ WF_programVars(RunSender) /\ WF_programVars(RunReceiver)
  /\ WF_programVars(Transfer)

----------------------------------------------------------------------------
\* The receiver waits for ever only for a datagram that was missed and of which no
\* other copy has reached it, or for a sender that failed before it had sent all;
\* the sender waits for nobody.
WaitsOnlyForMissed ==
  /\ stage[Client] = "running" ~> Gone(Client)
  /\ stage[Server] = "running" ~>
       receiver = "done" \/ missed \ Received # {} \/ sender = "failed"
=============================================================================
