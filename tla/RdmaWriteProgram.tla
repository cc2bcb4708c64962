-------------------------- MODULE RdmaWriteProgram --------------------------
(***************************************************************************)
(* The whole of rdma_write.c: the rendezvous of the two processes, with    *)
(* the exchange of memory keys, then the write and its notification over   *)
(* the queue pairs that the rendezvous has brought to RTS.                 *)
(***************************************************************************)
EXTENDS Rendezvous, RdmaWrite

programVars == <<vars, writeVars>>

ProgramInit == Init /\ WriteInit

\* A step of the rendezvous.  A process that ends in it never comes to the
\* second part.
During(step) ==
  /\ step
  /\ server' = IF pc'[Server] = "exited" THEN "failed" ELSE server
  /\ client' = IF pc'[Client] = "exited" THEN "failed" ELSE client
  /\ UNCHANGED <<after, local, requests, adapterVars, clientCq, serverCq, rq>>

Stage(p) == IF p = Server THEN server ELSE client

\* Mutant: a process leaves its queue pair behind.
EndsWithQp(p) ==
  LET over == Stage(p)' \in {"done", "failed"} IN
  /\ pc' = [pc EXCEPT ![p] = IF over THEN "closed" ELSE @]
  /\ UNCHANGED qp

\* The last step of a process closes its socket and destroys its queue pair.
Ends(p) ==
  LET over == Stage(p)' \in {"done", "failed"} IN
  /\ pc' = [pc EXCEPT ![p] = IF over THEN "closed" ELSE @]
  /\ qp' = [qp EXCEPT ![p] = IF over THEN "GONE" ELSE @]

\* A step of a process past the barrier.
Run(p) ==
  /\ pc[p] = "running"
  /\ IF p = Server THEN ServerStep ELSE ClientStep
  /\ Ends(p)
  /\ UNCHANGED <<connected, sent, rcvd, psn, remotePsn, rqPsn, sqPsn>>

\* The adapter of the server executes what its queue pair can take; that of the
\* client completes what it has been answered, or gives up.
Execute ==
  /\ qp[Server] \in {"RTR", "RTS"}
  /\ (\E c \in Cells : PlaceCell(c)) \/ WriteExecuted \/ SendExecuted
  /\ UNCHANGED vars

Complete == (Acknowledge \/ RetryExceeded) /\ UNCHANGED vars

ProgramNext ==
  \/ During(Meet)
  \/ \E p \in Peers : During(Setup(p)) \/ Run(p)
  \/ Execute
  \/ Complete

\* Processes are scheduled and adapters work; what is sent again and again comes,
\* or is given up.  Only against a server that is gone must the client give up.
ProgramSpec ==
  /\ ProgramInit /\ [][ProgramNext]_programVars
  /\ WF_programVars(During(Meet))
  /\ \A p \in Peers : WF_programVars(During(Setup(p))) /\ WF_programVars(Run(p))
  /\ WF_programVars(Execute)
  /\ WF_programVars((Acknowledge \/ (RetryExceeded /\ ~ServerUp)) /\ UNCHANGED vars)

----------------------------------------------------------------------------
\* The program behaves as its two parts say: what is proved of them for any
\* structure length and any message holds of it.
ImplementsParts == Spec /\ WriteSpec

\* The client always ends, also against a server that failed in its setup; the
\* server ends unless the client failed.
EndsOrIsLeft ==
  /\ pc[Client] = "running" ~> Gone(Client)
  /\ pc[Server] = "running" ~> server = "done" \/ client = "failed"
=============================================================================
