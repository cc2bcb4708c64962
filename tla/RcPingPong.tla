----------------------------- MODULE RcPingPong -----------------------------
(***************************************************************************)
(* The whole of rc_pingpong.c: the rendezvous of the two processes         *)
(* (Rendezvous), then the loop over the connection it has set up           *)
(* (PingLoop).  The two modules share the queue pairs: the rendezvous      *)
(* brings them to RTS, the loop uses them and destroys them.  A process    *)
(* enters its loop when it has passed the barrier, while the other may     *)
(* still be at the barrier, or may have failed before it.  The processes   *)
(* of FaultyPeers may also die in their loop.                              *)
(***************************************************************************)
EXTENDS PingLoop

CONSTANTS QpInfoLen, MrInfoLen, SockBuf, Psns, FaultyPeers, None

VARIABLES pc, connected, sent, rcvd, psn, remotePsn, rqPsn, sqPsn

R == INSTANCE Rendezvous

\* What Rendezvous assumes of its parameters.
ASSUME SetupAssumption ==
  /\ R!LengthsAssumption
  /\ R!ExchangeFits
  /\ R!PsnAssumption
  /\ R!FaultyAssumption

setupVars == <<connected, sent, rcvd, psn, remotePsn, rqPsn, sqPsn>>
loopVars == <<at, iter, buf, cq, rq, posted, acked, delivered, wire, acks>>
programVars == <<pc, setupVars, vars>>

ProgramInit == R!Init /\ LoopInit

Meet == R!Meet /\ UNCHANGED loopVars

Setup(p) == R!Setup(p) /\ UNCHANGED loopVars

\* Mutant: a process does not wait for the sync byte of its peer.
BarrierIgnored(p) == pc[p] \in {"sendSync", "recvSync", "running"}

PastBarrier(p) == pc[p] = "running"

\* A step of the loop; one that ends the process also closes its socket.
Loop(p) ==
  /\ PastBarrier(p)
  /\ Process(p)
  /\ pc' = [pc EXCEPT ![p] = IF at'[p] \in Ended THEN "closed" ELSE "running"]
  /\ UNCHANGED setupVars

\* A process dies in its loop, at any place of it.
Killed(p) ==
  /\ p \in FaultyPeers
  /\ PastBarrier(p)
  /\ Die(p)
  /\ pc' = [pc EXCEPT ![p] = "closed"]
  /\ UNCHANGED setupVars

\* The adapters and the fabric need no process.
Below(step) == step /\ UNCHANGED <<pc, setupVars>>

ProgramNext ==
  \/ Meet
  \/ \E p \in Peers : Setup(p) \/ Loop(p) \/ Killed(p) \/ Below(Fabric(p))

\* A process is scheduled; an adapter repeats a send until it is answered, and
\* the fabric does not lose for ever what is sent again and again.  A queue pair
\* whose peer does not answer fails at last; one whose peer answers may fail, but
\* nothing makes it, and nothing makes a process die.
ProgramSpec ==
  /\ ProgramInit /\ [][ProgramNext]_programVars
  /\ WF_programVars(Meet)
  /\ \A p \in Peers :
       /\ WF_programVars(Setup(p))
       /\ WF_programVars(Loop(p))
       /\ WF_programVars(Below(Transmit(p)))
       /\ SF_programVars(Below(Deliver(p)))
       /\ SF_programVars(Below(Duplicate(p)))
       /\ SF_programVars(Below(Acknowledge(p)))
       /\ WF_programVars(Below(RetryExceeded(p) /\ ~Responds(Other(p))))

----------------------------------------------------------------------------
\* No packet is ever sent to a living peer whose queue pair cannot take it or
\* expects another sequence number: so a peer that is slow to leave the barrier
\* never costs a retry.
NoPacketBeforeReady ==
  \A p \in Peers : wire[p] # {} /\ ~R!Gone(Other(p)) =>
    /\ qp[Other(p)] \in {"RTS", "ERR"}
    /\ rqPsn[Other(p)] = sqPsn[p]

\* A process that ends with its results has exchanged everything: not only has
\* it had each answer, the peer has had each of its messages and is in its last
\* iteration or past it, although it may still fail for want of the last
\* acknowledgement, or have died.  (the two polls of an iteration, which do not
\* look at what they take; "Results" and cleanup of main())
SuccessIsMutual ==
  \A p \in Peers : at[p] = "done" =>
    /\ delivered[Client] = NumIters /\ delivered[Server] = NumIters
    /\ iter[Other(p)] >= NumIters - 1

\* A process that can only wait: all it has sent is acknowledged, and the one
\* receive it has posted is for a message of a peer that has ended without its
\* results and of which nothing is on its way.
LeftWaiting(p) ==
  /\ R!Gone(Other(p)) /\ at[Other(p)] # "done"
  /\ rq[p] = 1 /\ cq[p] = <<>> /\ acked[p] = posted[p]
  /\ \A m \in wire[Other(p)] : m.n <= delivered[Other(p)]

\* A process past the barrier ends, or its peer has failed, been killed or never
\* come out of its setup, and it waits for a message from it: poll_completion()
\* has no timeout and a posted receive none either.  No loss, repetition or RNR
\* leaves it anywhere else.
EndsOrIsLeft ==
  \A p \in Peers : pc[p] = "running" ~> R!Gone(p) \/ LeftWaiting(p)
=============================================================================
