----------------------------- MODULE Rendezvous -----------------------------
(***************************************************************************)
(* How two processes of the Chapter 9 RC programs (rc_pingpong, rdma_write *)
(* and rdma_read) find each other before the first RDMA operation: a TCP   *)
(* connection, the exchange of queue-pair numbers and packet sequence      *)
(* numbers (and of memory keys in the one-sided programs), the transitions *)
(* RESET -> INIT -> RTR -> RTS of the queue pair, and a one-byte barrier   *)
(* over the same TCP connection.                                           *)
(*                                                                         *)
(* A TCP stream is two counters, the bytes written and the bytes read: what*)
(* the bytes say follows from their position, because a program writes     *)
(* always the same sequence of structures.  Every read(2) and write(2) may *)
(* move any number of bytes, as the loops of read_all and write_all allow  *)
(* for.                                                                    *)
(***************************************************************************)
EXTENDS Integers

CONSTANTS
  Server, Client,   \* the two processes
  QpInfoLen,        \* sizeof(struct qp_info), in the units a read may split
  MrInfoLen,        \* sizeof(struct mr_info); 0 in rc_pingpong, which has none
  SockBuf,          \* what a TCP connection buffers in one direction
  Psns,             \* initial packet sequence numbers lrand48() may return
  FaultyPeers,      \* processes whose ibv_modify_qp may fail
  None              \* an attribute not set yet

Peers == {Server, Client}

ASSUME TwoPeers == Server # Client
ASSUME LengthsAssumption == QpInfoLen \in Nat \ {0} /\ MrInfoLen \in Nat

\* Both programs write before they read: each structure must fit the socket
\* buffer, as a few dozen bytes do.
ASSUME ExchangeFits ==
  SockBuf \in Nat /\ SockBuf >= QpInfoLen + 1 /\ SockBuf >= MrInfoLen + 1

ASSUME PsnAssumption == Psns # {} /\ None \notin Psns
ASSUME FaultyAssumption == FaultyPeers \subseteq Peers

VARIABLES
  pc,          \* where each process is in main()
  connected,   \* the client's connect() succeeded
  sent,        \* bytes each process has written to its socket
  rcvd,        \* bytes each process has read from its socket
  psn,         \* local_info.psn
  remotePsn,   \* remote_info.psn
  qp,          \* state of each queue pair; "GONE" once it is destroyed
  rqPsn,       \* attribute rq_psn, set by the transition to RTR
  sqPsn        \* attribute sq_psn, set by the transition to RTS

vars == <<pc, connected, sent, rcvd, psn, remotePsn, qp, rqPsn, sqPsn>>

Other(p) == IF p = Server THEN Client ELSE Server

Stages == {"start", "accept", "sendQp", "recvQp", "sendMr", "recvMr",
           "toInit", "toRtr", "toRts", "sendSync", "recvSync", "running",
           "exited", "closed"}

\* A process that has ended: its socket is closed and its queue pair destroyed.
Gone(p) == pc[p] \in {"exited", "closed"}

\* Bytes one process writes before the barrier.
ExchangeLen == QpInfoLen + MrInfoLen

\* Bytes on their way to p, or in its receive buffer.
Pending(p) == sent[Other(p)] - rcvd[p]

----------------------------------------------------------------------------
(* The order of the steps of main().                                       *)

\* Mutant: both programs read before they write.
FirstStageReads == "recvQp"

FirstStage == "sendQp"

AfterSend(stage) == IF stage = "sendQp" THEN "recvQp" ELSE "recvMr"

AfterRecv(stage) ==
  IF stage = "recvQp" /\ MrInfoLen > 0 THEN "sendMr" ELSE "toInit"

\* Mutant: the last structure is taken to be one byte longer than it is.
EndOfPadded(stage) ==
  IF stage \in {"sendQp", "recvQp"} THEN QpInfoLen ELSE ExchangeLen + 1

\* The position in the stream at which the structure of this stage ends.
EndOf(stage) ==
  IF stage \in {"sendQp", "recvQp"} THEN QpInfoLen ELSE ExchangeLen

----------------------------------------------------------------------------
Init ==
  /\ pc = [p \in Peers |-> "start"]
  /\ connected = FALSE
  /\ sent = [p \in Peers |-> 0]
  /\ rcvd = [p \in Peers |-> 0]
  /\ psn \in [Peers -> Psns]
  /\ remotePsn = [p \in Peers |-> None]
  /\ qp = [p \in Peers |-> "RESET"]
  /\ rqPsn = [p \in Peers |-> None]
  /\ sqPsn = [p \in Peers |-> None]

Goto(p, stage) == pc' = [pc EXCEPT ![p] = stage]

\* exit(EXIT_FAILURE), or death by SIGPIPE: the kernel closes the socket and
\* destroys the queue pair.
Exit(p) ==
  /\ Goto(p, "exited")
  /\ qp' = [qp EXCEPT ![p] = "GONE"]
  /\ UNCHANGED <<connected, sent, rcvd, psn, remotePsn, rqPsn, sqPsn>>

\* socket(), bind(), listen(): the server waits for one connection.
Listen ==
  /\ pc[Server] = "start"
  /\ Goto(Server, "accept")
  /\ UNCHANGED <<connected, sent, rcvd, psn, remotePsn, qp, rqPsn, sqPsn>>

\* connect() succeeds as soon as the server listens, before it accepts.
Connect ==
  /\ pc[Client] = "start"
  /\ pc[Server] = "accept"
  /\ connected' = TRUE
  /\ Goto(Client, FirstStage)
  /\ UNCHANGED <<sent, rcvd, psn, remotePsn, qp, rqPsn, sqPsn>>

\* Nobody listens: tcp_client_connect returns -1 and the client exits.
ConnectRefused ==
  /\ pc[Client] = "start"
  /\ pc[Server] # "accept"
  /\ Exit(Client)

Accept ==
  /\ pc[Server] = "accept"
  /\ connected
  /\ Goto(Server, FirstStage)
  /\ UNCHANGED <<connected, sent, rcvd, psn, remotePsn, qp, rqPsn, sqPsn>>

\* One write() of write_all: some of the bytes that are left, as many as the
\* connection has room for.
WriteAll(p) ==
  /\ pc[p] \in {"sendQp", "sendMr"}
  /\ \E n \in 1 .. (EndOf(pc[p]) - sent[p]) :
       /\ Pending(Other(p)) + n <= SockBuf
       /\ sent' = [sent EXCEPT ![p] = @ + n]
       /\ pc' = [pc EXCEPT ![p] =
                   IF sent[p] + n = EndOf(pc[p]) THEN AfterSend(pc[p]) ELSE @]
  /\ UNCHANGED <<connected, rcvd, psn, remotePsn, qp, rqPsn, sqPsn>>

\* Mutant: a single read(), whatever it returns, is taken for the structure.
AnyPart(p, n) == TRUE

WholeStructure(p, n) == rcvd[p] + n = EndOf(pc[p])

\* One read() of read_all, which returns when the whole structure is there.
ReadAll(p) ==
  /\ pc[p] \in {"recvQp", "recvMr"}
  /\ \E n \in 1 .. (EndOf(pc[p]) - rcvd[p]) :
       /\ n <= Pending(p)
       /\ rcvd' = [rcvd EXCEPT ![p] = @ + n]
       /\ pc' = [pc EXCEPT ![p] =
                   IF WholeStructure(p, n) THEN AfterRecv(pc[p]) ELSE @]
       /\ remotePsn' = [remotePsn EXCEPT ![p] =
            IF WholeStructure(p, n) /\ pc[p] = "recvQp" THEN psn[Other(p)] ELSE @]
  /\ UNCHANGED <<connected, sent, psn, qp, rqPsn, sqPsn>>

\* The peer has ended: read() returns 0 or ECONNRESET, write() EPIPE, and the
\* exchange fails.
ExchangeFails(p) ==
  /\ pc[p] \in {"sendQp", "sendMr", "recvQp", "recvMr"}
  /\ Gone(Other(p))
  /\ Exit(p)

ToInit(p) ==
  /\ pc[p] = "toInit"
  /\ qp' = [qp EXCEPT ![p] = "INIT"]
  /\ Goto(p, "toRtr")
  /\ UNCHANGED <<connected, sent, rcvd, psn, remotePsn, rqPsn, sqPsn>>

\* Mutant: the transition to RTS is forgotten.
RtsForgotten == "sendSync"

AfterRtr == "toRts"

ToRtr(p) ==
  /\ pc[p] = "toRtr"
  /\ qp' = [qp EXCEPT ![p] = "RTR"]
  /\ rqPsn' = [rqPsn EXCEPT ![p] = remotePsn[p]]
  /\ Goto(p, AfterRtr)
  /\ UNCHANGED <<connected, sent, rcvd, psn, remotePsn, sqPsn>>

\* Mutant: the packet sequence numbers are swapped.
PeersPsn(p) == remotePsn[p]

OwnPsn(p) == psn[p]

ToRts(p) ==
  /\ pc[p] = "toRts"
  /\ qp' = [qp EXCEPT ![p] = "RTS"]
  /\ sqPsn' = [sqPsn EXCEPT ![p] = OwnPsn(p)]
  /\ Goto(p, "sendSync")
  /\ UNCHANGED <<connected, sent, rcvd, psn, remotePsn, rqPsn>>

\* ibv_modify_qp refuses one of the transitions: CHECK_RC exits.
ModifyFails(p) ==
  /\ p \in FaultyPeers
  /\ pc[p] \in {"toInit", "toRtr", "toRts"}
  /\ Exit(p)

\* write(sockfd, &sync_byte, 1): its result is ignored.
SendSync(p) ==
  /\ pc[p] = "sendSync"
  /\ Pending(Other(p)) < SockBuf
  /\ sent' = [sent EXCEPT ![p] = @ + 1]
  /\ Goto(p, "recvSync")
  /\ UNCHANGED <<connected, rcvd, psn, remotePsn, qp, rqPsn, sqPsn>>

\* The peer has ended: the write fails and main() goes on all the same.
SendSyncLost(p) ==
  /\ pc[p] = "sendSync"
  /\ Gone(Other(p))
  /\ Goto(p, "recvSync")
  /\ UNCHANGED <<connected, sent, rcvd, psn, remotePsn, qp, rqPsn, sqPsn>>

\* The peer has ended and its kernel has answered with RST: SIGPIPE.
SyncKilled(p) ==
  /\ pc[p] = "sendSync"
  /\ Gone(Other(p))
  /\ Exit(p)

\* read(sockfd, &sync_byte, 1): the byte of the peer ...
RecvSync(p) ==
  /\ pc[p] = "recvSync"
  /\ Pending(p) > 0
  /\ rcvd' = [rcvd EXCEPT ![p] = @ + 1]
  /\ Goto(p, "running")
  /\ UNCHANGED <<connected, sent, psn, remotePsn, qp, rqPsn, sqPsn>>

\* ... or end of file, or an error, which main() does not tell from the byte.
RecvSyncNothing(p) ==
  /\ pc[p] = "recvSync"
  /\ Gone(Other(p))
  /\ Goto(p, "running")
  /\ UNCHANGED <<connected, sent, rcvd, psn, remotePsn, qp, rqPsn, sqPsn>>

\* The program proper is over, well or not.
Leave(p) ==
  /\ pc[p] = "running"
  /\ Goto(p, "closed")
  /\ qp' = [qp EXCEPT ![p] = "GONE"]
  /\ UNCHANGED <<connected, sent, rcvd, psn, remotePsn, rqPsn, sqPsn>>

----------------------------------------------------------------------------
\* The steps of one process up to the end of its barrier.
Setup(p) ==
  \/ WriteAll(p)  \/ ReadAll(p)  \/ ExchangeFails(p)
  \/ ToInit(p)    \/ ToRtr(p)    \/ ToRts(p)  \/ ModifyFails(p)
  \/ SendSync(p)  \/ SendSyncLost(p) \/ SyncKilled(p)
  \/ RecvSync(p)  \/ RecvSyncNothing(p)

Meet == Listen \/ Connect \/ ConnectRefused \/ Accept

Next ==
  \/ Meet
  \/ \E p \in Peers : Setup(p) \/ Leave(p)

Spec == Init /\ [][Next]_vars

\* Neither process stops running by itself; it may stay in its main loop for
\* ever, so Leave has no fairness.
FairSpec ==
  /\ Spec
  /\ WF_vars(Meet)
  /\ \A p \in Peers : WF_vars(Setup(p))

----------------------------------------------------------------------------
TypeOK ==
  /\ pc \in [Peers -> Stages]
  /\ connected \in BOOLEAN
  /\ sent \in [Peers -> 0 .. ExchangeLen + 1]
  /\ rcvd \in [Peers -> 0 .. ExchangeLen + 1]
  /\ psn \in [Peers -> Psns]
  /\ remotePsn \in [Peers -> Psns \cup {None}]
  /\ qp \in [Peers -> {"RESET", "INIT", "RTR", "RTS", "GONE"}]
  /\ rqPsn \in [Peers -> Psns \cup {None}]
  /\ sqPsn \in [Peers -> Psns \cup {None}]

\* A process that has passed the barrier, and so posts its first work request,
\* finds the queue pair of a living peer in RTS: no packet of its first
\* request meets a queue pair that cannot answer.  (rc_pingpong.c, steps 8-9)
BarrierHolds ==
  \A p \in Peers :
    pc[p] = "running" /\ ~Gone(Other(p)) => qp[Other(p)] = "RTS"

\* The packet sequence numbers of the two directions agree once both queue
\* pairs are in RTS: what one side expects first is what the other side
\* sends first.  (rq_psn = remote->psn, sq_psn = local_psn)
PsnAgreement ==
  \A p \in Peers :
    sqPsn[p] # None /\ rqPsn[Other(p)] # None => sqPsn[p] = rqPsn[Other(p)]

\* The stream stays framed: a process that starts a structure, the transitions
\* or the barrier has read the structures before it and not a byte more, so the
\* sync byte is never taken for part of a structure.
FramingOK ==
  \A p \in Peers :
    /\ pc[p] \in {"start", "accept", "sendQp"} => rcvd[p] = 0
    /\ pc[p] \in {"sendMr"} => rcvd[p] = QpInfoLen
    /\ pc[p] \in {"toInit", "toRtr", "toRts", "sendSync", "recvSync"} =>
         rcvd[p] = ExchangeLen
    /\ rcvd[p] <= sent[Other(p)]

\* Once the client is connected nobody is left behind in the exchange or at
\* the barrier: each process runs its program or ends.
EveryoneArrives ==
  connected ~> \A p \in Peers : pc[p] = "running" \/ Gone(p)
=============================================================================
