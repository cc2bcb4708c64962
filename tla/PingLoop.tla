------------------------------ MODULE PingLoop ------------------------------
(***************************************************************************)
(* The ping-pong loop of rc_pingpong.c, with the reliable connection below *)
(* it.  Each process has one buffer for both directions, one completion    *)
(* queue for both directions, and posts one receive and one send per       *)
(* iteration.  Below, the adapter of each process transmits a send until   *)
(* it is acknowledged; packets and acknowledgements may be lost, delayed   *)
(* and repeated, and a message that finds no receive posted is refused     *)
(* (RNR NAK) and sent again, without limit as rnr_retry = 7 asks for.      *)
(* Retransmissions after a timeout are limited (retry_cnt = 7): the queue  *)
(* pair of a process whose peer has ended fails, and on a fabric that loses*)
(* packets so may one whose peer lives.  A process may also die anywhere in*)
(* its loop.                                                               *)
(*                                                                         *)
(* Sends of a process are numbered 1, 2, ...; the ping of iteration i is   *)
(* send i + 1 and carries the payload i + 1.  The calloc'ed buffer holds 0.*)
(***************************************************************************)
EXTENDS Integers, Sequences

CONSTANTS
  Server, Client,   \* the two processes
  NumIters,         \* option -n
  Lossy             \* whether the fabric loses packets and acknowledgements, be
                    \* it as many in a row as a queue pair repeats them

Peers == {Server, Client}

ASSUME TwoProcesses == Server # Client
ASSUME ItersAssumption == NumIters \in Nat
ASSUME LossyAssumption == Lossy \in BOOLEAN

VARIABLES
  at,         \* where each process is in the loop
  iter,       \* the loop counter i
  buf,        \* the payload in the buffer
  cq,         \* completions not polled yet, oldest first
  rq,         \* receives posted and not used yet
  qp,         \* state of the queue pair
  posted,     \* sends posted so far
  acked,      \* sends completed by an acknowledgement so far
  delivered,  \* sends of this process placed in the buffer of the peer so far
  wire,       \* packets on their way from this process
  acks        \* acknowledgements on their way to this process

vars == <<at, iter, buf, cq, rq, qp, posted, acked, delivered, wire, acks>>
processVars == <<at, iter>>
adapterVars == <<acked, delivered, wire, acks>>

Other(p) == IF p = Server THEN Client ELSE Server

\* The places of a process that has ended: with its results, with an error
\* completion, or in the middle of its loop.
Ended == {"done", "failed", "killed"}

\* The states in which a queue pair answers packets.
Responds(p) == qp[p] \in {"RTR", "RTS"}

----------------------------------------------------------------------------
\* calloc() leaves the buffer 0, and nothing is posted.
LoopInit ==
  /\ at = [p \in Peers |-> "top"]
  /\ iter = [p \in Peers |-> 0]
  /\ buf = [p \in Peers |-> 0]
  /\ cq = [p \in Peers |-> <<>>]
  /\ rq = [p \in Peers |-> 0]
  /\ posted = [p \in Peers |-> 0]
  /\ acked = [p \in Peers |-> 0]
  /\ delivered = [p \in Peers |-> 0]
  /\ wire = [p \in Peers |-> {}]
  /\ acks = [p \in Peers |-> {}]

\* After the barrier both queue pairs are in RTS.
Init == LoopInit /\ qp = [p \in Peers |-> "RTS"]

Goto(p, label) == at' = [at EXCEPT ![p] = label]

----------------------------------------------------------------------------
(* The program.                                                            *)

\* Mutant: the server stops one iteration early.
ServerStopsEarly(p) == iter[p] < IF p = Server THEN NumIters - 1 ELSE NumIters

MoreToDo(p) == iter[p] < NumIters

\* Mutant: the server answers without waiting for the message.
AnswerAtOnce == "postSend"

AfterServerPost == "pollRecv"

\* The server posts its receive, then polls for the message.
ServerPostReceive ==
  /\ at[Server] = "top"
  /\ MoreToDo(Server)
  /\ rq' = [rq EXCEPT ![Server] = @ + 1]
  /\ Goto(Server, AfterServerPost)
  /\ UNCHANGED <<iter, buf, cq, qp, posted, adapterVars>>

\* Mutant: the receive for the pong is not posted.
NoPongReceive == 0

PongReceives == 1

\* The client writes the ping into its buffer and posts, into the same buffer,
\* the receive for the pong.
ClientPostReceive ==
  /\ at[Client] = "top"
  /\ MoreToDo(Client)
  /\ buf' = [buf EXCEPT ![Client] = iter[Client] + 1]
  /\ rq' = [rq EXCEPT ![Client] = @ + PongReceives]
  /\ Goto(Client, "postSend")
  /\ UNCHANGED <<iter, cq, qp, posted, adapterVars>>

PostSend(p) ==
  /\ at[p] = "postSend"
  /\ posted' = [posted EXCEPT ![p] = @ + 1]
  /\ Goto(p, IF p = Server THEN "pollSend" ELSE "pollFirst")
  /\ UNCHANGED <<iter, buf, cq, rq, qp, adapterVars>>

\* poll_completion() spins until the queue holds a completion and takes it;
\* an error completion ends the process.
PollCompletion(p, label, next, i) ==
  /\ at[p] = label
  /\ cq[p] # <<>>
  /\ cq' = [cq EXCEPT ![p] = Tail(@)]
  /\ IF Head(cq[p]) = "error"
       THEN /\ Goto(p, "failed")
            /\ qp' = [qp EXCEPT ![p] = "GONE"]
            /\ iter' = iter
       ELSE /\ Goto(p, next)
            /\ iter' = [iter EXCEPT ![p] = i]
            /\ qp' = qp
  /\ UNCHANGED <<buf, rq, posted, adapterVars>>

ServerPoll ==
  \/ PollCompletion(Server, "pollRecv", "postSend", iter[Server])
  \/ PollCompletion(Server, "pollSend", "top", iter[Server] + 1)

\* Mutant: the client polls one completion, not two.
ClientPollsOnce ==
  PollCompletion(Client, "pollFirst", "top", iter[Client] + 1)

ClientPoll ==
  \/ PollCompletion(Client, "pollFirst", "pollSecond", iter[Client])
  \/ PollCompletion(Client, "pollSecond", "top", iter[Client] + 1)

\* The loop is over: the socket is closed and the queue pair destroyed.
Cleanup(p) ==
  /\ at[p] = "top"
  /\ ~MoreToDo(p)
  /\ Goto(p, "done")
  /\ qp' = [qp EXCEPT ![p] = "GONE"]
  /\ UNCHANGED <<iter, buf, cq, rq, posted, adapterVars>>

\* The process is killed, or a post or a poll returns an error and CHECK_ERRNO
\* exits, wherever it is in its loop.
Die(p) ==
  /\ at[p] \notin Ended
  /\ Goto(p, "killed")
  /\ qp' = [qp EXCEPT ![p] = "GONE"]
  /\ UNCHANGED <<iter, buf, cq, rq, posted, adapterVars>>

Process(p) ==
  \/ p = Server /\ (ServerPostReceive \/ ServerPoll)
  \/ p = Client /\ (ClientPostReceive \/ ClientPoll)
  \/ PostSend(p)
  \/ Cleanup(p)

----------------------------------------------------------------------------
(* The adapters and the fabric.                                            *)

\* The first transmission of a send, or its repetition after a timeout: the
\* payload is read from the buffer each time.
Transmit(p) ==
  /\ qp[p] = "RTS"
  /\ \E n \in acked[p] + 1 .. posted[p] :
       wire' = [wire EXCEPT ![p] = @ \cup {[n |-> n, data |-> buf[p]]}]
  /\ UNCHANGED <<at, iter, buf, cq, rq, qp, posted, acked, delivered, acks>>

\* The next message of p finds a receive posted: it is placed in the buffer of
\* the peer, completes the receive there and is acknowledged.
Deliver(p) ==
  LET q == Other(p) IN
  /\ Responds(q)
  /\ rq[q] > 0
  /\ \E m \in wire[p] :
       /\ m.n = delivered[p] + 1
       /\ wire' = [wire EXCEPT ![p] = @ \ {m}]
       /\ buf' = [buf EXCEPT ![q] = m.data]
  /\ rq' = [rq EXCEPT ![q] = @ - 1]
  /\ cq' = [cq EXCEPT ![q] = Append(@, "recv")]
  /\ delivered' = [delivered EXCEPT ![p] = @ + 1]
  /\ acks' = [acks EXCEPT ![p] = @ \cup {delivered[p] + 1}]
  /\ UNCHANGED <<at, iter, qp, posted, acked>>

\* No receive is posted: RNR NAK.  The message is dropped, to be sent again.
RnrNak(p) ==
  LET q == Other(p) IN
  /\ Responds(q)
  /\ rq[q] = 0
  /\ \E m \in wire[p] :
       /\ m.n = delivered[p] + 1
       /\ wire' = [wire EXCEPT ![p] = @ \ {m}]
  /\ UNCHANGED <<at, iter, buf, cq, rq, qp, posted, acked, delivered, acks>>

\* A repetition of a message already placed is only acknowledged again.
Duplicate(p) ==
  /\ Responds(Other(p))
  /\ \E m \in wire[p] :
       /\ m.n <= delivered[p]
       /\ wire' = [wire EXCEPT ![p] = @ \ {m}]
  /\ acks' = [acks EXCEPT ![p] = @ \cup {delivered[p]}]
  /\ UNCHANGED <<at, iter, buf, cq, rq, qp, posted, acked, delivered>>

\* An acknowledgement completes the oldest send it covers, or is stale.
Acknowledge(p) ==
  /\ qp[p] = "RTS"
  /\ \E a \in acks[p] :
       IF a > acked[p]
         THEN /\ acked' = [acked EXCEPT ![p] = @ + 1]
              /\ cq' = [cq EXCEPT ![p] = Append(@, "send")]
              /\ acks' = acks
         ELSE /\ acks' = [acks EXCEPT ![p] = @ \ {a}]
              /\ UNCHANGED <<acked, cq>>
  /\ UNCHANGED <<at, iter, buf, rq, qp, posted, delivered, wire>>

\* retry_cnt timeouts have passed without an acknowledgement: the peer does not
\* answer any more, and what was on its way has arrived, or the fabric has lost
\* a message or its acknowledgement each time.  The send completes in error, the
\* queue pair goes to the error state and its posted receives are flushed.
RetryExceeded(p) ==
  /\ qp[p] = "RTS"
  /\ acked[p] < posted[p]
  /\ Lossy \/ (~Responds(Other(p)) /\ acks[p] = {})
  /\ qp' = [qp EXCEPT ![p] = "ERR"]
  /\ cq' = [cq EXCEPT ![p] = @ \o [k \in 1 .. rq[p] + 1 |-> "error"]]
  /\ rq' = [rq EXCEPT ![p] = 0]
  /\ UNCHANGED <<at, iter, buf, posted, adapterVars>>

\* The fabric loses a packet or an acknowledgement; a packet to a queue pair
\* that does not answer is lost in any case.
Lose(p) ==
  \/ /\ Lossy \/ ~Responds(Other(p))
     /\ \E m \in wire[p] : wire' = [wire EXCEPT ![p] = @ \ {m}]
     /\ UNCHANGED <<at, iter, buf, cq, rq, qp, posted, acked, delivered, acks>>
  \/ /\ Lossy
     /\ \E a \in acks[p] : acks' = [acks EXCEPT ![p] = @ \ {a}]
     /\ UNCHANGED <<at, iter, buf, cq, rq, qp, posted, acked, delivered, wire>>

Fabric(p) ==
  \/ Transmit(p) \/ Deliver(p) \/ RnrNak(p) \/ Duplicate(p)
  \/ Acknowledge(p) \/ RetryExceeded(p) \/ Lose(p)

Next == \E p \in Peers : Process(p) \/ Die(p) \/ Fabric(p)

Spec == Init /\ [][Next]_vars

----------------------------------------------------------------------------
\* At the top of an iteration nothing of the one before is left: each send was
\* acknowledged and polled, each receive used and polled, whatever the order
\* in which the completions of the two directions came.  With it the depths of
\* all queues bound themselves.
IterationsAreClosed ==
  \A p \in Peers : at[p] = "top" =>
    /\ cq[p] = <<>>
    /\ rq[p] = 0
    /\ posted[p] = iter[p] /\ acked[p] = iter[p]
    /\ delivered[Other(p)] = iter[p]

\* Each message carries its own payload at each of its transmissions, although
\* receives land in the buffer it is sent from: what the server echoes in
\* iteration i is the ping of iteration i.
PayloadIntegrity ==
  /\ \A p \in Peers : \A m \in wire[p] :
       acked[p] < m.n /\ m.n > delivered[p] => m.data = m.n
  /\ at[Server] \in {"postSend", "pollSend"} => buf[Server] = iter[Server] + 1

\* The two processes exchange one ping and one pong per iteration, in turn.
E == INSTANCE Echo WITH ping <- delivered[Client],
                        pong <- delivered[Server],
                        held <- buf[Server]

EchoSpec == E!Spec
=============================================================================
