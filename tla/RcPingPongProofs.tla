-------------------------- MODULE RcPingPongProofs --------------------------
(***************************************************************************)
(* Proofs about RcPingPong, for any number of iterations, with or without  *)
(* loss, and for all parameters of the rendezvous.  The invariant has three*)
(* parts.  LoopInv says, for each place in the loop of a process, what its *)
(* completion queue can hold and how many sends, messages and receives it  *)
(* has counted, and ties these to the packets of the two channels.  That   *)
(* the setup is right need not be proved again: with the failure of a queue*)
(* pair hidden, the program implements Rendezvous step by step, so that the*)
(* invariant of RendezvousProofs holds of it.  Ready says what a process   *)
(* past the barrier knows of its peer.                                     *)
(***************************************************************************)
EXTENDS RcPingPong, SequenceTheorems, TLAPS

Places == {"top", "pollRecv", "postSend", "pollSend", "pollFirst", "pollSecond",
           "done", "failed", "killed"}

Kinds == {"recv", "send", "error"}

\* The types of the variables of the loop ...
LoopTypeOK ==
  /\ at \in [Peers -> Places]
  /\ iter \in [Peers -> Nat]
  /\ buf \in [Peers -> Nat]
  /\ rq \in [Peers -> Nat]
  /\ qp \in [Peers -> {"RESET", "INIT", "RTR", "RTS", "ERR", "GONE"}]
  /\ posted \in [Peers -> Nat]
  /\ acked \in [Peers -> Nat]
  /\ delivered \in [Peers -> Nat]

\* ... and of what holds completions, packets and acknowledgements.
QueuesOK ==
  /\ cq \in [Peers -> Seq(Kinds)]
  /\ wire \in [Peers -> SUBSET [n : Nat, data : Nat]]
  /\ acks \in [Peers -> SUBSET Nat]

\* Queues of one and of two completions.
One(x) == <<x>>
Two(x, y) == <<x, y>>

\* In this iteration, p has had so many sends acknowledged, so many messages
\* received, and has so many receives posted.
Count(p, sends, messages, receives) ==
  /\ acked[p] = iter[p] + sends
  /\ delivered[Other(p)] = iter[p] + messages
  /\ rq[p] = receives

\* A process that has died has done at most one send and one receive in the
\* iteration it was in.
InIteration(p) ==
  /\ posted[p] = iter[p] \/ posted[p] = iter[p] + 1
  /\ acked[p] >= iter[p]
  /\ delivered[Other(p)] = iter[p] \/ delivered[Other(p)] = iter[p] + 1

\* What the queue can be while the server polls for the ping ...
AwaitsPing(queue) ==
  \/ queue = <<>> /\ Count(Server, 0, 0, 1)
  \/ queue = One("recv") /\ Count(Server, 0, 1, 0) /\ buf[Server] = iter[Server] + 1

\* ... and while it polls for the end of its send.
AwaitsSent(queue) ==
  \/ queue = <<>> /\ Count(Server, 0, 1, 0) /\ qp[Server] # "ERR"
  \/ queue = One("send") /\ Count(Server, 1, 1, 0) /\ qp[Server] # "ERR"
  \/ queue = One("error") /\ Count(Server, 0, 1, 0) /\ qp[Server] = "ERR"

\* The server at each place of its loop.
AtServer ==
  /\ at[Server] \in {"top", "pollRecv", "postSend", "pollSend", "done", "failed", "killed"}
  /\ at[Server] \in {"top", "pollRecv", "postSend", "done"} =>
       posted[Server] = iter[Server]
  /\ at[Server] \in {"pollSend", "failed"} => posted[Server] = iter[Server] + 1
  /\ at[Server] \in {"postSend", "pollSend", "failed"} =>
       buf[Server] = iter[Server] + 1
  /\ at[Server] \in {"top", "done"} => cq[Server] = <<>> /\ Count(Server, 0, 0, 0)
  /\ at[Server] = "pollRecv" => AwaitsPing(cq[Server])
  /\ at[Server] = "postSend" => cq[Server] = <<>> /\ Count(Server, 0, 1, 0)
  /\ at[Server] = "pollSend" => AwaitsSent(cq[Server])
  /\ at[Server] = "failed" => Count(Server, 0, 1, 0)
  /\ at[Server] = "killed" =>
       /\ InIteration(Server)
       /\ posted[Server] = iter[Server] + 1 =>
            buf[Server] = iter[Server] + 1 /\ delivered[Client] = iter[Server] + 1

\* What the queue can be before the first completion of an iteration is polled:
\* the two may come in either order ...
AwaitsFirst(queue) ==
  \/ /\ qp[Client] # "ERR"
     /\ \/ queue = <<>> /\ Count(Client, 0, 0, 1)
        \/ queue = One("send") /\ Count(Client, 1, 0, 1)
        \/ queue = One("recv") /\ Count(Client, 0, 1, 0)
        \/ queue = Two("send", "recv") /\ Count(Client, 1, 1, 0)
        \/ queue = Two("recv", "send") /\ Count(Client, 1, 1, 0)
  \/ /\ qp[Client] = "ERR"
     /\ \/ queue = Two("error", "error") /\ Count(Client, 0, 0, 0)
        \/ queue = Two("recv", "error") /\ Count(Client, 0, 1, 0)

\* ... and before the second.
AwaitsSecond(queue) ==
  \/ /\ qp[Client] # "ERR"
     /\ \/ queue = <<>> /\ Count(Client, 1, 0, 1)
        \/ queue = <<>> /\ Count(Client, 0, 1, 0)
        \/ queue = One("recv") /\ Count(Client, 1, 1, 0)
        \/ queue = One("send") /\ Count(Client, 1, 1, 0)
  \/ queue = One("error") /\ Count(Client, 0, 1, 0) /\ qp[Client] = "ERR"

\* The client at each place of its loop.
AtClient ==
  /\ at[Client] \in {"top", "postSend", "pollFirst", "pollSecond", "done", "failed", "killed"}
  /\ at[Client] \in {"top", "postSend", "done"} => posted[Client] = iter[Client]
  /\ at[Client] \in {"pollFirst", "pollSecond", "failed"} =>
       posted[Client] = iter[Client] + 1
  /\ at[Client] \in {"postSend", "pollFirst", "pollSecond"} =>
       buf[Client] = iter[Client] + 1
  /\ at[Client] \in {"top", "done"} => cq[Client] = <<>> /\ Count(Client, 0, 0, 0)
  /\ at[Client] = "postSend" => cq[Client] = <<>> /\ Count(Client, 0, 0, 1)
  /\ at[Client] = "pollFirst" => AwaitsFirst(cq[Client])
  /\ at[Client] = "pollSecond" => AwaitsSecond(cq[Client])
  /\ at[Client] = "failed" => Count(Client, 0, 0, 0) \/ Count(Client, 0, 1, 0)
  /\ at[Client] = "killed" => InIteration(Client)

\* Iterations begun and done.
Bounded(p) ==
  /\ at[p] \in {"top", "killed"} => iter[p] <= NumIters
  /\ at[p] = "done" => iter[p] = NumIters
  /\ at[p] \notin {"top", "done", "killed"} => iter[p] < NumIters

\* A message is delivered before it is acknowledged, and one that is still to
\* be delivered carries its own payload.
Channel(p) ==
  /\ acked[p] <= delivered[p]
  /\ delivered[p] <= posted[p]
  /\ \A m \in wire[p] :
       /\ 1 <= m.n /\ m.n <= posted[p]
       /\ m.n > delivered[p] => m.data = m.n
  /\ \A a \in acks[p] : 1 <= a /\ a <= delivered[p]

\* The place in the program, the place in the loop and the state of the queue
\* pair go together.
Alive(p) ==
  /\ pc[p] \notin {"running", "closed"} => at[p] = "top" /\ iter[p] = 0
  /\ pc[p] = "closed" <=> at[p] \in Ended
  /\ pc[p] \in {"exited", "closed"} <=> qp[p] = "GONE"
  /\ qp[p] = "ERR" => at[p] \in {"pollSend", "pollFirst", "pollSecond"}

\* The invariant of the two loops and their connection.
LoopInv ==
  /\ LoopTypeOK
  /\ QueuesOK
  /\ pc \in [Peers -> R!Stages]
  /\ AtServer
  /\ AtClient
  /\ \A p \in Peers : Bounded(p)
  /\ \A p \in Peers : Channel(p)
  /\ \A p \in Peers : Alive(p)

\* For the rendezvous a queue pair that has failed is one that it has brought to
\* RTS.
setupQp == [p \in Peers |-> IF qp[p] = "ERR" THEN "RTS" ELSE qp[p]]

Rv == INSTANCE RendezvousProofs WITH qp <- setupQp

\* What the setup leaves alone: a process past it, or ended.
Untouched(p) ==
  \/ UNCHANGED <<pc[p], qp[p]>>
  \/ /\ pc[p] \notin {"running", "closed", "exited"}
     /\ pc'[p] # "closed" /\ qp'[p] # "ERR"
     /\ pc'[p] = "exited" <=> qp'[p] = "GONE"

\* A process past the barrier has had the byte of its peer, unless that has
\* ended; and it has set the sequence numbers.
Ready(p) ==
  /\ pc[p] \in {"running", "closed"} =>
       rcvd[p] > R!ExchangeLen \/ R!Gone(Other(p))
  /\ pc[p] \in {"sendMr", "recvMr", "toInit", "toRtr", "toRts", "sendSync", "recvSync",
             "running", "closed"} => remotePsn[p] = psn[Other(p)]
  /\ pc[p] \in {"toRts", "sendSync", "recvSync", "running", "closed"} =>
       rqPsn[p] = psn[Other(p)]
  /\ pc[p] \in {"sendSync", "recvSync", "running", "closed"} =>
       sqPsn[p] = psn[p]

USE DEF Ended

\* The two peers.
LEMMA Pair ==
  /\ Server \in Peers /\ Client \in Peers /\ Server # Client
  /\ Other(Server) = Client /\ Other(Client) = Server
  /\ \A p \in Peers : p = Server \/ p = Client
BY TwoProcesses DEF Peers, Other

\* Sequences of one completion ...
LEMMA OneEntry ==
  ASSUME NEW x \in Kinds
  PROVE  /\ <<x>> \in Seq(Kinds) /\ Len(<<x>>) = 1 /\ <<x>>[1] = x
         /\ <<x>> # <<>> /\ Head(<<x>>) = x /\ Tail(<<x>>) = <<>>
         /\ Append(<<>>, x) = <<x>>
<1>1. <<x>> \in Seq(Kinds) /\ Len(<<x>>) = 1 /\ <<x>>[1] = x
  OBVIOUS
<1>2. Tail(<<x>>) = <<>>
  BY <1>1, HeadTailProperties, EmptySeq
<1> QED
  BY <1>1, <1>2

\* ... and of two.
LEMMA TwoEntries ==
  ASSUME NEW x \in Kinds, NEW y \in Kinds
  PROVE  /\ <<x, y>> \in Seq(Kinds) /\ Len(<<x, y>>) = 2
         /\ <<x, y>> # <<>> /\ Head(<<x, y>>) = x /\ Tail(<<x, y>>) = <<y>>
         /\ Append(<<x>>, y) = <<x, y>> /\ <<x>> \o <<y>> = <<x, y>>
<1>1. /\ <<x, y>> \in Seq(Kinds) /\ Len(<<x, y>>) = 2
      /\ <<x, y>>[1] = x /\ <<x, y>>[2] = y
  OBVIOUS
<1>2. Tail(<<x, y>>) = <<y>>
  <2>1. /\ Tail(<<x, y>>) \in Seq(Kinds) /\ Len(Tail(<<x, y>>)) = 1
        /\ Tail(<<x, y>>)[1] = y
    BY <1>1, HeadTailProperties
  <2> QED
    BY <2>1, OneEntry, SeqEqual
<1>3. Append(<<x>>, y) = <<x, y>>
  <2> DEFINE longer == Append(<<x>>, y)
  <2>1. longer \in Seq(Kinds) /\ Len(longer) = 2 /\ longer[1] = x /\ longer[2] = y
    BY OneEntry, AppendProperties
  <2> HIDE DEF longer
  <2>2. longer = <<x, y>>
    BY <1>1, <2>1, SeqEqual
  <2> QED
    BY <2>2 DEF longer
<1>4. <<x>> \o <<y>> = <<x, y>>
  BY <1>3, OneEntry, AppendIsConcat
<1> QED
  BY <1>1, <1>2, <1>3, <1>4

\* What a queue pair in the error state adds to the queues that it can meet.
LEMMA Flushed ==
  /\ <<>> \o [k \in 1 .. 0 + 1 |-> "error"] = One("error")
  /\ <<>> \o [k \in 1 .. 1 + 1 |-> "error"] = Two("error", "error")
  /\ One("recv") \o [k \in 1 .. 0 + 1 |-> "error"] = Two("recv", "error")
<1>1. [k \in 1 .. 0 + 1 |-> "error"] = <<"error">>
  OBVIOUS
<1>2. [k \in 1 .. 1 + 1 |-> "error"] = <<"error", "error">>
  OBVIOUS
<1>3. \A x, y \in Kinds : <<>> \o <<x>> = <<x>> /\ <<>> \o <<x, y>> = <<x, y>>
  BY OneEntry, TwoEntries, ConcatEmptySeq
<1> QED
  BY <1>1, <1>2, <1>3, TwoEntries DEF Kinds, One, Two

\* The queues that AtServer and AtClient name.
LEMMA Queues ==
  /\ One("recv") # <<>> /\ Head(One("recv")) = "recv" /\ Tail(One("recv")) = <<>>
  /\ One("send") # <<>> /\ Head(One("send")) = "send" /\ Tail(One("send")) = <<>>
  /\ One("error") # <<>> /\ Head(One("error")) = "error" /\ Tail(One("error")) = <<>>
  /\ Head(Two("send", "recv")) = "send" /\ Tail(Two("send", "recv")) = One("recv")
  /\ Head(Two("recv", "send")) = "recv" /\ Tail(Two("recv", "send")) = One("send")
  /\ Head(Two("recv", "error")) = "recv" /\ Tail(Two("recv", "error")) = One("error")
  /\ Head(Two("error", "error")) = "error"
  /\ Tail(Two("error", "error")) = One("error")
  /\ Append(<<>>, "recv") = One("recv") /\ Append(<<>>, "send") = One("send")
  /\ Append(One("send"), "recv") = Two("send", "recv")
  /\ Append(One("recv"), "send") = Two("recv", "send")
BY OneEntry, TwoEntries DEF Kinds, One, Two

\* Nothing is posted, queued or sent at first.
LEMMA InitLoopInv == ProgramInit => LoopInv
<1> SUFFICES ASSUME ProgramInit PROVE LoopInv
  OBVIOUS
<1> USE Pair, ItersAssumption DEF ProgramInit, LoopInit
<1>1. LoopTypeOK /\ QueuesOK
  BY DEF R!Init, R!Peers, Peers, LoopTypeOK, QueuesOK, Places
<1>2. pc \in [Peers -> R!Stages]
  BY DEF R!Init, R!Peers, R!Stages, Peers
<1>3. AtServer /\ AtClient
  BY DEF AtServer, AtClient, Count, InIteration
<1>4. ASSUME NEW p \in Peers PROVE Bounded(p) /\ Channel(p) /\ Alive(p)
  BY DEF R!Init, R!Peers, Peers, Bounded, Channel, Alive
<1> QED
  BY <1>1, <1>2, <1>3, <1>4 DEF LoopInv

\* What a step of a loop does to the place of its process in the program.
LEMMA LoopPlace ==
  ASSUME LoopInv, NEW p \in Peers, Loop(p)
  PROVE  /\ pc[p] = "running"
         /\ pc' = [pc EXCEPT ![p] = IF at'[p] \in Ended
                                      THEN "closed" ELSE "running"]
         /\ pc' \in [Peers -> R!Stages]
BY DEF LoopInv, Loop, PastBarrier, R!Stages

\* A process that polls a completion and goes on keeps its queue pair ...
LEMMA GoesOn ==
  ASSUME LoopInv, NEW p \in Peers, NEW place \in Places \ Ended,
         pc[p] = "running", pc' = [pc EXCEPT ![p] = "running"],
         at' = [at EXCEPT ![p] = place], qp' = qp,
         iter'[Other(p)] = iter[Other(p)],
         qp[p] = "ERR" => place \in {"pollSend", "pollFirst", "pollSecond"}
  PROVE  \A q \in Peers : Alive(q)'
<1> USE Pair
<1> DEFINE r == Other(p)
<1>1. /\ r \in Peers /\ r # p /\ Other(r) = p
      /\ \A q \in Peers : q = p \/ q = r
  OBVIOUS
<1>2. /\ pc'[p] = "running" /\ at'[p] = place
      /\ pc'[r] = pc[r] /\ at'[r] = at[r] /\ iter'[r] = iter[r]
  BY <1>1 DEF LoopInv, LoopTypeOK
<1>3. /\ qp[p] # "GONE" /\ at[p] \notin Ended
      /\ Alive(r)
  BY <1>1 DEF LoopInv, Alive
<1> HIDE DEF r
<1>5. Alive(p)'
  BY <1>2, <1>3 DEF Alive, r
<1>6. Alive(r)'
  BY <1>2, <1>3 DEF Alive
<1> QED
  BY <1>1, <1>5, <1>6

\* ... and one that polls an error, or dies, destroys it and has done with the
\* loop.
LEMMA GivesUp ==
  ASSUME LoopInv, NEW p \in Peers, NEW place \in {"failed", "killed"},
         pc[p] = "running", pc' = [pc EXCEPT ![p] = "closed"],
         at' = [at EXCEPT ![p] = place], qp' = [qp EXCEPT ![p] = "GONE"],
         iter' = iter
  PROVE  \A q \in Peers : Alive(q)'
<1> USE Pair
<1> DEFINE r == Other(p)
<1>1. /\ r \in Peers /\ r # p /\ Other(r) = p
      /\ \A q \in Peers : q = p \/ q = r
  OBVIOUS
<1>2. /\ pc'[p] = "closed" /\ at'[p] = place /\ qp'[p] = "GONE"
      /\ pc'[r] = pc[r] /\ at'[r] = at[r] /\ qp'[r] = qp[r]
  BY <1>1 DEF LoopInv, LoopTypeOK
<1>3. /\ at[p] \notin Ended
      /\ Alive(r)
  BY <1>1 DEF LoopInv, Alive
<1> HIDE DEF r
<1>5. Alive(p)'
  BY <1>2, <1>3 DEF Alive, r
<1>6. Alive(r)'
  BY <1>2, <1>3 DEF Alive
<1> QED
  BY <1>1, <1>5, <1>6

\* Only a process that polls for it has a send that is not acknowledged.
LEMMA Outstanding ==
  ASSUME LoopInv, NEW p \in Peers, qp[p] = "RTS", acked[p] < posted[p]
  PROVE  /\ pc[p] = "running" /\ acked[p] = iter[p]
         /\ p = Server =>
              at[p] = "pollSend" /\ cq[p] = <<>> /\ Count(Server, 0, 1, 0)
         /\ p = Client =>
              \/ at[p] = "pollFirst" /\ cq[p] = <<>> /\ Count(Client, 0, 0, 1)
              \/ at[p] = "pollFirst" /\ cq[p] = One("recv") /\ Count(Client, 0, 1, 0)
              \/ at[p] = "pollSecond" /\ cq[p] = <<>> /\ Count(Client, 0, 1, 0)
<1> USE Pair
<1>1. /\ acked[p] \in Nat /\ posted[p] \in Nat /\ iter[p] \in Nat
      /\ ~(acked[p] = iter[p] /\ posted[p] = iter[p])
      /\ posted[p] = iter[p] + 1 => acked[p] # iter[p] + 1
  BY DEF LoopInv, LoopTypeOK
<1>2. at[p] \notin {"failed", "killed"}
  BY DEF LoopInv, Alive
<1>3. ASSUME p = Server
      PROVE  /\ at[p] = "pollSend" /\ acked[p] = iter[p]
             /\ cq[p] = <<>> /\ Count(Server, 0, 1, 0)
  <2>1. at[p] \in {"top", "pollRecv", "postSend", "done"} => acked[p] = iter[p]
    BY <1>1, <1>3 DEF LoopInv, AtServer, AwaitsPing, Count, InIteration
  <2>2. at[p] = "pollSend" /\ posted[p] = iter[p] + 1 /\ AwaitsSent(cq[p])
    BY <1>1, <1>2, <1>3, <2>1 DEF LoopInv, AtServer
  <2>3. acked[p] # iter[p] + 1
    BY <1>1, <2>2
  <2>4. cq[p] = <<>> /\ Count(Server, 0, 1, 0)
    BY <1>3, <2>2, <2>3 DEF AwaitsSent, Count
  <2> QED
    BY <1>1, <1>3, <2>2, <2>4 DEF Count
<1>4. ASSUME p = Client
      PROVE  /\ acked[p] = iter[p]
             /\ \/ at[p] = "pollFirst" /\ cq[p] = <<>> /\ Count(Client, 0, 0, 1)
                \/ at[p] = "pollFirst" /\ cq[p] = One("recv") /\ Count(Client, 0, 1, 0)
                \/ at[p] = "pollSecond" /\ cq[p] = <<>> /\ Count(Client, 0, 1, 0)
  <2>1. at[p] \in {"top", "postSend", "done"} => acked[p] = iter[p]
    BY <1>1, <1>4 DEF LoopInv, AtClient, Count, InIteration
  <2>2. /\ posted[p] = iter[p] + 1
        /\ \/ at[p] = "pollFirst" /\ AwaitsFirst(cq[p])
           \/ at[p] = "pollSecond" /\ AwaitsSecond(cq[p])
    BY <1>1, <1>2, <1>4, <2>1 DEF LoopInv, AtClient
  <2>3. acked[p] # iter[p] + 1
    BY <1>1, <2>2
  <2>4. CASE at[p] = "pollFirst" /\ AwaitsFirst(cq[p])
    BY <1>1, <1>4, <2>3, <2>4 DEF AwaitsFirst, Count
  <2>5. CASE at[p] = "pollSecond" /\ AwaitsSecond(cq[p])
    BY <1>1, <1>4, <2>3, <2>5 DEF AwaitsSecond, Count
  <2> QED
    BY <2>2, <2>4, <2>5
<1>5. pc[p] = "running"
  BY <1>3, <1>4 DEF LoopInv, Alive
<1> QED
  BY <1>3, <1>4, <1>5

\* The server posts the receive for the next ping.
LEMMA ServerPostReceiveStep ==
  ASSUME LoopInv, Loop(Server), ServerPostReceive
  PROVE  LoopInv'
<1> USE Pair, ItersAssumption
<1>1. /\ at' = [at EXCEPT ![Server] = "pollRecv"]
      /\ rq' = [rq EXCEPT ![Server] = rq[Server] + 1]
      /\ UNCHANGED <<iter, buf, cq, qp, posted, acked, delivered, wire, acks>>
  BY DEF ServerPostReceive, Goto, AfterServerPost, adapterVars
<1>2. /\ pc[Server] = "running" /\ pc' = [pc EXCEPT ![Server] = "running"]
      /\ pc' \in [Peers -> R!Stages]
  BY <1>1, LoopPlace DEF LoopInv, LoopTypeOK
<1>3. /\ at[Server] = "top"
       /\ iter[Server] < NumIters
  BY DEF ServerPostReceive, MoreToDo
<1>4. LoopTypeOK'
  BY <1>1 DEF LoopInv, LoopTypeOK, Places
<1>5. QueuesOK'
  BY <1>1 DEF LoopInv, QueuesOK
<1>6. AtServer'
  BY <1>1, <1>3 DEF LoopInv, LoopTypeOK, QueuesOK, AtServer, AwaitsPing, AwaitsSent, Count, InIteration
<1>7. AtClient'
  BY <1>1, <1>3 DEF LoopInv, LoopTypeOK, QueuesOK, AtClient, AwaitsFirst, AwaitsSecond, Count, InIteration
<1>8. ASSUME NEW q \in Peers PROVE Bounded(q)'
  BY <1>1, <1>3 DEF LoopInv, LoopTypeOK, Bounded
<1>9. ASSUME NEW q \in Peers PROVE Channel(q)'
  BY <1>1, <1>3 DEF LoopInv, LoopTypeOK, QueuesOK, Channel
<1>10. ASSUME NEW q \in Peers PROVE Alive(q)'
  BY <1>1, <1>2, <1>3 DEF LoopInv, LoopTypeOK, Alive
<1> QED
  BY <1>2, <1>4, <1>5, <1>6, <1>7, <1>8, <1>9, <1>10 DEF LoopInv

\* The client writes the ping and posts the receive for the pong.
LEMMA ClientPostReceiveStep ==
  ASSUME LoopInv, Loop(Client), ClientPostReceive
  PROVE  LoopInv'
<1> USE Pair, ItersAssumption
<1>1. /\ at' = [at EXCEPT ![Client] = "postSend"]
      /\ buf' = [buf EXCEPT ![Client] = iter[Client] + 1]
      /\ rq' = [rq EXCEPT ![Client] = rq[Client] + 1]
      /\ UNCHANGED <<iter, cq, qp, posted, acked, delivered, wire, acks>>
  BY DEF ClientPostReceive, PongReceives, Goto, adapterVars
<1>2. /\ pc[Client] = "running" /\ pc' = [pc EXCEPT ![Client] = "running"]
      /\ pc' \in [Peers -> R!Stages]
  BY <1>1, LoopPlace DEF LoopInv, LoopTypeOK
<1>3. /\ at[Client] = "top"
       /\ iter[Client] < NumIters
  BY DEF ClientPostReceive, MoreToDo
<1>4. LoopTypeOK'
  BY <1>1 DEF LoopInv, LoopTypeOK, Places
<1>5. QueuesOK'
  BY <1>1 DEF LoopInv, QueuesOK
<1>6. AtServer'
  BY <1>1, <1>3 DEF LoopInv, LoopTypeOK, QueuesOK, AtServer, AwaitsPing, AwaitsSent, Count, InIteration
<1>7. AtClient'
  BY <1>1, <1>3 DEF LoopInv, LoopTypeOK, QueuesOK, AtClient, AwaitsFirst, AwaitsSecond, Count, InIteration
<1>8. ASSUME NEW q \in Peers PROVE Bounded(q)'
  BY <1>1, <1>3 DEF LoopInv, LoopTypeOK, Bounded
<1>9. ASSUME NEW q \in Peers PROVE Channel(q)'
  BY <1>1, <1>3 DEF LoopInv, LoopTypeOK, QueuesOK, Channel
<1>10. ASSUME NEW q \in Peers PROVE Alive(q)'
  BY <1>1, <1>2, <1>3 DEF LoopInv, LoopTypeOK, Alive
<1> QED
  BY <1>2, <1>4, <1>5, <1>6, <1>7, <1>8, <1>9, <1>10 DEF LoopInv

\* The server posts its send.
LEMMA ServerPostSendStep ==
  ASSUME LoopInv, Loop(Server), PostSend(Server)
  PROVE  LoopInv'
<1> USE Pair, ItersAssumption
<1>1. /\ at' = [at EXCEPT ![Server] = "pollSend"]
      /\ posted' = [posted EXCEPT ![Server] = posted[Server] + 1]
      /\ UNCHANGED <<iter, buf, cq, rq, qp, acked, delivered, wire, acks>>
  BY DEF PostSend, Goto, adapterVars
<1>2. /\ pc[Server] = "running" /\ pc' = [pc EXCEPT ![Server] = "running"]
      /\ pc' \in [Peers -> R!Stages]
  BY <1>1, LoopPlace DEF LoopInv, LoopTypeOK
<1>3. /\ at[Server] = "postSend"
  BY DEF PostSend
<1>4. /\ qp[Server] # "ERR"
  BY <1>3 DEF LoopInv, Alive
<1>5. LoopTypeOK'
  BY <1>1 DEF LoopInv, LoopTypeOK, Places
<1>6. QueuesOK'
  BY <1>1 DEF LoopInv, QueuesOK
<1>7. AtServer'
  BY <1>1, <1>3, <1>4 DEF LoopInv, LoopTypeOK, QueuesOK, AtServer, AwaitsPing, AwaitsSent, Count, InIteration
<1>8. AtClient'
  BY <1>1, <1>3, <1>4 DEF LoopInv, LoopTypeOK, QueuesOK, AtClient, AwaitsFirst, AwaitsSecond, Count, InIteration
<1>9. ASSUME NEW q \in Peers PROVE Bounded(q)'
  BY <1>1, <1>3, <1>4 DEF LoopInv, LoopTypeOK, Bounded
<1>10. ASSUME NEW q \in Peers PROVE Channel(q)'
  <2>1. \A m \in wire[q] : m.n \in Nat
    BY DEF LoopInv, QueuesOK
  <2>2. posted[q] <= posted'[q]
    BY <1>1 DEF LoopInv, LoopTypeOK
  <2> QED
    BY <1>1, <1>5, <2>1, <2>2 DEF LoopInv, LoopTypeOK, Channel
<1>11. ASSUME NEW q \in Peers PROVE Alive(q)'
  BY <1>1, <1>2, <1>3, <1>4 DEF LoopInv, LoopTypeOK, Alive
<1> QED
  BY <1>2, <1>5, <1>6, <1>7, <1>8, <1>9, <1>10, <1>11 DEF LoopInv

\* The server has done its iterations.
LEMMA ServerCleanupStep ==
  ASSUME LoopInv, Loop(Server), Cleanup(Server)
  PROVE  LoopInv'
<1> USE Pair, ItersAssumption
<1>1. /\ at' = [at EXCEPT ![Server] = "done"]
      /\ qp' = [qp EXCEPT ![Server] = "GONE"]
      /\ UNCHANGED <<iter, buf, cq, rq, posted, acked, delivered, wire, acks>>
  BY DEF Cleanup, Goto, adapterVars
<1>2. /\ pc[Server] = "running" /\ pc' = [pc EXCEPT ![Server] = "closed"]
      /\ pc' \in [Peers -> R!Stages]
  BY <1>1, LoopPlace DEF LoopInv, LoopTypeOK
<1>3. /\ at[Server] = "top"
       /\ ~(iter[Server] < NumIters)
  BY DEF Cleanup, MoreToDo
<1>4. LoopTypeOK'
  BY <1>1 DEF LoopInv, LoopTypeOK, Places
<1>5. QueuesOK'
  BY <1>1 DEF LoopInv, QueuesOK
<1>6. AtServer'
  BY <1>1, <1>3 DEF LoopInv, LoopTypeOK, QueuesOK, AtServer, AwaitsPing, AwaitsSent, Count, InIteration
<1>7. AtClient'
  BY <1>1, <1>3 DEF LoopInv, LoopTypeOK, QueuesOK, AtClient, AwaitsFirst, AwaitsSecond, Count, InIteration
<1>8. ASSUME NEW q \in Peers PROVE Bounded(q)'
  BY <1>1, <1>3 DEF LoopInv, LoopTypeOK, Bounded
<1>9. ASSUME NEW q \in Peers PROVE Channel(q)'
  BY <1>1, <1>3 DEF LoopInv, LoopTypeOK, QueuesOK, Channel
<1>10. ASSUME NEW q \in Peers PROVE Alive(q)'
  BY <1>1, <1>2, <1>3 DEF LoopInv, LoopTypeOK, Alive
<1> QED
  BY <1>2, <1>4, <1>5, <1>6, <1>7, <1>8, <1>9, <1>10 DEF LoopInv

\* The client posts its send.
LEMMA ClientPostSendStep ==
  ASSUME LoopInv, Loop(Client), PostSend(Client)
  PROVE  LoopInv'
<1> USE Pair, ItersAssumption
<1>1. /\ at' = [at EXCEPT ![Client] = "pollFirst"]
      /\ posted' = [posted EXCEPT ![Client] = posted[Client] + 1]
      /\ UNCHANGED <<iter, buf, cq, rq, qp, acked, delivered, wire, acks>>
  BY DEF PostSend, Goto, adapterVars
<1>2. /\ pc[Client] = "running" /\ pc' = [pc EXCEPT ![Client] = "running"]
      /\ pc' \in [Peers -> R!Stages]
  BY <1>1, LoopPlace DEF LoopInv, LoopTypeOK
<1>3. /\ at[Client] = "postSend"
  BY DEF PostSend
<1>4. /\ qp[Client] # "ERR"
  BY <1>3 DEF LoopInv, Alive
<1>5. LoopTypeOK'
  BY <1>1 DEF LoopInv, LoopTypeOK, Places
<1>6. QueuesOK'
  BY <1>1 DEF LoopInv, QueuesOK
<1>7. AtServer'
  BY <1>1, <1>3, <1>4 DEF LoopInv, LoopTypeOK, QueuesOK, AtServer, AwaitsPing, AwaitsSent, Count, InIteration
<1>8. AtClient'
  BY <1>1, <1>3, <1>4 DEF LoopInv, LoopTypeOK, QueuesOK, AtClient, AwaitsFirst, AwaitsSecond, Count, InIteration
<1>9. ASSUME NEW q \in Peers PROVE Bounded(q)'
  BY <1>1, <1>3, <1>4 DEF LoopInv, LoopTypeOK, Bounded
<1>10. ASSUME NEW q \in Peers PROVE Channel(q)'
  <2>1. \A m \in wire[q] : m.n \in Nat
    BY DEF LoopInv, QueuesOK
  <2>2. posted[q] <= posted'[q]
    BY <1>1 DEF LoopInv, LoopTypeOK
  <2> QED
    BY <1>1, <1>5, <2>1, <2>2 DEF LoopInv, LoopTypeOK, Channel
<1>11. ASSUME NEW q \in Peers PROVE Alive(q)'
  BY <1>1, <1>2, <1>3, <1>4 DEF LoopInv, LoopTypeOK, Alive
<1> QED
  BY <1>2, <1>5, <1>6, <1>7, <1>8, <1>9, <1>10, <1>11 DEF LoopInv

\* The client has done its iterations.
LEMMA ClientCleanupStep ==
  ASSUME LoopInv, Loop(Client), Cleanup(Client)
  PROVE  LoopInv'
<1> USE Pair, ItersAssumption
<1>1. /\ at' = [at EXCEPT ![Client] = "done"]
      /\ qp' = [qp EXCEPT ![Client] = "GONE"]
      /\ UNCHANGED <<iter, buf, cq, rq, posted, acked, delivered, wire, acks>>
  BY DEF Cleanup, Goto, adapterVars
<1>2. /\ pc[Client] = "running" /\ pc' = [pc EXCEPT ![Client] = "closed"]
      /\ pc' \in [Peers -> R!Stages]
  BY <1>1, LoopPlace DEF LoopInv, LoopTypeOK
<1>3. /\ at[Client] = "top"
       /\ ~(iter[Client] < NumIters)
  BY DEF Cleanup, MoreToDo
<1>4. LoopTypeOK'
  BY <1>1 DEF LoopInv, LoopTypeOK, Places
<1>5. QueuesOK'
  BY <1>1 DEF LoopInv, QueuesOK
<1>6. AtServer'
  BY <1>1, <1>3 DEF LoopInv, LoopTypeOK, QueuesOK, AtServer, AwaitsPing, AwaitsSent, Count, InIteration
<1>7. AtClient'
  BY <1>1, <1>3 DEF LoopInv, LoopTypeOK, QueuesOK, AtClient, AwaitsFirst, AwaitsSecond, Count, InIteration
<1>8. ASSUME NEW q \in Peers PROVE Bounded(q)'
  BY <1>1, <1>3 DEF LoopInv, LoopTypeOK, Bounded
<1>9. ASSUME NEW q \in Peers PROVE Channel(q)'
  BY <1>1, <1>3 DEF LoopInv, LoopTypeOK, QueuesOK, Channel
<1>10. ASSUME NEW q \in Peers PROVE Alive(q)'
  BY <1>1, <1>2, <1>3 DEF LoopInv, LoopTypeOK, Alive
<1> QED
  BY <1>2, <1>4, <1>5, <1>6, <1>7, <1>8, <1>9, <1>10 DEF LoopInv

\* The server polls the completion of its receive.
LEMMA ServerPollRecvStep ==
  ASSUME LoopInv, Loop(Server),
         PollCompletion(Server, "pollRecv", "postSend", iter[Server])
  PROVE  LoopInv'
<1> USE Pair, ItersAssumption
<1>1. at[Server] = "pollRecv" /\ cq[Server] # <<>>
  BY DEF PollCompletion
<1>2. CASE Head(cq[Server]) # "error"
  <2>1. /\ at' = [at EXCEPT ![Server] = "postSend"]
        /\ cq' = [cq EXCEPT ![Server] = Tail(cq[Server])]
        /\ UNCHANGED <<iter, buf, rq, qp, posted, acked, delivered, wire, acks>>
    BY <1>2 DEF PollCompletion, Goto, adapterVars, LoopInv, LoopTypeOK
  <2>2. /\ pc[Server] = "running" /\ pc' = [pc EXCEPT ![Server] = "running"]
        /\ pc' \in [Peers -> R!Stages]
    BY <2>1, LoopPlace DEF LoopInv, LoopTypeOK
  <2>3. /\ posted[Server] = iter[Server]
         /\ buf[Server] = iter[Server] + 1
         /\ Tail(cq[Server]) = <<>> /\ Count(Server, 0, 1, 0)
    BY <1>1, Queues DEF LoopInv, AtServer, AwaitsPing
  <2>4. LoopTypeOK'
    BY <2>1 DEF LoopInv, LoopTypeOK, Places
  <2>5. QueuesOK'
    BY <2>1, <1>1, HeadTailProperties DEF LoopInv, QueuesOK
  <2>6. AtServer'
    BY <2>1, <2>3 DEF LoopInv, LoopTypeOK, QueuesOK, AtServer, AwaitsPing, AwaitsSent, Count, InIteration
  <2>7. AtClient'
    BY <2>1, <2>3 DEF LoopInv, LoopTypeOK, QueuesOK, AtClient, AwaitsFirst, AwaitsSecond, Count, InIteration
  <2>8. ASSUME NEW q \in Peers PROVE Bounded(q)'
    BY <2>1, <2>3, <1>1 DEF LoopInv, LoopTypeOK, Bounded
  <2>9. ASSUME NEW q \in Peers PROVE Channel(q)'
    BY <2>1, <2>3 DEF LoopInv, LoopTypeOK, QueuesOK, Channel
  <2>10. ASSUME NEW q \in Peers PROVE Alive(q)'
    <3>1. /\ "postSend" \in Places \ Ended
          /\ iter'[Other(Server)] = iter[Other(Server)]
      BY <2>1 DEF LoopInv, LoopTypeOK, Places
    <3>2. /\ pc[Server] = "running" /\ pc' = [pc EXCEPT ![Server] = "running"]
          /\ at' = [at EXCEPT ![Server] = "postSend"] /\ qp' = qp
      BY <2>1, <2>2
    <3>3. qp[Server] = "ERR" => "postSend" \in {"pollSend", "pollFirst", "pollSecond"}
      BY <2>3, <1>1 DEF LoopInv, Alive
    <3> QED
      BY <3>1, <3>2, <3>3, GoesOn
  <2> QED
    BY <2>2, <2>4, <2>5, <2>6, <2>7, <2>8, <2>9, <2>10 DEF LoopInv
<1>3. CASE Head(cq[Server]) = "error"
  BY <1>1, <1>3, Queues DEF LoopInv, AtServer, AwaitsPing
<1> QED
  BY <1>2, <1>3

\* The server polls the completion of its send, or the error that ends it.
LEMMA ServerPollSendStep ==
  ASSUME LoopInv, Loop(Server),
         PollCompletion(Server, "pollSend", "top", iter[Server] + 1)
  PROVE  LoopInv'
<1> USE Pair, ItersAssumption
<1>1. at[Server] = "pollSend" /\ cq[Server] # <<>>
  BY DEF PollCompletion
<1>2. CASE Head(cq[Server]) # "error"
  <2>1. /\ at' = [at EXCEPT ![Server] = "top"]
        /\ cq' = [cq EXCEPT ![Server] = Tail(cq[Server])]
        /\ iter' = [iter EXCEPT ![Server] = iter[Server] + 1]
        /\ UNCHANGED <<buf, rq, qp, posted, acked, delivered, wire, acks>>
    BY <1>2 DEF PollCompletion, Goto, adapterVars
  <2>2. /\ pc[Server] = "running" /\ pc' = [pc EXCEPT ![Server] = "running"]
        /\ pc' \in [Peers -> R!Stages]
    BY <2>1, LoopPlace DEF LoopInv, LoopTypeOK
  <2>3. /\ posted[Server] = iter[Server] + 1
         /\ Tail(cq[Server]) = <<>> /\ Count(Server, 1, 1, 0)
         /\ qp[Server] # "ERR"
    BY <1>1, <1>2, Queues DEF LoopInv, AtServer, AwaitsSent
  <2>4. LoopTypeOK'
    <3>1. iter[Server] + 1 \in Nat
      BY DEF LoopInv, LoopTypeOK
    <3>2. iter' \in [Peers -> Nat]
      BY <2>1, <3>1 DEF LoopInv, LoopTypeOK
    <3>3. at' \in [Peers -> Places]
      BY <2>1 DEF LoopInv, LoopTypeOK, Places
    <3> QED
      BY <2>1, <3>2, <3>3 DEF LoopInv, LoopTypeOK
  <2>5. QueuesOK'
    BY <2>1, <1>1, HeadTailProperties DEF LoopInv, QueuesOK
  <2>6. AtServer'
    BY <2>1, <2>3 DEF LoopInv, LoopTypeOK, QueuesOK, AtServer, AwaitsPing, AwaitsSent, Count, InIteration
  <2>7. AtClient'
    BY <2>1, <2>3 DEF LoopInv, LoopTypeOK, QueuesOK, AtClient, AwaitsFirst, AwaitsSecond, Count, InIteration
  <2>8. ASSUME NEW q \in Peers PROVE Bounded(q)'
    BY <2>1, <2>3, <1>1 DEF LoopInv, LoopTypeOK, Bounded
  <2>9. ASSUME NEW q \in Peers PROVE Channel(q)'
    BY <2>1, <2>3 DEF LoopInv, LoopTypeOK, QueuesOK, Channel
  <2>10. ASSUME NEW q \in Peers PROVE Alive(q)'
    <3>1. /\ "top" \in Places \ Ended
          /\ iter'[Other(Server)] = iter[Other(Server)]
      BY <2>1 DEF LoopInv, LoopTypeOK, Places
    <3>2. /\ pc[Server] = "running" /\ pc' = [pc EXCEPT ![Server] = "running"]
          /\ at' = [at EXCEPT ![Server] = "top"] /\ qp' = qp
      BY <2>1, <2>2
    <3>3. qp[Server] = "ERR" => "top" \in {"pollSend", "pollFirst", "pollSecond"}
      BY <2>3, <1>1 DEF LoopInv, Alive
    <3> QED
      BY <3>1, <3>2, <3>3, GoesOn
  <2> QED
    BY <2>2, <2>4, <2>5, <2>6, <2>7, <2>8, <2>9, <2>10 DEF LoopInv
<1>3. CASE Head(cq[Server]) = "error"
  <2>1. /\ at' = [at EXCEPT ![Server] = "failed"]
        /\ cq' = [cq EXCEPT ![Server] = Tail(cq[Server])]
        /\ qp' = [qp EXCEPT ![Server] = "GONE"]
        /\ UNCHANGED <<iter, buf, rq, posted, acked, delivered, wire, acks>>
    BY <1>3 DEF PollCompletion, Goto, adapterVars
  <2>2. /\ pc[Server] = "running" /\ pc' = [pc EXCEPT ![Server] = "closed"]
        /\ pc' \in [Peers -> R!Stages]
    BY <2>1, LoopPlace DEF LoopInv, LoopTypeOK
  <2>3. /\ posted[Server] = iter[Server] + 1
         /\ Count(Server, 0, 1, 0)
         /\ qp[Server] = "ERR"
    BY <1>1, <1>3, Queues DEF LoopInv, AtServer, AwaitsSent
  <2>4. LoopTypeOK'
    BY <2>1 DEF LoopInv, LoopTypeOK, Places
  <2>5. QueuesOK'
    BY <2>1, <1>1, HeadTailProperties DEF LoopInv, QueuesOK
  <2>6. AtServer'
    BY <2>1, <2>3 DEF LoopInv, LoopTypeOK, QueuesOK, AtServer, AwaitsPing, AwaitsSent, Count, InIteration
  <2>7. AtClient'
    BY <2>1, <2>3 DEF LoopInv, LoopTypeOK, QueuesOK, AtClient, AwaitsFirst, AwaitsSecond, Count, InIteration
  <2>8. ASSUME NEW q \in Peers PROVE Bounded(q)'
    BY <2>1, <2>3, <1>1 DEF LoopInv, LoopTypeOK, Bounded
  <2>9. ASSUME NEW q \in Peers PROVE Channel(q)'
    BY <2>1, <2>3 DEF LoopInv, LoopTypeOK, QueuesOK, Channel
  <2>10. ASSUME NEW q \in Peers PROVE Alive(q)'
    BY <2>1, <2>2, <2>3, GivesUp
  <2> QED
    BY <2>2, <2>4, <2>5, <2>6, <2>7, <2>8, <2>9, <2>10 DEF LoopInv
<1> QED
  BY <1>2, <1>3

\* The client polls the first completion of an iteration.
LEMMA ClientPollFirstStep ==
  ASSUME LoopInv, Loop(Client),
         PollCompletion(Client, "pollFirst", "pollSecond", iter[Client])
  PROVE  LoopInv'
<1> USE Pair, ItersAssumption
<1>1. at[Client] = "pollFirst" /\ cq[Client] # <<>>
  BY DEF PollCompletion
<1>2. CASE Head(cq[Client]) # "error"
  <2>1. /\ at' = [at EXCEPT ![Client] = "pollSecond"]
        /\ cq' = [cq EXCEPT ![Client] = Tail(cq[Client])]
        /\ UNCHANGED <<iter, buf, rq, qp, posted, acked, delivered, wire, acks>>
    BY <1>2 DEF PollCompletion, Goto, adapterVars, LoopInv, LoopTypeOK
  <2>2. /\ pc[Client] = "running" /\ pc' = [pc EXCEPT ![Client] = "running"]
        /\ pc' \in [Peers -> R!Stages]
    BY <2>1, LoopPlace DEF LoopInv, LoopTypeOK
  <2>3. /\ posted[Client] = iter[Client] + 1 /\ buf[Client] = iter[Client] + 1
         /\ AwaitsSecond(Tail(cq[Client]))
    BY <1>1, <1>2, Queues DEF LoopInv, AtClient, AwaitsFirst, AwaitsSecond
  <2>4. LoopTypeOK'
    BY <2>1 DEF LoopInv, LoopTypeOK, Places
  <2>5. QueuesOK'
    BY <2>1, <1>1, HeadTailProperties DEF LoopInv, QueuesOK
  <2>6. AtServer'
    BY <2>1, <2>3 DEF LoopInv, LoopTypeOK, QueuesOK, AtServer, AwaitsPing, AwaitsSent, Count, InIteration
  <2>7. AtClient'
    BY <2>1, <2>3 DEF LoopInv, LoopTypeOK, QueuesOK, AtClient, AwaitsFirst, AwaitsSecond, Count, InIteration
  <2>8. ASSUME NEW q \in Peers PROVE Bounded(q)'
    BY <2>1, <2>3, <1>1 DEF LoopInv, LoopTypeOK, Bounded
  <2>9. ASSUME NEW q \in Peers PROVE Channel(q)'
    BY <2>1, <2>3 DEF LoopInv, LoopTypeOK, QueuesOK, Channel
  <2>10. ASSUME NEW q \in Peers PROVE Alive(q)'
    <3>1. /\ "pollSecond" \in Places \ Ended
          /\ iter'[Other(Client)] = iter[Other(Client)]
      BY <2>1 DEF LoopInv, LoopTypeOK, Places
    <3>2. /\ pc[Client] = "running" /\ pc' = [pc EXCEPT ![Client] = "running"]
          /\ at' = [at EXCEPT ![Client] = "pollSecond"] /\ qp' = qp
      BY <2>1, <2>2
    <3>3. qp[Client] = "ERR" => "pollSecond" \in {"pollSend", "pollFirst", "pollSecond"}
      BY <2>3, <1>1 DEF LoopInv, Alive
    <3> QED
      BY <3>1, <3>2, <3>3, GoesOn
  <2> QED
    BY <2>2, <2>4, <2>5, <2>6, <2>7, <2>8, <2>9, <2>10 DEF LoopInv
<1>3. CASE Head(cq[Client]) = "error"
  <2>1. /\ at' = [at EXCEPT ![Client] = "failed"]
        /\ cq' = [cq EXCEPT ![Client] = Tail(cq[Client])]
        /\ qp' = [qp EXCEPT ![Client] = "GONE"]
        /\ UNCHANGED <<iter, buf, rq, posted, acked, delivered, wire, acks>>
    BY <1>3 DEF PollCompletion, Goto, adapterVars
  <2>2. /\ pc[Client] = "running" /\ pc' = [pc EXCEPT ![Client] = "closed"]
        /\ pc' \in [Peers -> R!Stages]
    BY <2>1, LoopPlace DEF LoopInv, LoopTypeOK
  <2>3. /\ posted[Client] = iter[Client] + 1
         /\ Count(Client, 0, 0, 0)
         /\ qp[Client] = "ERR"
    BY <1>1, <1>3, Queues DEF LoopInv, AtClient, AwaitsFirst
  <2>4. LoopTypeOK'
    BY <2>1 DEF LoopInv, LoopTypeOK, Places
  <2>5. QueuesOK'
    BY <2>1, <1>1, HeadTailProperties DEF LoopInv, QueuesOK
  <2>6. AtServer'
    BY <2>1, <2>3 DEF LoopInv, LoopTypeOK, QueuesOK, AtServer, AwaitsPing, AwaitsSent, Count, InIteration
  <2>7. AtClient'
    BY <2>1, <2>3 DEF LoopInv, LoopTypeOK, QueuesOK, AtClient, AwaitsFirst, AwaitsSecond, Count, InIteration
  <2>8. ASSUME NEW q \in Peers PROVE Bounded(q)'
    BY <2>1, <2>3, <1>1 DEF LoopInv, LoopTypeOK, Bounded
  <2>9. ASSUME NEW q \in Peers PROVE Channel(q)'
    BY <2>1, <2>3 DEF LoopInv, LoopTypeOK, QueuesOK, Channel
  <2>10. ASSUME NEW q \in Peers PROVE Alive(q)'
    BY <2>1, <2>2, <2>3, GivesUp
  <2> QED
    BY <2>2, <2>4, <2>5, <2>6, <2>7, <2>8, <2>9, <2>10 DEF LoopInv
<1> QED
  BY <1>2, <1>3

\* The client polls the second completion of an iteration.
LEMMA ClientPollSecondStep ==
  ASSUME LoopInv, Loop(Client),
         PollCompletion(Client, "pollSecond", "top", iter[Client] + 1)
  PROVE  LoopInv'
<1> USE Pair, ItersAssumption
<1>1. at[Client] = "pollSecond" /\ cq[Client] # <<>>
  BY DEF PollCompletion
<1>2. CASE Head(cq[Client]) # "error"
  <2>1. /\ at' = [at EXCEPT ![Client] = "top"]
        /\ cq' = [cq EXCEPT ![Client] = Tail(cq[Client])]
        /\ iter' = [iter EXCEPT ![Client] = iter[Client] + 1]
        /\ UNCHANGED <<buf, rq, qp, posted, acked, delivered, wire, acks>>
    BY <1>2 DEF PollCompletion, Goto, adapterVars
  <2>2. /\ pc[Client] = "running" /\ pc' = [pc EXCEPT ![Client] = "running"]
        /\ pc' \in [Peers -> R!Stages]
    BY <2>1, LoopPlace DEF LoopInv, LoopTypeOK
  <2>3. /\ posted[Client] = iter[Client] + 1
         /\ Tail(cq[Client]) = <<>> /\ Count(Client, 1, 1, 0)
         /\ qp[Client] # "ERR"
    BY <1>1, <1>2, Queues DEF LoopInv, AtClient, AwaitsSecond
  <2>4. LoopTypeOK'
    <3>1. iter[Client] + 1 \in Nat
      BY DEF LoopInv, LoopTypeOK
    <3>2. iter' \in [Peers -> Nat]
      BY <2>1, <3>1 DEF LoopInv, LoopTypeOK
    <3>3. at' \in [Peers -> Places]
      BY <2>1 DEF LoopInv, LoopTypeOK, Places
    <3> QED
      BY <2>1, <3>2, <3>3 DEF LoopInv, LoopTypeOK
  <2>5. QueuesOK'
    BY <2>1, <1>1, HeadTailProperties DEF LoopInv, QueuesOK
  <2>6. AtServer'
    BY <2>1, <2>3 DEF LoopInv, LoopTypeOK, QueuesOK, AtServer, AwaitsPing, AwaitsSent, Count, InIteration
  <2>7. AtClient'
    BY <2>1, <2>3 DEF LoopInv, LoopTypeOK, QueuesOK, AtClient, AwaitsFirst, AwaitsSecond, Count, InIteration
  <2>8. ASSUME NEW q \in Peers PROVE Bounded(q)'
    <3>1. iter[Client] \in Nat /\ iter[Client] < NumIters /\ Bounded(q)
      BY <1>1 DEF LoopInv, LoopTypeOK, Bounded
    <3>2. q # Client => at'[q] = at[q] /\ iter'[q] = iter[q]
      BY <2>1 DEF LoopInv, LoopTypeOK
    <3>3. at'[Client] = "top" /\ iter'[Client] = iter[Client] + 1
      BY <2>1 DEF LoopInv, LoopTypeOK
    <3> QED
      BY <3>1, <3>2, <3>3, ItersAssumption DEF Bounded
  <2>9. ASSUME NEW q \in Peers PROVE Channel(q)'
    BY <2>1, <2>3 DEF LoopInv, LoopTypeOK, QueuesOK, Channel
  <2>10. ASSUME NEW q \in Peers PROVE Alive(q)'
    <3>1. /\ "top" \in Places \ Ended
          /\ iter'[Other(Client)] = iter[Other(Client)]
      BY <2>1 DEF LoopInv, LoopTypeOK, Places
    <3>2. /\ pc[Client] = "running" /\ pc' = [pc EXCEPT ![Client] = "running"]
          /\ at' = [at EXCEPT ![Client] = "top"] /\ qp' = qp
      BY <2>1, <2>2
    <3>3. qp[Client] = "ERR" => "top" \in {"pollSend", "pollFirst", "pollSecond"}
      BY <2>3, <1>1 DEF LoopInv, Alive
    <3> QED
      BY <3>1, <3>2, <3>3, GoesOn
  <2> QED
    BY <2>2, <2>4, <2>5, <2>6, <2>7, <2>8, <2>9, <2>10 DEF LoopInv
<1>3. CASE Head(cq[Client]) = "error"
  <2>1. /\ at' = [at EXCEPT ![Client] = "failed"]
        /\ cq' = [cq EXCEPT ![Client] = Tail(cq[Client])]
        /\ qp' = [qp EXCEPT ![Client] = "GONE"]
        /\ UNCHANGED <<iter, buf, rq, posted, acked, delivered, wire, acks>>
    BY <1>3 DEF PollCompletion, Goto, adapterVars
  <2>2. /\ pc[Client] = "running" /\ pc' = [pc EXCEPT ![Client] = "closed"]
        /\ pc' \in [Peers -> R!Stages]
    BY <2>1, LoopPlace DEF LoopInv, LoopTypeOK
  <2>3. /\ posted[Client] = iter[Client] + 1
         /\ Count(Client, 0, 1, 0)
         /\ qp[Client] = "ERR"
    BY <1>1, <1>3, Queues DEF LoopInv, AtClient, AwaitsSecond
  <2>4. LoopTypeOK'
    BY <2>1 DEF LoopInv, LoopTypeOK, Places
  <2>5. QueuesOK'
    BY <2>1, <1>1, HeadTailProperties DEF LoopInv, QueuesOK
  <2>6. AtServer'
    BY <2>1, <2>3 DEF LoopInv, LoopTypeOK, QueuesOK, AtServer, AwaitsPing, AwaitsSent, Count, InIteration
  <2>7. AtClient'
    BY <2>1, <2>3 DEF LoopInv, LoopTypeOK, QueuesOK, AtClient, AwaitsFirst, AwaitsSecond, Count, InIteration
  <2>8. ASSUME NEW q \in Peers PROVE Bounded(q)'
    BY <2>1, <2>3, <1>1 DEF LoopInv, LoopTypeOK, Bounded
  <2>9. ASSUME NEW q \in Peers PROVE Channel(q)'
    BY <2>1, <2>3 DEF LoopInv, LoopTypeOK, QueuesOK, Channel
  <2>10. ASSUME NEW q \in Peers PROVE Alive(q)'
    BY <2>1, <2>2, <2>3, GivesUp
  <2> QED
    BY <2>2, <2>4, <2>5, <2>6, <2>7, <2>8, <2>9, <2>10 DEF LoopInv
<1> QED
  BY <1>2, <1>3

\* A process dies in its loop.
LEMMA KilledStep ==
  ASSUME LoopInv, NEW p \in Peers, Killed(p)
  PROVE  LoopInv'
<1> USE Pair, ItersAssumption
<1>1. /\ at' = [at EXCEPT ![p] = "killed"]
      /\ qp' = [qp EXCEPT ![p] = "GONE"]
      /\ UNCHANGED <<iter, buf, cq, rq, posted, acked, delivered, wire, acks>>
  BY DEF Killed, Die, Goto, adapterVars
<1>2. /\ pc[p] = "running" /\ at[p] \notin Ended
      /\ pc' = [pc EXCEPT ![p] = "closed"] /\ pc' \in [Peers -> R!Stages]
  BY DEF Killed, PastBarrier, Die, LoopInv, R!Stages
<1>3. LoopTypeOK'
  BY <1>1 DEF LoopInv, LoopTypeOK, Places
<1>4. QueuesOK'
  BY <1>1 DEF LoopInv, QueuesOK
<1>5. AtServer'
  <2>1. CASE p = Server
    <3>1. AtServer /\ at[Server] \notin Ended /\ iter[Server] \in Nat
      BY <1>2, <2>1 DEF LoopInv, LoopTypeOK
    <3>2. /\ InIteration(Server)
          /\ posted[Server] = iter[Server] + 1 =>
               buf[Server] = iter[Server] + 1 /\ delivered[Client] = iter[Server] + 1
      BY <3>1 DEF AtServer, AwaitsPing, AwaitsSent, Count, InIteration
    <3>3. at'[Server] = "killed"
      BY <1>1, <2>1 DEF LoopInv, LoopTypeOK
    <3> QED
      BY <1>1, <3>2, <3>3 DEF AtServer, InIteration
  <2>2. CASE p = Client
    BY <1>1, <2>2 DEF LoopInv, LoopTypeOK, AtServer, AwaitsPing, AwaitsSent, Count, InIteration
  <2> QED
    BY <2>1, <2>2
<1>6. AtClient'
  <2>1. CASE p = Client
    <3>1. AtClient /\ at[Client] \notin Ended /\ iter[Client] \in Nat
      BY <1>2, <2>1 DEF LoopInv, LoopTypeOK
    <3>2. InIteration(Client)
      BY <3>1 DEF AtClient, AwaitsFirst, AwaitsSecond, Count, InIteration
    <3>3. at'[Client] = "killed"
      BY <1>1, <2>1 DEF LoopInv, LoopTypeOK
    <3> QED
      BY <1>1, <3>2, <3>3 DEF AtClient, InIteration
  <2>2. CASE p = Server
    BY <1>1, <2>2 DEF LoopInv, LoopTypeOK, AtClient, AwaitsFirst, AwaitsSecond, Count, InIteration
  <2> QED
    BY <2>1, <2>2
<1>7. ASSUME NEW q \in Peers PROVE Bounded(q)'
  BY <1>1, <1>2 DEF LoopInv, LoopTypeOK, Bounded
<1>8. ASSUME NEW q \in Peers PROVE Channel(q)'
  BY <1>1 DEF LoopInv, Channel
<1>9. ASSUME NEW q \in Peers PROVE Alive(q)'
  BY <1>1, <1>2, GivesUp
<1> QED
  BY <1>2, <1>3, <1>4, <1>5, <1>6, <1>7, <1>8, <1>9 DEF LoopInv

\* Every step of the two loops preserves the invariant.
LEMMA LoopStep ==
  ASSUME LoopInv, NEW p \in Peers, Loop(p) PROVE LoopInv'
<1>1. CASE p = Server
  BY <1>1, TwoProcesses, ServerPostReceiveStep, ServerPollRecvStep, ServerPollSendStep,
     ServerPostSendStep, ServerCleanupStep
     DEF Loop, Process, ServerPoll
<1>2. CASE p = Client
  BY <1>2, TwoProcesses, ClientPostReceiveStep, ClientPollFirstStep,
     ClientPollSecondStep, ClientPostSendStep, ClientCleanupStep
     DEF Loop, Process, ClientPoll
<1> QED
  BY <1>1, <1>2, Pair

\* A packet leaves, with what the buffer holds now.
LEMMA TransmitStep ==
  ASSUME LoopInv, NEW p \in Peers, Transmit(p), pc' = pc
  PROVE  LoopInv'
<1> USE Pair, ItersAssumption
<1>0. PICK n \in acked[p] + 1 .. posted[p] :
           wire' = [wire EXCEPT ![p] = @ \cup {[n |-> n, data |-> buf[p]]}]
  BY DEF Transmit
<1>1. /\ UNCHANGED <<at, iter, buf, cq, rq, qp, posted, acked, delivered, acks>>
      /\ qp[p] = "RTS"
  BY DEF Transmit
<1>2. n \in Nat /\ n > acked[p] /\ n <= posted[p] /\ buf[p] \in Nat /\ 1 <= n
  BY DEF LoopInv, LoopTypeOK
<1>3. buf[p] = n
  <2>1. CASE p = Server
    <3>1. AtServer /\ at[Server] \notin {"failed", "killed"}
      BY <1>1, <2>1 DEF LoopInv, Alive
    <3>2. /\ iter[Server] \in Nat /\ acked[Server] \in Nat /\ posted[Server] \in Nat
          /\ n > acked[Server] /\ n <= posted[Server]
      BY <1>2, <2>1 DEF LoopInv, LoopTypeOK
    <3>3. acked[Server] >= iter[Server]
      BY <3>1, <3>2 DEF AtServer, AwaitsPing, AwaitsSent, Count, InIteration
    <3>4. posted[Server] = iter[Server] + 1 /\ buf[Server] = iter[Server] + 1
      BY <3>1, <3>2, <3>3 DEF AtServer
    <3> QED
      BY <2>1, <3>2, <3>3, <3>4
  <2>2. CASE p = Client
    <3>1. AtClient /\ at[Client] \notin {"failed", "killed"}
      BY <1>1, <2>2 DEF LoopInv, Alive
    <3>2. /\ iter[Client] \in Nat /\ acked[Client] \in Nat /\ posted[Client] \in Nat
          /\ n > acked[Client] /\ n <= posted[Client]
      BY <1>2, <2>2 DEF LoopInv, LoopTypeOK
    <3>3. acked[Client] >= iter[Client]
      BY <3>1, <3>2 DEF AtClient, AwaitsFirst, AwaitsSecond, Count, InIteration
    <3>4. posted[Client] = iter[Client] + 1 /\ buf[Client] = iter[Client] + 1
      BY <3>1, <3>2, <3>3 DEF AtClient
    <3> QED
      BY <2>2, <3>2, <3>3, <3>4
  <2> QED
    BY <2>1, <2>2
<1>4. LoopTypeOK'
  BY <1>1 DEF LoopInv, LoopTypeOK
<1>5. QueuesOK'
  BY <1>0, <1>1, <1>2 DEF LoopInv, QueuesOK
<1>6. AtServer' /\ AtClient'
  BY <1>1 DEF LoopInv, AtServer, AtClient, AwaitsPing, AwaitsSent, AwaitsFirst, AwaitsSecond, Count, InIteration
<1>7. ASSUME NEW q \in Peers PROVE Bounded(q)' /\ Alive(q)'
  BY <1>1 DEF LoopInv, Bounded, Alive
<1>8. ASSUME NEW q \in Peers PROVE Channel(q)'
  <2>1. \A m \in wire'[q] : m \in wire[q] \/ (q = p /\ m.n = n /\ m.data = n)
    <3>1. wire'[q] = IF q = p THEN wire[p] \cup {[n |-> n, data |-> buf[p]]} ELSE wire[q]
      BY <1>0 DEF LoopInv, QueuesOK
    <3>2. CASE q = p
      BY <1>3, <3>1, <3>2
    <3>3. CASE q # p
      BY <3>1, <3>3
    <3> QED
      BY <3>2, <3>3
  <2>2. /\ acked[q] <= delivered[q] /\ delivered[q] <= posted[q]
        /\ \A a \in acks[q] : 1 <= a /\ a <= delivered[q]
    BY DEF LoopInv, Channel
  <2>3. \A m \in wire[q] : /\ 1 <= m.n /\ m.n <= posted[q]
                           /\ m.n > delivered[q] => m.data = m.n
    BY DEF LoopInv, Channel
  <2> QED
    BY <1>1, <1>2, <2>1, <2>2, <2>3 DEF Channel
<1> QED
  BY <1>4, <1>5, <1>6, <1>7, <1>8 DEF LoopInv

\* Packets may go, and acknowledgements go or be sent once more.
LEMMA FewerPacketsStep ==
  ASSUME LoopInv, pc' = pc,
         \A q \in Peers : wire'[q] \subseteq wire[q],
         \A q \in Peers : \A a \in acks'[q] : a \in acks[q] \/ (a = delivered[q] /\ a >= 1),
         wire' \in [Peers -> SUBSET [n : Nat, data : Nat]],
         acks' \in [Peers -> SUBSET Nat],
         UNCHANGED <<at, iter, buf, cq, rq, qp, posted, acked, delivered>>
  PROVE  LoopInv'
<1>1. LoopTypeOK'
  BY DEF LoopInv, LoopTypeOK
<1>2. QueuesOK'
  BY DEF LoopInv, QueuesOK
<1>3. AtServer' /\ AtClient'
  BY DEF LoopInv, AtServer, AtClient, AwaitsPing, AwaitsSent, AwaitsFirst, AwaitsSecond, Count, InIteration
<1>4. ASSUME NEW q \in Peers PROVE Bounded(q)' /\ Alive(q)'
  BY DEF LoopInv, Bounded, Alive
<1>5. ASSUME NEW q \in Peers PROVE Channel(q)'
  <2>1. delivered[q] \in Nat
    BY DEF LoopInv, LoopTypeOK
  <2> QED
    BY <2>1 DEF LoopInv, Channel
<1> QED
  BY <1>1, <1>2, <1>3, <1>4, <1>5 DEF LoopInv

\* A message without a receive, a repeated message, a loss.
LEMMA NothingDeliveredStep ==
  ASSUME LoopInv, NEW p \in Peers, pc' = pc, RnrNak(p) \/ Duplicate(p) \/ Lose(p)
  PROVE  LoopInv'
<1> USE Pair
<1>1. UNCHANGED <<at, iter, buf, cq, rq, qp, posted, acked, delivered>>
  BY DEF RnrNak, Duplicate, Lose
<1>2. /\ wire \in [Peers -> SUBSET [n : Nat, data : Nat]]
      /\ acks \in [Peers -> SUBSET Nat]
      /\ delivered \in [Peers -> Nat]
  BY DEF LoopInv, LoopTypeOK, QueuesOK
<1>3. /\ wire' \in [Peers -> SUBSET [n : Nat, data : Nat]]
      /\ \A q \in Peers : wire'[q] \subseteq wire[q]
  <2>1. wire' = wire \/ \E m \in wire[p] : wire' = [wire EXCEPT ![p] = @ \ {m}]
    BY DEF RnrNak, Duplicate, Lose
  <2> QED
    BY <1>2, <2>1
<1>4. /\ acks' \in [Peers -> SUBSET Nat]
      /\ \A q \in Peers : \A a \in acks'[q] : a \in acks[q] \/ (a = delivered[q] /\ a >= 1)
  <2>1. \/ acks' = acks
        \/ \E a \in acks[p] : acks' = [acks EXCEPT ![p] = @ \ {a}]
        \/ delivered[p] >= 1 /\ acks' = [acks EXCEPT ![p] = @ \cup {delivered[p]}]
    <3>1. \A m \in wire[p] : m.n \in Nat /\ 1 <= m.n
      BY <1>2 DEF LoopInv, Channel
    <3> QED
      BY <1>2, <3>1 DEF RnrNak, Duplicate, Lose
  <2>2. CASE acks' = acks
    BY <1>2, <2>2
  <2>3. CASE \E a \in acks[p] : acks' = [acks EXCEPT ![p] = @ \ {a}]
    BY <1>2, <2>3
  <2>4. CASE delivered[p] >= 1 /\ acks' = [acks EXCEPT ![p] = @ \cup {delivered[p]}]
    <3>1. \A q \in Peers : acks'[q] = IF q = p THEN acks[p] \cup {delivered[p]} ELSE acks[q]
      BY <1>2, <2>4
    <3>2. acks' \in [Peers -> SUBSET Nat]
      BY <1>2, <2>4
    <3> QED
      BY <2>4, <3>1, <3>2
  <2> QED
    BY <2>1, <2>2, <2>3, <2>4
<1> QED
  BY <1>1, <1>3, <1>4, FewerPacketsStep

\* An acknowledgement arrives.
LEMMA AcknowledgeStep ==
  ASSUME LoopInv, NEW p \in Peers, Acknowledge(p), pc' = pc
  PROVE  LoopInv'
<1> USE Pair
<1>1. UNCHANGED <<at, iter, buf, rq, qp, posted, delivered, wire>> /\ qp[p] = "RTS"
  BY DEF Acknowledge
<1>0. PICK a \in acks[p] :
      IF a > acked[p]
        THEN /\ acked' = [acked EXCEPT ![p] = @ + 1]
             /\ cq' = [cq EXCEPT ![p] = Append(@, "send")]
             /\ acks' = acks
        ELSE /\ acks' = [acks EXCEPT ![p] = @ \ {a}]
             /\ UNCHANGED <<acked, cq>>
  BY DEF Acknowledge
<1>2. a \in Nat /\ a <= delivered[p] /\ delivered[p] <= posted[p]
  BY DEF LoopInv, QueuesOK, Channel
<1>3. CASE a > acked[p]
  <2>1. /\ acked' = [acked EXCEPT ![p] = acked[p] + 1]
        /\ cq' = [cq EXCEPT ![p] = Append(cq[p], "send")]
        /\ acks' = acks
    BY <1>0, <1>3
  <2>2. acked[p] < posted[p] /\ acked[p] < delivered[p]
    BY <1>2, <1>3 DEF LoopInv, LoopTypeOK
  <2>3. LoopTypeOK'
    <3>1. acked \in [Peers -> Nat] /\ acked' = [acked EXCEPT ![p] = acked[p] + 1]
      BY <2>1 DEF LoopInv, LoopTypeOK
    <3>2. acked' \in [Peers -> Nat]
      BY <3>1
    <3> QED
      BY <1>1, <3>2 DEF LoopInv, LoopTypeOK
  <2>4. QueuesOK'
    BY <1>1, <2>1, AppendProperties DEF LoopInv, QueuesOK, Kinds
  <2>5. AtServer' /\ AtClient'
    <3>1. CASE p = Server
      <4>1. at[Server] = "pollSend" /\ cq[Server] = <<>> /\ Count(Server, 0, 1, 0)
        BY <1>1, <2>2, <3>1, Outstanding
      <4>2. cq'[Server] = One("send")
        BY <2>1, <3>1, <4>1, Queues DEF LoopInv, QueuesOK
      <4>3. AtServer'
        BY <1>1, <2>1, <3>1, <4>1, <4>2 DEF LoopInv, LoopTypeOK, AtServer, AwaitsSent, Count, InIteration
      <4>4. AtClient'
        BY <1>1, <2>1, <3>1 DEF LoopInv, LoopTypeOK, QueuesOK, AtClient, AwaitsFirst, AwaitsSecond, Count, InIteration
      <4> QED
        BY <4>3, <4>4
    <3>2. CASE p = Client
      <4>2. qp[Client] # "ERR" /\ acked[Client] = iter[Client]
        BY <1>1, <2>2, <3>2, Outstanding
      <4>3. \/ at[Client] = "pollFirst" /\ cq[Client] = <<>> /\ Count(Client, 0, 0, 1)
            \/ at[Client] = "pollFirst" /\ cq[Client] = One("recv") /\ Count(Client, 0, 1, 0)
            \/ at[Client] = "pollSecond" /\ cq[Client] = <<>> /\ Count(Client, 0, 1, 0)
        BY <1>1, <2>2, <3>2, Outstanding
      <4>4. \/ at[Client] = "pollFirst" /\ cq'[Client] = One("send") /\ Count(Client, 0, 0, 1)
            \/ at[Client] = "pollFirst" /\ cq'[Client] = Two("recv", "send") /\ Count(Client, 0, 1, 0)
            \/ at[Client] = "pollSecond" /\ cq'[Client] = One("send") /\ Count(Client, 0, 1, 0)
        <5>1. cq'[Client] = Append(cq[Client], "send")
          BY <2>1, <3>2 DEF LoopInv, QueuesOK
        <5> QED
          BY <4>3, <5>1, Queues
      <4>5. AtClient'
        BY <1>1, <2>1, <3>2, <4>2, <4>4 DEF LoopInv, LoopTypeOK, AtClient, AwaitsFirst, AwaitsSecond, Count, InIteration
      <4>6. AtServer'
        BY <1>1, <2>1, <3>2 DEF LoopInv, LoopTypeOK, QueuesOK, AtServer, AwaitsPing, AwaitsSent, Count, InIteration
      <4> QED
        BY <4>5, <4>6
    <3> QED
      BY <3>1, <3>2
  <2>6. ASSUME NEW q \in Peers PROVE Bounded(q)' /\ Alive(q)'
    BY <1>1 DEF LoopInv, Bounded, Alive
  <2>7. ASSUME NEW q \in Peers PROVE Channel(q)'
    <3>1. acked'[q] <= delivered[q]
      <4>1. /\ acked[q] \in Nat /\ delivered[q] \in Nat /\ acked[q] <= delivered[q]
            /\ acked'[q] = IF q = p THEN acked[p] + 1 ELSE acked[q]
        BY <2>1 DEF LoopInv, LoopTypeOK, Channel
      <4> QED
        BY <2>2, <4>1
    <3> QED
      BY <1>1, <2>1, <3>1 DEF LoopInv, Channel
  <2> QED
    BY <2>3, <2>4, <2>5, <2>6, <2>7 DEF LoopInv
<1>4. CASE ~(a > acked[p])
  <2>1. acks' = [acks EXCEPT ![p] = @ \ {a}] /\ UNCHANGED <<acked, cq>>
    BY <1>0, <1>4
  <2>2. /\ acks' \in [Peers -> SUBSET Nat]
        /\ \A q \in Peers : \A b \in acks'[q] : b \in acks[q]
        /\ wire \in [Peers -> SUBSET [n : Nat, data : Nat]]
    BY <2>1 DEF LoopInv, QueuesOK
  <2> QED
    BY <1>1, <2>1, <2>2, FewerPacketsStep
<1> QED
  BY <1>3, <1>4

\* A ping arrives: the server awaits it, with an empty queue.
LEMMA PingStep ==
  ASSUME LoopInv, Deliver(Client), pc' = pc
  PROVE  LoopInv'
<1> USE Pair
<1>0. PICK m \in wire[Client] :
        /\ m.n = delivered[Client] + 1
        /\ wire' = [wire EXCEPT ![Client] = @ \ {m}]
        /\ buf' = [buf EXCEPT ![Server] = m.data]
  BY DEF Deliver
<1>1. /\ rq[Server] > 0 /\ qp[Server] \in {"RTR", "RTS"}
      /\ rq' = [rq EXCEPT ![Server] = rq[Server] - 1]
      /\ cq' = [cq EXCEPT ![Server] = Append(cq[Server], "recv")]
      /\ delivered' = [delivered EXCEPT ![Client] = delivered[Client] + 1]
      /\ acks' = [acks EXCEPT ![Client] = acks[Client] \cup {delivered[Client] + 1}]
      /\ UNCHANGED <<at, iter, qp, posted, acked>>
  BY DEF Deliver, Responds
<1>2. /\ m.n <= posted[Client] /\ m.data = m.n /\ m.n \in Nat
      /\ delivered[Client] + 1 <= posted[Client]
  <2>1. m \in [n : Nat, data : Nat]
    BY DEF LoopInv, QueuesOK
  <2>2. delivered[Client] \in Nat
    BY DEF LoopInv, LoopTypeOK
  <2>3. Channel(Client)
    BY DEF LoopInv
  <2> QED
    BY <1>0, <2>1, <2>2, <2>3 DEF Channel
<1>3. at[Server] = "pollRecv" /\ cq[Server] = <<>> /\ Count(Server, 0, 0, 1)
  BY <1>1 DEF LoopInv, LoopTypeOK, AtServer, AwaitsPing, AwaitsSent, Count, InIteration, Alive
<1>4. buf' = [buf EXCEPT ![Server] = iter[Server] + 1]
  <2>1. delivered[Client] = iter[Server]
    BY <1>3 DEF LoopInv, LoopTypeOK, Count
  <2> QED
    BY <1>0, <1>2, <2>1
<1>5. LoopTypeOK'
  <2>1. rq[Server] - 1 \in Nat
    BY <1>1 DEF LoopInv, LoopTypeOK
  <2>2. rq' \in [Peers -> Nat]
    BY <1>1, <2>1 DEF LoopInv, LoopTypeOK
  <2>3. delivered' \in [Peers -> Nat]
    BY <1>1 DEF LoopInv, LoopTypeOK
  <2>4. buf' \in [Peers -> Nat]
    BY <1>4 DEF LoopInv, LoopTypeOK
  <2> QED
    BY <1>1, <2>2, <2>3, <2>4 DEF LoopInv, LoopTypeOK
<1>6. QueuesOK'
  <2>1. cq' \in [Peers -> Seq(Kinds)]
    BY <1>1, AppendProperties DEF LoopInv, QueuesOK, Kinds
  <2>2. wire' \in [Peers -> SUBSET [n : Nat, data : Nat]]
    BY <1>0 DEF LoopInv, QueuesOK
  <2>3. acks' \in [Peers -> SUBSET Nat]
    <3>1. acks[Client] \cup {delivered[Client] + 1} \in SUBSET Nat
      BY DEF LoopInv, LoopTypeOK, QueuesOK
    <3> QED
      BY <1>1, <3>1 DEF LoopInv, QueuesOK
  <2> QED
    BY <2>1, <2>2, <2>3 DEF QueuesOK
<1>7. AtServer'
  <2>1. cq'[Server] = One("recv")
    BY <1>1, <1>3, Queues DEF LoopInv, QueuesOK
  <2> QED
    BY <1>1, <1>3, <1>4, <2>1 DEF LoopInv, LoopTypeOK, AtServer, AwaitsPing, Count, InIteration
<1>8. AtClient'
  BY <1>1, <1>4 DEF LoopInv, LoopTypeOK, QueuesOK, AtClient, AwaitsFirst, AwaitsSecond, Count, InIteration
<1>9. ASSUME NEW x \in Peers PROVE Bounded(x)' /\ Alive(x)'
  BY <1>1 DEF LoopInv, Bounded, Alive
<1>10. ASSUME NEW x \in Peers PROVE Channel(x)'
  <2>1. CASE x = Client
    <3>1. /\ acked[Client] <= delivered'[Client] /\ delivered'[Client] <= posted[Client]
          /\ delivered'[Client] \in Nat /\ delivered[Client] \in Nat
          /\ delivered'[Client] = delivered[Client] + 1
      <4>1. delivered'[Client] = delivered[Client] + 1 /\ delivered[Client] \in Nat
        BY <1>1 DEF LoopInv, LoopTypeOK
      <4>2. acked[Client] <= delivered[Client] /\ acked[Client] \in Nat
        BY DEF LoopInv, LoopTypeOK, Channel
      <4> QED
        BY <1>2, <4>1, <4>2
    <3>2. \A k \in wire'[Client] :
           /\ 1 <= k.n /\ k.n <= posted[Client]
           /\ k.n > delivered'[Client] => k.data = k.n
      <4>1. \A k \in wire'[Client] : k \in wire[Client] /\ k.n \in Nat
        BY <1>0 DEF LoopInv, QueuesOK
      <4> QED
        BY <3>1, <4>1 DEF LoopInv, Channel
    <3>3. \A a \in acks'[Client] : 1 <= a /\ a <= delivered'[Client]
      <4>1. \A a \in acks'[Client] : a \in acks[Client] \/ a = delivered[Client] + 1
        BY <1>1 DEF LoopInv, QueuesOK
      <4>2. \A a \in acks[Client] : a \in Nat /\ 1 <= a /\ a <= delivered[Client]
        BY DEF LoopInv, QueuesOK, Channel
      <4> QED
        BY <3>1, <4>1, <4>2
    <3>4. UNCHANGED <<acked, posted>>
      BY <1>1
    <3>5. /\ acked'[Client] <= delivered'[Client]
          /\ delivered'[Client] <= posted'[Client]
      BY <3>1, <3>4
    <3>6. \A k \in wire'[Client] :
           /\ 1 <= k.n /\ k.n <= posted'[Client]
           /\ k.n > delivered'[Client] => k.data = k.n
      BY <3>2, <3>4
    <3>7. Channel(Client)'
      BY <3>3, <3>5, <3>6, <3>4 DEF Channel
    <3> QED
      BY <2>1, <3>7
  <2>2. CASE x = Server
    BY <1>0, <1>1, <2>2 DEF LoopInv, LoopTypeOK, QueuesOK, Channel
  <2> QED
    BY <2>1, <2>2
<1>11. pc' \in [Peers -> R!Stages]
  BY DEF LoopInv
<1> QED
  BY <1>5, <1>6, <1>7, <1>8, <1>9, <1>10, <1>11 DEF LoopInv

\* A pong arrives: the client has sent the ping that it answers.
LEMMA PongStep ==
  ASSUME LoopInv, Deliver(Server), pc' = pc
  PROVE  LoopInv'
<1> USE Pair
<1>0. PICK m \in wire[Server] :
        /\ m.n = delivered[Server] + 1
        /\ wire' = [wire EXCEPT ![Server] = @ \ {m}]
        /\ buf' = [buf EXCEPT ![Client] = m.data]
  BY DEF Deliver
<1>1. /\ rq[Client] > 0 /\ qp[Client] \in {"RTR", "RTS"}
      /\ rq' = [rq EXCEPT ![Client] = rq[Client] - 1]
      /\ cq' = [cq EXCEPT ![Client] = Append(cq[Client], "recv")]
      /\ delivered' = [delivered EXCEPT ![Server] = delivered[Server] + 1]
      /\ acks' = [acks EXCEPT ![Server] = acks[Server] \cup {delivered[Server] + 1}]
      /\ UNCHANGED <<at, iter, qp, posted, acked>>
  BY DEF Deliver, Responds
<1>2. /\ m.n <= posted[Server] /\ m.data = m.n /\ m.n \in Nat
      /\ delivered[Server] + 1 <= posted[Server]
  <2>1. m \in [n : Nat, data : Nat]
    BY DEF LoopInv, QueuesOK
  <2>2. delivered[Server] \in Nat
    BY DEF LoopInv, LoopTypeOK
  <2>3. Channel(Server)
    BY DEF LoopInv
  <2> QED
    BY <1>0, <2>1, <2>2, <2>3 DEF Channel
<1>3. \/ at[Client] = "pollFirst" /\ cq[Client] = <<>> /\ Count(Client, 0, 0, 1)
      \/ at[Client] = "pollFirst" /\ cq[Client] = One("send") /\ Count(Client, 1, 0, 1)
      \/ at[Client] = "pollSecond" /\ cq[Client] = <<>> /\ Count(Client, 1, 0, 1)
  <2>1. posted[Server] <= delivered[Client] /\ delivered[Client] <= posted[Client]
    <3>1. /\ iter[Server] \in Nat /\ posted[Server] \in Nat /\ delivered[Client] \in Nat
          /\ delivered[Client] <= posted[Client] /\ AtServer
      BY DEF LoopInv, LoopTypeOK, Channel
    <3>2. posted[Server] <= delivered[Client]
      BY <3>1 DEF AtServer, AwaitsPing, AwaitsSent, Count, InIteration
    <3> QED
      BY <3>1, <3>2
  <2>2. at[Client] # "postSend"
    BY <1>2, <2>1 DEF LoopInv, LoopTypeOK, AtClient, Count, InIteration
  <2>3. \/ at[Client] = "pollFirst" /\ AwaitsFirst(cq[Client])
        \/ at[Client] = "pollSecond" /\ AwaitsSecond(cq[Client])
    <3>1. at[Client] \notin Ended
      BY <1>1 DEF LoopInv, Alive
    <3> QED
      BY <1>1, <2>2, <3>1 DEF LoopInv, LoopTypeOK, AtClient, Count
  <2> QED
    BY <1>1, <2>3 DEF AwaitsFirst, AwaitsSecond, Count
<1>4. buf' = [buf EXCEPT ![Client] = iter[Client] + 1]
  <2>1. delivered[Server] = iter[Client]
    BY <1>3 DEF LoopInv, LoopTypeOK, Count
  <2> QED
    BY <1>0, <1>2, <2>1
<1>5. LoopTypeOK'
  <2>1. rq[Client] - 1 \in Nat
    BY <1>1 DEF LoopInv, LoopTypeOK
  <2>2. rq' \in [Peers -> Nat]
    BY <1>1, <2>1 DEF LoopInv, LoopTypeOK
  <2>3. delivered' \in [Peers -> Nat]
    BY <1>1 DEF LoopInv, LoopTypeOK
  <2>4. buf' \in [Peers -> Nat]
    BY <1>4 DEF LoopInv, LoopTypeOK
  <2> QED
    BY <1>1, <2>2, <2>3, <2>4 DEF LoopInv, LoopTypeOK
<1>6. QueuesOK'
  <2>1. cq' \in [Peers -> Seq(Kinds)]
    BY <1>1, AppendProperties DEF LoopInv, QueuesOK, Kinds
  <2>2. wire' \in [Peers -> SUBSET [n : Nat, data : Nat]]
    BY <1>0 DEF LoopInv, QueuesOK
  <2>3. acks' \in [Peers -> SUBSET Nat]
    <3>1. acks[Server] \cup {delivered[Server] + 1} \in SUBSET Nat
      BY DEF LoopInv, LoopTypeOK, QueuesOK
    <3> QED
      BY <1>1, <3>1 DEF LoopInv, QueuesOK
  <2> QED
    BY <2>1, <2>2, <2>3 DEF QueuesOK
<1>7. AtClient'
  <2>0. /\ delivered'[Server] = delivered[Server] + 1 /\ rq'[Client] = rq[Client] - 1
        /\ buf'[Client] = iter[Client] + 1
        /\ UNCHANGED <<at, iter, qp, posted, acked>>
    BY <1>1, <1>4 DEF LoopInv, LoopTypeOK
  <2>1. \/ at[Client] = "pollFirst" /\ cq'[Client] = One("recv") /\ Count(Client, 0, 0, 1)
        \/ at[Client] = "pollFirst" /\ cq'[Client] = Two("send", "recv") /\ Count(Client, 1, 0, 1)
        \/ at[Client] = "pollSecond" /\ cq'[Client] = One("recv") /\ Count(Client, 1, 0, 1)
    <3>1. cq'[Client] = Append(cq[Client], "recv")
      BY <1>1 DEF LoopInv, QueuesOK
    <3> QED
      BY <1>3, <3>1, Queues
  <2>2. /\ Count(Client, 0, 0, 1) => Count(Client, 0, 1, 0)'
        /\ Count(Client, 1, 0, 1) => Count(Client, 1, 1, 0)'
    BY <2>0 DEF LoopInv, LoopTypeOK, Count
  <2>3. at[Client] = "pollFirst" => AwaitsFirst(cq[Client])'
    BY <1>1, <2>0, <2>1, <2>2 DEF AwaitsFirst
  <2>4. at[Client] = "pollSecond" => AwaitsSecond(cq[Client])'
    BY <1>1, <2>0, <2>1, <2>2 DEF AwaitsSecond
  <2> QED
    BY <2>0, <2>1, <2>3, <2>4 DEF LoopInv, AtClient
<1>8. AtServer'
  BY <1>1, <1>4 DEF LoopInv, LoopTypeOK, QueuesOK, AtServer, AwaitsPing, AwaitsSent, Count, InIteration
<1>9. ASSUME NEW x \in Peers PROVE Bounded(x)' /\ Alive(x)'
  BY <1>1 DEF LoopInv, Bounded, Alive
<1>10. ASSUME NEW x \in Peers PROVE Channel(x)'
  <2>1. CASE x = Server
    <3>1. /\ acked[Server] <= delivered'[Server] /\ delivered'[Server] <= posted[Server]
          /\ delivered'[Server] \in Nat /\ delivered[Server] \in Nat
          /\ delivered'[Server] = delivered[Server] + 1
      <4>1. delivered'[Server] = delivered[Server] + 1 /\ delivered[Server] \in Nat
        BY <1>1 DEF LoopInv, LoopTypeOK
      <4>2. acked[Server] <= delivered[Server] /\ acked[Server] \in Nat
        BY DEF LoopInv, LoopTypeOK, Channel
      <4> QED
        BY <1>2, <4>1, <4>2
    <3>2. \A k \in wire'[Server] :
           /\ 1 <= k.n /\ k.n <= posted[Server]
           /\ k.n > delivered'[Server] => k.data = k.n
      <4>1. \A k \in wire'[Server] : k \in wire[Server] /\ k.n \in Nat
        BY <1>0 DEF LoopInv, QueuesOK
      <4> QED
        BY <3>1, <4>1 DEF LoopInv, Channel
    <3>3. \A a \in acks'[Server] : 1 <= a /\ a <= delivered'[Server]
      <4>1. \A a \in acks'[Server] : a \in acks[Server] \/ a = delivered[Server] + 1
        BY <1>1 DEF LoopInv, QueuesOK
      <4>2. \A a \in acks[Server] : a \in Nat /\ 1 <= a /\ a <= delivered[Server]
        BY DEF LoopInv, QueuesOK, Channel
      <4> QED
        BY <3>1, <4>1, <4>2
    <3>4. UNCHANGED <<acked, posted>>
      BY <1>1
    <3>5. /\ acked'[Server] <= delivered'[Server]
          /\ delivered'[Server] <= posted'[Server]
      BY <3>1, <3>4
    <3>6. \A k \in wire'[Server] :
           /\ 1 <= k.n /\ k.n <= posted'[Server]
           /\ k.n > delivered'[Server] => k.data = k.n
      BY <3>2, <3>4
    <3>7. Channel(Server)'
      BY <3>3, <3>5, <3>6, <3>4 DEF Channel
    <3> QED
      BY <2>1, <3>7
  <2>2. CASE x = Client
    BY <1>0, <1>1, <2>2 DEF LoopInv, LoopTypeOK, QueuesOK, Channel
  <2> QED
    BY <2>1, <2>2
<1>11. pc' \in [Peers -> R!Stages]
  BY DEF LoopInv
<1> QED
  BY <1>5, <1>6, <1>7, <1>8, <1>9, <1>10, <1>11 DEF LoopInv

\* The adapter gives up: the queue that the process still polls gets an error for
\* each request that is left.
LEMMA RetryExceededStep ==
  ASSUME LoopInv, NEW p \in Peers, RetryExceeded(p), pc' = pc
  PROVE  LoopInv'
<1> USE Pair
<1>1. /\ qp[p] = "RTS" /\ acked[p] < posted[p]
      /\ qp' = [qp EXCEPT ![p] = "ERR"]
      /\ cq' = [cq EXCEPT ![p] = cq[p] \o [k \in 1 .. rq[p] + 1 |-> "error"]]
      /\ rq' = [rq EXCEPT ![p] = 0]
      /\ UNCHANGED <<at, iter, buf, posted, acked, delivered, wire, acks>>
  BY DEF RetryExceeded, adapterVars
<1>3. LoopTypeOK'
  BY <1>1 DEF LoopInv, LoopTypeOK
<1>4. QueuesOK'
  <2>1. cq[p] \in Seq(Kinds) /\ [k \in 1 .. rq[p] + 1 |-> "error"] \in Seq(Kinds)
    <3>1. rq[p] + 1 \in Nat
      BY DEF LoopInv, LoopTypeOK
    <3> QED
      BY <3>1, IsASeq DEF LoopInv, QueuesOK, Kinds
  <2>2. cq' \in [Peers -> Seq(Kinds)]
    BY <1>1, <2>1, ConcatProperties DEF LoopInv, QueuesOK
  <2> QED
    BY <1>1, <2>2 DEF LoopInv, QueuesOK
<1>5. AtServer' /\ AtClient'
  <2>1. CASE p = Server
    <3>1. at[Server] = "pollSend" /\ cq[Server] = <<>> /\ Count(Server, 0, 1, 0)
      BY <1>1, <2>1, Outstanding
    <3>2. cq'[Server] = One("error")
      <4>1. rq[Server] = 0
        BY <3>1 DEF Count
      <4> QED
        BY <1>1, <2>1, <3>1, <4>1, Flushed DEF LoopInv, QueuesOK
    <3>3. AtServer'
      BY <1>1, <2>1, <3>1, <3>2 DEF LoopInv, LoopTypeOK, AtServer, AwaitsSent, Count, InIteration
    <3>4. AtClient'
      BY <1>1, <2>1 DEF LoopInv, LoopTypeOK, QueuesOK, AtClient, AwaitsFirst, AwaitsSecond, Count, InIteration
    <3> QED
      BY <3>3, <3>4
  <2>2. CASE p = Client
    <3>2. acked[Client] = iter[Client]
      BY <1>1, <2>2, Outstanding
    <3>3. \/ at[Client] = "pollFirst" /\ cq[Client] = <<>> /\ Count(Client, 0, 0, 1)
          \/ at[Client] = "pollFirst" /\ cq[Client] = One("recv") /\ Count(Client, 0, 1, 0)
          \/ at[Client] = "pollSecond" /\ cq[Client] = <<>> /\ Count(Client, 0, 1, 0)
      BY <1>1, <2>2, Outstanding
    <3>4. \/ at[Client] = "pollFirst" /\ cq'[Client] = Two("error", "error") /\ Count(Client, 0, 0, 1)
          \/ at[Client] = "pollFirst" /\ cq'[Client] = Two("recv", "error") /\ Count(Client, 0, 1, 0)
          \/ at[Client] = "pollSecond" /\ cq'[Client] = One("error") /\ Count(Client, 0, 1, 0)
      <4>1. cq'[Client] = cq[Client] \o [k \in 1 .. rq[Client] + 1 |-> "error"]
        BY <1>1, <2>2 DEF LoopInv, QueuesOK
      <4>2. rq[Client] = 0 \/ rq[Client] = 1
        BY <3>3 DEF Count
      <4>3. CASE rq[Client] = 0
        BY <3>3, <4>1, <4>3, Flushed DEF Count
      <4>4. CASE rq[Client] = 1
        BY <3>3, <4>1, <4>4, Flushed DEF Count
      <4> QED
        BY <4>2, <4>3, <4>4
    <3>5. AtClient'
      BY <1>1, <2>2, <3>2, <3>4 DEF LoopInv, LoopTypeOK, AtClient, AwaitsFirst, AwaitsSecond, Count, InIteration
    <3>6. AtServer'
      BY <1>1, <2>2 DEF LoopInv, LoopTypeOK, QueuesOK, AtServer, AwaitsPing, AwaitsSent, Count, InIteration
    <3> QED
      BY <3>5, <3>6
  <2> QED
    BY <2>1, <2>2
<1>6. ASSUME NEW q \in Peers PROVE Bounded(q)'
  BY <1>1 DEF LoopInv, Bounded
<1>7. ASSUME NEW q \in Peers PROVE Channel(q)'
  BY <1>1 DEF LoopInv, Channel
<1>8. ASSUME NEW q \in Peers PROVE Alive(q)'
  <2>1. at[p] \in {"pollSend", "pollFirst", "pollSecond"} /\ pc[p] = "running"
    BY <1>1, Outstanding
  <2> QED
    BY <1>1, <2>1 DEF LoopInv, LoopTypeOK, Alive
<1> QED
  BY <1>3, <1>4, <1>5, <1>6, <1>7, <1>8 DEF LoopInv

\* Every step of the adapters and the fabric preserves the invariant.
LEMMA FabricStep ==
  ASSUME LoopInv, NEW p \in Peers, Fabric(p), pc' = pc
  PROVE  LoopInv'
<1>1. CASE Deliver(p)
  BY <1>1, Pair, PingStep, PongStep
<1> QED
  BY <1>1, TransmitStep, NothingDeliveredStep, AcknowledgeStep, RetryExceededStep DEF Fabric

\* Every step of the setup is a step of the rendezvous.
LEMMA SetupIsRendezvous ==
  ASSUME qp \in [Peers -> {"RESET", "INIT", "RTR", "RTS", "ERR", "GONE"}],
         NEW p \in Peers, R!Meet \/ R!Setup(p)
  PROVE  Rv!Meet \/ Rv!Setup(p)
<1> USE Pair
<1>1. ASSUME UNCHANGED qp PROVE UNCHANGED setupQp
  BY <1>1 DEF setupQp
<1>2. ASSUME NEW q \in Peers, NEW s \in {"INIT", "RTR", "RTS", "GONE"},
             qp' = [qp EXCEPT ![q] = s]
      PROVE  setupQp' = [setupQp EXCEPT ![q] = s]
  BY <1>2 DEF setupQp
<1>3. CASE R!Listen
  <2>1. Rv!Listen
    BY <1>3, <1>1 DEF R!Listen, Rv!Listen, R!Goto, Rv!Goto
  <2> QED
    BY <2>1 DEF Rv!Meet
<1>4. CASE R!Connect
  <2>1. Rv!Connect
    BY <1>4, <1>1 DEF R!Connect, Rv!Connect, R!Goto, Rv!Goto, R!FirstStage, Rv!FirstStage
  <2> QED
    BY <2>1 DEF Rv!Meet
<1>5. CASE R!ConnectRefused
  <2>1. Rv!ConnectRefused
    BY <1>5, <1>2 DEF R!ConnectRefused, Rv!ConnectRefused, R!Goto, Rv!Goto, R!Exit, Rv!Exit
  <2> QED
    BY <2>1 DEF Rv!Meet
<1>6. CASE R!Accept
  <2>1. Rv!Accept
    BY <1>6, <1>1 DEF R!Accept, Rv!Accept, R!Goto, Rv!Goto, R!FirstStage, Rv!FirstStage
  <2> QED
    BY <2>1 DEF Rv!Meet
<1>7. CASE R!WriteAll(p)
  <2>1. Rv!WriteAll(p)
    BY <1>7, <1>1 DEF R!WriteAll, Rv!WriteAll, R!Goto, Rv!Goto, R!EndOf, Rv!EndOf, R!ExchangeLen, Rv!ExchangeLen, R!Pending, Rv!Pending, R!Other, Rv!Other, R!AfterSend, Rv!AfterSend
  <2> QED
    BY <2>1 DEF Rv!Setup
<1>8. CASE R!ReadAll(p)
  <2>1. Rv!ReadAll(p)
    BY <1>8, <1>1 DEF R!ReadAll, Rv!ReadAll, R!Goto, Rv!Goto, R!EndOf, Rv!EndOf, R!ExchangeLen, Rv!ExchangeLen, R!Pending, Rv!Pending, R!Other, Rv!Other, R!AfterRecv, Rv!AfterRecv, R!WholeStructure, Rv!WholeStructure
  <2> QED
    BY <2>1 DEF Rv!Setup
<1>9. CASE R!ExchangeFails(p)
  <2>1. Rv!ExchangeFails(p)
    BY <1>9, <1>2 DEF R!ExchangeFails, Rv!ExchangeFails, R!Goto, Rv!Goto, R!Exit, Rv!Exit, R!Gone, Rv!Gone, R!Other, Rv!Other
  <2> QED
    BY <2>1 DEF Rv!Setup
<1>10. CASE R!ToInit(p)
  <2>1. Rv!ToInit(p)
    BY <1>10, <1>2 DEF R!ToInit, Rv!ToInit, R!Goto, Rv!Goto
  <2> QED
    BY <2>1 DEF Rv!Setup
<1>11. CASE R!ToRtr(p)
  <2>1. Rv!ToRtr(p)
    BY <1>11, <1>2 DEF R!ToRtr, Rv!ToRtr, R!Goto, Rv!Goto, R!AfterRtr, Rv!AfterRtr
  <2> QED
    BY <2>1 DEF Rv!Setup
<1>12. CASE R!ToRts(p)
  <2>1. Rv!ToRts(p)
    BY <1>12, <1>2 DEF R!ToRts, Rv!ToRts, R!Goto, Rv!Goto, R!OwnPsn, Rv!OwnPsn
  <2> QED
    BY <2>1 DEF Rv!Setup
<1>13. CASE R!ModifyFails(p)
  <2>1. Rv!ModifyFails(p)
    BY <1>13, <1>2 DEF R!ModifyFails, Rv!ModifyFails, R!Goto, Rv!Goto, R!Exit, Rv!Exit
  <2> QED
    BY <2>1 DEF Rv!Setup
<1>14. CASE R!SendSync(p)
  <2>1. Rv!SendSync(p)
    BY <1>14, <1>1 DEF R!SendSync, Rv!SendSync, R!Goto, Rv!Goto, R!Pending, Rv!Pending, R!Other, Rv!Other
  <2> QED
    BY <2>1 DEF Rv!Setup
<1>15. CASE R!SendSyncLost(p)
  <2>1. Rv!SendSyncLost(p)
    BY <1>15, <1>1 DEF R!SendSyncLost, Rv!SendSyncLost, R!Goto, Rv!Goto, R!Gone, Rv!Gone, R!Other, Rv!Other
  <2> QED
    BY <2>1 DEF Rv!Setup
<1>16. CASE R!SyncKilled(p)
  <2>1. Rv!SyncKilled(p)
    BY <1>16, <1>2 DEF R!SyncKilled, Rv!SyncKilled, R!Goto, Rv!Goto, R!Exit, Rv!Exit, R!Gone, Rv!Gone, R!Other, Rv!Other
  <2> QED
    BY <2>1 DEF Rv!Setup
<1>17. CASE R!RecvSync(p)
  <2>1. Rv!RecvSync(p)
    BY <1>17, <1>1 DEF R!RecvSync, Rv!RecvSync, R!Goto, Rv!Goto, R!Pending, Rv!Pending, R!Other, Rv!Other
  <2> QED
    BY <2>1 DEF Rv!Setup
<1>18. CASE R!RecvSyncNothing(p)
  <2>1. Rv!RecvSyncNothing(p)
    BY <1>18, <1>1 DEF R!RecvSyncNothing, Rv!RecvSyncNothing, R!Goto, Rv!Goto, R!Gone, Rv!Gone, R!Other, Rv!Other
  <2> QED
    BY <2>1 DEF Rv!Setup
<1> QED
  BY <1>3, <1>4, <1>5, <1>6, <1>7, <1>8, <1>9, <1>10, <1>11, <1>12, <1>13, <1>14, <1>15, <1>16, <1>17, <1>18 DEF R!Meet, R!Setup

\* A process in its setup does not touch the other one, nor one past it.
LEMMA SetupUntouched ==
  ASSUME LoopInv, NEW p \in Peers, R!Meet \/ R!Setup(p)
  PROVE  /\ pc' \in [Peers -> R!Stages]
         /\ qp' \in [Peers -> {"RESET", "INIT", "RTR", "RTS", "ERR", "GONE"}]
         /\ \A q \in Peers : Untouched(q)
<1> USE Pair
<1>1. /\ pc \in [Peers -> R!Stages]
      /\ qp \in [Peers -> {"RESET", "INIT", "RTR", "RTS", "ERR", "GONE"}]
      /\ \A q \in Peers : pc[q] \in {"exited", "closed"} <=> qp[q] = "GONE"
      /\ \A q \in Peers : qp[q] = "ERR" => pc[q] \in {"running", "closed"}
  BY DEF LoopInv, LoopTypeOK, Alive
<1>2. CASE R!Listen
  BY <1>1, <1>2 DEF R!Listen, R!Goto, R!Stages, Untouched
<1>3. CASE R!Connect
  BY <1>1, <1>3 DEF R!Connect, R!Goto, R!FirstStage, R!Stages, Untouched
<1>4. CASE R!ConnectRefused
  BY <1>1, <1>4 DEF R!ConnectRefused, R!Goto, R!Exit, R!Stages, Untouched
<1>5. CASE R!Accept
  BY <1>1, <1>5 DEF R!Accept, R!Goto, R!FirstStage, R!Stages, Untouched
<1>6. CASE R!WriteAll(p)
  BY <1>1, <1>6 DEF R!WriteAll, R!Goto, R!AfterSend, R!Stages, Untouched
<1>7. CASE R!ReadAll(p)
  BY <1>1, <1>7 DEF R!ReadAll, R!Goto, R!AfterRecv, R!Stages, Untouched
<1>8. CASE R!ExchangeFails(p)
  BY <1>1, <1>8 DEF R!ExchangeFails, R!Goto, R!Exit, R!Stages, Untouched
<1>9. CASE R!ToInit(p)
  BY <1>1, <1>9 DEF R!ToInit, R!Goto, R!Stages, Untouched
<1>10. CASE R!ToRtr(p)
  BY <1>1, <1>10 DEF R!ToRtr, R!Goto, R!AfterRtr, R!Stages, Untouched
<1>11. CASE R!ToRts(p)
  BY <1>1, <1>11 DEF R!ToRts, R!Goto, R!Stages, Untouched
<1>12. CASE R!ModifyFails(p)
  BY <1>1, <1>12 DEF R!ModifyFails, R!Goto, R!Exit, R!Stages, Untouched
<1>13. CASE R!SendSync(p)
  BY <1>1, <1>13 DEF R!SendSync, R!Goto, R!Stages, Untouched
<1>14. CASE R!SendSyncLost(p)
  BY <1>1, <1>14 DEF R!SendSyncLost, R!Goto, R!Stages, Untouched
<1>15. CASE R!SyncKilled(p)
  BY <1>1, <1>15 DEF R!SyncKilled, R!Goto, R!Exit, R!Stages, Untouched
<1>16. CASE R!RecvSync(p)
  BY <1>1, <1>16 DEF R!RecvSync, R!Goto, R!Stages, Untouched
<1>17. CASE R!RecvSyncNothing(p)
  BY <1>1, <1>17 DEF R!RecvSyncNothing, R!Goto, R!Stages, Untouched
<1> QED
  BY <1>2, <1>3, <1>4, <1>5, <1>6, <1>7, <1>8, <1>9, <1>10, <1>11, <1>12, <1>13, <1>14, <1>15, <1>16, <1>17 DEF R!Meet, R!Setup

\* Every step of the setup preserves the invariant of the loops.
LEMMA SetupStep ==
  ASSUME LoopInv, NEW p \in Peers, R!Meet \/ R!Setup(p), UNCHANGED loopVars
  PROVE  LoopInv'
<1> USE Pair
<1>1. /\ pc' \in [Peers -> R!Stages]
      /\ qp' \in [Peers -> {"RESET", "INIT", "RTR", "RTS", "ERR", "GONE"}]
      /\ \A q \in Peers : Untouched(q)
  BY SetupUntouched
<1>2. UNCHANGED <<at, iter, buf, cq, rq, posted, acked, delivered, wire, acks>>
  BY DEF loopVars
<1>3. \A q \in Peers : qp'[q] = qp[q] \/ at[q] = "top"
  BY <1>1 DEF LoopInv, Alive, Untouched
<1>4. LoopTypeOK' /\ QueuesOK'
  BY <1>1, <1>2 DEF LoopInv, LoopTypeOK, QueuesOK
<1>5. AtServer' /\ AtClient'
  BY <1>2, <1>3 DEF LoopInv, AtServer, AtClient, AwaitsPing, AwaitsSent, AwaitsFirst, AwaitsSecond, Count, InIteration
<1>6. ASSUME NEW q \in Peers PROVE Bounded(q)' /\ Channel(q)'
  BY <1>2 DEF LoopInv, Bounded, Channel
<1>7. ASSUME NEW q \in Peers PROVE Alive(q)'
  BY <1>1, <1>2 DEF LoopInv, LoopTypeOK, Alive, Untouched
<1> QED
  BY <1>1, <1>4, <1>5, <1>6, <1>7 DEF LoopInv

\* The sequence numbers are set before the stages at which they count, and the
\* peer has been at the barrier.
LEMMA SetupReady ==
  ASSUME pc \in [Peers -> R!Stages],
         sent \in [Peers -> Int], rcvd \in [Peers -> Int], R!ExchangeLen \in Int,
         /\ remotePsn \in [Peers -> Psns \cup {None}]
         /\ rqPsn \in [Peers -> Psns \cup {None}]
         /\ sqPsn \in [Peers -> Psns \cup {None}],
         \A q \in Peers : pc[q] = "recvSync" => rcvd[q] = R!ExchangeLen,
         NEW p \in Peers, R!Meet \/ R!Setup(p), \A q \in Peers : Ready(q)
  PROVE  \A q \in Peers : Ready(q)'
<1> USE Pair
<1>1. CASE R!Listen
  BY <1>1 DEF R!Listen, R!Goto, R!Gone, R!Other, Other, R!Stages, Ready
<1>2. CASE R!Connect
  BY <1>2 DEF R!Connect, R!Goto, R!Gone, R!FirstStage, R!Other, Other, R!Stages, Ready
<1>3. CASE R!ConnectRefused
  BY <1>3 DEF R!ConnectRefused, R!Goto, R!Gone, R!Exit, R!Other, Other, R!Stages, Ready
<1>4. CASE R!Accept
  BY <1>4 DEF R!Accept, R!Goto, R!Gone, R!FirstStage, R!Other, Other, R!Stages, Ready
<1>5. CASE R!WriteAll(p)
  BY <1>5 DEF R!WriteAll, R!Goto, R!Gone, R!Pending, R!AfterSend, R!Other, Other, R!Stages, Ready
<1>6. CASE R!ReadAll(p)
  BY <1>6 DEF R!ReadAll, R!Goto, R!Gone, R!Pending, R!AfterRecv, R!WholeStructure, R!Other, Other, R!Stages, Ready
<1>7. CASE R!ExchangeFails(p)
  BY <1>7 DEF R!ExchangeFails, R!Goto, R!Gone, R!Exit, R!Other, Other, R!Stages, Ready
<1>8. CASE R!ToInit(p)
  BY <1>8 DEF R!ToInit, R!Goto, R!Gone, R!Other, Other, R!Stages, Ready
<1>9. CASE R!ToRtr(p)
  BY <1>9 DEF R!ToRtr, R!Goto, R!Gone, R!AfterRtr, R!Other, Other, R!Stages, Ready
<1>10. CASE R!ToRts(p)
  BY <1>10 DEF R!ToRts, R!Goto, R!Gone, R!OwnPsn, R!Other, Other, R!Stages, Ready
<1>11. CASE R!ModifyFails(p)
  BY <1>11 DEF R!ModifyFails, R!Goto, R!Gone, R!Exit, R!Other, Other, R!Stages, Ready
<1>12. CASE R!SendSync(p)
  BY <1>12 DEF R!SendSync, R!Goto, R!Gone, R!Pending, R!Other, Other, R!Stages, Ready
<1>13. CASE R!SendSyncLost(p)
  BY <1>13 DEF R!SendSyncLost, R!Goto, R!Gone, R!Other, Other, R!Stages, Ready
<1>14. CASE R!SyncKilled(p)
  BY <1>14 DEF R!SyncKilled, R!Goto, R!Gone, R!Exit, R!Other, Other, R!Stages, Ready
<1>15. CASE R!RecvSync(p)
  BY <1>15 DEF R!RecvSync, R!Goto, R!Gone, R!Pending, R!Other, Other, R!Stages, Ready
<1>16. CASE R!RecvSyncNothing(p)
  BY <1>16 DEF R!RecvSyncNothing, R!Goto, R!Gone, R!Other, Other, R!Stages, Ready
<1> QED
  BY <1>1, <1>2, <1>3, <1>4, <1>5, <1>6, <1>7, <1>8, <1>9, <1>10, <1>11, <1>12, <1>13, <1>14, <1>15, <1>16 DEF R!Meet, R!Setup

\* The invariant of the program.
ProgramInv == LoopInv /\ Rv!IInv /\ \A p \in Peers : Ready(p)

\* The two instances of Rendezvous speak of the same peers and lengths.
LEMMA SamePeers ==
  /\ R!Peers = Peers /\ Rv!Peers = Peers
  /\ \A p : R!Other(p) = Other(p) /\ Rv!Other(p) = Other(p)
  /\ Rv!ExchangeLen = R!ExchangeLen
  /\ \A p : Rv!Gone(p) <=> R!Gone(p)
  /\ R!ExchangeLen \in Nat
BY SetupAssumption
   DEF R!Peers, Rv!Peers, Peers, R!Other, Rv!Other, Other, R!ExchangeLen, Rv!ExchangeLen,
       R!Gone, Rv!Gone, R!LengthsAssumption

\* A process past the barrier has a peer that has been at it.
LEMMA PeerHasBeenThere ==
  ASSUME LoopInv, Rv!IInv, NEW p \in Peers, rcvd[p] > R!ExchangeLen
  PROVE  /\ pc[Other(p)] \in {"recvSync", "running", "exited", "closed"}
         /\ qp[Other(p)] \in {"RTS", "ERR", "GONE"}
<1> DEFINE q == Other(p)
<1>1. q \in Peers /\ Other(q) = p
  BY Pair
<1> HIDE DEF q
<1>2. rcvd[p] <= sent[q] /\ sent[q] \in Nat /\ rcvd[p] \in Nat
  <2>1. /\ sent \in [Peers -> 0 .. R!ExchangeLen + 1]
        /\ rcvd \in [Peers -> 0 .. R!ExchangeLen + 1]
    BY SamePeers DEF Rv!IInv, Rv!TypeOK
  <2>2. rcvd[p] <= sent[q]
    BY SamePeers DEF Rv!IInv, Rv!Counts, q
  <2> QED
    BY <1>1, <2>1, <2>2, SamePeers
<1>3. sent[q] > R!ExchangeLen
  BY <1>2, SamePeers
<1>4. /\ pc[q] \in {"recvSync", "running", "exited", "closed"}
      /\ pc[q] \in {"recvSync", "running"} => setupQp[q] = "RTS"
  BY <1>1, <1>3, SamePeers DEF Rv!IInv, Rv!AtBarrier
<1>5. qp[q] \in {"RTS", "ERR", "GONE"}
  BY <1>1, <1>4 DEF LoopInv, LoopTypeOK, Alive, setupQp
<1> QED
  BY <1>4, <1>5 DEF q

\* The program implements the rendezvous, step by step: the end of a loop, well
\* or not, is its Leave, and the failure of a queue pair is no step of it.
LEMMA StepIsRendezvous ==
  ASSUME LoopInv, [ProgramNext]_programVars
  PROVE  [Rv!Next]_Rv!vars
<1> USE Pair
<1>1. qp \in [Peers -> {"RESET", "INIT", "RTR", "RTS", "ERR", "GONE"}]
  BY DEF LoopInv, LoopTypeOK
<1>2. ASSUME Meet PROVE Rv!Next
  <2>1. Rv!Meet \/ Rv!Setup(Server)
    BY <1>1, <1>2, SetupIsRendezvous DEF Meet
  <2> QED
    BY <2>1, SamePeers DEF Rv!Next
<1>3. ASSUME NEW p \in Peers, Setup(p) PROVE Rv!Next
  <2>1. Rv!Meet \/ Rv!Setup(p)
    BY <1>1, <1>3, SetupIsRendezvous DEF Setup
  <2> QED
    BY <2>1, SamePeers DEF Rv!Next
<1>4. ASSUME NEW p \in Peers, Loop(p) PROVE [Rv!Next]_Rv!vars
  <2>1. /\ pc[p] = "running" /\ UNCHANGED setupVars
        /\ pc' = [pc EXCEPT ![p] = IF at'[p] \in Ended
                                     THEN "closed" ELSE "running"]
    BY <1>4, LoopPlace DEF Loop
  <2>2. \/ at'[p] \notin Ended /\ UNCHANGED qp
        \/ at'[p] \in Ended /\ qp' = [qp EXCEPT ![p] = "GONE"]
    <3>1. at \in [Peers -> Places]
      BY DEF LoopInv, LoopTypeOK
    <3> QED
      BY <1>4, <3>1 DEF Loop, Process, ServerPostReceive, ServerPoll, ClientPostReceive,
         ClientPoll, PostSend, Cleanup, PollCompletion, Goto, AfterServerPost
  <2>3. CASE at'[p] \notin Ended /\ UNCHANGED qp
    <3>1. pc' = pc
      BY <2>1, <2>3 DEF LoopInv
    <3>2. setupQp' = setupQp
      BY <2>3 DEF setupQp
    <3> QED
      BY <2>1, <3>1, <3>2 DEF setupVars, Rv!vars
  <2>4. CASE at'[p] \in Ended /\ qp' = [qp EXCEPT ![p] = "GONE"]
    <3>1. setupQp' = [setupQp EXCEPT ![p] = "GONE"]
      BY <1>1, <2>4 DEF setupQp
    <3>2. pc' = [pc EXCEPT ![p] = "closed"]
      BY <2>1, <2>4
    <3>3. Rv!Leave(p)
      BY <2>1, <3>1, <3>2 DEF Rv!Leave, Rv!Goto, setupVars
    <3> QED
      BY <3>3, SamePeers DEF Rv!Next
  <2> QED
    BY <2>2, <2>3, <2>4
<1>7. ASSUME NEW p \in Peers, Killed(p) PROVE Rv!Next
  <2>1. setupQp' = [setupQp EXCEPT ![p] = "GONE"]
    BY <1>1, <1>7 DEF Killed, Die, setupQp
  <2>2. Rv!Leave(p)
    BY <1>7, <2>1 DEF Killed, PastBarrier, Rv!Leave, Rv!Goto, setupVars
  <2> QED
    BY <2>2, SamePeers DEF Rv!Next
<1>5. ASSUME NEW p \in Peers, Below(Fabric(p)) PROVE UNCHANGED Rv!vars
  <2>1. UNCHANGED qp \/ (qp[p] = "RTS" /\ qp' = [qp EXCEPT ![p] = "ERR"])
    BY <1>5 DEF Below, Fabric, Transmit, Deliver, RnrNak, Duplicate, Acknowledge,
       RetryExceeded, Lose
  <2>2. setupQp' = setupQp
    BY <1>1, <2>1 DEF setupQp
  <2> QED
    BY <1>5, <2>2 DEF Below, setupVars, Rv!vars
<1>6. ASSUME UNCHANGED programVars PROVE UNCHANGED Rv!vars
  BY <1>6 DEF programVars, setupVars, vars, setupQp, Rv!vars
<1> QED
  BY <1>2, <1>3, <1>4, <1>5, <1>6, <1>7 DEF ProgramNext

\* The program starts in its invariant ...
LEMMA InitProgramInv == ProgramInit => ProgramInv
<1> SUFFICES ASSUME ProgramInit PROVE ProgramInv
  OBVIOUS
<1>1. setupQp = [p \in Peers |-> "RESET"]
  BY DEF ProgramInit, R!Init, R!Peers, Peers, setupQp
<1>2. Rv!Init
  BY <1>1 DEF ProgramInit, R!Init, Rv!Init, R!Peers, Rv!Peers, Peers
<1>3. Rv!IInv
  BY <1>2, Rv!InitIInv, SetupAssumption, TwoProcesses
     DEF Rv!TwoPeers, Rv!LengthsAssumption, R!LengthsAssumption, Rv!ExchangeFits,
         R!ExchangeFits, Rv!PsnAssumption, R!PsnAssumption, Rv!FaultyAssumption,
         R!FaultyAssumption, R!Peers, Rv!Peers
<1>4. \A p \in Peers : Ready(p)
  BY DEF ProgramInit, R!Init, R!Peers, Peers, Ready
<1> QED
  BY <1>3, <1>4, InitLoopInv DEF ProgramInv

\* ... and every step preserves it.
LEMMA NextProgramInv == ProgramInv /\ [ProgramNext]_programVars => ProgramInv'
<1> SUFFICES ASSUME ProgramInv, [ProgramNext]_programVars PROVE ProgramInv'
  OBVIOUS
<1> USE Pair
<1>1. Rv!IInv'
  BY StepIsRendezvous, Rv!NextIInv, SetupAssumption, TwoProcesses
     DEF ProgramInv, Rv!TwoPeers, Rv!LengthsAssumption, R!LengthsAssumption,
         Rv!ExchangeFits, R!ExchangeFits, Rv!PsnAssumption, R!PsnAssumption,
         Rv!FaultyAssumption, R!FaultyAssumption, R!Peers, Rv!Peers
<1>2. LoopInv /\ \A p \in Peers : Ready(p)
  BY DEF ProgramInv
<1>3. /\ pc \in [Peers -> R!Stages]
      /\ sent \in [Peers -> Int] /\ rcvd \in [Peers -> Int]
      /\ R!ExchangeLen \in Int
      /\ remotePsn \in [Peers -> Psns \cup {None}]
      /\ rqPsn \in [Peers -> Psns \cup {None}]
      /\ sqPsn \in [Peers -> Psns \cup {None}]
      /\ \A q \in Peers : pc[q] = "recvSync" => rcvd[q] = R!ExchangeLen
  BY SamePeers DEF ProgramInv, LoopInv, Rv!IInv, Rv!TypeOK, Rv!Counts
<1>4. ASSUME Meet PROVE LoopInv' /\ \A p \in Peers : Ready(p)'
  BY <1>2, <1>3, <1>4, SetupStep, SetupReady DEF Meet
<1>5. ASSUME NEW p \in Peers, Setup(p) PROVE LoopInv' /\ \A q \in Peers : Ready(q)'
  BY <1>2, <1>3, <1>5, SetupStep, SetupReady DEF Setup
<1>6. ASSUME NEW p \in Peers, Loop(p) PROVE LoopInv' /\ \A q \in Peers : Ready(q)'
  <2>1. LoopInv'
    BY <1>2, <1>6, LoopStep
  <2>2. UNCHANGED <<sent, rcvd, psn, remotePsn, rqPsn, sqPsn>>
    BY <1>6 DEF Loop, setupVars
  <2>3. \A q \in Peers : pc'[q] = pc[q] \/ (pc[q] = "running" /\ pc'[q] \in {"running", "closed"})
    BY <1>2, <1>6, LoopPlace DEF LoopInv
  <2> QED
    BY <1>2, <2>1, <2>2, <2>3 DEF Ready, R!Gone
<1>7. ASSUME NEW p \in Peers, Below(Fabric(p)) PROVE LoopInv' /\ \A q \in Peers : Ready(q)'
  <2>1. UNCHANGED <<pc, sent, rcvd, psn, remotePsn, rqPsn, sqPsn>>
    BY <1>7 DEF Below, setupVars
  <2>2. LoopInv'
    BY <1>2, <1>7, <2>1, FabricStep DEF Below
  <2> QED
    BY <1>2, <2>1, <2>2 DEF Ready, R!Gone
<1>9. ASSUME NEW p \in Peers, Killed(p) PROVE LoopInv' /\ \A q \in Peers : Ready(q)'
  <2>1. UNCHANGED <<sent, rcvd, psn, remotePsn, rqPsn, sqPsn>>
    BY <1>9 DEF Killed, setupVars
  <2>2. \A q \in Peers : pc'[q] = pc[q] \/ (pc[q] = "running" /\ pc'[q] = "closed")
    BY <1>2, <1>9 DEF LoopInv, Killed, PastBarrier
  <2> QED
    BY <1>2, <1>9, <2>1, <2>2, KilledStep DEF Ready, R!Gone
<1>8. ASSUME UNCHANGED programVars PROVE LoopInv' /\ \A q \in Peers : Ready(q)'
  <2>1. UNCHANGED <<pc, at, iter, buf, cq, rq, qp, posted, acked, delivered, wire, acks,
                    sent, rcvd, psn, remotePsn, rqPsn, sqPsn>>
    BY <1>8 DEF programVars, setupVars, vars
  <2>2. LoopInv'
    <3>1. LoopTypeOK' /\ QueuesOK'
      BY <1>2, <2>1 DEF LoopInv, LoopTypeOK, QueuesOK
    <3>2. AtServer'
      BY <1>2, <2>1 DEF LoopInv, AtServer, AwaitsPing, AwaitsSent, Count, InIteration
    <3>3. AtClient'
      BY <1>2, <2>1 DEF LoopInv, AtClient, AwaitsFirst, AwaitsSecond, Count, InIteration
    <3>4. \A q \in Peers : Bounded(q)'
      BY <1>2, <2>1 DEF LoopInv, Bounded
    <3>5. \A q \in Peers : Channel(q)'
      BY <1>2, <2>1 DEF LoopInv, Channel
    <3>6. \A q \in Peers : Alive(q)'
      BY <1>2, <2>1 DEF LoopInv, Alive
    <3> QED
      BY <1>2, <2>1, <3>1, <3>2, <3>3, <3>4, <3>5, <3>6 DEF LoopInv
  <2> QED
    BY <1>2, <2>1, <2>2 DEF Ready, R!Gone
<1> QED
  BY <1>1, <1>4, <1>5, <1>6, <1>7, <1>8, <1>9 DEF ProgramNext, ProgramInv

\* The invariant holds in every reachable state of rc_pingpong.
THEOREM Inductive == ProgramSpec => []ProgramInv
<1>1. ProgramSpec => ProgramInit /\ [][ProgramNext]_programVars
  BY PTL DEF ProgramSpec
<1> QED
  BY <1>1, InitProgramInv, NextProgramInv, PTL

\* Whatever the order of completions, losses and repetitions, and whatever the
\* number of iterations, an iteration leaves nothing behind.  (the loop of main())
THEOREM Closed == ProgramSpec => []IterationsAreClosed
<1>1. ProgramInv => IterationsAreClosed
  <2> SUFFICES ASSUME ProgramInv, NEW p \in Peers, at[p] = "top"
               PROVE  /\ cq[p] = <<>> /\ rq[p] = 0
                      /\ posted[p] = iter[p] /\ acked[p] = iter[p]
                      /\ delivered[Other(p)] = iter[p]
    BY DEF IterationsAreClosed
  <2>1. CASE p = Server
    BY <2>1 DEF ProgramInv, LoopInv, LoopTypeOK, AtServer, Count, InIteration
  <2>2. CASE p = Client
    BY <2>2 DEF ProgramInv, LoopInv, LoopTypeOK, AtClient, Count, InIteration
  <2> QED
    BY <2>1, <2>2, Pair
<1> QED
  BY <1>1, Inductive, PTL

\* However many iterations there are, a process has at most two completions to
\* poll, one receive posted and one send not acknowledged: CQ_DEPTH, RQ_DEPTH and
\* SQ_DEPTH, which the model leaves out, are never reached.
QueuesFit ==
  \A p \in Peers : at[p] \notin {"failed", "killed"} =>
    Len(cq[p]) <= 2 /\ rq[p] <= 1 /\ posted[p] <= acked[p] + 1

THEOREM Shallow == ProgramSpec => []QueuesFit
<1>1. LoopInv => QueuesFit
  <2> SUFFICES ASSUME LoopInv
               PROVE  QueuesFit
    OBVIOUS
  <2>1. /\ Len(<<>>) = 0
        /\ \A x \in Kinds : Len(One(x)) = 1
        /\ \A x, y \in Kinds : Len(Two(x, y)) = 2
    BY OneEntry, TwoEntries DEF One, Two
  <2>2. \A p \in Peers : iter[p] \in Nat /\ acked[p] \in Nat
    BY DEF LoopInv, LoopTypeOK
  <2>3. ASSUME at[Server] \notin {"failed", "killed"}
        PROVE  Len(cq[Server]) <= 2 /\ rq[Server] <= 1 /\ posted[Server] <= acked[Server] + 1
    <3>1. PICK sends, messages, receives \in {0, 1} : Count(Server, sends, messages, receives)
      BY <2>3 DEF LoopInv, AtServer, AwaitsPing, AwaitsSent
    <3>2. posted[Server] = iter[Server] \/ posted[Server] = iter[Server] + 1
      BY <2>3 DEF LoopInv, AtServer
    <3>3. cq[Server] \in {<<>>, One("recv"), One("send"), One("error")}
      BY <2>3 DEF LoopInv, AtServer, AwaitsPing, AwaitsSent
    <3>4. Len(cq[Server]) <= 2
      <4>1. CASE cq[Server] = <<>>
        BY <2>1, <4>1
      <4>2. ASSUME NEW x \in Kinds, cq[Server] = One(x)
            PROVE  Len(cq[Server]) <= 2
        <5>1. Len(cq[Server]) = 1
          BY <2>1, <4>2, Zenon
        <5> QED
          BY <5>1
      <4>3. "recv" \in Kinds /\ "send" \in Kinds /\ "error" \in Kinds
        BY DEF Kinds
      <4> QED
        BY <3>3, <4>1, <4>2, <4>3
    <3> QED
      BY <2>2, <3>1, <3>2, <3>4, Pair DEF Count
  <2>4. ASSUME at[Client] \notin {"failed", "killed"}
        PROVE  Len(cq[Client]) <= 2 /\ rq[Client] <= 1 /\ posted[Client] <= acked[Client] + 1
    <3>1. PICK sends, messages, receives \in {0, 1} : Count(Client, sends, messages, receives)
      BY <2>4 DEF LoopInv, AtClient, AwaitsFirst, AwaitsSecond
    <3>2. posted[Client] = iter[Client] \/ posted[Client] = iter[Client] + 1
      BY <2>4 DEF LoopInv, AtClient
    <3>3. \/ cq[Client] \in {<<>>, One("recv"), One("send"), One("error")}
          \/ cq[Client] \in {Two("send", "recv"), Two("recv", "send"), Two("recv", "error"),
                             Two("error", "error")}
      BY <2>4 DEF LoopInv, AtClient, AwaitsFirst, AwaitsSecond
    <3>4. Len(cq[Client]) <= 2
      <4>1. CASE cq[Client] = <<>>
        BY <2>1, <4>1
      <4>2. ASSUME NEW x \in Kinds, cq[Client] = One(x)
            PROVE  Len(cq[Client]) <= 2
        <5>1. Len(cq[Client]) = 1
          BY <2>1, <4>2, Zenon
        <5> QED
          BY <5>1
      <4>3. ASSUME NEW x \in Kinds, NEW y \in Kinds, cq[Client] = Two(x, y)
            PROVE  Len(cq[Client]) <= 2
        <5>1. Len(cq[Client]) = 2
          BY <2>1, <4>3, Zenon
        <5> QED
          BY <5>1
      <4>4. "recv" \in Kinds /\ "send" \in Kinds /\ "error" \in Kinds
        BY DEF Kinds
      <4> QED
        BY <3>3, <4>1, <4>2, <4>3, <4>4
    <3> QED
      BY <2>2, <3>1, <3>2, <3>4, Pair DEF Count
  <2> QED
    BY <2>3, <2>4, Pair DEF QueuesFit
<1> QED
  BY <1>1, Inductive, PTL DEF ProgramInv

\* Each transmission of a message carries its own payload, and the server echoes
\* the ping of its iteration.  (post_send and post_recv on one buffer)
THEOREM Payload == ProgramSpec => []PayloadIntegrity
<1>1. ProgramInv => PayloadIntegrity
  BY DEF ProgramInv, LoopInv, Channel, AtServer, PayloadIntegrity
<1> QED
  BY <1>1, Inductive, PTL

\* A packet meets a living peer only when its queue pair is in RTS and expects
\* the sequence number it has.  (the barrier of main())
THEOREM PacketsMeetReadyPeers == ProgramSpec => []NoPacketBeforeReady
<1>1. ProgramInv => NoPacketBeforeReady
  <2> SUFFICES ASSUME ProgramInv, NEW p \in Peers, wire[p] # {}, ~R!Gone(Other(p))
               PROVE  /\ qp[Other(p)] \in {"RTS", "ERR"}
                      /\ rqPsn[Other(p)] = sqPsn[p]
    BY DEF NoPacketBeforeReady
  <2> USE Pair
  <2>1. pc[p] \in {"running", "closed"}
    <3>1. PICK m \in wire[p] : m.n \in Nat /\ 1 <= m.n /\ m.n <= posted[p]
      BY DEF ProgramInv, LoopInv, QueuesOK, Channel
    <3>2. posted[p] # 0
      BY <3>1 DEF ProgramInv, LoopInv, LoopTypeOK
    <3>3. CASE p = Server
      BY <3>2, <3>3 DEF ProgramInv, LoopInv, AtServer, Alive
    <3>4. CASE p = Client
      BY <3>2, <3>4 DEF ProgramInv, LoopInv, AtClient, Alive
    <3> QED
      BY <3>3, <3>4
  <2>2. rcvd[p] > R!ExchangeLen
    BY <2>1 DEF ProgramInv, Ready
  <2>3. /\ pc[Other(p)] \in {"recvSync", "running"}
        /\ qp[Other(p)] \in {"RTS", "ERR", "GONE"}
    BY <2>2, PeerHasBeenThere DEF ProgramInv, R!Gone
  <2>4. qp[Other(p)] # "GONE"
    BY <2>3 DEF ProgramInv, LoopInv, Alive
  <2>5. rqPsn[Other(p)] = psn[p] /\ sqPsn[p] = psn[p]
    BY <2>1, <2>3 DEF ProgramInv, Ready
  <2> QED
    BY <2>3, <2>4, <2>5
<1> QED
  BY <1>1, Inductive, PTL

\* Whoever ends with its results has exchanged everything with its peer, however
\* the peer ends.  (the two polls of an iteration, the cleanup of main())
THEOREM BothHaveAll == ProgramSpec => []SuccessIsMutual
<1>1. ProgramInv => SuccessIsMutual
  <2> SUFFICES ASSUME ProgramInv, NEW p \in Peers, at[p] = "done"
               PROVE  /\ delivered[p] = NumIters /\ delivered[Other(p)] = NumIters
                      /\ iter[Other(p)] >= NumIters - 1
    BY Pair DEF SuccessIsMutual
  <2> USE Pair, ItersAssumption
  <2>1. iter[p] = NumIters
    BY DEF ProgramInv, LoopInv, Bounded
  <2>2. posted[p] = NumIters /\ acked[p] = NumIters /\ delivered[Other(p)] = NumIters
    BY <2>1 DEF ProgramInv, LoopInv, AtServer, AtClient, Count
  <2>3. delivered[p] = NumIters
    BY <2>2 DEF ProgramInv, LoopInv, LoopTypeOK, Channel
  <2> DEFINE q == Other(p)
  <2>4. q \in Peers /\ Other(q) = p /\ iter[q] \in Nat
    BY DEF ProgramInv, LoopInv, LoopTypeOK
  <2>5. delivered[p] = iter[q] \/ delivered[p] = iter[q] + 1
    <3>1. CASE q = Server
      BY <2>4, <3>1 DEF ProgramInv, LoopInv, AtServer, AwaitsPing, AwaitsSent, Count, InIteration
    <3>2. CASE q = Client
      BY <2>4, <3>2 DEF ProgramInv, LoopInv, AtClient, AwaitsFirst, AwaitsSecond, Count, InIteration
    <3> QED
      BY <2>4, <3>1, <3>2
  <2> QED
    BY <2>2, <2>3, <2>4, <2>5
<1> QED
  BY <1>1, Inductive, PTL

\* rc_pingpong implements Echo: a ping and its pong are delivered in turn, once
\* each, and the server holds what it answers.
THEOREM ImplementsEcho == ProgramSpec => EchoSpec
<1>1. ProgramSpec => ProgramInit /\ [][ProgramNext]_programVars
  BY PTL DEF ProgramSpec
<1>2. ProgramInit => E!Init
  BY Pair DEF ProgramInit, LoopInit, E!Init
<1>3. ProgramInv /\ [ProgramNext]_programVars => [E!Next]_E!vars
  <2> SUFFICES ASSUME ProgramInv, [ProgramNext]_programVars
               PROVE  [E!Next]_E!vars
    OBVIOUS
  <2> USE Pair
  <2>0. LoopInv
    BY DEF ProgramInv
  <2>1. ASSUME NEW p \in Peers, Loop(p) PROVE UNCHANGED E!vars
    <3>1. UNCHANGED delivered
      BY <2>1 DEF Loop, Process, ServerPostReceive, ServerPoll, ClientPostReceive,
         ClientPoll, PostSend, Cleanup, PollCompletion, adapterVars
    <3>2. UNCHANGED buf \/ buf' = [buf EXCEPT ![Client] = iter[Client] + 1]
      BY <2>1 DEF Loop, Process, ServerPostReceive, ServerPoll, ClientPostReceive,
         ClientPoll, PostSend, Cleanup, PollCompletion, adapterVars
    <3> QED
      BY <2>0, <3>1, <3>2 DEF LoopInv, LoopTypeOK, E!vars
  <2>2. CASE Deliver(Client)
    <3>1. PICK m \in wire[Client] :
            m.n = delivered[Client] + 1 /\ buf' = [buf EXCEPT ![Server] = m.data]
      BY <2>2 DEF Deliver
    <3>2. /\ delivered' = [delivered EXCEPT ![Client] = delivered[Client] + 1]
          /\ rq[Server] > 0 /\ qp[Server] # "GONE"
      BY <2>2 DEF Deliver, Responds
    <3>9. at[Server] \notin Ended
      BY <2>0, <3>2 DEF LoopInv, Alive
    <3>3. at[Server] = "pollRecv" /\ Count(Server, 0, 0, 1)
      BY <2>0, <3>2, <3>9 DEF LoopInv, LoopTypeOK, AtServer, AwaitsPing, AwaitsSent, Count, InIteration
    <3>4. /\ delivered[Client] = iter[Server] /\ iter[Server] \in Nat
          /\ iter[Server] < NumIters
      BY <2>0, <3>3 DEF LoopInv, LoopTypeOK, Count, Bounded
    <3>5. delivered[Server] = iter[Server]
      BY <2>0, <3>3 DEF LoopInv, LoopTypeOK, AtServer, Count, InIteration, Channel
    <3>6. m.data = delivered[Client] + 1
      BY <2>0, <3>1, <3>4 DEF LoopInv, Channel
    <3>7. /\ delivered'[Client] = delivered[Client] + 1
          /\ delivered'[Server] = delivered[Server]
          /\ buf'[Server] = delivered[Client] + 1
      BY <2>0, <3>1, <3>2, <3>6 DEF LoopInv, LoopTypeOK
    <3> QED
      BY <3>4, <3>5, <3>7 DEF E!Next, E!Ping
  <2>3. CASE Deliver(Server)
    <3>1. PICK m \in wire[Server] :
            m.n = delivered[Server] + 1 /\ buf' = [buf EXCEPT ![Client] = m.data]
      BY <2>3 DEF Deliver
    <3>2. /\ delivered' = [delivered EXCEPT ![Server] = delivered[Server] + 1]
          /\ rq[Client] > 0 /\ qp[Client] # "GONE"
      BY <2>3 DEF Deliver, Responds
    <3>9. at[Client] \notin Ended
      BY <2>0, <3>2 DEF LoopInv, Alive
    <3>3. delivered[Server] + 1 <= posted[Server]
      BY <2>0, <3>1 DEF LoopInv, LoopTypeOK, QueuesOK, Channel
    <3>4. /\ at[Server] \in {"pollSend", "failed", "killed"}
          /\ delivered[Client] = iter[Server] + 1 /\ posted[Server] = iter[Server] + 1
          /\ buf[Server] = iter[Server] + 1
      BY <2>0, <3>3 DEF LoopInv, LoopTypeOK, AtServer, AwaitsPing, AwaitsSent, Count, InIteration, Channel
    <3>5. delivered[Server] = iter[Client] /\ posted[Client] <= iter[Client] + 1
      <4>1. /\ AtClient /\ at[Client] \notin Ended /\ rq[Client] > 0 /\ rq[Client] \in Nat
            /\ iter[Client] \in Nat /\ delivered[Server] \in Nat
        BY <2>0, <3>2, <3>9 DEF LoopInv, LoopTypeOK
      <4>2. at[Client] \in {"top", "postSend", "pollFirst", "pollSecond"}
        BY <4>1 DEF AtClient
      <4>3. posted[Client] = iter[Client] \/ posted[Client] = iter[Client] + 1
        BY <4>1, <4>2 DEF AtClient
      <4>4. \E sends \in {0, 1} : Count(Client, sends, 0, 1)
        BY <2>0, <4>1, <4>2 DEF AtClient, AwaitsFirst, AwaitsSecond, Count
      <4>5. delivered[Server] = iter[Client] + 0
        BY <2>0, <4>4 DEF Count
      <4> QED
        BY <4>1, <4>3, <4>5
    <3>6. delivered[Server] + 1 = delivered[Client]
      BY <2>0, <3>3, <3>4, <3>5 DEF LoopInv, LoopTypeOK, Channel
    <3>7. /\ delivered'[Server] = delivered[Server] + 1
          /\ delivered'[Client] = delivered[Client]
          /\ buf'[Server] = buf[Server]
      BY <2>0, <3>1, <3>2 DEF LoopInv, LoopTypeOK
    <3>8. delivered[Server] \in Nat
      BY <2>0 DEF LoopInv, LoopTypeOK
    <3> QED
      BY <3>4, <3>6, <3>7, <3>8 DEF E!Next, E!Pong
  <2>4. ASSUME NEW p \in Peers, Fabric(p), ~Deliver(p) PROVE UNCHANGED E!vars
    BY <2>4 DEF Fabric, Transmit, RnrNak, Duplicate, Acknowledge, RetryExceeded, Lose,
       adapterVars, E!vars
  <2>7. ASSUME NEW p \in Peers, Killed(p) PROVE UNCHANGED E!vars
    BY <2>7 DEF Killed, Die, adapterVars, E!vars
  <2>5. ASSUME UNCHANGED loopVars PROVE UNCHANGED E!vars
    BY <2>5 DEF loopVars, E!vars
  <2>6. ASSUME UNCHANGED programVars PROVE UNCHANGED E!vars
    BY <2>6 DEF programVars, vars, E!vars
  <2> QED
    BY <2>1, <2>2, <2>3, <2>4, <2>5, <2>6, <2>7 DEF ProgramNext, Meet, Setup, Below
<1> QED
  BY <1>1, <1>2, <1>3, Inductive, PTL DEF EchoSpec, E!Spec
=============================================================================
