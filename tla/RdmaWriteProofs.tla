--------------------------- MODULE RdmaWriteProofs ---------------------------
(***************************************************************************)
(* Proofs about RdmaWrite, for a message of any number of cells, and about *)
(* the whole program, which implements its two parts.  The inductive       *)
(* invariant of the write says which requests a client has posted at each  *)
(* place, how much of the message the requests executed so far account     *)
(* for, and that a notification at the server means that both requests     *)
(* have been executed; that of the program adds where a process is in one  *)
(* part when it is at a given place of the other.                          *)
(***************************************************************************)
EXTENDS RdmaWriteProgram, RendezvousProofs, SequenceTheorems, TLAPS

\* What a client has posted, and what it has in its buffer.
Posted ==
  /\ client \in {"fill", "postWrite"} => requests = <<>>
  /\ client \in {"pollWrite", "postNotify"} => requests = <<"write">>
  /\ client \in {"pollNotify", "done"} => requests = <<"write", "send">>
  /\ requests = <<>> \/ requests = <<"write">> \/ requests = <<"write", "send">>
  /\ requests # <<>> \/ client = "postWrite" => local = Full

\* What is in the memory of the server.
Written ==
  /\ executed <= Len(requests)
  /\ executed = 0 => \A c \in placed : mem[c] = 1
  /\ executed > 0 => mem = Full /\ placed = {}

\* A notification, polled or not, comes after everything.
Notified ==
  /\ serverCq # <<>> \/ server \in {"read", "cleanup", "done"} => executed = 2
  /\ server \in {"cleanup", "done"} => after = Full

WriteInv == WriteTypeOK /\ Posted /\ Written /\ Notified

\* Nothing is posted, written or notified at first.
LEMMA InitWriteInv == WriteInit => WriteInv
BY CellsAssumption
   DEF WriteInit, WriteInv, WriteTypeOK, Posted, Written, Notified, Empty, Full, Places

\* The three sequences of requests a client can have posted.
LEMMA Requests ==
  /\ Len(<<>>) = 0 /\ Len(<<"write">>) = 1 /\ Len(<<"write", "send">>) = 2
  /\ <<"write">>[1] = "write"
  /\ <<"write", "send">>[1] = "write" /\ <<"write", "send">>[2] = "send"
OBVIOUS

\* The notification joins the write.
LEMMA WriteThenSend == Append(<<"write">>, "send") = <<"write", "send">>
<1> DEFINE posted == Append(<<"write">>, "send")
           Kinds == {"write", "send"}
<1>1. <<"write">> \in Seq(Kinds) /\ Len(<<"write">>) = 1 /\ <<"write">>[1] = "write"
  OBVIOUS
<1>2. /\ posted \in Seq(Kinds) /\ Len(posted) = 2
      /\ posted[1] = "write" /\ posted[2] = "send"
  BY <1>1, AppendProperties
<1>3. <<"write", "send">> \in Seq(Kinds) /\ Len(<<"write", "send">>) = 2
  OBVIOUS
<1> HIDE DEF posted, Kinds
<1>4. \A i \in 1 .. Len(posted) : posted[i] = <<"write", "send">>[i]
  <2>1. \A i \in 1 .. Len(posted) : i = 1 \/ i = 2
    BY <1>2
  <2> QED
    BY <1>2, <2>1, Requests
<1>5. posted = <<"write", "send">>
  BY <1>2, <1>3, <1>4, SeqEqual
<1> QED
  BY <1>5 DEF posted

\* Every step preserves the inductive invariant.
LEMMA NextWriteInv == WriteInv /\ [WriteNext]_writeVars => WriteInv'
<1> SUFFICES ASSUME WriteInv, [WriteNext]_writeVars PROVE WriteInv'
  OBVIOUS
<1> USE CellsAssumption DEF WriteInv, WriteTypeOK, Places
<1>1. CASE PrintBefore
  BY <1>1 DEF PrintBefore, ServerOrder, Posted, Written, Notified, clientVars, adapterVars
<1>2. CASE PostReceive
  BY <1>2 DEF PostReceive, ServerOrder, Posted, Written, Notified, clientVars, adapterVars
<1>3. CASE PollNotification
  BY <1>3 DEF PollNotification, Posted, Written, Notified, clientVars, adapterVars
<1>4. CASE PrintAfter
  BY <1>4 DEF PrintAfter, Posted, Written, Notified, clientVars, adapterVars
<1>5. CASE ServerCleanup
  BY <1>5 DEF ServerCleanup, Posted, Written, Notified, clientVars, adapterVars
<1>6. CASE Fill
  BY <1>6 DEF Fill, Posted, Written, Notified, serverVars, adapterVars, Full
<1>7. CASE PostWrite
  BY <1>7 DEF PostWrite, Post, Order, Posted, Written, Notified, serverVars, adapterVars
<1>8. CASE PostNotify
  <2>1. /\ client = "postNotify" /\ requests = <<"write">> /\ local = Full
        /\ client' = "pollNotify"
        /\ requests' = Append(requests, "send")
        /\ UNCHANGED <<local, serverVars, adapterVars, clientCq, serverCq, rq>>
    BY <1>8 DEF PostNotify, Post, Order, Posted
  <2>2. requests' = <<"write", "send">>
    BY <2>1, WriteThenSend
  <2>3. WriteTypeOK'
    BY <2>1 DEF serverVars, adapterVars
  <2>4. Posted'
    BY <2>1, <2>2 DEF Posted
  <2>5. Written'
    BY <2>1, <2>2, Requests DEF Written, adapterVars
  <2>6. Notified'
    BY <2>1 DEF Notified, serverVars, adapterVars
  <2> QED
    BY <2>3, <2>4, <2>5, <2>6
<1>9. CASE PollWrite
  <2>1. /\ client = "pollWrite" /\ requests = <<"write">>
        /\ client' \in {"postNotify", "failed"}
        /\ clientCq # <<>> /\ clientCq' = Tail(clientCq)
        /\ UNCHANGED <<local, requests, serverVars, adapterVars, serverCq, rq>>
    BY <1>9 DEF PollWrite, Poll, Posted
  <2>2. Posted'
    BY <2>1 DEF Posted
  <2>3. WriteTypeOK' /\ Written' /\ Notified'
    BY <2>1 DEF Written, Notified, serverVars, adapterVars
  <2> QED
    BY <2>2, <2>3
<1>10. CASE PollNotify
  <2>1. /\ client = "pollNotify" /\ client' \in {"done", "failed"}
        /\ clientCq # <<>> /\ clientCq' = Tail(clientCq)
        /\ UNCHANGED <<local, requests, serverVars, adapterVars, serverCq, rq>>
    BY <1>10 DEF PollNotify, Poll
  <2>2. Posted'
    BY <2>1 DEF Posted
  <2>3. WriteTypeOK' /\ Written' /\ Notified'
    BY <2>1 DEF Written, Notified, serverVars, adapterVars
  <2> QED
    BY <2>2, <2>3
<1>11. ASSUME NEW c \in Cells, PlaceCell(c) PROVE WriteInv'
  BY <1>11 DEF PlaceCell, ServerCanExecute, Posted, Written, Notified,
     serverVars, clientVars, Full
<1>12. CASE WriteExecuted
  BY <1>12 DEF WriteExecuted, ServerCanExecute, Posted, Written, Notified,
     serverVars, clientVars, Full
<1>13. CASE SendExecuted
  <2>1. /\ executed < Len(requests) /\ requests[executed + 1] = "send"
        /\ rq > 0 /\ rq' = rq - 1 /\ executed' = executed + 1
        /\ serverCq' = Append(serverCq, "recv")
        /\ UNCHANGED <<mem, placed, acked, serverVars, clientVars, clientCq>>
    BY <1>13 DEF SendExecuted, ServerCanExecute
  <2>2. requests = <<>> \/ requests = <<"write">> \/ requests = <<"write", "send">>
    BY DEF Posted
  <2>3. requests = <<"write", "send">> /\ executed = 1
    <3>1. requests # <<>>
      BY <2>1, Requests
    <3>2. ASSUME requests = <<"write">> PROVE FALSE
      <4>1. executed = 0
        BY <2>1, <3>2, Requests
      <4> QED
        BY <2>1, <3>2, <4>1, Requests
    <3>3. requests = <<"write", "send">>
      BY <2>2, <3>1, <3>2
    <3>4. executed = 0 \/ executed = 1
      BY <2>1, <3>3, Requests
    <3>5. executed # 0
      BY <2>1, <3>3, Requests
    <3> QED
      BY <3>3, <3>4, <3>5
  <2>4. WriteTypeOK'
    BY <2>1 DEF serverVars, clientVars
  <2>5. Posted'
    BY <2>1 DEF Posted, serverVars, clientVars
  <2>6. Written'
    BY <2>1, <2>3, Requests DEF Written, serverVars, clientVars
  <2>7. Notified'
    BY <2>1, <2>3 DEF Notified, serverVars, clientVars
  <2> QED
    BY <2>4, <2>5, <2>6, <2>7
<1>14. CASE Acknowledge
  BY <1>14 DEF Acknowledge, Posted, Written, Notified, serverVars, clientVars
<1>15. CASE RetryExceeded
  BY <1>15 DEF RetryExceeded, Posted, Written, Notified, serverVars, clientVars,
     adapterVars
<1>16. CASE SetupFails
  BY <1>16 DEF SetupFails, Posted, Written, Notified, serverVars,
     clientVars, adapterVars
<1>17. CASE UNCHANGED writeVars
  BY <1>17 DEF writeVars, Posted, Written, Notified
<1> QED
  BY <1>1, <1>2, <1>3, <1>4, <1>5, <1>6, <1>7, <1>8, <1>9, <1>10, <1>11,
     <1>12, <1>13, <1>14, <1>15, <1>16, <1>17
     DEF WriteNext, ServerStep, ClientStep, AdapterStep

\* The inductive invariant holds in every reachable state.
THEOREM WriteInductive == WriteSpec => []WriteInv
BY InitWriteInv, NextWriteInv, PTL DEF WriteSpec

\* Every variable keeps to its type.
THEOREM WriteTypeCorrect == WriteSpec => []WriteTypeOK
<1>1. WriteInv => WriteTypeOK
  BY DEF WriteInv
<1> QED
  BY <1>1, WriteInductive, PTL

\* The server that has polled the notification reads the whole message, in
\* whatever order its cells were placed.  (rdma_write.c:310-313)
THEOREM DataBeforeNotice == WriteSpec => []NotifiedAfterData
<1>1. WriteInv => NotifiedAfterData
  BY DEF WriteInv, Written, Notified, NotifiedAfterData
<1> QED
  BY <1>1, WriteInductive, PTL

\* The server takes its memory down after every write to it.
\* (rdma_write.c:339-348)
THEOREM MemoryLives == WriteSpec => []MemoryOutlivesWrite
<1>1. WriteInv => MemoryOutlivesWrite
  <2> SUFFICES ASSUME WriteInv, server \in {"cleanup", "done"}
               PROVE  /\ placed = {}
                      /\ executed = 2 /\ Len(requests) = 2
                      /\ client \in {"pollNotify", "done", "failed"}
    BY DEF MemoryOutlivesWrite
  <2>1. executed = 2 /\ placed = {} /\ Len(requests) >= 2
    BY DEF WriteInv, WriteTypeOK, Written, Notified
  <2>2. requests # <<>> /\ requests # <<"write">>
    <3>1. ASSUME requests = <<>> PROVE FALSE
      <4>1. Len(requests) = Len(<<>>)
        BY <3>1
      <4> QED
        BY <2>1, <4>1
    <3>2. ASSUME requests = <<"write">> PROVE FALSE
      <4>1. Len(requests) = Len(<<"write">>)
        BY <3>2
      <4> QED
        BY <2>1, <4>1
    <3> QED
      BY <3>1, <3>2
  <2>3. requests = <<"write", "send">>
    BY <2>2 DEF WriteInv, Posted
  <2>4. client \in {"pollNotify", "done", "failed"}
    BY <2>2, <2>3, Requests DEF WriteInv, WriteTypeOK, Posted
  <2> QED
    BY <2>1, <2>3, <2>4, Requests
<1> QED
  BY <1>1, WriteInductive, PTL

----------------------------------------------------------------------------
(* The whole program.                                                      *)

\* A process before the barrier has done nothing of the write; one that ended
\* in the set-up, or later, has ended in both parts.
InStep(place, stage, first) ==
  /\ stage \notin {"running", "exited", "closed"} => place = first
  /\ stage = "running" => place \notin {"done", "failed"}
  /\ stage = "exited" => place = "failed"
  /\ stage = "closed" => place \in {"done", "failed"}

Together == InStep(server, pc[Server], "print") /\ InStep(client, pc[Client], "fill")

ProgramInv == IInv /\ WriteInv /\ Together

\* A step of the set-up moves one process that has not passed the barrier.
LEMMA SetupMoves ==
  ASSUME NEW p \in Peers, Meet \/ Setup(p)
  PROVE  \E m \in Peers, stage \in Stages :
           /\ pc[m] \notin {"running", "exited", "closed"} /\ stage # "closed"
           /\ pc' = [pc EXCEPT ![m] = stage]
<1>1. CASE Meet
  <2>1. \/ pc[Server] \in {"start", "accept"} /\ pc' = [pc EXCEPT ![Server] = "accept"]
        \/ pc[Server] \in {"start", "accept"} /\ pc' = [pc EXCEPT ![Server] = "sendQp"]
        \/ pc[Client] = "start" /\ pc' = [pc EXCEPT ![Client] = "sendQp"]
        \/ pc[Client] = "start" /\ pc' = [pc EXCEPT ![Client] = "exited"]
    BY <1>1 DEF Meet, Listen, Connect, ConnectRefused, Accept, Exit, Goto, FirstStage
  <2> QED
    BY <2>1 DEF Peers, Stages
<1>2. CASE Setup(p)
  <2>1. PICK stage \in Stages : stage # "closed" /\ pc' = [pc EXCEPT ![p] = stage]
    <3>1. CASE WriteAll(p)
      BY <3>1 DEF WriteAll, AfterSend, Stages
    <3>2. CASE ReadAll(p)
      BY <3>2 DEF ReadAll, AfterRecv, Stages
    <3> QED
      BY <1>2, <3>1, <3>2 DEF Setup, ExchangeFails, ToInit, ToRtr, ToRts, ModifyFails,
         SendSync, SendSyncLost, SyncKilled, RecvSync, RecvSyncNothing, Exit, Goto,
         AfterRtr, Stages
  <2>2. pc[p] \notin {"running", "exited", "closed"}
    BY <1>2 DEF Setup, WriteAll, ReadAll, ExchangeFails, ToInit, ToRtr, ToRts,
       ModifyFails, SendSync, SendSyncLost, SyncKilled, RecvSync, RecvSyncNothing
  <2> QED
    BY <2>1, <2>2
<1> QED
  BY <1>1, <1>2

\* A step of the set-up is one of the rendezvous, and one in which a process
\* ends is a failure before the write.
LEMMA SetupSteps ==
  ASSUME ProgramInv, NEW p \in Peers, During(Meet) \/ During(Setup(p))
  PROVE  Next /\ [WriteNext]_writeVars /\ Together'
<1>1. /\ Meet \/ Setup(p)
      /\ server' = IF pc'[Server] = "exited" THEN "failed" ELSE server
      /\ client' = IF pc'[Client] = "exited" THEN "failed" ELSE client
      /\ UNCHANGED <<after, local, requests, adapterVars, clientCq, serverCq, rq>>
  BY DEF During
<1>2. pc \in [Peers -> Stages] /\ Together
  BY DEF ProgramInv, IInv, TypeOK
<1>3. PICK m \in Peers, stage \in Stages :
        /\ pc[m] \notin {"running", "exited", "closed"} /\ stage # "closed"
        /\ pc' = [pc EXCEPT ![m] = stage]
  BY <1>1, SetupMoves
<1>4. CASE m = Server
  <2>1. pc'[Server] = stage /\ pc'[Client] = pc[Client] /\ server = "print" /\ client' = client
    BY <1>1, <1>2, <1>3, <1>4, TwoPeers DEF Peers, Together, InStep
  <2>2. Together'
    BY <1>1, <1>2, <2>1, <1>3 DEF Together, InStep
  <2>3. SetupFails \/ UNCHANGED writeVars
    BY <1>1, <2>1 DEF SetupFails, writeVars, clientVars, adapterVars
  <2> QED
    BY <1>1, <2>2, <2>3 DEF Next, WriteNext
<1>5. CASE m = Client
  <2>1. pc'[Client] = stage /\ pc'[Server] = pc[Server] /\ client = "fill" /\ server' = server
    BY <1>1, <1>2, <1>3, <1>5, TwoPeers DEF Peers, Together, InStep
  <2>2. Together'
    BY <1>1, <1>2, <2>1, <1>3 DEF Together, InStep
  <2>3. SetupFails \/ UNCHANGED writeVars
    BY <1>1, <2>1 DEF SetupFails, writeVars, serverVars, adapterVars
  <2> QED
    BY <1>1, <2>2, <2>3 DEF Next, WriteNext
<1> QED
  BY <1>4, <1>5 DEF Peers

\* A step of the write is none of the rendezvous, unless the process ends.
LEMMA RunSteps ==
  ASSUME ProgramInv, NEW p \in Peers, Run(p)
  PROVE  [Next]_vars /\ WriteNext /\ Together'
<1>1. /\ pc[p] = "running" /\ Ends(p)
      /\ p = Server => ServerStep
      /\ p # Server => ClientStep
      /\ UNCHANGED <<connected, sent, rcvd, psn, remotePsn, rqPsn, sqPsn>>
  BY DEF Run
<1>2. /\ pc \in [Peers -> Stages] /\ Together
      /\ qp \in [Peers -> {"RESET", "INIT", "RTR", "RTS", "GONE"}]
  BY DEF ProgramInv, IInv, TypeOK
<1>3. WriteNext
  BY <1>1 DEF WriteNext
<1>4. [Next]_vars
  <2>1. CASE Stage(p)' \in {"done", "failed"}
    <3>1. Leave(p)
      BY <1>1, <2>1 DEF Ends, Leave, Goto
    <3> QED
      BY <3>1 DEF Next
  <2>2. CASE Stage(p)' \notin {"done", "failed"}
    <3>1. UNCHANGED <<pc, qp>>
      BY <1>1, <1>2, <2>2 DEF Ends
    <3> QED
      BY <1>1, <3>1 DEF vars
  <2> QED
    BY <2>1, <2>2
<1>5. pc'[p] = IF Stage(p)' \in {"done", "failed"} THEN "closed" ELSE "running"
  BY <1>1, <1>2 DEF Ends
<1>6. CASE p = Server
  <2>1. client' = client /\ pc'[Client] = pc[Client] /\ Stage(p)' = server'
    <3>1. client' = client
      BY <1>1, <1>6 DEF ServerStep, PrintBefore, PostReceive, PollNotification, PrintAfter,
         ServerCleanup, clientVars
    <3> QED
      BY <1>1, <1>2, <1>6, <3>1, TwoPeers DEF Ends, Stage, Peers
  <2>2. Together'
    BY <1>2, <1>5, <1>6, <2>1 DEF Together, InStep
  <2> QED
    BY <1>3, <1>4, <2>2
<1>7. CASE p = Client
  <2>1. server' = server /\ pc'[Server] = pc[Server] /\ Stage(p)' = client'
    <3>1. server' = server
      BY <1>1, <1>7, TwoPeers DEF ClientStep, Fill, PostWrite, PollWrite, PostNotify,
         PollNotify, Post, Poll, serverVars
    <3> QED
      BY <1>1, <1>2, <1>7, <3>1, TwoPeers DEF Ends, Stage, Peers
  <2>2. Together'
    BY <1>2, <1>5, <1>7, <2>1 DEF Together, InStep
  <2> QED
    BY <1>3, <1>4, <2>2
<1> QED
  BY <1>6, <1>7 DEF Peers

\* Every step of the program is a step of each part, or none of it.
LEMMA StepIsOfParts ==
  ASSUME ProgramInv, [ProgramNext]_programVars
  PROVE  [Next]_vars /\ [WriteNext]_writeVars /\ Together'
<1>1. CASE During(Meet)
  BY <1>1, SetupSteps DEF Peers
<1>2. ASSUME NEW p \in Peers, During(Setup(p))
      PROVE  [Next]_vars /\ [WriteNext]_writeVars /\ Together'
  BY <1>2, SetupSteps
<1>3. ASSUME NEW p \in Peers, Run(p)
      PROVE  [Next]_vars /\ [WriteNext]_writeVars /\ Together'
  BY <1>3, RunSteps
<1>4. CASE Execute \/ Complete
  <2>1. UNCHANGED vars /\ AdapterStep
    BY <1>4 DEF Execute, Complete, AdapterStep
  <2>2. UNCHANGED <<server, client, pc>>
    BY <2>1 DEF vars, AdapterStep, PlaceCell, WriteExecuted, SendExecuted, Acknowledge,
       RetryExceeded, serverVars, clientVars
  <2>3. Together'
    BY <2>2 DEF ProgramInv, Together, InStep
  <2> QED
    BY <2>1, <2>3 DEF WriteNext
<1>5. CASE UNCHANGED programVars
  BY <1>5 DEF programVars, vars, writeVars, ProgramInv, Together, InStep
<1> QED
  BY <1>1, <1>2, <1>3, <1>4, <1>5 DEF ProgramNext

\* The invariants of the parts, and the places of the processes in both, hold
\* of the program.
THEOREM ProgramInductive == ProgramSpec => []ProgramInv
<1>1. ProgramInit => ProgramInv
  <2> SUFFICES ASSUME ProgramInit PROVE ProgramInv
    OBVIOUS
  <2>1. Together
    BY DEF ProgramInit, Init, WriteInit, Together, InStep, Peers
  <2> QED
    BY <2>1, InitIInv, InitWriteInv DEF ProgramInit, ProgramInv
<1>2. ProgramInv /\ [ProgramNext]_programVars => ProgramInv'
  BY StepIsOfParts, NextIInv, NextWriteInv DEF ProgramInv
<1> QED
  BY <1>1, <1>2, PTL DEF ProgramSpec

\* ImplementsParts: the whole program is a behaviour of the rendezvous and of the
\* write, so that what is proved of them holds of it.
THEOREM ImplementsBoth == ProgramSpec => ImplementsParts
<1>1. ProgramInit => Init /\ WriteInit
  BY DEF ProgramInit
<1>2. ProgramInv /\ [ProgramNext]_programVars => [Next]_vars /\ [WriteNext]_writeVars
  BY StepIsOfParts
<1>3. ProgramSpec => ProgramInit /\ [][ProgramNext]_programVars
  BY PTL DEF ProgramSpec
<1>4. ProgramSpec => [][Next]_vars /\ [][WriteNext]_writeVars
  BY <1>2, <1>3, ProgramInductive, PTL
<1> QED
  BY <1>1, <1>3, <1>4, PTL DEF ImplementsParts, Spec, WriteSpec

\* What the server of the whole program prints after the notification is the
\* message, and its memory outlives every write, however the set-up went.
\* (rdma_write.c:310-348)
THEOREM ProgramWrites ==
  ProgramSpec => [](NotifiedAfterData /\ MemoryOutlivesWrite /\ BarrierHolds)
<1>1. ProgramSpec => Spec /\ WriteSpec
  BY ImplementsBoth DEF ImplementsParts
<1> QED
  BY <1>1, DataBeforeNotice, MemoryLives, Barrier, PTL
=============================================================================
