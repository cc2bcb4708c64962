-------------------------- MODULE RendezvousProofs --------------------------
(***************************************************************************)
(* Proofs about Rendezvous, for all lengths of the structures, all sizes   *)
(* of the socket buffer, all sequence numbers and all sets of faulty       *)
(* processes.  The inductive invariant IInv says where in the two streams  *)
(* a process is at each stage, what state its queue pair is in, and what   *)
(* the sequence numbers it has set are copies of.                          *)
(***************************************************************************)
EXTENDS Rendezvous, TLAPS

\* How many bytes a process has written and read at each stage.
Counts(p) ==
  /\ rcvd[p] <= sent[Other(p)]
  /\ pc[p] \in {"start", "accept"} => sent[p] = 0 /\ rcvd[p] = 0
  /\ pc[p] = "sendQp" => sent[p] < QpInfoLen /\ rcvd[p] = 0
  /\ pc[p] = "recvQp" => sent[p] = QpInfoLen /\ rcvd[p] < QpInfoLen
  /\ pc[p] = "sendMr" =>
       QpInfoLen <= sent[p] /\ sent[p] < ExchangeLen /\ rcvd[p] = QpInfoLen
  /\ pc[p] = "recvMr" =>
       sent[p] = ExchangeLen /\ QpInfoLen <= rcvd[p] /\ rcvd[p] < ExchangeLen
  /\ pc[p] \in {"toInit", "toRtr", "toRts", "sendSync"} =>
       sent[p] = ExchangeLen /\ rcvd[p] = ExchangeLen
  /\ pc[p] = "recvSync" => sent[p] >= ExchangeLen /\ rcvd[p] = ExchangeLen

\* Only a process that has been at the barrier has written the sync byte, and
\* only one whose peer has ended passes the barrier without reading it.
AtBarrier(p) ==
  /\ pc[p] \in {"sendSync", "recvSync", "running"} => qp[p] = "RTS"
  /\ sent[p] > ExchangeLen => pc[p] \in {"recvSync", "running", "exited", "closed"}
  /\ pc[p] = "running" => rcvd[p] > ExchangeLen \/ Gone(Other(p))

\* Every sequence number set is a copy of the one it must agree with.
PsnCopies(p) ==
  /\ remotePsn[p] \in {None, psn[Other(p)]}
  /\ rqPsn[p] \in {None, psn[Other(p)]}
  /\ sqPsn[p] \in {None, psn[p]}

IInv ==
  /\ TypeOK
  /\ \A p \in Peers : Counts(p)
  /\ \A p \in Peers : AtBarrier(p)
  /\ \A p \in Peers : PsnCopies(p)

----------------------------------------------------------------------------
\* The peer of a process is the other one of the two.
LEMMA OtherPeer ==
  \A p \in Peers : /\ Other(p) \in Peers
                   /\ Other(p) # p
                   /\ Other(Other(p)) = p
                   /\ \A q \in Peers : q = p \/ q = Other(p)
BY TwoPeers DEF Peers, Other

\* The structures have natural lengths, so the positions are ordered.
LEMMA Lengths ==
  /\ QpInfoLen \in Nat /\ QpInfoLen > 0
  /\ MrInfoLen \in Nat
  /\ ExchangeLen \in Nat
  /\ ExchangeLen = QpInfoLen + MrInfoLen
BY LengthsAssumption DEF ExchangeLen

\* All programs start with nothing written, read or set.
LEMMA InitIInv == Init => IInv
<1> SUFFICES ASSUME Init PROVE IInv
  OBVIOUS
<1>1. TypeOK
  <2>1. 0 \in 0 .. ExchangeLen + 1
    BY Lengths
  <2>2. /\ sent \in [Peers -> 0 .. ExchangeLen + 1]
        /\ rcvd \in [Peers -> 0 .. ExchangeLen + 1]
    BY <2>1 DEF Init
  <2>3. pc \in [Peers -> Stages]
    BY DEF Init, Stages
  <2> QED
    BY <2>2, <2>3 DEF Init, TypeOK
<1>2. ASSUME NEW p \in Peers PROVE Counts(p) /\ AtBarrier(p) /\ PsnCopies(p)
  BY Lengths, OtherPeer DEF Init, Counts, AtBarrier, PsnCopies
<1> QED
  BY <1>1, <1>2 DEF IInv

\* Every step of the two programs preserves the inductive invariant.
LEMMA NextIInv == IInv /\ [Next]_vars => IInv'
<1> SUFFICES ASSUME IInv, [Next]_vars PROVE IInv'
  OBVIOUS
<1> USE OtherPeer, Lengths
<1>1. ASSUME Listen PROVE IInv'
  <2>1. TypeOK'
    BY <1>1 DEF Listen, Goto, Gone, Peers, Stages, IInv, TypeOK, Counts
  <2>2. ASSUME NEW q \in Peers PROVE Counts(q)'
    BY <1>1 DEF Listen, Goto, Gone, Peers, IInv, TypeOK, Counts
  <2>3. ASSUME NEW q \in Peers PROVE AtBarrier(q)'
    BY <1>1 DEF Listen, Goto, Gone, Peers, IInv, TypeOK, Counts, AtBarrier
  <2>4. ASSUME NEW q \in Peers PROVE PsnCopies(q)'
    BY <1>1 DEF Listen, Goto, Peers, IInv, TypeOK, PsnCopies
  <2> QED
    BY <2>1, <2>2, <2>3, <2>4 DEF IInv
<1>2. ASSUME Connect PROVE IInv'
  <2>1. TypeOK'
    BY <1>2 DEF Connect, FirstStage, Goto, Gone, Peers, Stages, IInv, TypeOK, Counts
  <2>2. ASSUME NEW q \in Peers PROVE Counts(q)'
    BY <1>2 DEF Connect, FirstStage, Goto, Gone, Peers, IInv, TypeOK, Counts
  <2>3. ASSUME NEW q \in Peers PROVE AtBarrier(q)'
    BY <1>2 DEF Connect, FirstStage, Goto, Gone, Peers, IInv, TypeOK, Counts, AtBarrier
  <2>4. ASSUME NEW q \in Peers PROVE PsnCopies(q)'
    BY <1>2 DEF Connect, FirstStage, Goto, Peers, IInv, TypeOK, PsnCopies
  <2> QED
    BY <2>1, <2>2, <2>3, <2>4 DEF IInv
<1>3. ASSUME ConnectRefused PROVE IInv'
  <2>1. TypeOK'
    BY <1>3 DEF ConnectRefused, Exit, Goto, Gone, Peers, Stages, IInv, TypeOK, Counts
  <2>2. ASSUME NEW q \in Peers PROVE Counts(q)'
    BY <1>3 DEF ConnectRefused, Exit, Goto, Gone, Peers, IInv, TypeOK, Counts
  <2>3. ASSUME NEW q \in Peers PROVE AtBarrier(q)'
    BY <1>3 DEF ConnectRefused, Exit, Goto, Gone, Peers, IInv, TypeOK, Counts, AtBarrier
  <2>4. ASSUME NEW q \in Peers PROVE PsnCopies(q)'
    BY <1>3 DEF ConnectRefused, Exit, Goto, Peers, IInv, TypeOK, PsnCopies
  <2> QED
    BY <2>1, <2>2, <2>3, <2>4 DEF IInv
<1>4. ASSUME Accept PROVE IInv'
  <2>1. TypeOK'
    BY <1>4 DEF Accept, FirstStage, Goto, Gone, Peers, Stages, IInv, TypeOK, Counts
  <2>2. ASSUME NEW q \in Peers PROVE Counts(q)'
    BY <1>4 DEF Accept, FirstStage, Goto, Gone, Peers, IInv, TypeOK, Counts
  <2>3. ASSUME NEW q \in Peers PROVE AtBarrier(q)'
    BY <1>4 DEF Accept, FirstStage, Goto, Gone, Peers, IInv, TypeOK, Counts, AtBarrier
  <2>4. ASSUME NEW q \in Peers PROVE PsnCopies(q)'
    BY <1>4 DEF Accept, FirstStage, Goto, Peers, IInv, TypeOK, PsnCopies
  <2> QED
    BY <2>1, <2>2, <2>3, <2>4 DEF IInv
<1>5. ASSUME NEW p \in Peers, WriteAll(p) PROVE IInv'
  <2>1. TypeOK'
    BY <1>5 DEF WriteAll, EndOf, AfterSend, Pending, Goto, Gone, Peers, Stages, IInv, TypeOK, Counts
  <2>2. ASSUME NEW q \in Peers PROVE Counts(q)'
    BY <1>5 DEF WriteAll, EndOf, AfterSend, Pending, Goto, Gone, Peers, IInv, TypeOK, Counts
  <2>3. ASSUME NEW q \in Peers PROVE AtBarrier(q)'
    BY <1>5 DEF WriteAll, EndOf, AfterSend, Pending, Goto, Gone, Peers, IInv, TypeOK, Counts, AtBarrier
  <2>4. ASSUME NEW q \in Peers PROVE PsnCopies(q)'
    BY <1>5 DEF WriteAll, EndOf, AfterSend, Pending, Goto, Peers, IInv, TypeOK, PsnCopies
  <2> QED
    BY <2>1, <2>2, <2>3, <2>4 DEF IInv
<1>6. ASSUME NEW p \in Peers, ReadAll(p) PROVE IInv'
  <2>1. TypeOK'
    BY <1>6 DEF ReadAll, WholeStructure, EndOf, AfterRecv, Pending, Goto, Gone, Peers, Stages, IInv, TypeOK, Counts
  <2>2. ASSUME NEW q \in Peers PROVE Counts(q)'
    BY <1>6 DEF ReadAll, WholeStructure, EndOf, AfterRecv, Pending, Goto, Gone, Peers, IInv, TypeOK, Counts
  <2>3. ASSUME NEW q \in Peers PROVE AtBarrier(q)'
    BY <1>6 DEF ReadAll, WholeStructure, EndOf, AfterRecv, Pending, Goto, Gone, Peers, IInv, TypeOK, Counts, AtBarrier
  <2>4. ASSUME NEW q \in Peers PROVE PsnCopies(q)'
    BY <1>6 DEF ReadAll, WholeStructure, EndOf, AfterRecv, Pending, Goto, Peers, IInv, TypeOK, PsnCopies
  <2> QED
    BY <2>1, <2>2, <2>3, <2>4 DEF IInv
<1>7. ASSUME NEW p \in Peers, ExchangeFails(p) PROVE IInv'
  <2>1. TypeOK'
    BY <1>7 DEF ExchangeFails, Exit, Goto, Gone, Peers, Stages, IInv, TypeOK, Counts
  <2>2. ASSUME NEW q \in Peers PROVE Counts(q)'
    BY <1>7 DEF ExchangeFails, Exit, Goto, Gone, Peers, IInv, TypeOK, Counts
  <2>3. ASSUME NEW q \in Peers PROVE AtBarrier(q)'
    BY <1>7 DEF ExchangeFails, Exit, Goto, Gone, Peers, IInv, TypeOK, Counts, AtBarrier
  <2>4. ASSUME NEW q \in Peers PROVE PsnCopies(q)'
    BY <1>7 DEF ExchangeFails, Exit, Goto, Peers, IInv, TypeOK, PsnCopies
  <2> QED
    BY <2>1, <2>2, <2>3, <2>4 DEF IInv
<1>8. ASSUME NEW p \in Peers, ToInit(p) PROVE IInv'
  <2>1. TypeOK'
    BY <1>8 DEF ToInit, Goto, Gone, Peers, Stages, IInv, TypeOK, Counts
  <2>2. ASSUME NEW q \in Peers PROVE Counts(q)'
    BY <1>8 DEF ToInit, Goto, Gone, Peers, IInv, TypeOK, Counts
  <2>3. ASSUME NEW q \in Peers PROVE AtBarrier(q)'
    BY <1>8 DEF ToInit, Goto, Gone, Peers, IInv, TypeOK, Counts, AtBarrier
  <2>4. ASSUME NEW q \in Peers PROVE PsnCopies(q)'
    BY <1>8 DEF ToInit, Goto, Peers, IInv, TypeOK, PsnCopies
  <2> QED
    BY <2>1, <2>2, <2>3, <2>4 DEF IInv
<1>9. ASSUME NEW p \in Peers, ToRtr(p) PROVE IInv'
  <2>1. TypeOK'
    BY <1>9 DEF ToRtr, AfterRtr, Goto, Gone, Peers, Stages, IInv, TypeOK, Counts
  <2>2. ASSUME NEW q \in Peers PROVE Counts(q)'
    BY <1>9 DEF ToRtr, AfterRtr, Goto, Gone, Peers, IInv, TypeOK, Counts
  <2>3. ASSUME NEW q \in Peers PROVE AtBarrier(q)'
    BY <1>9 DEF ToRtr, AfterRtr, Goto, Gone, Peers, IInv, TypeOK, Counts, AtBarrier
  <2>4. ASSUME NEW q \in Peers PROVE PsnCopies(q)'
    BY <1>9 DEF ToRtr, AfterRtr, Goto, Peers, IInv, TypeOK, PsnCopies
  <2> QED
    BY <2>1, <2>2, <2>3, <2>4 DEF IInv
<1>10. ASSUME NEW p \in Peers, ToRts(p) PROVE IInv'
  <2>1. TypeOK'
    BY <1>10 DEF ToRts, OwnPsn, Goto, Gone, Peers, Stages, IInv, TypeOK, Counts
  <2>2. ASSUME NEW q \in Peers PROVE Counts(q)'
    BY <1>10 DEF ToRts, OwnPsn, Goto, Gone, Peers, IInv, TypeOK, Counts
  <2>3. ASSUME NEW q \in Peers PROVE AtBarrier(q)'
    BY <1>10 DEF ToRts, OwnPsn, Goto, Gone, Peers, IInv, TypeOK, Counts, AtBarrier
  <2>4. ASSUME NEW q \in Peers PROVE PsnCopies(q)'
    BY <1>10 DEF ToRts, OwnPsn, Goto, Peers, IInv, TypeOK, PsnCopies
  <2> QED
    BY <2>1, <2>2, <2>3, <2>4 DEF IInv
<1>11. ASSUME NEW p \in Peers, ModifyFails(p) PROVE IInv'
  <2>1. TypeOK'
    BY <1>11 DEF ModifyFails, Exit, Goto, Gone, Peers, Stages, IInv, TypeOK, Counts
  <2>2. ASSUME NEW q \in Peers PROVE Counts(q)'
    BY <1>11 DEF ModifyFails, Exit, Goto, Gone, Peers, IInv, TypeOK, Counts
  <2>3. ASSUME NEW q \in Peers PROVE AtBarrier(q)'
    BY <1>11 DEF ModifyFails, Exit, Goto, Gone, Peers, IInv, TypeOK, Counts, AtBarrier
  <2>4. ASSUME NEW q \in Peers PROVE PsnCopies(q)'
    BY <1>11 DEF ModifyFails, Exit, Goto, Peers, IInv, TypeOK, PsnCopies
  <2> QED
    BY <2>1, <2>2, <2>3, <2>4 DEF IInv
<1>12. ASSUME NEW p \in Peers, SendSync(p) PROVE IInv'
  <2>1. TypeOK'
    BY <1>12 DEF SendSync, Pending, Goto, Gone, Peers, Stages, IInv, TypeOK, Counts
  <2>2. ASSUME NEW q \in Peers PROVE Counts(q)'
    BY <1>12 DEF SendSync, Pending, Goto, Gone, Peers, IInv, TypeOK, Counts
  <2>3. ASSUME NEW q \in Peers PROVE AtBarrier(q)'
    BY <1>12 DEF SendSync, Pending, Goto, Gone, Peers, IInv, TypeOK, Counts, AtBarrier
  <2>4. ASSUME NEW q \in Peers PROVE PsnCopies(q)'
    BY <1>12 DEF SendSync, Pending, Goto, Peers, IInv, TypeOK, PsnCopies
  <2> QED
    BY <2>1, <2>2, <2>3, <2>4 DEF IInv
<1>13. ASSUME NEW p \in Peers, SendSyncLost(p) PROVE IInv'
  <2>1. TypeOK'
    BY <1>13 DEF SendSyncLost, Goto, Gone, Peers, Stages, IInv, TypeOK, Counts
  <2>2. ASSUME NEW q \in Peers PROVE Counts(q)'
    BY <1>13 DEF SendSyncLost, Goto, Gone, Peers, IInv, TypeOK, Counts
  <2>3. ASSUME NEW q \in Peers PROVE AtBarrier(q)'
    BY <1>13 DEF SendSyncLost, Goto, Gone, Peers, IInv, TypeOK, Counts, AtBarrier
  <2>4. ASSUME NEW q \in Peers PROVE PsnCopies(q)'
    BY <1>13 DEF SendSyncLost, Goto, Peers, IInv, TypeOK, PsnCopies
  <2> QED
    BY <2>1, <2>2, <2>3, <2>4 DEF IInv
<1>14. ASSUME NEW p \in Peers, SyncKilled(p) PROVE IInv'
  <2>1. TypeOK'
    BY <1>14 DEF SyncKilled, Exit, Goto, Gone, Peers, Stages, IInv, TypeOK, Counts
  <2>2. ASSUME NEW q \in Peers PROVE Counts(q)'
    BY <1>14 DEF SyncKilled, Exit, Goto, Gone, Peers, IInv, TypeOK, Counts
  <2>3. ASSUME NEW q \in Peers PROVE AtBarrier(q)'
    BY <1>14 DEF SyncKilled, Exit, Goto, Gone, Peers, IInv, TypeOK, Counts, AtBarrier
  <2>4. ASSUME NEW q \in Peers PROVE PsnCopies(q)'
    BY <1>14 DEF SyncKilled, Exit, Goto, Peers, IInv, TypeOK, PsnCopies
  <2> QED
    BY <2>1, <2>2, <2>3, <2>4 DEF IInv
<1>15. ASSUME NEW p \in Peers, RecvSync(p) PROVE IInv'
  <2>1. TypeOK'
    BY <1>15 DEF RecvSync, Pending, Goto, Gone, Peers, Stages, IInv, TypeOK, Counts
  <2>2. ASSUME NEW q \in Peers PROVE Counts(q)'
    BY <1>15 DEF RecvSync, Pending, Goto, Gone, Peers, IInv, TypeOK, Counts
  <2>3. ASSUME NEW q \in Peers PROVE AtBarrier(q)'
    BY <1>15 DEF RecvSync, Pending, Goto, Gone, Peers, IInv, TypeOK, Counts, AtBarrier
  <2>4. ASSUME NEW q \in Peers PROVE PsnCopies(q)'
    BY <1>15 DEF RecvSync, Pending, Goto, Peers, IInv, TypeOK, PsnCopies
  <2> QED
    BY <2>1, <2>2, <2>3, <2>4 DEF IInv
<1>16. ASSUME NEW p \in Peers, RecvSyncNothing(p) PROVE IInv'
  <2>1. TypeOK'
    BY <1>16 DEF RecvSyncNothing, Goto, Gone, Peers, Stages, IInv, TypeOK, Counts
  <2>2. ASSUME NEW q \in Peers PROVE Counts(q)'
    BY <1>16 DEF RecvSyncNothing, Goto, Gone, Peers, IInv, TypeOK, Counts
  <2>3. ASSUME NEW q \in Peers PROVE AtBarrier(q)'
    BY <1>16 DEF RecvSyncNothing, Goto, Gone, Peers, IInv, TypeOK, Counts, AtBarrier
  <2>4. ASSUME NEW q \in Peers PROVE PsnCopies(q)'
    BY <1>16 DEF RecvSyncNothing, Goto, Peers, IInv, TypeOK, PsnCopies
  <2> QED
    BY <2>1, <2>2, <2>3, <2>4 DEF IInv
<1>17. ASSUME NEW p \in Peers, Leave(p) PROVE IInv'
  <2>1. TypeOK'
    BY <1>17 DEF Leave, Goto, Gone, Peers, Stages, IInv, TypeOK, Counts
  <2>2. ASSUME NEW q \in Peers PROVE Counts(q)'
    BY <1>17 DEF Leave, Goto, Gone, Peers, IInv, TypeOK, Counts
  <2>3. ASSUME NEW q \in Peers PROVE AtBarrier(q)'
    BY <1>17 DEF Leave, Goto, Gone, Peers, IInv, TypeOK, Counts, AtBarrier
  <2>4. ASSUME NEW q \in Peers PROVE PsnCopies(q)'
    BY <1>17 DEF Leave, Goto, Peers, IInv, TypeOK, PsnCopies
  <2> QED
    BY <2>1, <2>2, <2>3, <2>4 DEF IInv
<1>18. CASE UNCHANGED vars
  BY <1>18 DEF vars, IInv, TypeOK, Counts, AtBarrier, PsnCopies, Gone, Stages
<1> QED
  BY <1>1, <1>2, <1>3, <1>4, <1>5, <1>6, <1>7, <1>8, <1>9, <1>10, <1>11, <1>12, <1>13, <1>14, <1>15, <1>16, <1>17, <1>18 DEF Next, Meet, Setup

\* The inductive invariant holds in every reachable state.
THEOREM Inductive == Spec => []IInv
<1>1. Init => IInv
  BY InitIInv
<1>2. IInv /\ [Next]_vars => IInv'
  BY NextIInv
<1> QED
  BY <1>1, <1>2, PTL DEF Spec

\* Every variable keeps to its type; in particular no process writes or reads
\* more than the two structures and the sync byte.  (exchange_qp_info,
\* exchange_mr_info, the barrier of main())
THEOREM TypeCorrect == Spec => []TypeOK
<1>1. IInv => TypeOK
  BY DEF IInv
<1> QED
  BY <1>1, Inductive, PTL

\* The streams stay framed whatever read(2) and write(2) return.  (read_all,
\* write_all)
THEOREM Framing == Spec => []FramingOK
<1>1. IInv => FramingOK
  BY Lengths, OtherPeer DEF IInv, TypeOK, Counts, FramingOK
<1> QED
  BY <1>1, Inductive, PTL

\* A process past the barrier finds the queue pair of a living peer in RTS.
\* (rc_pingpong.c, steps 8 and 9)
THEOREM Barrier == Spec => []BarrierHolds
<1>1. IInv => BarrierHolds
  <2> SUFFICES ASSUME IInv, NEW p \in Peers,
                      pc[p] = "running", ~Gone(Other(p))
               PROVE  qp[Other(p)] = "RTS"
    BY DEF BarrierHolds
  <2>1. Other(p) \in Peers
    BY OtherPeer
  <2>2. sent[Other(p)] > ExchangeLen
    BY <2>1, Lengths DEF IInv, TypeOK, Counts, AtBarrier
  <2> QED
    BY <2>1, <2>2 DEF IInv, AtBarrier, Gone
<1> QED
  BY <1>1, Inductive, PTL

\* What one side sends first is what the other side expects first.
\* (modify_qp_to_rtr, modify_qp_to_rts)
THEOREM PsnsAgree == Spec => []PsnAgreement
<1>1. IInv => PsnAgreement
  BY OtherPeer DEF IInv, PsnCopies, PsnAgreement
<1> QED
  BY <1>1, Inductive, PTL
=============================================================================
