----------------------------- MODULE UdMessaging -----------------------------
(***************************************************************************)
(* The program proper of ud_send.c, after the barrier: a sender sends      *)
(* NumMsgs datagrams, one at a time, from one buffer; a receiver posts     *)
(* NumRecvBufs buffers, then polls for NumMsgs messages and posts each     *)
(* buffer again after it has printed it.  A datagram may be lost, may      *)
(* arrive more than once, may overtake another, and is dropped without a   *)
(* sign when it meets no posted buffer.  The receiver counts what arrives  *)
(* and compares no sequence number, so a repeated datagram is one more     *)
(* message to it.                                                          *)
(***************************************************************************)
EXTENDS Integers, Sequences

CONSTANTS
  NumMsgs,      \* option -n
  NumRecvBufs,  \* NUM_RECV_BUFS
  Lossy         \* whether the fabric loses and repeats datagrams

ASSUME UdAssumption ==
  NumMsgs \in Nat /\ NumRecvBufs \in Nat \ {0} /\ Lossy \in BOOLEAN

Msgs == 1 .. NumMsgs
Bufs == 1 .. NumRecvBufs

VARIABLES
  sender,    \* where the sender is
  sending,   \* the message in send_buf; the loop counter is sending - 1
  sendCq,    \* send completions not polled
  flying,    \* datagrams on their way
  missed,    \* datagrams of which a copy was lost, or met no buffer
  receiver,  \* where the receiver is
  count,     \* buffers posted so far, then messages received so far
  rq,        \* posted buffers, in the order they will be used
  mem,       \* the message in each receive buffer, 0 for none
  recvCq,    \* receive completions: buffer (wr_id) and message length
  current,   \* the buffer the program works with, 0 for none
  printed    \* messages printed so far, in order

udVars == <<sender, sending, sendCq, flying, missed, receiver, count, rq, mem,
          recvCq, current, printed>>
senderVars == <<sender, sending, sendCq>>
receiverVars == <<receiver, count, current, printed>>

UdInit ==
  /\ sender = "address"
  /\ sending = 0
  /\ sendCq = 0
  /\ flying = {}
  /\ missed = {}
  /\ receiver = "post"
  /\ count = 0
  /\ rq = <<>>
  /\ mem = [b \in Bufs |-> 0]
  /\ recvCq = <<>>
  /\ current = 0
  /\ printed = <<>>

----------------------------------------------------------------------------
(* The sender.                                                             *)

\* The address handle is made from what the receiver has told; without it the
\* sender exits.
CreateAh ==
  /\ sender = "address"
  /\ sender' \in {"top", "failed"}
  /\ UNCHANGED <<sending, sendCq, flying, missed, receiverVars, rq, mem, recvCq>>

\* Mutant: the send buffer is written again before the send is complete.
BufferReused == sender \in {"top", "transmit"}

BufferFree == sender = "top"

MoreToSend == sending < NumMsgs

\* The next message is formatted into the only send buffer, and posted.
Send ==
  /\ BufferFree
  /\ MoreToSend
  /\ sending' = sending + 1
  /\ sender' = "transmit"
  /\ UNCHANGED <<sendCq, flying, missed, receiverVars, rq, mem, recvCq>>

\* poll_completion() of the send: afterwards the buffer may be changed.
PollSend ==
  /\ sender = "sent"
  /\ sendCq > 0
  /\ sendCq' = sendCq - 1
  /\ sender' = "top"
  /\ UNCHANGED <<sending, flying, missed, receiverVars, rq, mem, recvCq>>

\* The address handle is destroyed, then all else.
SenderDone ==
  /\ sender = "top"
  /\ ~MoreToSend
  /\ sender' = "done"
  /\ UNCHANGED <<sending, sendCq, flying, missed, receiverVars, rq, mem, recvCq>>

----------------------------------------------------------------------------
(* The receiver.                                                           *)

PostReceive(bufs) == rq' = rq \o bufs

\* One buffer of the first NumRecvBufs.
PrePost ==
  /\ receiver = "post"
  /\ PostReceive(<<count + 1>>)
  /\ IF count + 1 = NumRecvBufs
       THEN receiver' = "poll" /\ count' = 0
       ELSE count' = count + 1 /\ UNCHANGED receiver
  /\ UNCHANGED <<senderVars, flying, missed, mem, recvCq, current, printed>>

\* Mutant: the loop waits for one message more than is sent.
OneMore == count <= NumMsgs

MoreToReceive == count < NumMsgs

TakeCompletion ==
  /\ receiver = "poll"
  /\ MoreToReceive
  /\ recvCq # <<>>
  /\ current' = Head(recvCq).buf
  /\ recvCq' = Tail(recvCq)
  /\ receiver' = "print"
  /\ UNCHANGED <<senderVars, flying, missed, count, mem, printed>>

\* Mutant: the buffer is posted again before it is printed.
PollAndRepost == TakeCompletion /\ PostReceive(<<Head(recvCq).buf>>)

PollReceive == TakeCompletion /\ UNCHANGED rq

PrintMessage ==
  /\ receiver = "print"
  /\ printed' = Append(printed, mem[current])
  /\ receiver' = "repost"
  /\ UNCHANGED <<senderVars, flying, missed, count, rq, mem, recvCq, current>>

\* Mutant: the buffer is not posted again.
NothingReposted == <<>>

Reposted == <<current>>

Repost ==
  /\ receiver = "repost"
  /\ PostReceive(Reposted)
  /\ current' = 0
  /\ count' = count + 1
  /\ receiver' = "poll"
  /\ UNCHANGED <<senderVars, flying, missed, mem, recvCq, printed>>

\* As many messages as were announced: the queue pair is destroyed, the pool
\* freed.
ReceiverDone ==
  /\ receiver = "poll"
  /\ ~MoreToReceive
  /\ receiver' = "done"
  /\ UNCHANGED <<senderVars, flying, missed, count, rq, mem, recvCq, current, printed>>

----------------------------------------------------------------------------
(* The adapters and the fabric.                                            *)

\* The datagram leaves: its send is complete whatever becomes of it.
Transmit ==
  /\ sender = "transmit"
  /\ flying' = flying \cup {sending}
  /\ sendCq' = sendCq + 1
  /\ sender' = "sent"
  /\ UNCHANGED <<sending, missed, receiverVars, rq, mem, recvCq>>

\* It takes the oldest posted buffer.  A fabric that repeats datagrams may have
\* another copy on the way.
Arrive(m) ==
  /\ m \in flying
  /\ receiver # "done"
  /\ rq # <<>>
  /\ \/ flying' = flying \ {m}
     \/ Lossy /\ UNCHANGED flying
  /\ mem' = [mem EXCEPT ![Head(rq)] = m]
  /\ recvCq' = Append(recvCq, [buf |-> Head(rq), msg |-> m])
  /\ rq' = Tail(rq)
  /\ UNCHANGED <<senderVars, missed, receiverVars>>

\* No buffer is posted, or there is no receiver any more, or the fabric fails.
Miss(m) ==
  /\ m \in flying
  /\ rq = <<>> \/ receiver = "done" \/ Lossy
  /\ flying' = flying \ {m}
  /\ missed' = missed \cup {m}
  /\ UNCHANGED <<senderVars, receiverVars, rq, mem, recvCq>>

----------------------------------------------------------------------------
Sender == CreateAh \/ Send \/ PollSend \/ SenderDone
Receiver == PrePost \/ PollReceive \/ PrintMessage \/ Repost \/ ReceiverDone

Network == Transmit \/ \E m \in Msgs : Arrive(m) \/ Miss(m)

----------------------------------------------------------------------------
SeqSet(s) == {s[i] : i \in 1 .. Len(s)}
CqBufs == {recvCq[i].buf : i \in 1 .. Len(recvCq)}

\* Every buffer the receiver has posted once is in one place only: posted,
\* waiting in the completion queue, or in the hands of the program; none gets
\* lost and none is posted twice.
BuffersConserved ==
  LET owned == IF current = 0 THEN {} ELSE {current}
      known == IF receiver = "post" THEN 1 .. count ELSE Bufs
  IN
  /\ known = SeqSet(rq) \cup CqBufs \cup owned
  /\ Len(rq) + Len(recvCq) + (IF current = 0 THEN 0 ELSE 1) =
       (IF receiver = "post" THEN count ELSE NumRecvBufs)

\* The buffers with a message that has not been printed.
Unprinted == CqBufs \cup (IF receiver = "print" THEN {current} ELSE {})

\* A buffer is not written again before its message has been printed, although
\* the datagrams that come meanwhile use the buffers in the order of their
\* posting.
NothingOverwritten == [][\A b \in Unprinted : mem'[b] = mem[b]]_udVars

\* The messages that have reached the receiver.
Received ==
  SeqSet(printed)
  \cup {recvCq[i].msg : i \in 1 .. Len(recvCq)}
  \cup (IF receiver = "print" THEN {mem[current]} ELSE {})

\* A datagram has reached the receiver, is missed or on its way: the receiver can
\* tell nothing of those it has missed, but no other is ever lost.
NoSilentLoss ==
  1 .. (IF sender = "transmit" THEN sending - 1 ELSE sending) =
    flying \cup missed \cup Received
=============================================================================
