---------------------------- MODULE UdSendProofs ----------------------------
(***************************************************************************)
(* Proofs about UdSend, for any number of messages and buffers, any size   *)
(* of the structures, and with or without loss.  The handshake has an      *)
(* invariant of its own: what each process has written and read at each    *)
(* stage.  Behind it, the invariant follows each buffer round and each     *)
(* datagram from the sender to where it ends.                              *)
(***************************************************************************)
EXTENDS UdSend, SequenceTheorems, TLAPS

\* Types of the handshake.
ShakeTypeOK ==
  /\ stage \in [Peers -> Stages]
  /\ linked \in BOOLEAN
  /\ wrote \in [Peers -> Nat]
  /\ got \in [Peers -> Nat]

\* What a process has written and read, by its stage.
Written(p) ==
  /\ stage[p] \in {"start", "accept", "write"} => wrote[p] = 0
  /\ stage[p] \in {"read", "setup", "sync"} => wrote[p] = InfoLen
  /\ stage[p] \in {"start", "accept", "write", "read"} => got[p] = 0
  /\ stage[p] \in {"setup", "sync", "await"} => got[p] = InfoLen
  /\ stage[p] \in {"running", "closed"} => got[p] >= InfoLen
  /\ got[p] <= wrote[Other(p)]

ShakeInv == ShakeTypeOK /\ \A p \in Peers : Written(p)

\* Types of sender, receiver and fabric ...
UdTypeOK ==
  /\ sender \in {"address", "top", "transmit", "sent", "failed", "done"}
  /\ receiver \in {"post", "poll", "print", "repost", "done"}
  /\ sending \in Nat
  /\ sendCq \in Nat
  /\ flying \subseteq Msgs
  /\ missed \subseteq Msgs
  /\ count \in Nat
  /\ mem \in [Bufs -> 0 .. NumMsgs]
  /\ current \in 0 .. NumRecvBufs

\* ... and of the queues.
QueuesOK ==
  /\ rq \in Seq(Bufs)
  /\ recvCq \in Seq([buf : Bufs, msg : Msgs])
  /\ printed \in Seq(Msgs)

\* A queue holds an element, and holds it at one place only.
Holds(s, x) == \E i \in 1 .. Len(s) : s[i] = x
Once(s, x) == \A i, j \in 1 .. Len(s) : s[i] = x /\ s[j] = x => i = j

\* The same for the buffers that completions name.
Names(s, b) == \E i \in 1 .. Len(s) : s[i].buf = b
NamesOnce(s, b) == \A i, j \in 1 .. Len(s) : s[i].buf = b /\ s[j].buf = b => i = j

\* The buffers posted so far, and how many they are.
Pool == IF receiver = "post" THEN 1 .. count ELSE Bufs
PoolSize == IF receiver = "post" THEN count ELSE NumRecvBufs

\* Each of them is in one place, and the receiver has one in its hands between
\* a completion and the reposting.
PoolOK ==
  /\ receiver = "post" => count < NumRecvBufs
  /\ current # 0 <=> receiver \in {"print", "repost"}
  /\ Len(rq) + Len(recvCq) + (IF current = 0 THEN 0 ELSE 1) = PoolSize
  /\ \A b \in Bufs :
       /\ Once(rq, b) /\ NamesOnce(recvCq, b)
       /\ Holds(rq, b) => ~Names(recvCq, b) /\ current # b
       /\ Names(recvCq, b) => current # b
       /\ Holds(rq, b) \/ Names(recvCq, b) \/ current = b <=> b \in Pool

\* The messages that have left the sender.
Sent == 1 .. (IF sender = "transmit" THEN sending - 1 ELSE sending)

\* A buffer with a message that has not been printed.
Unread(b) == Names(recvCq, b) \/ (receiver = "print" /\ current = b)

\* A message that has left is on its way, missed, in such a buffer or printed; a
\* fabric that repeats datagrams puts it at several of these places.
MessagesOK ==
  /\ sending <= NumMsgs
  /\ sender = "transmit" => sending >= 1
  /\ \A i \in 1 .. Len(recvCq) : mem[recvCq[i].buf] = recvCq[i].msg
  /\ flying \subseteq Sent /\ missed \subseteq Sent
  /\ \A b \in Bufs : Unread(b) => mem[b] \in Sent
  /\ \A m \in Msgs : Holds(printed, m) => m \in Sent
  /\ \A m \in Sent : \/ m \in flying \/ m \in missed
                     \/ Holds(printed, m)
                     \/ \E b \in Bufs : Unread(b) /\ mem[b] = m

UdInv ==
  /\ UdTypeOK
  /\ QueuesOK
  /\ PoolOK
  /\ MessagesOK

IInv ==
  /\ ShakeInv
  /\ UdInv
  /\ sender = "transmit" => stage[Client] = "running"

----------------------------------------------------------------------------
(* Queues.                                                                 *)

\* An empty queue holds nothing.
LEMMA HoldsNothing ==
  ASSUME NEW x
  PROVE  ~Holds(<<>>, x) /\ Once(<<>>, x)
BY DEF Holds, Once

\* What a queue holds without its head ...
LEMMA HoldsTail ==
  ASSUME NEW S, NEW s \in Seq(S), s # <<>>, NEW x
  PROVE  /\ Tail(s) \in Seq(S) /\ Head(s) \in S
         /\ Holds(s, Head(s))
         /\ Holds(Tail(s), x) => Holds(s, x)
         /\ Holds(s, x) => Holds(Tail(s), x) \/ x = Head(s)
         /\ Once(s, x) => Once(Tail(s), x)
         /\ Once(s, x) /\ x = Head(s) => ~Holds(Tail(s), x)
<1>1. /\ Tail(s) \in Seq(S) /\ Head(s) \in S /\ Head(s) = s[1]
      /\ Len(s) \in Nat /\ Len(s) >= 1 /\ Len(Tail(s)) = Len(s) - 1
      /\ \A i \in 1 .. Len(Tail(s)) : Tail(s)[i] = s[i + 1]
  BY HeadTailProperties, LenProperties, EmptySeq
<1>2. Holds(s, Head(s))
  BY <1>1 DEF Holds
<1>3. Holds(Tail(s), x) => Holds(s, x)
  BY <1>1 DEF Holds
<1>4. Once(s, x) => Once(Tail(s), x)
  <2> SUFFICES ASSUME Once(s, x), NEW i \in 1 .. Len(Tail(s)), NEW j \in 1 .. Len(Tail(s)),
                      Tail(s)[i] = x, Tail(s)[j] = x
               PROVE  i = j
    BY DEF Once
  <2>1. s[i + 1] = x /\ s[j + 1] = x /\ i + 1 \in 1 .. Len(s) /\ j + 1 \in 1 .. Len(s)
    BY <1>1
  <2>2. i + 1 = j + 1
    BY <2>1 DEF Once
  <2> QED
    BY <1>1, <2>2
<1>5. Once(s, x) /\ x = Head(s) => ~Holds(Tail(s), x)
  <2> SUFFICES ASSUME Once(s, x), x = s[1], NEW i \in 1 .. Len(Tail(s)), Tail(s)[i] = x
               PROVE  FALSE
    BY <1>1 DEF Holds
  <2>1. s[i + 1] = x /\ i + 1 \in 1 .. Len(s) /\ 1 \in 1 .. Len(s) /\ i >= 1
    BY <1>1
  <2>2. i + 1 = 1
    BY <2>1 DEF Once
  <2> QED
    BY <2>1, <2>2
<1>6. Holds(s, x) => Holds(Tail(s), x) \/ x = Head(s)
  <2> SUFFICES ASSUME NEW i \in 1 .. Len(s), s[i] = x, x # s[1] PROVE Holds(Tail(s), x)
    BY <1>1 DEF Holds
  <2>1. i - 1 \in 1 .. Len(Tail(s)) /\ Tail(s)[i - 1] = x
    BY <1>1
  <2> QED
    BY <2>1 DEF Holds
<1> QED
  BY <1>1, <1>2, <1>3, <1>4, <1>5, <1>6

\* ... and with one more element.
LEMMA HoldsAppend ==
  ASSUME NEW S, NEW s \in Seq(S), NEW y \in S, NEW x
  PROVE  /\ Append(s, y) \in Seq(S)
         /\ Holds(Append(s, y), x) <=> Holds(s, x) \/ x = y
         /\ Once(s, x) /\ (x = y => ~Holds(s, x)) => Once(Append(s, y), x)
<1> DEFINE n == Len(s)
           longer == Append(s, y)
<1>1. /\ longer \in Seq(S) /\ n \in Nat /\ Len(longer) = n + 1
      /\ \A i \in 1 .. n : longer[i] = s[i]
      /\ longer[n + 1] = y
  BY AppendProperties, LenProperties
<1>2. \A i \in 1 .. n + 1 : i \in 1 .. n \/ i = n + 1
  BY <1>1
<1>3. n + 1 \in 1 .. n + 1 /\ \A i \in 1 .. n : i \in 1 .. n + 1
  BY <1>1
<1> HIDE DEF longer
<1>4. Holds(longer, x) <=> Holds(s, x) \/ x = y
  BY <1>1, <1>2, <1>3 DEF Holds
<1>5. Once(s, x) /\ (x = y => ~Holds(s, x)) => Once(longer, x)
  BY <1>1, <1>2 DEF Holds, Once
<1> QED
  BY <1>1, <1>4, <1>5 DEF longer

\* The same for the buffers that completions name.
LEMMA NamesTail ==
  ASSUME NEW s \in Seq([buf : Bufs, msg : Msgs]), s # <<>>, NEW b
  PROVE  /\ Tail(s) \in Seq([buf : Bufs, msg : Msgs]) /\ Head(s) \in [buf : Bufs, msg : Msgs]
         /\ Names(s, Head(s).buf)
         /\ Names(Tail(s), b) => Names(s, b)
         /\ Names(s, b) => Names(Tail(s), b) \/ b = Head(s).buf
         /\ NamesOnce(s, b) => NamesOnce(Tail(s), b)
         /\ NamesOnce(s, b) /\ b = Head(s).buf => ~Names(Tail(s), b)
<1> DEFINE S == [buf : Bufs, msg : Msgs]
           t == Tail(s)
<1> HIDE DEF S
<1>1. /\ t \in Seq(S) /\ Head(s) \in S
      /\ Head(s) = s[1] /\ Len(s) \in Nat /\ Len(s) >= 1 /\ Len(t) = Len(s) - 1
      /\ \A i \in 1 .. Len(t) : t[i] = s[i + 1]
  <2>1. s \in Seq(S)
    BY DEF S
  <2> QED
    BY <2>1, HeadTailProperties, LenProperties, EmptySeq
<1> HIDE DEF t
<1>2. Names(s, s[1].buf)
  BY <1>1 DEF Names
<1>3. Names(t, b) => Names(s, b)
  BY <1>1 DEF Names
<1>4. NamesOnce(s, b) => NamesOnce(t, b)
  <2> SUFFICES ASSUME NamesOnce(s, b), NEW i \in 1 .. Len(t), NEW j \in 1 .. Len(t),
                      t[i].buf = b, t[j].buf = b
               PROVE  i = j
    BY DEF NamesOnce
  <2>1. s[i + 1].buf = b /\ s[j + 1].buf = b /\ i + 1 \in 1 .. Len(s) /\ j + 1 \in 1 .. Len(s)
    BY <1>1
  <2>2. i + 1 = j + 1
    BY <2>1 DEF NamesOnce
  <2> QED
    BY <1>1, <2>2
<1>5. NamesOnce(s, b) /\ b = s[1].buf => ~Names(t, b)
  <2> SUFFICES ASSUME NamesOnce(s, b), b = s[1].buf, NEW i \in 1 .. Len(t), t[i].buf = b
               PROVE  FALSE
    BY DEF Names
  <2>1. s[i + 1].buf = b /\ i + 1 \in 1 .. Len(s) /\ 1 \in 1 .. Len(s) /\ i >= 1
    BY <1>1
  <2>2. i + 1 = 1
    BY <2>1 DEF NamesOnce
  <2> QED
    BY <2>1, <2>2
<1>6. Names(s, b) => Names(t, b) \/ b = s[1].buf
  <2> SUFFICES ASSUME NEW i \in 1 .. Len(s), s[i].buf = b, b # s[1].buf PROVE Names(t, b)
    BY DEF Names
  <2>1. i - 1 \in 1 .. Len(t) /\ t[i - 1].buf = b
    BY <1>1
  <2> QED
    BY <2>1 DEF Names
<1> QED
  BY <1>1, <1>2, <1>3, <1>4, <1>5, <1>6 DEF t, S

\* One more completion names one more buffer.
LEMMA NamesAppend ==
  ASSUME NEW s \in Seq([buf : Bufs, msg : Msgs]), NEW y \in [buf : Bufs, msg : Msgs], NEW b
  PROVE  /\ Append(s, y) \in Seq([buf : Bufs, msg : Msgs])
         /\ Names(Append(s, y), b) <=> Names(s, b) \/ b = y.buf
         /\ NamesOnce(s, b) /\ (b = y.buf => ~Names(s, b)) => NamesOnce(Append(s, y), b)
<1> DEFINE n == Len(s)
           longer == Append(s, y)
<1>1. /\ longer \in Seq([buf : Bufs, msg : Msgs]) /\ n \in Nat /\ Len(longer) = n + 1
      /\ \A i \in 1 .. n : longer[i] = s[i]
      /\ longer[n + 1] = y
  BY AppendProperties, LenProperties
<1>2. \A i \in 1 .. n + 1 : i \in 1 .. n \/ i = n + 1
  BY <1>1
<1>3. n + 1 \in 1 .. n + 1 /\ \A i \in 1 .. n : i \in 1 .. n + 1
  BY <1>1
<1> HIDE DEF longer
<1>4. Names(longer, b) <=> Names(s, b) \/ b = y.buf
  BY <1>1, <1>2, <1>3 DEF Names
<1>5. NamesOnce(s, b) /\ (b = y.buf => ~Names(s, b)) => NamesOnce(longer, b)
  BY <1>1, <1>2 DEF Names, NamesOnce
<1> QED
  BY <1>1, <1>4, <1>5 DEF longer

\* Posting a buffer puts it behind the others.
LEMMA PostOne ==
  ASSUME QueuesOK, NEW b \in Bufs, PostReceive(<<b>>)
  PROVE  /\ rq' \in Seq(Bufs) /\ Len(rq) \in Nat /\ Len(rq') = Len(rq) + 1
         /\ \A x : Holds(rq', x) <=> Holds(rq, x) \/ x = b
         /\ \A x : Once(rq, x) /\ (x = b => ~Holds(rq, x)) => Once(rq', x)
<1>1. rq' = Append(rq, b) /\ rq \in Seq(Bufs)
  BY AppendIsConcat DEF PostReceive, QueuesOK
<1> QED
  BY <1>1, HoldsAppend, AppendProperties, LenProperties

----------------------------------------------------------------------------
(* The handshake.                                                          *)

\* Nothing is written or read at first.
LEMMA InitShake == ShakeInit => ShakeInv
<1> SUFFICES ASSUME ShakeInit PROVE ShakeInv
  OBVIOUS
<1>1. ShakeTypeOK
  BY DEF ShakeInit, ShakeTypeOK, Stages
<1>2. \A p \in Peers : Written(p)
  BY DEF ShakeInit, Written, Other, Peers
<1> QED
  BY <1>1, <1>2 DEF ShakeInv

\* Every step of the handshake keeps the books of what is written and read; no
\* process leaves the program for it.
LEMMA ShakeStep ==
  ASSUME ShakeInv, Greet \/ \E p \in Peers : Shake(p)
  PROVE  /\ ShakeInv'
         /\ stage[Client] = "running" => stage'[Client] = "running"
<1> USE PeersDiffer, InfoAssumption, AfterAssumption
<1>1. \A p \in Peers : Other(p) \in Peers /\ Other(p) # p /\ Other(Other(p)) = p
  BY DEF Peers, Other
<1>2. Server \in Peers /\ Client \in Peers
  BY DEF Peers
<1>3. CASE Greet
  <2>1. /\ \E p \in Peers, next \in {"accept", "write", "exited"} :
              /\ stage[p] \in {"start", "accept"}
              /\ stage' = [stage EXCEPT ![p] = next]
        /\ linked' \in {linked, TRUE} /\ UNCHANGED <<wrote, got>>
    BY <1>2, <1>3 DEF Greet, Listen, Connect, ConnectRefused, Accept, Enter, Exit
  <2>2. PICK p \in Peers, next \in {"accept", "write", "exited"} :
          /\ stage[p] \in {"start", "accept"}
          /\ stage' = [stage EXCEPT ![p] = next]
    BY <2>1
  <2>3. /\ stage' \in [Peers -> Stages]
        /\ stage'[p] = next /\ \A q \in Peers \ {p} : stage'[q] = stage[q]
    BY <2>2 DEF ShakeInv, ShakeTypeOK, Stages
  <2>4. ShakeTypeOK'
    BY <2>1, <2>3 DEF ShakeInv, ShakeTypeOK
  <2>5. ASSUME NEW q \in Peers PROVE Written(q)'
    <3>1. CASE q = p
      BY <1>1, <2>1, <2>2, <2>3, <3>1 DEF ShakeInv, Written
    <3>2. CASE q # p
      BY <1>1, <2>1, <2>3, <3>2 DEF ShakeInv, Written
    <3> QED
      BY <3>1, <3>2
  <2>6. stage[Client] = "running" => stage'[Client] = "running"
    BY <1>2, <2>2, <2>3
  <2> QED
    BY <2>4, <2>5, <2>6 DEF ShakeInv
<1>4. ASSUME NEW p \in Peers, Shake(p)
      PROVE  /\ ShakeInv'
             /\ stage[Client] = "running" => stage'[Client] = "running"
  <2> DEFINE o == Other(p)
  <2>1. o \in Peers /\ o # p /\ Other(o) = p /\ \A q \in Peers : q = p \/ q = o
    BY DEF Peers, Other
  <2>2. /\ stage \in [Peers -> Stages] /\ wrote \in [Peers -> Nat] /\ got \in [Peers -> Nat]
        /\ linked \in BOOLEAN /\ Written(p) /\ Written(o)
    BY <2>1 DEF ShakeInv, ShakeTypeOK
  <2> HIDE DEF o
  <2>3. PICK next \in Stages, w \in Nat, g \in Nat :
          /\ stage' = [stage EXCEPT ![p] = next]
          /\ wrote' = [wrote EXCEPT ![p] = w]
          /\ got' = [got EXCEPT ![p] = g]
          /\ linked' = linked
          /\ stage[p] \notin {"running", "start", "accept", "closed"}
          /\ w >= wrote[p] /\ g <= wrote[o]
          /\ \/ stage[p] = "write" /\ next = "read" /\ w = wrote[p] + InfoLen /\ g = got[p]
             \/ stage[p] = "read" /\ next = AfterExchange /\ w = wrote[p]
                /\ g = got[p] + InfoLen
             \/ stage[p] = "sync" /\ next = "await" /\ w = wrote[p] + 1 /\ g = got[p]
             \/ stage[p] = "await" /\ next = "running" /\ w = wrote[p] /\ g >= got[p]
             \/ next = "exited" /\ w = wrote[p] /\ g >= got[p]
    <3>1. CASE WriteInfo(p)
      <4>1. /\ stage[p] = "write" /\ stage' = [stage EXCEPT ![p] = "read"]
            /\ wrote' = [wrote EXCEPT ![p] = wrote[p] + InfoLen]
            /\ got' = [got EXCEPT ![p] = got[p]] /\ linked' = linked
        BY <2>2, <3>1 DEF WriteInfo, Enter
      <4>2. wrote[p] + InfoLen \in Nat /\ got[p] \in Nat /\ "read" \in Stages
            /\ wrote[p] + InfoLen >= wrote[p] /\ got[p] <= wrote[o]
        BY <2>1, <2>2 DEF Stages, Written, o
      <4> QED
        BY <4>1, <4>2
    <3>2. CASE ReadInfo(p)
      <4>1. PICK n \in 1 .. InfoLen :
              /\ n <= Pending(p) /\ got' = [got EXCEPT ![p] = got[p] + n]
              /\ stage' = [stage EXCEPT ![p] = IF n = InfoLen THEN AfterExchange
                                               ELSE "exited"]
        BY <2>2, <3>2 DEF ReadInfo, Enter, WholeStructure
      <4>2. /\ stage[p] = "read" /\ wrote' = [wrote EXCEPT ![p] = wrote[p]]
            /\ linked' = linked
        BY <2>2, <3>2 DEF ReadInfo
      <4>3. /\ got[p] + n \in Nat /\ wrote[p] \in Nat /\ got[p] + n <= wrote[o]
            /\ got[p] + n >= got[p] /\ wrote[p] >= wrote[p]
        BY <2>1, <2>2, <4>1 DEF Pending, o
      <4>4. AfterExchange \in Stages /\ "exited" \in Stages
        BY DEF Stages
      <4>5. CASE n = InfoLen
        BY <4>1, <4>2, <4>3, <4>4, <4>5
      <4>6. CASE n # InfoLen
        BY <4>1, <4>2, <4>3, <4>4, <4>6
      <4> QED
        BY <4>5, <4>6
    <3>3. CASE ExchangeFails(p) \/ SyncKilled(p)
      <4>1. /\ stage[p] \in {"write", "read", "sync"}
            /\ stage' = [stage EXCEPT ![p] = "exited"]
            /\ wrote' = [wrote EXCEPT ![p] = wrote[p]]
            /\ got' = [got EXCEPT ![p] = got[p]] /\ linked' = linked
        BY <2>2, <3>3 DEF ExchangeFails, SyncKilled, Exit, Enter
      <4>2. wrote[p] \in Nat /\ got[p] \in Nat /\ "exited" \in Stages /\ got[p] <= wrote[o]
            /\ wrote[p] >= wrote[p] /\ got[p] >= got[p]
        BY <2>1, <2>2 DEF Stages, Written, o
      <4> QED
        BY <4>1, <4>2
    <3>4. CASE SendSync(p)
      <4>1. /\ stage[p] = "sync" /\ stage' = [stage EXCEPT ![p] = "await"]
            /\ wrote' = [wrote EXCEPT ![p] = wrote[p] + 1]
            /\ got' = [got EXCEPT ![p] = got[p]] /\ linked' = linked
        BY <2>2, <3>4 DEF SendSync, Enter
      <4>2. wrote[p] + 1 \in Nat /\ got[p] \in Nat /\ "await" \in Stages
            /\ wrote[p] + 1 >= wrote[p] /\ got[p] <= wrote[o]
        BY <2>1, <2>2 DEF Stages, Written, o
      <4> QED
        BY <4>1, <4>2
    <3>5. CASE RecvSync(p)
      <4> DEFINE g == IF Pending(p) > 0 THEN got[p] + 1 ELSE got[p]
      <4>1. /\ stage[p] = "await" /\ stage' = [stage EXCEPT ![p] = "running"]
            /\ wrote' = [wrote EXCEPT ![p] = wrote[p]]
            /\ got' = [got EXCEPT ![p] = g] /\ linked' = linked
        BY <2>2, <3>5 DEF RecvSync, Enter
      <4>2. /\ g \in Nat /\ g <= wrote[o] /\ g >= got[p]
            /\ wrote[p] \in Nat /\ wrote[p] >= wrote[p] /\ "running" \in Stages
        BY <2>1, <2>2 DEF Stages, Written, Pending, o
      <4> HIDE DEF g
      <4> QED
        BY <4>1, <4>2
    <3> QED
      BY <1>4, <3>1, <3>2, <3>3, <3>4, <3>5 DEF Shake
  <2>4. /\ stage' \in [Peers -> Stages] /\ wrote' \in [Peers -> Nat] /\ got' \in [Peers -> Nat]
        /\ stage'[p] = next /\ wrote'[p] = w /\ got'[p] = g
        /\ stage'[o] = stage[o] /\ wrote'[o] = wrote[o] /\ got'[o] = got[o]
    BY <2>1, <2>2, <2>3
  <2>5. ShakeTypeOK'
    BY <2>2, <2>3, <2>4 DEF ShakeTypeOK
  <2>6. Written(p)'
    <3>1. wrote[p] \in Nat /\ got[p] \in Nat
      BY <2>2
    <3>2. got'[p] <= wrote'[Other(p)]
      BY <2>3, <2>4 DEF o
    <3> QED
      BY <2>2, <2>3, <2>4, <3>1, <3>2 DEF Written
  <2>7. Written(o)'
    <3>1. wrote[p] \in Nat /\ got[o] \in Nat /\ got[o] <= wrote[p]
      BY <2>1, <2>2 DEF Written
    <3>2. got'[o] <= wrote'[Other(o)]
      BY <2>1, <2>3, <2>4, <3>1
    <3> QED
      BY <2>2, <2>4, <3>2 DEF Written
  <2>8. stage[Client] = "running" => stage'[Client] = "running"
    BY <1>2, <2>1, <2>3, <2>4
  <2> QED
    BY <2>1, <2>5, <2>6, <2>7, <2>8 DEF ShakeInv
<1> QED
  BY <1>3, <1>4

\* The program proper only closes a process, or ends it.
LEMMA RunStep ==
  ASSUME ShakeInv, NEW p \in Peers, stage[p] = "running",
         NEW next \in {"running", "closed", "exited"}, Enter(p, next),
         UNCHANGED <<linked, wrote, got>>
  PROVE  ShakeInv' /\ stage'[p] = next /\ \A q \in Peers \ {p} : stage'[q] = stage[q]
<1>1. /\ stage' \in [Peers -> Stages]
      /\ stage'[p] = next /\ \A q \in Peers \ {p} : stage'[q] = stage[q]
  BY DEF ShakeInv, ShakeTypeOK, Stages, Enter
<1>2. ShakeTypeOK'
  BY <1>1 DEF ShakeInv, ShakeTypeOK
<1>3. ASSUME NEW q \in Peers PROVE Written(q)'
  <2>1. CASE q = p
    BY <1>1, <2>1 DEF ShakeInv, Written
  <2>2. CASE q # p
    BY <1>1, <2>2 DEF ShakeInv, Written
  <2> QED
    BY <2>1, <2>2
<1> QED
  BY <1>1, <1>2, <1>3 DEF ShakeInv

----------------------------------------------------------------------------
(* The datagrams: the start, and the sender.                               *)

\* Everything is empty at first.
LEMMA InitUd == UdInit => UdInv
<1> SUFFICES ASSUME UdInit PROVE UdInv
  OBVIOUS
<1> USE UdAssumption DEF UdInit
<1>1. UdTypeOK
  <2>1. 0 \in 0 .. NumRecvBufs /\ mem \in [Bufs -> 0 .. NumMsgs]
    OBVIOUS
  <2> QED
    BY <2>1 DEF UdTypeOK
<1>2. QueuesOK
  BY DEF QueuesOK
<1>3. PoolOK
  <2>1. \A b \in Bufs : b # 0
    BY DEF Bufs
  <2>2. Pool = {} /\ PoolSize = 0
    BY DEF Pool, PoolSize
  <2>3. \A b : ~Names(<<>>, b) /\ NamesOnce(<<>>, b)
    BY DEF Names, NamesOnce
  <2> QED
    BY <2>1, <2>2, <2>3, HoldsNothing DEF PoolOK
<1>4. MessagesOK
  <2>1. Sent = {}
    BY DEF Sent
  <2>2. \A b : ~Unread(b)
    BY DEF Unread, Names
  <2>3. \A m : ~Holds(printed, m)
    BY HoldsNothing
  <2> QED
    BY <2>1, <2>2, <2>3 DEF MessagesOK
<1> QED
  BY <1>1, <1>2, <1>3, <1>4 DEF UdInv

\* A step of the sender alone, that sends nothing yet.
LEMMA Quiet ==
  ASSUME UdInv, UNCHANGED <<flying, missed, receiverVars, rq, mem, recvCq>>,
         sender' \in {"address", "top", "transmit", "sent", "failed", "done"},
         sending' \in Nat, sendCq' \in Nat, sending' <= NumMsgs,
         sender' = "transmit" => sending' >= 1,
         Sent' = Sent
  PROVE  UdInv'
<1>1. /\ UNCHANGED <<flying, missed, rq, mem, recvCq, receiver, count, current, printed>>
      /\ Pool' = Pool /\ PoolSize' = PoolSize
  BY DEF receiverVars, Pool, PoolSize
<1>2. \A b : Unread(b)' <=> Unread(b)
  BY <1>1 DEF Unread
<1>3. UdTypeOK' /\ QueuesOK'
  BY <1>1 DEF UdInv, UdTypeOK, QueuesOK
<1>4. PoolOK'
  BY <1>1 DEF UdInv, PoolOK
<1>5. MessagesOK'
  BY <1>1, <1>2 DEF UdInv, MessagesOK
<1> QED
  BY <1>3, <1>4, <1>5 DEF UdInv

\* The sender formats a message, or waits for the send.
LEMMA SenderStep ==
  ASSUME UdInv, Sender
  PROVE  UdInv'
<1>1. UNCHANGED <<flying, missed, receiverVars, rq, mem, recvCq>>
  BY DEF Sender, CreateAh, Send, PollSend, SenderDone
<1>2. sending \in Nat /\ sendCq \in Nat /\ NumMsgs \in Nat /\ sending <= NumMsgs
  BY UdAssumption DEF UdInv, UdTypeOK, MessagesOK
<1>3. CASE CreateAh \/ SenderDone
  <2>1. /\ sender' \in {"top", "failed", "done"} /\ sender \in {"address", "top"}
        /\ UNCHANGED <<sending, sendCq>>
    BY <1>3 DEF CreateAh, SenderDone
  <2>2. Sent' = Sent
    BY <2>1 DEF Sent
  <2> QED
    BY <1>1, <1>2, <2>1, <2>2, Quiet
<1>4. CASE Send
  <2>1. /\ sender = "top" /\ sender' = "transmit" /\ sending < NumMsgs
        /\ sending' = sending + 1 /\ sendCq' = sendCq
    BY <1>4 DEF Send, BufferFree, MoreToSend
  <2>2. Sent' = Sent
    BY <1>2, <2>1 DEF Sent
  <2>3. sending' \in Nat /\ sending' <= NumMsgs /\ sending' >= 1
    BY <1>2, <2>1
  <2> QED
    BY <1>1, <1>2, <2>1, <2>2, <2>3, Quiet
<1>5. CASE PollSend
  <2>1. /\ sender = "sent" /\ sender' = "top" /\ sendCq > 0
        /\ sending' = sending /\ sendCq' = sendCq - 1
    BY <1>5 DEF PollSend
  <2>2. Sent' = Sent
    BY <2>1 DEF Sent
  <2> QED
    BY <1>1, <1>2, <2>1, <2>2, Quiet
<1> QED
  BY <1>3, <1>4, <1>5 DEF Sender

----------------------------------------------------------------------------
(* The receiver.                                                           *)

\* One more buffer is posted.
LEMMA PrePostStep ==
  ASSUME UdInv, PrePost
  PROVE  UdInv'
<1>1. /\ receiver = "post" /\ PostReceive(<<count + 1>>)
      /\ \/ count + 1 = NumRecvBufs /\ receiver' = "poll" /\ count' = 0
         \/ count + 1 # NumRecvBufs /\ receiver' = "post" /\ count' = count + 1
      /\ UNCHANGED <<sender, sending, sendCq, flying, missed, mem, recvCq, current, printed>>
  BY DEF PrePost, senderVars
<1>2. count \in Nat /\ count < NumRecvBufs /\ NumRecvBufs \in Nat /\ count + 1 \in Bufs
  BY <1>1, UdAssumption DEF UdInv, UdTypeOK, PoolOK, Bufs
<1>3. /\ rq' \in Seq(Bufs) /\ Len(rq) \in Nat /\ Len(rq') = Len(rq) + 1
      /\ \A x : Holds(rq', x) <=> Holds(rq, x) \/ x = count + 1
      /\ \A x : Once(rq, x) /\ (x = count + 1 => ~Holds(rq, x)) => Once(rq', x)
  BY <1>1, <1>2, PostOne DEF UdInv
<1>4. UdTypeOK' /\ QueuesOK'
  BY <1>1, <1>2, <1>3 DEF UdInv, UdTypeOK, QueuesOK
<1>5. PoolOK'
  <2>1. Pool = 1 .. count /\ Pool' = 1 .. count + 1 /\ count + 1 \notin 1 .. count
    BY <1>1, <1>2 DEF Pool, Bufs
  <2>2. \A b \in Bufs : b \in Pool' <=> b \in Pool \/ b = count + 1
    BY <1>2, <2>1 DEF Bufs
  <2>3. current = 0 /\ current' = 0 /\ receiver' \notin {"print", "repost"}
    BY <1>1 DEF UdInv, PoolOK
  <2>4. receiver' = "post" => count' < NumRecvBufs
    BY <1>1, <1>2
  <2>5. 0 \notin Bufs
    BY DEF Bufs
  <2>6. ~Holds(rq, count + 1) /\ ~Names(recvCq, count + 1)
    BY <1>2, <2>1 DEF UdInv, PoolOK
  <2>7. Len(rq') + Len(recvCq') + (IF current' = 0 THEN 0 ELSE 1) = PoolSize'
    <3>1. Len(recvCq) \in Nat
      BY LenProperties DEF UdInv, QueuesOK
    <3>2. Len(rq) + Len(recvCq) = count
      BY <1>1, <1>3, <2>3, <3>1 DEF UdInv, PoolOK, PoolSize
    <3>3. PoolSize' = count + 1
      BY <1>1 DEF PoolSize
    <3> QED
      BY <1>1, <1>2, <1>3, <2>3, <3>1, <3>2, <3>3
  <2>8. \A b \in Bufs :
          /\ Once(rq', b) /\ NamesOnce(recvCq, b)
          /\ Holds(rq', b) => ~Names(recvCq, b) /\ current # b
          /\ Names(recvCq, b) => current # b
          /\ Holds(rq', b) \/ Names(recvCq, b) \/ current = b <=> b \in Pool'
    BY <1>3, <2>2, <2>3, <2>5, <2>6 DEF UdInv, PoolOK
  <2> QED
    BY <1>1, <2>3, <2>4, <2>7, <2>8 DEF PoolOK
<1>6. MessagesOK'
  <2>1. (\A b : Unread(b)' <=> Unread(b)) /\ Sent' = Sent
    BY <1>1 DEF Unread, Sent
  <2> QED
    BY <1>1, <2>1 DEF UdInv, MessagesOK
<1> QED
  BY <1>4, <1>5, <1>6 DEF UdInv

\* A completion is polled, and the program holds its buffer.
LEMMA PollReceiveStep ==
  ASSUME UdInv, PollReceive
  PROVE  UdInv'
<1> DEFINE b0 == Head(recvCq).buf
<1>1. /\ receiver = "poll" /\ recvCq # <<>> /\ receiver' = "print"
      /\ current' = b0 /\ recvCq' = Tail(recvCq)
      /\ UNCHANGED <<sender, sending, sendCq, flying, missed, count, mem, printed, rq>>
  BY DEF PollReceive, TakeCompletion, senderVars
<1>2. /\ recvCq' \in Seq([buf : Bufs, msg : Msgs]) /\ b0 \in Bufs
      /\ Names(recvCq, b0)
      /\ \A b : Names(recvCq', b) => Names(recvCq, b)
      /\ \A b : Names(recvCq, b) => Names(recvCq', b) \/ b = b0
      /\ \A b : NamesOnce(recvCq, b) => NamesOnce(recvCq', b)
      /\ \A b : NamesOnce(recvCq, b) /\ b = b0 => ~Names(recvCq', b)
  BY <1>1, NamesTail DEF UdInv, QueuesOK
<1>3. /\ Len(recvCq) \in Nat /\ Len(recvCq) >= 1 /\ Len(recvCq') = Len(recvCq) - 1
      /\ \A i \in 1 .. Len(recvCq') : recvCq'[i] = recvCq[i + 1]
  BY <1>1, HeadTailProperties, LenProperties, EmptySeq DEF UdInv, QueuesOK
<1> HIDE DEF b0
<1>4. b0 # 0 /\ b0 \in 0 .. NumRecvBufs /\ 0 \notin Bufs /\ current = 0
  BY <1>1, <1>2, UdAssumption DEF Bufs, UdInv, PoolOK
<1>5. UdTypeOK' /\ QueuesOK'
  BY <1>1, <1>2, <1>4 DEF UdInv, UdTypeOK, QueuesOK
<1>6. \A b \in Bufs : Names(recvCq, b) <=> Names(recvCq', b) \/ b = b0
  BY <1>2
<1>7. PoolOK'
  <2>1. Pool' = Pool /\ PoolSize' = PoolSize
    BY <1>1 DEF Pool, PoolSize
  <2>2. Len(rq') + Len(recvCq') + (IF current' = 0 THEN 0 ELSE 1) = PoolSize'
    <3>1. Len(rq) \in Nat
      BY LenProperties DEF UdInv, QueuesOK
    <3>2. Len(rq) + Len(recvCq) = PoolSize
      BY <1>3, <1>4, <3>1 DEF UdInv, PoolOK
    <3> QED
      BY <1>1, <1>3, <1>4, <2>1, <3>1, <3>2
  <2>3. NamesOnce(recvCq, b0)
    BY <1>2 DEF UdInv, PoolOK
  <2>4. \A b \in Bufs :
          /\ Once(rq, b) /\ NamesOnce(recvCq', b)
          /\ Holds(rq, b) => ~Names(recvCq', b) /\ b0 # b
          /\ Names(recvCq', b) => b0 # b
          /\ Holds(rq, b) \/ Names(recvCq', b) \/ b0 = b <=> b \in Pool
    BY <1>2, <1>4, <1>6, <2>3 DEF UdInv, PoolOK
  <2> QED
    BY <1>1, <1>4, <2>1, <2>2, <2>4 DEF PoolOK
<1>8. MessagesOK'
  <2>1. \A b \in Bufs : Unread(b)' <=> Unread(b)
    BY <1>1, <1>4, <1>6 DEF Unread
  <2>2. Sent' = Sent
    BY <1>1 DEF Sent
  <2>3. \A i \in 1 .. Len(recvCq') : mem'[recvCq'[i].buf] = recvCq'[i].msg
    <3>1. \A i \in 1 .. Len(recvCq') : i + 1 \in 1 .. Len(recvCq)
      BY <1>3
    <3> QED
      BY <1>1, <1>3, <3>1 DEF UdInv, MessagesOK
  <2> QED
    BY <1>1, <2>1, <2>2, <2>3 DEF UdInv, MessagesOK
<1> QED
  BY <1>5, <1>7, <1>8 DEF UdInv

\* The message in the buffer is printed.
LEMMA PrintMessageStep ==
  ASSUME UdInv, PrintMessage
  PROVE  UdInv'
<1>1. /\ receiver = "print" /\ receiver' = "repost" /\ printed' = Append(printed, mem[current])
      /\ UNCHANGED <<sender, sending, sendCq, flying, missed, count, rq, mem, recvCq, current>>
  BY DEF PrintMessage, senderVars
<1>2. current \in Bufs /\ Unread(current) /\ ~Names(recvCq, current)
  BY <1>1, UdAssumption DEF UdInv, UdTypeOK, PoolOK, Unread, Bufs
<1>3. mem[current] \in Sent
  BY <1>2 DEF UdInv, MessagesOK
<1>4. mem[current] \in Msgs
  BY <1>2, <1>3, UdAssumption DEF UdInv, UdTypeOK, MessagesOK, Sent, Msgs
<1>5. /\ printed' \in Seq(Msgs)
      /\ \A x : Holds(printed', x) <=> Holds(printed, x) \/ x = mem[current]
  <2>1. printed \in Seq(Msgs)
    BY DEF UdInv, QueuesOK
  <2> QED
    BY <1>1, <1>4, <2>1, HoldsAppend
<1>6. UdTypeOK' /\ QueuesOK'
  BY <1>1, <1>5 DEF UdInv, UdTypeOK, QueuesOK
<1>7. PoolOK'
  <2>1. Pool' = Pool /\ PoolSize' = PoolSize
    BY <1>1 DEF Pool, PoolSize
  <2> QED
    BY <1>1, <2>1 DEF UdInv, PoolOK
<1>8. MessagesOK'
  <2>1. \A b \in Bufs : Unread(b)' <=> Unread(b) /\ b # current
    BY <1>1, <1>2 DEF Unread
  <2>2. Sent' = Sent
    BY <1>1 DEF Sent
  <2>3. \A b \in Bufs : Unread(b)' => mem[b] \in Sent
    BY <2>1 DEF UdInv, MessagesOK
  <2>4. \A m \in Msgs : Holds(printed', m) => m \in Sent
    BY <1>3, <1>5 DEF UdInv, MessagesOK
  <2>5. \A m \in Sent : \/ m \in flying \/ m \in missed
                        \/ Holds(printed', m)
                        \/ \E b \in Bufs : Unread(b)' /\ mem[b] = m
    BY <1>5, <2>1 DEF UdInv, MessagesOK
  <2>6. /\ sending <= NumMsgs
        /\ sender = "transmit" => sending >= 1
        /\ \A i \in 1 .. Len(recvCq) : mem[recvCq[i].buf] = recvCq[i].msg
        /\ flying \subseteq Sent /\ missed \subseteq Sent
    BY DEF UdInv, MessagesOK
  <2> QED
    BY <1>1, <2>2, <2>3, <2>4, <2>5, <2>6 DEF MessagesOK
<1> QED
  BY <1>6, <1>7, <1>8 DEF UdInv

\* The buffer is posted again.
LEMMA RepostStep ==
  ASSUME UdInv, Repost
  PROVE  UdInv'
<1>1. /\ receiver = "repost" /\ receiver' = "poll" /\ current' = 0 /\ count' = count + 1
      /\ PostReceive(<<current>>)
      /\ UNCHANGED <<sender, sending, sendCq, flying, missed, mem, recvCq, printed>>
  BY DEF Repost, Reposted, senderVars
<1>2. current \in Bufs /\ 0 \notin Bufs /\ current # 0
  BY <1>1, UdAssumption DEF UdInv, UdTypeOK, PoolOK, Bufs
<1>3. /\ rq' \in Seq(Bufs) /\ Len(rq) \in Nat /\ Len(rq') = Len(rq) + 1
      /\ \A x : Holds(rq', x) <=> Holds(rq, x) \/ x = current
      /\ \A x : Once(rq, x) /\ (x = current => ~Holds(rq, x)) => Once(rq', x)
  BY <1>1, <1>2, PostOne DEF UdInv
<1>4. UdTypeOK' /\ QueuesOK'
  BY <1>1, <1>3, UdAssumption DEF UdInv, UdTypeOK, QueuesOK
<1>5. PoolOK'
  <2>1. Pool' = Pool /\ PoolSize' = PoolSize
    BY <1>1 DEF Pool, PoolSize
  <2>2. Len(rq') + Len(recvCq') + (IF current' = 0 THEN 0 ELSE 1) = PoolSize'
    <3>1. Len(recvCq) \in Nat
      BY LenProperties DEF UdInv, QueuesOK
    <3>2. Len(rq) + Len(recvCq) + 1 = PoolSize
      BY <1>2 DEF UdInv, PoolOK
    <3> QED
      BY <1>1, <1>3, <2>1, <3>1, <3>2
  <2>3. \A b \in Bufs : Once(rq', b)
    BY <1>2, <1>3 DEF UdInv, PoolOK
  <2>4. \A b \in Bufs :
          /\ NamesOnce(recvCq, b)
          /\ Holds(rq', b) => ~Names(recvCq, b) /\ 0 # b
          /\ Names(recvCq, b) => 0 # b
          /\ Holds(rq', b) \/ Names(recvCq, b) \/ 0 = b <=> b \in Pool
    BY <1>2, <1>3 DEF UdInv, PoolOK
  <2> QED
    BY <1>1, <2>1, <2>2, <2>3, <2>4 DEF PoolOK
<1>6. MessagesOK'
  <2>1. (\A b : Unread(b)' <=> Unread(b)) /\ Sent' = Sent
    BY <1>1 DEF Unread, Sent
  <2> QED
    BY <1>1, <2>1 DEF UdInv, MessagesOK
<1> QED
  BY <1>4, <1>5, <1>6 DEF UdInv

\* The receiver ends.
LEMMA ReceiverDoneStep ==
  ASSUME UdInv, ReceiverDone
  PROVE  UdInv'
<1>1. /\ receiver = "poll" /\ receiver' = "done"
      /\ UNCHANGED <<sender, sending, sendCq, flying, missed, count, rq, mem, recvCq,
                     current, printed>>
  BY DEF ReceiverDone, senderVars
<1>2. UdTypeOK' /\ QueuesOK'
  BY <1>1 DEF UdInv, UdTypeOK, QueuesOK
<1>3. PoolOK'
  <2>1. Pool' = Pool /\ PoolSize' = PoolSize
    BY <1>1 DEF Pool, PoolSize
  <2> QED
    BY <1>1, <2>1 DEF UdInv, PoolOK
<1>4. MessagesOK'
  <2>1. (\A b : Unread(b)' <=> Unread(b)) /\ Sent' = Sent
    BY <1>1 DEF Unread, Sent
  <2> QED
    BY <1>1, <2>1 DEF UdInv, MessagesOK
<1> QED
  BY <1>2, <1>3, <1>4 DEF UdInv

----------------------------------------------------------------------------
(* The adapters and the fabric.                                            *)

\* A datagram leaves.
LEMMA TransmitStep ==
  ASSUME UdInv, Transmit
  PROVE  UdInv'
<1>1. /\ sender = "transmit" /\ sender' = "sent" /\ flying' = flying \cup {sending}
      /\ sendCq' = sendCq + 1
      /\ UNCHANGED <<sending, missed, receiver, count, current, printed, rq, mem, recvCq>>
  BY DEF Transmit, receiverVars
<1>2. sending \in Nat /\ sending \in Msgs /\ sendCq + 1 \in Nat
  BY <1>1, UdAssumption DEF UdInv, UdTypeOK, MessagesOK, Msgs
<1>3. Sent' = Sent \cup {sending} /\ sending \notin Sent
  BY <1>1, <1>2 DEF Sent, Msgs
<1>4. UdTypeOK' /\ QueuesOK'
  BY <1>1, <1>2 DEF UdInv, UdTypeOK, QueuesOK
<1>5. PoolOK'
  <2>1. Pool' = Pool /\ PoolSize' = PoolSize
    BY <1>1 DEF Pool, PoolSize
  <2> QED
    BY <1>1, <2>1 DEF UdInv, PoolOK
<1>6. MessagesOK'
  <2>1. \A b : Unread(b)' <=> Unread(b)
    BY <1>1 DEF Unread
  <2> QED
    BY <1>1, <1>3, <2>1 DEF UdInv, MessagesOK
<1> QED
  BY <1>4, <1>5, <1>6 DEF UdInv

\* A datagram is lost.
LEMMA MissStep ==
  ASSUME UdInv, NEW m \in Msgs, Miss(m)
  PROVE  UdInv'
<1>1. /\ m \in flying /\ flying' = flying \ {m} /\ missed' = missed \cup {m}
      /\ UNCHANGED <<sender, sending, sendCq, receiver, count, current, printed, rq, mem,
                     recvCq>>
  BY DEF Miss, senderVars, receiverVars
<1>2. UdTypeOK' /\ QueuesOK'
  BY <1>1 DEF UdInv, UdTypeOK, QueuesOK
<1>3. PoolOK'
  <2>1. Pool' = Pool /\ PoolSize' = PoolSize
    BY <1>1 DEF Pool, PoolSize
  <2> QED
    BY <1>1, <2>1 DEF UdInv, PoolOK
<1>4. MessagesOK'
  <2>1. (\A b : Unread(b)' <=> Unread(b)) /\ Sent' = Sent
    BY <1>1 DEF Unread, Sent
  <2> QED
    BY <1>1, <2>1 DEF UdInv, MessagesOK
<1> QED
  BY <1>2, <1>3, <1>4 DEF UdInv

\* A datagram arrives in the oldest posted buffer.
LEMMA ArriveStep ==
  ASSUME UdInv, NEW m \in Msgs, Arrive(m)
  PROVE  UdInv'
<1> DEFINE b0 == Head(rq)
           done == [buf |-> b0, msg |-> m]
<1>1. /\ m \in flying /\ rq # <<>> /\ flying' \in {flying, flying \ {m}}
      /\ mem' = [mem EXCEPT ![b0] = m]
      /\ recvCq' = Append(recvCq, done) /\ rq' = Tail(rq)
      /\ UNCHANGED <<sender, sending, sendCq, missed, receiver, count, current, printed>>
  BY DEF Arrive, senderVars, receiverVars
<1>2. /\ rq' \in Seq(Bufs) /\ b0 \in Bufs /\ Holds(rq, b0)
      /\ \A x : Holds(rq', x) => Holds(rq, x)
      /\ \A x : Holds(rq, x) => Holds(rq', x) \/ x = b0
      /\ \A x : Once(rq, x) => Once(rq', x)
      /\ \A x : Once(rq, x) /\ x = b0 => ~Holds(rq', x)
  BY <1>1, HoldsTail DEF UdInv, QueuesOK
<1>3. Len(rq) \in Nat /\ Len(rq) >= 1 /\ Len(rq') = Len(rq) - 1
  BY <1>1, HeadTailProperties, LenProperties, EmptySeq DEF UdInv, QueuesOK
<1> HIDE DEF b0
<1>4. done \in [buf : Bufs, msg : Msgs] /\ done.buf = b0 /\ done.msg = m
  BY <1>2
<1> HIDE DEF done
<1>5. recvCq \in Seq([buf : Bufs, msg : Msgs])
  BY DEF UdInv, QueuesOK
<1>6. /\ recvCq' \in Seq([buf : Bufs, msg : Msgs])
      /\ \A b : Names(recvCq', b) <=> Names(recvCq, b) \/ b = b0
      /\ \A b : NamesOnce(recvCq, b) /\ (b = b0 => ~Names(recvCq, b)) => NamesOnce(recvCq', b)
  BY <1>1, <1>4, <1>5, NamesAppend
<1>7. /\ Len(recvCq) \in Nat /\ Len(recvCq') = Len(recvCq) + 1
      /\ \A i \in 1 .. Len(recvCq) : recvCq'[i] = recvCq[i]
      /\ recvCq'[Len(recvCq) + 1] = done
  BY <1>1, <1>4, <1>5, AppendProperties, LenProperties
<1>8. /\ mem' \in [Bufs -> 0 .. NumMsgs] /\ mem'[b0] = m
      /\ \A b \in Bufs \ {b0} : mem'[b] = mem[b]
  <2>1. m \in 0 .. NumMsgs
    BY UdAssumption DEF Msgs
  <2> QED
    BY <1>1, <1>2, <2>1 DEF UdInv, UdTypeOK
<1>9. ~Names(recvCq, b0) /\ current # b0 /\ Once(rq, b0)
  BY <1>2 DEF UdInv, PoolOK
<1>10. UdTypeOK' /\ QueuesOK'
  BY <1>1, <1>2, <1>6, <1>8 DEF UdInv, UdTypeOK, QueuesOK
<1>11. PoolOK'
  <2>1. Pool' = Pool /\ PoolSize' = PoolSize
    BY <1>1 DEF Pool, PoolSize
  <2>2. Len(rq') + Len(recvCq') + (IF current' = 0 THEN 0 ELSE 1) = PoolSize'
    BY <1>1, <1>3, <1>7, <2>1 DEF UdInv, PoolOK
  <2>3. \A b \in Bufs :
          /\ Once(rq', b) /\ NamesOnce(recvCq', b)
          /\ Holds(rq', b) => ~Names(recvCq', b) /\ current # b
          /\ Names(recvCq', b) => current # b
          /\ Holds(rq', b) \/ Names(recvCq', b) \/ current = b <=> b \in Pool
    BY <1>2, <1>6, <1>9 DEF UdInv, PoolOK
  <2> QED
    BY <1>1, <2>1, <2>2, <2>3 DEF UdInv, PoolOK
<1>12. MessagesOK'
  <2>1. /\ \A b \in Bufs : Unread(b)' <=> Unread(b) \/ b = b0
        /\ ~Unread(b0)
    BY <1>1, <1>6, <1>9 DEF Unread
  <2>2. Sent' = Sent
    BY <1>1 DEF Sent
  <2>3. m \in Sent
    BY <1>1 DEF UdInv, MessagesOK
  <2>4. \A b \in Bufs : Unread(b)' => mem'[b] \in Sent
    BY <1>8, <2>1, <2>3 DEF UdInv, MessagesOK
  <2>5. \A x \in Sent : \/ x \in flying' \/ x \in missed \/ Holds(printed, x)
                        \/ \E b \in Bufs : Unread(b)' /\ mem'[b] = x
    BY <1>1, <1>2, <1>8, <2>1 DEF UdInv, MessagesOK
  <2>6. /\ flying' \subseteq Sent /\ missed \subseteq Sent
        /\ sending <= NumMsgs
        /\ sender = "transmit" => sending >= 1
        /\ \A x \in Msgs : Holds(printed, x) => x \in Sent
    BY <1>1 DEF UdInv, MessagesOK
  <2>7. \A i \in 1 .. Len(recvCq') : mem'[recvCq'[i].buf] = recvCq'[i].msg
    <3>1. ASSUME NEW i \in 1 .. Len(recvCq)
          PROVE  /\ mem[recvCq[i].buf] = recvCq[i].msg
                 /\ recvCq[i].buf # b0 /\ recvCq[i].buf \in Bufs
      <4>1. recvCq[i] \in [buf : Bufs, msg : Msgs]
        BY <1>5, ElementOfSeq
      <4> QED
        BY <1>9, <4>1 DEF UdInv, MessagesOK, Names
    <3>2. \A i \in 1 .. Len(recvCq') : i \in 1 .. Len(recvCq) \/ i = Len(recvCq) + 1
      BY <1>7
    <3>3. \A i \in 1 .. Len(recvCq) : mem'[recvCq'[i].buf] = recvCq'[i].msg
      BY <1>7, <1>8, <3>1
    <3>4. mem'[recvCq'[Len(recvCq) + 1].buf] = recvCq'[Len(recvCq) + 1].msg
      BY <1>4, <1>7, <1>8
    <3> QED
      BY <3>2, <3>3, <3>4
  <2> QED
    BY <1>1, <2>2, <2>4, <2>5, <2>6, <2>7 DEF MessagesOK
<1> QED
  BY <1>10, <1>11, <1>12 DEF UdInv

----------------------------------------------------------------------------
(* The program, and the properties of the run.                             *)

\* It starts in the invariant ...
LEMMA InitIInv == ProgramInit => IInv
BY InitShake, InitUd DEF ProgramInit, IInv, UdInit

\* ... every step of the handshake keeps it, ...
LEMMA DuringStep ==
  ASSUME IInv, During(Greet) \/ \E p \in Peers : During(Shake(p))
  PROVE  IInv'
<1>1. /\ Greet \/ \E p \in Peers : Shake(p)
      /\ sender' = IF stage'[Client] = "exited" THEN "failed" ELSE sender
      /\ UNCHANGED <<sending, sendCq, flying, missed, receiverVars, rq, mem, recvCq>>
  BY DEF During
<1>2. ShakeInv' /\ (stage[Client] = "running" => stage'[Client] = "running")
  BY <1>1, ShakeStep DEF IInv
<1>3. sender' = sender \/ (sender' = "failed" /\ sender # "transmit")
  BY <1>1, <1>2 DEF IInv
<1>4. UdInv'
  <2>1. Sent' = Sent
    BY <1>1, <1>3 DEF Sent
  <2>2. /\ sender' \in {"address", "top", "transmit", "sent", "failed", "done"}
        /\ sending' \in Nat /\ sendCq' \in Nat /\ sending' <= NumMsgs
        /\ sender' = "transmit" => sending' >= 1
    BY <1>1, <1>3 DEF IInv, UdInv, UdTypeOK, MessagesOK
  <2> QED
    BY <1>1, <2>1, <2>2, Quiet DEF IInv
<1> QED
  BY <1>1, <1>2, <1>3, <1>4 DEF IInv

\* ... and every step behind it.
LEMMA RunSteps ==
  ASSUME IInv, RunSender \/ RunReceiver \/ Transfer
  PROVE  IInv'
<1>1. Server \in Peers /\ Client \in Peers /\ Server # Client
  BY PeersDiffer DEF Peers
<1>2. CASE RunSender
  <2>1. UdInv'
    BY <1>2, SenderStep DEF RunSender, IInv
  <2> DEFINE next == IF sender' = "done" THEN "closed"
                     ELSE IF sender' = "failed" THEN "exited" ELSE stage[Client]
  <2>2. stage[Client] = "running" /\ Enter(Client, next) /\ UNCHANGED <<linked, wrote, got>>
    BY <1>2 DEF RunSender
  <2>3. next \in {"running", "closed", "exited"}
    BY <2>2
  <2>4. sender' = "transmit" => next = "running"
    BY <2>2
  <2> HIDE DEF next
  <2>5. ShakeInv' /\ stage'[Client] = next
    BY <1>1, <2>2, <2>3, RunStep DEF IInv
  <2> QED
    BY <2>1, <2>4, <2>5 DEF IInv
<1>3. CASE RunReceiver
  <2>1. UdInv' /\ sender' = sender
    <3>1. UNCHANGED sender
      BY <1>3 DEF RunReceiver, Receiver, PrePost, PollReceive, TakeCompletion, PrintMessage,
                  Repost, ReceiverDone, senderVars
    <3> QED
      BY <1>3, <3>1, PrePostStep, PollReceiveStep, PrintMessageStep, RepostStep,
         ReceiverDoneStep DEF RunReceiver, Receiver, IInv
  <2> DEFINE next == IF receiver' = "done" THEN "closed" ELSE stage[Server]
  <2>2. stage[Server] = "running" /\ Enter(Server, next) /\ UNCHANGED <<linked, wrote, got>>
    BY <1>3 DEF RunReceiver
  <2>3. next \in {"running", "closed", "exited"}
    BY <2>2
  <2> HIDE DEF next
  <2>4. ShakeInv' /\ stage'[Client] = stage[Client]
    BY <1>1, <2>2, <2>3, RunStep DEF IInv
  <2> QED
    BY <2>1, <2>4 DEF IInv
<1>4. CASE Transfer
  <2>1. UdInv' /\ (sender' = sender \/ sender' = "sent")
    <3>1. sender' = sender \/ sender' = "sent"
      BY <1>4 DEF Transfer, Network, Transmit, Arrive, Miss, senderVars
    <3> QED
      BY <1>4, <3>1, TransmitStep, ArriveStep, MissStep DEF Transfer, Network, IInv
  <2>2. ShakeInv' /\ stage' = stage
    BY <1>4 DEF Transfer, shakeVars, IInv, ShakeInv, ShakeTypeOK, Written
  <2> QED
    BY <2>1, <2>2 DEF IInv
<1> QED
  BY <1>2, <1>3, <1>4

\* Every step of the program preserves the inductive invariant.
LEMMA NextIInv == IInv /\ [ProgramNext]_programVars => IInv'
<1> SUFFICES ASSUME IInv, [ProgramNext]_programVars PROVE IInv'
  OBVIOUS
<1>1. CASE ProgramNext
  BY <1>1, DuringStep, RunSteps DEF ProgramNext
<1>2. CASE UNCHANGED programVars
  <2>1. UNCHANGED <<stage, linked, wrote, got>>
    BY <1>2 DEF programVars, shakeVars
  <2>2. UNCHANGED <<sender, sending, sendCq, flying, missed, rq, mem, recvCq, receiverVars>>
    BY <1>2 DEF programVars, udVars, receiverVars
  <2>3. ShakeInv'
    BY <2>1 DEF IInv, ShakeInv, ShakeTypeOK, Written
  <2>4. UdInv'
    <3>1. Sent' = Sent
      BY <2>2 DEF Sent
    <3>2. /\ sender' \in {"address", "top", "transmit", "sent", "failed", "done"}
          /\ sending' \in Nat /\ sendCq' \in Nat /\ sending' <= NumMsgs
          /\ sender' = "transmit" => sending' >= 1
      BY <2>2 DEF IInv, UdInv, UdTypeOK, MessagesOK
    <3> QED
      BY <2>2, <3>1, <3>2, Quiet DEF IInv
  <2> QED
    BY <2>1, <2>2, <2>3, <2>4 DEF IInv
<1> QED
  BY <1>1, <1>2

\* The inductive invariant holds in every state of the program.
THEOREM Inductive == ProgramSpec => []IInv
<1>1. ProgramSpec => ProgramInit /\ [][ProgramNext]_programVars
  BY PTL DEF ProgramSpec
<1> QED
  BY <1>1, InitIInv, NextIInv, PTL

\* NothingTorn: although a read() is not repeated, no process goes on with a part
\* of a structure, or takes a byte of it for the sync byte.
THEOREM WholeOnly == ProgramSpec => []NothingTorn
<1>1. IInv => NothingTorn
  <2> SUFFICES ASSUME IInv, NEW p \in Peers
               PROVE  /\ stage[p] \in {"setup", "sync", "await"} => got[p] = InfoLen
                      /\ stage[p] \in {"running", "closed"} => got[p] >= InfoLen
                      /\ got[p] <= wrote[Other(p)]
    BY DEF NothingTorn
  <2> QED
    BY DEF IInv, ShakeInv, Written
<1> QED
  BY <1>1, Inductive, PTL

\* BuffersConserved: each buffer posted once is posted, completed or in the hands
\* of the program, and none is posted twice.
THEOREM Conserved == ProgramSpec => []BuffersConserved
<1>1. IInv => BuffersConserved
  <2> SUFFICES ASSUME IInv PROVE BuffersConserved
    OBVIOUS
  <2>1. \A x \in SeqSet(rq) : x \in Bufs /\ Holds(rq, x)
    BY ElementOfSeq DEF SeqSet, Holds, IInv, UdInv, QueuesOK
  <2>2. \A x \in CqBufs : x \in Bufs /\ Names(recvCq, x)
    <3> SUFFICES ASSUME NEW i \in 1 .. Len(recvCq)
                 PROVE  recvCq[i].buf \in Bufs /\ Names(recvCq, recvCq[i].buf)
      BY DEF CqBufs
    <3>1. recvCq[i] \in [buf : Bufs, msg : Msgs]
      BY ElementOfSeq DEF IInv, UdInv, QueuesOK
    <3> QED
      BY <3>1 DEF Names
  <2>3. \A b \in Bufs : (Holds(rq, b) => b \in SeqSet(rq)) /\ (Names(recvCq, b) => b \in CqBufs)
    BY DEF SeqSet, CqBufs, Holds, Names
  <2>4. current # 0 => current \in Bufs
    BY UdAssumption DEF IInv, UdInv, UdTypeOK, Bufs
  <2>5. Pool \subseteq Bufs /\ 0 \notin Bufs
    BY UdAssumption DEF Pool, Bufs, IInv, UdInv, UdTypeOK, PoolOK
  <2>6. Pool = SeqSet(rq) \cup CqBufs \cup (IF current = 0 THEN {} ELSE {current})
    BY <2>1, <2>2, <2>3, <2>4, <2>5 DEF IInv, UdInv, PoolOK
  <2>7. Len(rq) + Len(recvCq) + (IF current = 0 THEN 0 ELSE 1) = PoolSize
    BY DEF IInv, UdInv, PoolOK
  <2> QED
    BY <2>6, <2>7 DEF BuffersConserved, Pool, PoolSize
<1> QED
  BY <1>1, Inductive, PTL

\* NothingOverwritten: the adapter writes only to a posted buffer, and no posted
\* buffer holds a message that has not been printed; a message stays in its buffer
\* until then, however many more arrive.
THEOREM KeptUntilPrinted == ProgramSpec => NothingOverwritten
<1>1. ASSUME IInv, ProgramNext, NEW b \in Unprinted
      PROVE  mem'[b] = mem[b]
  <2>1. b \in Bufs /\ Unread(b)
    <3>1. CASE b \in CqBufs
      <4>1. PICK i \in 1 .. Len(recvCq) : b = recvCq[i].buf
        BY <3>1 DEF CqBufs
      <4>2. recvCq[i] \in [buf : Bufs, msg : Msgs]
        BY <1>1, ElementOfSeq DEF IInv, UdInv, QueuesOK
      <4> QED
        BY <4>1, <4>2 DEF Unread, Names
    <3>2. CASE receiver = "print" /\ b = current
      BY <1>1, <3>2, UdAssumption DEF IInv, UdInv, UdTypeOK, PoolOK, Bufs, Unread
    <3> QED
      BY <1>1, <3>1, <3>2 DEF Unprinted
  <2>2. ~Holds(rq, b)
    BY <1>1, <2>1 DEF IInv, UdInv, PoolOK, Unread
  <2>3. ASSUME NEW m \in Msgs, Arrive(m) PROVE mem'[b] = mem[b]
    <3>1. rq # <<>> /\ mem' = [mem EXCEPT ![Head(rq)] = m]
      BY <2>3 DEF Arrive
    <3>2. Holds(rq, Head(rq))
      BY <1>1, <3>1, HoldsTail DEF IInv, UdInv, QueuesOK
    <3>3. b # Head(rq)
      BY <2>2, <3>2
    <3> QED
      BY <1>1, <2>1, <3>1, <3>3 DEF IInv, UdInv, UdTypeOK
  <2>4. CASE Transfer
    <3>1. (\E m \in Msgs : Arrive(m)) \/ mem' = mem
      BY <2>4 DEF Transfer, Network, Transmit, Miss
    <3> QED
      BY <2>3, <3>1
  <2>5. CASE RunSender
    BY <2>5 DEF RunSender, Sender, CreateAh, Send, PollSend, SenderDone
  <2>6. CASE RunReceiver
    BY <2>6 DEF RunReceiver, Receiver, PrePost, PollReceive, TakeCompletion, PrintMessage,
                Repost, ReceiverDone
  <2>7. CASE During(Greet) \/ \E p \in Peers : During(Shake(p))
    BY <2>7 DEF During
  <2> QED
    BY <1>1, <2>4, <2>5, <2>6, <2>7 DEF ProgramNext
<1>2. IInv /\ [ProgramNext]_programVars => [\A b \in Unprinted : mem'[b] = mem[b]]_udVars
  BY <1>1 DEF programVars
<1>3. ProgramSpec => [][ProgramNext]_programVars
  BY PTL DEF ProgramSpec
<1>4. NothingOverwritten <=> [][\A b \in Unprinted : mem'[b] = mem[b]]_udVars
  BY DEF NothingOverwritten
<1> QED
  BY <1>2, <1>3, <1>4, Inductive, PTL

\* NoSilentLoss: a datagram that has left has reached the receiver, is missed or on
\* its way.
THEOREM AllAccounted == ProgramSpec => []NoSilentLoss
<1>1. IInv => NoSilentLoss
  <2> SUFFICES ASSUME IInv PROVE NoSilentLoss
    OBVIOUS
  <2> DEFINE Waiting == {recvCq[i].msg : i \in 1 .. Len(recvCq)}
             InHand == IF receiver = "print" THEN {mem[current]} ELSE {}
  <2>1. SeqSet(printed) \subseteq Sent /\ \A m : Holds(printed, m) => m \in SeqSet(printed)
    <3>1. \A i \in 1 .. Len(printed) : printed[i] \in Msgs /\ Holds(printed, printed[i])
      BY ElementOfSeq DEF IInv, UdInv, QueuesOK, Holds
    <3> QED
      BY <3>1 DEF IInv, UdInv, MessagesOK, SeqSet, Holds
  <2>2. Waiting \subseteq Sent
    <3> SUFFICES ASSUME NEW i \in 1 .. Len(recvCq) PROVE recvCq[i].msg \in Sent
      OBVIOUS
    <3>1. recvCq[i] \in [buf : Bufs, msg : Msgs] /\ Unread(recvCq[i].buf)
      BY ElementOfSeq DEF IInv, UdInv, QueuesOK, Unread, Names
    <3>2. recvCq[i].buf \in Bufs /\ mem[recvCq[i].buf] = recvCq[i].msg
      BY <3>1 DEF IInv, UdInv, MessagesOK
    <3> QED
      BY <3>1, <3>2 DEF IInv, UdInv, MessagesOK
  <2>3. InHand \subseteq Sent
    <3> SUFFICES ASSUME receiver = "print" PROVE mem[current] \in Sent
      OBVIOUS
    <3>1. current \in Bufs /\ Unread(current)
      BY UdAssumption DEF IInv, UdInv, UdTypeOK, PoolOK, Bufs, Unread
    <3> QED
      BY <3>1 DEF IInv, UdInv, MessagesOK
  <2>4. \A b \in Bufs : Unread(b) => mem[b] \in Waiting \cup InHand
    <3> SUFFICES ASSUME NEW b \in Bufs, Unread(b) PROVE mem[b] \in Waiting \cup InHand
      OBVIOUS
    <3>1. CASE Names(recvCq, b)
      BY <3>1 DEF Names, IInv, UdInv, MessagesOK
    <3>2. CASE receiver = "print" /\ current = b
      BY <3>2
    <3> QED
      BY <3>1, <3>2 DEF Unread
  <2>5. flying \subseteq Sent /\ missed \subseteq Sent
    BY DEF IInv, UdInv, MessagesOK
  <2>6. \A m \in Sent : \/ m \in flying \/ m \in missed
                        \/ Holds(printed, m)
                        \/ \E b \in Bufs : Unread(b) /\ mem[b] = m
    BY DEF IInv, UdInv, MessagesOK
  <2> HIDE DEF Waiting, InHand
  <2>7. Sent = flying \cup missed \cup SeqSet(printed) \cup Waiting \cup InHand
    BY <2>1, <2>2, <2>3, <2>4, <2>5, <2>6
  <2> QED
    BY <2>7 DEF NoSilentLoss, Received, Sent, Waiting, InHand
<1> QED
  BY <1>1, Inductive, PTL
=============================================================================
