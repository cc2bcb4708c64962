----------------------------- MODULE SrqProofs -----------------------------
(***************************************************************************)
(* Proofs about Srq, for any number of queue pairs and buffers, any limit, *)
(* and devices of both kinds.  The invariant follows three things round:   *)
(* the event of the limit, from the device through the event thread; each  *)
(* buffer of the pool, from the shared queue through the completion queue  *)
(* and the main thread; and each message, from its queue pair through a    *)
(* buffer to the printed list, with a count of the completions that are    *)
(* still to come.                                                          *)
(***************************************************************************)
EXTENDS Srq, SequenceTheorems, FiniteSetTheorems, TLAPS

Setup == {"arm", "fill", "start"}
Busy == {"send", "poll", "print", "repost"}
Down == {"qps", "destroy", "wait", "close", "return", "done"}

\* Types of what holds no queue ...
SrqTypeOK ==
  /\ main \in Setup \cup Busy \cup Down
  /\ count \in Nat
  /\ current \in 0 .. NumBufs
  /\ thread \in {"none", "check", "get", "handle", "ack", "ended"}
  /\ running \in BOOLEAN
  /\ event \in {"none", "limit", "other"}
  /\ other \in Nat
  /\ armed \in BOOLEAN
  /\ live \subseteq {"srq", "ctx"}
  /\ failed \subseteq {"demo", "rearm"}
  /\ mem \in [Bufs -> 0 .. NumQps]
  /\ sending \subseteq Qps
  /\ unacked \subseteq Qps

\* ... and of the queues.
QueuesOK ==
  /\ heard \in Seq(Qps)
  /\ pending \in Seq({"limit", "other"})
  /\ srq \in Seq(Bufs)
  /\ cq \in Seq(0 .. NumBufs)

\* A queue holds an element, and holds it at one place only.
Holds(s, x) == \E i \in 1 .. Len(s) : s[i] = x
Once(s, x) == \A i, j \in 1 .. Len(s) : s[i] = x /\ s[j] = x => i = j

\* The limit is watched until the queue is destroyed, unless its arming has failed;
\* no event of it comes after that, and one that was fetched before is waited for.
\* When run_demo() has failed everything is taken down.
Watched ==
  /\ main \in Setup => thread = "none"
  /\ main \in {"fill", "start"} \cup Busy =>
       \/ armed \/ Holds(pending, "limit") \/ (thread = "handle" /\ event = "limit")
       \/ "rearm" \in failed
  /\ main \in Down \ {"qps", "destroy"} => ~armed /\ ~Holds(pending, "limit")
  /\ main \in Down \ {"qps", "destroy", "wait"} => event # "limit"
  /\ "demo" \in failed => main \in Down
  /\ "srq" \notin live => main \in Down \ {"qps", "destroy", "wait"}

\* The buffers posted so far.
Pool == IF main \in {"arm", "fill"} THEN 1 .. count ELSE Bufs

\* Each of them is in one place, and the main thread has one in its hands
\* between a receive and its reposting.
PoolOK ==
  /\ main = "arm" => count = 0
  /\ main = "fill" => count < NumBufs
  /\ current # 0 <=> main \in {"print", "repost"}
  /\ \A b \in Bufs :
       /\ Once(srq, b) /\ Once(cq, b)
       /\ Holds(srq, b) => ~Holds(cq, b) /\ current # b
       /\ Holds(cq, b) => current # b
       /\ Holds(srq, b) \/ Holds(cq, b) \/ current = b <=> b \in Pool

\* The messages sent so far.
Sent == IF main \in Setup THEN {} ELSE IF main = "send" THEN 1 .. count ELSE Qps

\* A buffer with a message that has not been printed.
Unread(b) == Holds(cq, b) \/ (main = "print" /\ current = b)

\* A message is on its way, in one such buffer, or printed; when run_demo() has
\* failed it may also have gone with its queue pair.
MessagesOK ==
  /\ main = "start" => count = 0
  /\ main = "send" => count < NumQps
  /\ sending \subseteq Sent /\ unacked \subseteq Sent /\ sending \cap unacked = {}
  /\ \A b \in Bufs : Unread(b) =>
       mem[b] \in Sent /\ mem[b] \notin sending /\ ~Holds(heard, mem[b])
  /\ \A b, c \in Bufs : Unread(b) /\ Unread(c) /\ mem[b] = mem[c] => b = c
  /\ \A k \in Qps : Once(heard, k) /\ (Holds(heard, k) => k \in Sent \ sending)
  /\ "demo" \notin failed =>
       \A k \in Sent : \/ k \in sending
                       \/ Holds(heard, k)
                       \/ \E b \in Bufs : Unread(b) /\ mem[b] = k

\* Completions of what has been sent that are still to come or to be polled.
Outstanding == Len(cq) + 2 * Cardinality(sending) + Cardinality(unacked)

\* Each message makes two completions, one where it arrives and one where it
\* was sent.
Counted ==
  /\ main \in Setup => Outstanding = 0
  /\ main = "send" => Outstanding = 2 * count
  /\ main \in {"poll", "print", "repost"} => count + Outstanding = 2 * NumQps
  /\ main \in Down /\ "demo" \notin failed => Outstanding = 0

IInv ==
  /\ SrqTypeOK
  /\ QueuesOK
  /\ Watched
  /\ PoolOK
  /\ MessagesOK
  /\ Counted

----------------------------------------------------------------------------
(* Queues.                                                                 *)

\* An empty queue holds nothing.
LEMMA HoldsNothing ==
  ASSUME NEW x
  PROVE  ~Holds(<<>>, x) /\ Once(<<>>, x)
BY DEF Holds, Once

\* What a queue holds without its head ...
LEMMA HoldsTail ==
  ASSUME NEW S, NEW s \in Seq(S), s # <<>>, NEW x
  PROVE  /\ Tail(s) \in Seq(S) /\ Head(s) \in S
         /\ Holds(s, Head(s))
         /\ Holds(Tail(s), x) => Holds(s, x)
         /\ Holds(s, x) => Holds(Tail(s), x) \/ x = Head(s)
         /\ Once(s, x) => Once(Tail(s), x)
         /\ Once(s, x) /\ x = Head(s) => ~Holds(Tail(s), x)
<1>1. /\ Tail(s) \in Seq(S) /\ Head(s) \in S /\ Head(s) = s[1]
      /\ Len(s) \in Nat /\ Len(s) >= 1 /\ Len(Tail(s)) = Len(s) - 1
      /\ \A i \in 1 .. Len(Tail(s)) : Tail(s)[i] = s[i + 1]
  BY HeadTailProperties, LenProperties, EmptySeq
<1>2. Holds(s, Head(s))
  BY <1>1 DEF Holds
<1>3. Holds(Tail(s), x) => Holds(s, x)
  BY <1>1 DEF Holds
<1>4. Once(s, x) => Once(Tail(s), x)
  <2> SUFFICES ASSUME Once(s, x), NEW i \in 1 .. Len(Tail(s)), NEW j \in 1 .. Len(Tail(s)),
                      Tail(s)[i] = x, Tail(s)[j] = x
               PROVE  i = j
    BY DEF Once
  <2>1. s[i + 1] = x /\ s[j + 1] = x /\ i + 1 \in 1 .. Len(s) /\ j + 1 \in 1 .. Len(s)
    BY <1>1
  <2>2. i + 1 = j + 1
    BY <2>1 DEF Once
  <2> QED
    BY <1>1, <2>2
<1>5. Once(s, x) /\ x = Head(s) => ~Holds(Tail(s), x)
  <2> SUFFICES ASSUME Once(s, x), x = s[1], NEW i \in 1 .. Len(Tail(s)), Tail(s)[i] = x
               PROVE  FALSE
    BY <1>1 DEF Holds
  <2>1. s[i + 1] = x /\ i + 1 \in 1 .. Len(s) /\ 1 \in 1 .. Len(s) /\ i >= 1
    BY <1>1
  <2>2. i + 1 = 1
    BY <2>1 DEF Once
  <2> QED
    BY <2>1, <2>2
<1>6. Holds(s, x) => Holds(Tail(s), x) \/ x = Head(s)
  <2> SUFFICES ASSUME NEW i \in 1 .. Len(s), s[i] = x, x # s[1] PROVE Holds(Tail(s), x)
    BY <1>1 DEF Holds
  <2>1. i - 1 \in 1 .. Len(Tail(s)) /\ Tail(s)[i - 1] = x
    BY <1>1
  <2> QED
    BY <2>1 DEF Holds
<1> QED
  BY <1>1, <1>2, <1>3, <1>4, <1>5, <1>6

\* ... and with one more element.
LEMMA HoldsAppend ==
  ASSUME NEW S, NEW s \in Seq(S), NEW y \in S, NEW x
  PROVE  /\ Append(s, y) \in Seq(S)
         /\ Holds(Append(s, y), x) <=> Holds(s, x) \/ x = y
         /\ Once(s, x) /\ (x = y => ~Holds(s, x)) => Once(Append(s, y), x)
<1> DEFINE n == Len(s)
           longer == Append(s, y)
<1>1. /\ longer \in Seq(S) /\ n \in Nat /\ Len(longer) = n + 1
      /\ \A i \in 1 .. n : longer[i] = s[i]
      /\ longer[n + 1] = y
  BY AppendProperties, LenProperties
<1>2. \A i \in 1 .. n + 1 : i \in 1 .. n \/ i = n + 1
  BY <1>1
<1>3. n + 1 \in 1 .. n + 1 /\ \A i \in 1 .. n : i \in 1 .. n + 1
  BY <1>1
<1> HIDE DEF longer
<1>4. Holds(longer, x) <=> Holds(s, x) \/ x = y
  BY <1>1, <1>2, <1>3 DEF Holds
<1>5. Once(s, x) /\ (x = y => ~Holds(s, x)) => Once(longer, x)
  BY <1>1, <1>2 DEF Holds, Once
<1> QED
  BY <1>1, <1>4, <1>5 DEF longer

\* An element that a queue holds once is at one place of it, and one that it
\* does not hold is at none.
LEMMA Places ==
  ASSUME NEW s, NEW x, Len(s) \in Nat, Once(s, x)
  PROVE  Cardinality(At(s, x)) = IF Holds(s, x) THEN 1 ELSE 0
<1>1. CASE Holds(s, x)
  <2>1. PICK i \in 1 .. Len(s) : s[i] = x
    BY <1>1 DEF Holds
  <2>2. At(s, x) = {i}
    BY <2>1 DEF At, Once
  <2> QED
    BY <1>1, <2>2, FS_Singleton
<1>2. CASE ~Holds(s, x)
  <2>1. At(s, x) = {}
    BY <1>2 DEF At, Holds
  <2> QED
    BY <1>2, <2>1, FS_EmptySet
<1> QED
  BY <1>1, <1>2

\* The events of other kinds that are left when the queue is destroyed.
LEMMA OthersLeft ==
  ASSUME QueuesOK, pending' = [i \in 1 .. Cardinality(At(pending, "other")) |-> "other"]
  PROVE  pending' \in Seq({"limit", "other"}) /\ ~Holds(pending', "limit")
<1>1. Len(pending) \in Nat
  BY LenProperties DEF QueuesOK
<1>2. IsFiniteSet(At(pending, "other"))
  <2>1. IsFiniteSet(1 .. Len(pending))
    BY <1>1, FS_Interval
  <2>2. At(pending, "other") \subseteq 1 .. Len(pending)
    BY DEF At
  <2> QED
    BY <2>1, <2>2, FS_Subset
<1> DEFINE n == Cardinality(At(pending, "other"))
<1>3. n \in Nat
  BY <1>2, FS_CardinalityType
<1> HIDE DEF n
<1>4. pending' = [i \in 1 .. n |-> "other"]
  BY DEF n
<1>5. ASSUME NEW m \in Nat
      PROVE  /\ [i \in 1 .. m |-> "other"] \in Seq({"limit", "other"})
             /\ Len([i \in 1 .. m |-> "other"]) = m
  OBVIOUS
<1>6. ~Holds([i \in 1 .. n |-> "other"], "limit")
  BY <1>3, <1>5 DEF Holds
<1> QED
  BY <1>3, <1>4, <1>5, <1>6

\* Posting a buffer puts it behind the others.
LEMMA PostOne ==
  ASSUME QueuesOK, NEW b \in Bufs, PostSrqRecv(<<b>>)
  PROVE  /\ srq' \in Seq(Bufs)
         /\ \A x : Holds(srq', x) <=> Holds(srq, x) \/ x = b
         /\ \A x : Once(srq, x) /\ (x = b => ~Holds(srq, x)) => Once(srq', x)
<1>1. srq' = Append(srq, b)
  BY AppendIsConcat DEF PostSrqRecv, QueuesOK
<1> QED
  BY <1>1, HoldsAppend DEF QueuesOK

\* Arming the limit arms it, or raises its event at once.
LEMMA Armed ==
  ASSUME QueuesOK, armed \in BOOLEAN, ArmLimit
  PROVE  /\ armed' \in BOOLEAN
         /\ pending' \in Seq({"limit", "other"})
         /\ armed' \/ Holds(pending', "limit")
<1>1. /\ Append(pending, "limit") \in Seq({"limit", "other"})
      /\ Holds(Append(pending, "limit"), "limit")
  BY HoldsAppend DEF QueuesOK
<1> QED
  BY <1>1 DEF ArmLimit, QueuesOK

\* Sets of queue pairs are finite, and counted one by one.
LEMMA Counting ==
  ASSUME NEW S, S \subseteq Qps
  PROVE  /\ Cardinality(S) \in Nat
         /\ \A k \in Qps \ S : Cardinality(S \cup {k}) = Cardinality(S) + 1
         /\ \A k \in S : Cardinality(S \ {k}) = Cardinality(S) - 1
         /\ Cardinality(S) = 0 => S = {}
<1>1. IsFiniteSet(S)
  <2>1. IsFiniteSet(Qps)
    BY SrqAssumption, FS_Interval DEF Qps
  <2> QED
    BY <2>1, FS_Subset
<1> QED
  BY <1>1, FS_CardinalityType, FS_AddElement, FS_RemoveElement, FS_EmptySet

----------------------------------------------------------------------------
(* The invariant at the start, and steps that keep most of it.             *)

\* Everything is empty at first.
LEMMA InitIInv == Init => IInv
<1> SUFFICES ASSUME Init PROVE IInv
  OBVIOUS
<1> USE SrqAssumption DEF Init
<1>1. SrqTypeOK
  <2>1. 0 \in 0 .. NumBufs /\ mem \in [Bufs -> 0 .. NumQps]
    OBVIOUS
  <2> QED
    BY <2>1 DEF SrqTypeOK, Setup
<1>2. QueuesOK
  BY DEF QueuesOK
<1>3. Watched
  BY DEF Watched, Setup, Busy, Down
<1>4. PoolOK
  <2>1. \A b \in Bufs : b # 0
    BY DEF Bufs
  <2>2. Pool = {}
    BY DEF Pool
  <2> QED
    BY <2>1, <2>2, HoldsNothing DEF PoolOK
<1>5. MessagesOK
  BY HoldsNothing DEF MessagesOK, Sent, Unread, Setup
<1>6. Counted
  BY FS_EmptySet DEF Counted, Outstanding, Setup, Busy, Down
<1> QED
  BY <1>1, <1>2, <1>3, <1>4, <1>5, <1>6 DEF IInv

\* Whoever works beside the main thread, or behind the last message, leaves
\* buffers, messages and counts alone.
LEMMA Steady ==
  ASSUME IInv, UNCHANGED <<count, current, heard, srq, mem, sending, unacked, cq>>,
         main' = main \/ (main \in Down /\ main' \in Down),
         "demo" \in failed' <=> "demo" \in failed
  PROVE  /\ PoolOK' /\ MessagesOK' /\ Counted'
         /\ heard' \in Seq(Qps) /\ srq' \in Seq(Bufs) /\ cq' \in Seq(0 .. NumBufs)
<1>1. Pool' = Pool /\ Sent' = Sent
  BY DEF Pool, Sent, Down, Setup
<1>2. \A b : (Holds(cq, b) \/ (main = "print" /\ current = b))' <=> Unread(b)
  BY DEF Unread, Down
<1>3. PoolOK'
  BY <1>1 DEF IInv, PoolOK, Down
<1>4. MessagesOK'
  BY <1>1, <1>2 DEF IInv, MessagesOK, Unread, Down
<1>5. Counted'
  BY DEF IInv, Counted, Outstanding, Down, Setup
<1> QED
  BY <1>3, <1>4, <1>5 DEF IInv, QueuesOK

----------------------------------------------------------------------------
(* The steps of the main thread.                                           *)

\* The limit is armed.
LEMMA SetLimitStep ==
  ASSUME IInv, SetLimit
  PROVE  IInv'
<1>1. /\ main = "arm" /\ main' = "fill" /\ ArmLimit
      /\ UNCHANGED <<count, current, heard, thread, event, running, other, live, failed, srq, mem,
                     sending, unacked, cq>>
  BY DEF SetLimit, threadVars, dataVars
<1>2. /\ armed' \in BOOLEAN /\ pending' \in Seq({"limit", "other"})
      /\ armed' \/ Holds(pending', "limit")
  BY <1>1, Armed DEF IInv, SrqTypeOK
<1>3. SrqTypeOK' /\ QueuesOK'
  BY <1>1, <1>2 DEF IInv, SrqTypeOK, QueuesOK, Setup
<1>4. Watched'
  BY <1>1, <1>2 DEF IInv, Watched, Setup, Down
<1>5. PoolOK'
  <2>1. Pool' = Pool
    BY <1>1 DEF Pool
  <2> QED
    BY <1>1, <2>1, SrqAssumption DEF IInv, PoolOK
<1>6. MessagesOK' /\ Counted'
  BY <1>1 DEF IInv, MessagesOK, Sent, Unread, Counted, Outstanding, Setup, Busy, Down
<1> QED
  BY <1>3, <1>4, <1>5, <1>6 DEF IInv

\* One more buffer is posted.
LEMMA PreFillStep ==
  ASSUME IInv, PreFill
  PROVE  IInv'
<1>1. /\ main = "fill" /\ PostSrqRecv(<<count + 1>>)
      /\ \/ count + 1 = NumBufs /\ main' = "start" /\ count' = 0
         \/ count + 1 # NumBufs /\ main' = "fill" /\ count' = count + 1
      /\ UNCHANGED <<current, heard, thread, event, running, other, armed, pending, live, failed,
                     mem, sending, unacked, cq>>
  BY DEF PreFill, threadVars, deviceVars
<1>2. count \in Nat /\ count < NumBufs /\ NumBufs \in Nat /\ count + 1 \in Bufs
  BY <1>1, SrqAssumption DEF IInv, SrqTypeOK, PoolOK, Bufs
<1>3. /\ srq' \in Seq(Bufs)
      /\ \A x : Holds(srq', x) <=> Holds(srq, x) \/ x = count + 1
      /\ \A x : Once(srq, x) /\ (x = count + 1 => ~Holds(srq, x)) => Once(srq', x)
  BY <1>1, <1>2, PostOne DEF IInv
<1>4. SrqTypeOK' /\ QueuesOK'
  BY <1>1, <1>2, <1>3 DEF IInv, SrqTypeOK, QueuesOK, Setup
<1>5. Watched'
  BY <1>1 DEF IInv, Watched, Setup, Busy, Down
<1>6. PoolOK'
  <2>1. Pool = 1 .. count /\ Pool' = 1 .. count + 1 /\ count + 1 \notin 1 .. count
    BY <1>1, <1>2 DEF Pool, Bufs
  <2>2. \A b \in Bufs : b \in Pool' <=> b \in Pool \/ b = count + 1
    BY <1>2, <2>1 DEF Bufs
  <2>3. current = 0 /\ current' = 0 /\ main' # "arm" /\ main' \notin {"print", "repost"}
    BY <1>1 DEF IInv, PoolOK
  <2>4. main' = "fill" => count' < NumBufs
    BY <1>1, <1>2
  <2>5. 0 \notin Bufs
    BY DEF Bufs
  <2>6. ~Holds(srq, count + 1) /\ ~Holds(cq, count + 1)
    BY <1>2, <2>1 DEF IInv, PoolOK
  <2> QED
    BY <1>1, <1>3, <2>1, <2>2, <2>3, <2>4, <2>5, <2>6 DEF IInv, PoolOK
<1>7. MessagesOK' /\ Counted'
  BY <1>1 DEF IInv, MessagesOK, Sent, Unread, Counted, Outstanding, Setup, Busy, Down
<1> QED
  BY <1>4, <1>5, <1>6, <1>7 DEF IInv

\* The event thread is started.
LEMMA StartThreadStep ==
  ASSUME IInv, StartThread
  PROVE  IInv'
<1>1. /\ main = "start" /\ main' = "send" /\ running' = TRUE /\ thread' \in {"check", "none"}
      /\ UNCHANGED <<count, current, heard, event, other, armed, pending, live, failed, srq, mem,
                     sending, unacked, cq>>
  BY DEF StartThread, deviceVars, dataVars
<1>2. SrqTypeOK' /\ QueuesOK'
  BY <1>1 DEF IInv, SrqTypeOK, QueuesOK, Busy
<1>3. Watched'
  BY <1>1 DEF IInv, Watched, Setup, Busy, Down
<1>4. PoolOK'
  <2>1. Pool' = Pool
    BY <1>1 DEF Pool
  <2> QED
    BY <1>1, <2>1 DEF IInv, PoolOK
<1>5. MessagesOK'
  <2>1. count = 0 /\ NumQps > 0 /\ sending = {} /\ unacked = {} /\ Sent = {}
    BY <1>1, SrqAssumption DEF IInv, MessagesOK, Sent, Setup
  <2>2. Sent' = {}
    BY <1>1, <2>1 DEF Sent, Setup
  <2>3. \A b : Unread(b)' <=> Unread(b)
    BY <1>1 DEF Unread
  <2> QED
    BY <1>1, <2>1, <2>2, <2>3 DEF IInv, MessagesOK
<1>6. Counted'
  BY <1>1 DEF IInv, Counted, Outstanding, MessagesOK, Setup, Busy, Down
<1> QED
  BY <1>2, <1>3, <1>4, <1>5, <1>6 DEF IInv

\* A message is sent on the next queue pair.
LEMMA PostSendStep ==
  ASSUME IInv, PostSend
  PROVE  IInv'
<1>1. /\ main = "send" /\ sending' = sending \cup {count + 1}
      /\ \/ count + 1 = NumQps /\ main' = "poll" /\ count' = 0
         \/ count + 1 # NumQps /\ main' = "send" /\ count' = count + 1
      /\ UNCHANGED <<current, heard, thread, event, running, other, armed, pending, live, failed,
                     srq, mem, unacked, cq>>
  BY DEF PostSend, threadVars, deviceVars
<1>2. count \in Nat /\ count < NumQps /\ NumQps \in Nat /\ count + 1 \in Qps
  BY <1>1, SrqAssumption DEF IInv, SrqTypeOK, MessagesOK, Qps
<1>3. SrqTypeOK' /\ QueuesOK'
  BY <1>1, <1>2 DEF IInv, SrqTypeOK, QueuesOK, Busy
<1>4. Watched'
  BY <1>1 DEF IInv, Watched, Setup, Busy, Down
<1>5. PoolOK'
  <2>1. Pool = Bufs /\ Pool' = Bufs
    BY <1>1 DEF Pool
  <2> QED
    BY <1>1, <2>1 DEF IInv, PoolOK
<1>6. /\ Sent' = Sent \cup {count + 1} /\ count + 1 \notin Sent
      /\ \A k \in Sent : k \in Qps
  BY <1>1, <1>2 DEF Sent, Setup, Qps
<1>7. MessagesOK'
  <2>1. \A b : Unread(b)' <=> Unread(b)
    BY <1>1 DEF Unread
  <2>2. \A b \in Bufs : Unread(b) =>
          mem[b] \in Sent /\ mem[b] \notin sending' /\ ~Holds(heard, mem[b])
    BY <1>1, <1>6 DEF IInv, MessagesOK
  <2>3. \A k \in Qps : Once(heard, k) /\ (Holds(heard, k) => k \in Sent' \ sending')
    BY <1>1, <1>6 DEF IInv, MessagesOK
  <2>4. "demo" \notin failed =>
          \A k \in Sent' : \/ k \in sending' \/ Holds(heard, k)
                           \/ \E b \in Bufs : Unread(b) /\ mem[b] = k
    BY <1>1, <1>6 DEF IInv, MessagesOK
  <2>5. /\ sending' \subseteq Sent' /\ unacked \subseteq Sent' /\ sending' \cap unacked = {}
        /\ main' # "start" /\ (main' = "send" => count' < NumQps)
    BY <1>1, <1>2, <1>6 DEF IInv, MessagesOK
  <2> QED
    BY <1>1, <1>6, <2>1, <2>2, <2>3, <2>4, <2>5 DEF IInv, MessagesOK
<1>8. Counted'
  <2>1. count + 1 \in Qps \ sending
    BY <1>1, <1>2, <1>6 DEF IInv, MessagesOK
  <2>2. /\ Cardinality(sending') = Cardinality(sending) + 1
        /\ Cardinality(sending) \in Nat /\ Cardinality(unacked) \in Nat
        /\ Len(cq) \in Nat
    BY <1>1, <2>1, Counting, LenProperties DEF IInv, SrqTypeOK, QueuesOK
  <2>3. Outstanding' = Outstanding + 2 /\ Outstanding = 2 * count
    BY <1>1, <2>2 DEF IInv, Counted, Outstanding
  <2> QED
    BY <1>1, <1>2, <2>3 DEF Counted, Setup, Busy, Down
<1> QED
  BY <1>3, <1>4, <1>5, <1>7, <1>8 DEF IInv

\* A completion is polled: of a send, or of a buffer with a message.
LEMMA PollStep ==
  ASSUME IInv, Poll
  PROVE  IInv'
<1>1. /\ main = "poll" /\ count < 2 * NumQps /\ cq # <<>>
      /\ cq' = Tail(cq) /\ count' = count + 1 /\ current' = Head(cq)
      /\ main' = IF Head(cq) = 0 THEN "poll" ELSE "print"
      /\ UNCHANGED <<heard, thread, event, running, other, armed, pending, live, failed, srq, mem,
                     sending, unacked>>
  BY DEF Poll, TakeCompletion, threadVars, deviceVars
<1>2. /\ cq' \in Seq(0 .. NumBufs) /\ Head(cq) \in 0 .. NumBufs
      /\ Holds(cq, Head(cq))
      /\ \A x : Holds(cq', x) => Holds(cq, x)
      /\ \A x : Once(cq, x) => Once(cq', x)
      /\ \A x : Once(cq, x) /\ x = Head(cq) => ~Holds(cq', x)
      /\ \A x : Holds(cq, x) => Holds(cq', x) \/ x = Head(cq)
  BY <1>1, HoldsTail DEF IInv, QueuesOK
<1>3. SrqTypeOK' /\ QueuesOK'
  BY <1>1, <1>2 DEF IInv, SrqTypeOK, QueuesOK, Busy
<1>4. Watched'
  BY <1>1 DEF IInv, Watched, Setup, Busy, Down
<1>5. current = 0 /\ 0 \notin Bufs /\ (Head(cq) # 0 => Head(cq) \in Bufs)
  BY <1>1, <1>2, SrqAssumption DEF IInv, PoolOK, Bufs
<1>6. \A b \in Bufs : Holds(cq, b) <=> Holds(cq', b) \/ current' = b
  BY <1>1, <1>2
<1>7. PoolOK'
  <2>1. Pool = Bufs /\ Pool' = Bufs
    BY <1>1 DEF Pool
  <2>2. main' # "arm" /\ main' # "fill" /\ (current' # 0 <=> main' \in {"print", "repost"})
    BY <1>1
  <2>3. \A b \in Bufs : Holds(cq', b) => current' # b
    BY <1>1, <1>2 DEF IInv, PoolOK
  <2> QED
    BY <1>1, <1>2, <1>5, <1>6, <2>1, <2>2, <2>3 DEF IInv, PoolOK
<1>8. MessagesOK'
  <2>1. \A b \in Bufs : Unread(b)' <=> Unread(b)
    BY <1>1, <1>5, <1>6 DEF Unread
  <2>2. Sent' = Sent /\ main' # "start" /\ main' # "send"
    BY <1>1 DEF Sent, Setup
  <2> QED
    BY <1>1, <2>1, <2>2 DEF IInv, MessagesOK
<1>9. Counted'
  <2>1. Len(cq) \in Nat /\ Len(cq') = Len(cq) - 1
    BY <1>1, HeadTailProperties, LenProperties DEF IInv, QueuesOK
  <2>2. Cardinality(sending) \in Nat /\ Cardinality(unacked) \in Nat
    BY Counting DEF IInv, SrqTypeOK
  <2>3. Outstanding' = Outstanding - 1 /\ count + Outstanding = 2 * NumQps
        /\ Outstanding \in Nat
    BY <1>1, <2>1, <2>2 DEF IInv, Counted, Outstanding
  <2> QED
    BY <1>1, <2>3, SrqAssumption DEF IInv, SrqTypeOK, Counted, Setup, Busy, Down
<1> QED
  BY <1>3, <1>4, <1>7, <1>8, <1>9 DEF IInv

\* The message in the buffer is printed, and the buffer cleared.
LEMMA PrintStep ==
  ASSUME IInv, PrintMessage
  PROVE  IInv'
<1>1. /\ main = "print" /\ main' = "repost"
      /\ heard' = Append(heard, mem[current])
      /\ mem' = [mem EXCEPT ![current] = 0]
      /\ UNCHANGED <<count, current, thread, event, running, other, armed, pending, live, failed,
                     srq, sending, unacked, cq>>
  BY DEF PrintMessage, threadVars, deviceVars
<1>2. current \in Bufs /\ Unread(current) /\ ~Holds(cq, current)
  BY <1>1, SrqAssumption DEF IInv, SrqTypeOK, PoolOK, Unread, Bufs
<1>3. /\ mem[current] \in Sent /\ mem[current] \in Qps /\ mem[current] \notin sending
      /\ ~Holds(heard, mem[current]) /\ Sent = Qps
  BY <1>1, <1>2 DEF IInv, MessagesOK, Sent, Setup
<1>4. /\ heard' \in Seq(Qps)
      /\ \A x : Holds(heard', x) <=> Holds(heard, x) \/ x = mem[current]
      /\ \A x : Once(heard, x) => Once(heard', x)
  <2>1. heard \in Seq(Qps)
    BY DEF IInv, QueuesOK
  <2> QED
    BY <1>1, <1>3, <2>1, HoldsAppend
<1>5. /\ mem' \in [Bufs -> 0 .. NumQps]
      /\ \A b \in Bufs \ {current} : mem'[b] = mem[b]
  BY <1>1, <1>2, SrqAssumption DEF IInv, SrqTypeOK
<1>6. SrqTypeOK' /\ QueuesOK'
  BY <1>1, <1>4, <1>5 DEF IInv, SrqTypeOK, QueuesOK, Busy
<1>7. Watched'
  BY <1>1 DEF IInv, Watched, Setup, Busy, Down
<1>8. PoolOK'
  <2>1. Pool' = Pool
    BY <1>1 DEF Pool
  <2> QED
    BY <1>1, <2>1 DEF IInv, PoolOK
<1>9. MessagesOK'
  <2>1. \A b \in Bufs : Unread(b)' <=> Unread(b) /\ b # current
    BY <1>1, <1>2 DEF Unread
  <2>2. Sent' = Sent
    BY <1>1 DEF Sent, Setup
  <2>3. \A b \in Bufs : Unread(b)' =>
          mem'[b] \in Sent /\ mem'[b] \notin sending /\ ~Holds(heard', mem'[b])
    BY <1>2, <1>4, <1>5, <2>1 DEF IInv, MessagesOK
  <2>4. \A b, c \in Bufs : Unread(b)' /\ Unread(c)' /\ mem'[b] = mem'[c] => b = c
    BY <1>5, <2>1 DEF IInv, MessagesOK
  <2>5. \A k \in Qps : Once(heard', k) /\ (Holds(heard', k) => k \in Sent \ sending)
    BY <1>3, <1>4 DEF IInv, MessagesOK
  <2>6. "demo" \notin failed =>
          \A k \in Sent : \/ k \in sending \/ Holds(heard', k)
                          \/ \E b \in Bufs : Unread(b)' /\ mem'[b] = k
    BY <1>4, <1>5, <2>1 DEF IInv, MessagesOK
  <2>7. sending \subseteq Sent /\ unacked \subseteq Sent /\ sending \cap unacked = {}
    BY DEF IInv, MessagesOK
  <2> QED
    BY <1>1, <2>2, <2>3, <2>4, <2>5, <2>6, <2>7 DEF MessagesOK
<1>10. Counted'
  BY <1>1 DEF IInv, Counted, Outstanding, Setup, Busy, Down
<1> QED
  BY <1>6, <1>7, <1>8, <1>9, <1>10 DEF IInv

\* The buffer is posted again.
LEMMA RepostStep ==
  ASSUME IInv, Repost
  PROVE  IInv'
<1>1. /\ main = "repost" /\ main' = "poll" /\ current' = 0
      /\ PostSrqRecv(<<current>>)
      /\ UNCHANGED <<count, heard, thread, event, running, other, armed, pending, live, failed,
                     mem, sending, unacked, cq>>
  BY DEF Repost, Reposted, threadVars, deviceVars
<1>2. current \in Bufs /\ 0 \notin Bufs
  BY <1>1, SrqAssumption DEF IInv, SrqTypeOK, PoolOK, Bufs
<1>3. /\ srq' \in Seq(Bufs)
      /\ \A x : Holds(srq', x) <=> Holds(srq, x) \/ x = current
      /\ \A x : Once(srq, x) /\ (x = current => ~Holds(srq, x)) => Once(srq', x)
  BY <1>1, <1>2, PostOne DEF IInv
<1>4. SrqTypeOK' /\ QueuesOK'
  BY <1>1, <1>3, SrqAssumption DEF IInv, SrqTypeOK, QueuesOK, Busy
<1>5. Watched'
  BY <1>1 DEF IInv, Watched, Setup, Busy, Down
<1>6. PoolOK'
  <2>1. Pool' = Pool
    BY <1>1 DEF Pool
  <2>2. \A b \in Bufs : Once(srq', b)
    BY <1>2, <1>3 DEF IInv, PoolOK
  <2> QED
    BY <1>1, <1>2, <1>3, <2>1, <2>2 DEF IInv, PoolOK
<1>7. MessagesOK'
  <2>1. (\A b : Unread(b)' <=> Unread(b)) /\ Sent' = Sent
    BY <1>1 DEF Unread, Sent, Setup
  <2> QED
    BY <1>1, <2>1 DEF IInv, MessagesOK
<1>8. Counted'
  BY <1>1 DEF IInv, Counted, Outstanding, Setup, Busy, Down
<1> QED
  BY <1>4, <1>5, <1>6, <1>7, <1>8 DEF IInv

\* Everything that was sent has completed.
LEMMA StopThreadStep ==
  ASSUME IInv, StopThread
  PROVE  IInv'
<1>1. /\ main = "poll" /\ main' = "qps" /\ count = 2 * NumQps /\ running' = FALSE
      /\ UNCHANGED <<count, current, heard, thread, event, other, armed, pending, live, failed, srq,
                     mem, sending, unacked, cq>>
  BY DEF StopThread, threadVars, deviceVars, dataVars
<1>2. SrqTypeOK' /\ QueuesOK'
  BY <1>1 DEF IInv, SrqTypeOK, QueuesOK, Down
<1>3. Watched'
  BY <1>1 DEF IInv, Watched, Setup, Busy, Down
<1>4. PoolOK'
  <2>1. Pool' = Pool
    BY <1>1 DEF Pool
  <2> QED
    BY <1>1, <2>1 DEF IInv, PoolOK
<1>5. MessagesOK'
  <2>1. (\A b : Unread(b)' <=> Unread(b)) /\ Sent' = Sent
    BY <1>1 DEF Unread, Sent, Setup
  <2> QED
    BY <1>1, <2>1 DEF IInv, MessagesOK
<1>6. Counted'
  <2>1. Len(cq) \in Nat /\ Cardinality(sending) \in Nat /\ Cardinality(unacked) \in Nat
    BY Counting, LenProperties DEF IInv, SrqTypeOK, QueuesOK
  <2>2. Outstanding = 0 /\ Outstanding' = Outstanding
    BY <1>1, <2>1, SrqAssumption DEF IInv, Counted, Outstanding
  <2> QED
    BY <1>1, <2>2 DEF Counted, Setup, Busy, Down
<1> QED
  BY <1>2, <1>3, <1>4, <1>5, <1>6 DEF IInv

\* run_demo() returns early.
LEMMA DemoFailsStep ==
  ASSUME IInv, DemoFails
  PROVE  IInv'
<1>1. /\ main \in {"send", "poll"} /\ main' = "qps" /\ running' = FALSE
      /\ failed' = failed \cup {"demo"}
      /\ UNCHANGED <<count, current, heard, thread, event, other, armed, pending, live, srq,
                     mem, sending, unacked, cq>>
  BY DEF DemoFails, threadVars, deviceVars, dataVars
<1>2. SrqTypeOK' /\ QueuesOK'
  BY <1>1 DEF IInv, SrqTypeOK, QueuesOK, Down
<1>3. Watched'
  BY <1>1 DEF IInv, Watched, Setup, Busy, Down
<1>4. PoolOK'
  <2>1. Pool' = Pool
    BY <1>1 DEF Pool
  <2> QED
    BY <1>1, <2>1 DEF IInv, PoolOK
<1>5. MessagesOK'
  <2>1. \A b : Unread(b)' <=> Unread(b)
    BY <1>1 DEF Unread
  <2>2. Sent' = Qps /\ Sent \subseteq Qps
    BY <1>1, SrqAssumption DEF Sent, Setup, Qps, IInv, MessagesOK, SrqTypeOK
  <2> QED
    BY <1>1, <2>1, <2>2 DEF IInv, MessagesOK
<1>6. Counted'
  BY <1>1 DEF Counted, Setup
<1> QED
  BY <1>1, <1>2, <1>3, <1>4, <1>5, <1>6 DEF IInv, Down

\* The queue pairs go: what was not sent is lost, which is nothing unless
\* run_demo() has failed.
LEMMA DestroyQpsStep ==
  ASSUME IInv, DestroyQps
  PROVE  IInv'
<1>1. /\ main = "qps" /\ main' = "destroy" /\ sending' = {} /\ unacked' = {}
      /\ UNCHANGED <<count, current, heard, thread, event, running, other, armed, pending,
                     live, failed, srq, mem, cq>>
  BY DEF DestroyQps, threadVars, deviceVars
<1>2. SrqTypeOK' /\ QueuesOK'
  BY <1>1 DEF IInv, SrqTypeOK, QueuesOK, Down
<1>3. Watched'
  BY <1>1 DEF IInv, Watched, Setup, Busy, Down
<1>4. PoolOK'
  <2>1. Pool' = Pool
    BY <1>1 DEF Pool
  <2> QED
    BY <1>1, <2>1 DEF IInv, PoolOK
<1>5. "demo" \notin failed => sending = {} /\ unacked = {} /\ Outstanding = 0
  <2>1. Len(cq) \in Nat /\ Cardinality(sending) \in Nat /\ Cardinality(unacked) \in Nat
    BY Counting, LenProperties DEF IInv, SrqTypeOK, QueuesOK
  <2> SUFFICES ASSUME "demo" \notin failed
               PROVE  sending = {} /\ unacked = {} /\ Outstanding = 0
    OBVIOUS
  <2>2. Len(cq) + 2 * Cardinality(sending) + Cardinality(unacked) = 0
    BY <1>1 DEF IInv, Counted, Outstanding, Down
  <2>3. Cardinality(sending) = 0 /\ Cardinality(unacked) = 0
    BY <2>1, <2>2
  <2> QED
    BY <2>2, <2>3, Counting DEF IInv, SrqTypeOK, Outstanding
<1>6. MessagesOK'
  <2>1. \A b : Unread(b)' <=> Unread(b)
    BY <1>1 DEF Unread
  <2>2. Sent' = Sent
    BY <1>1 DEF Sent, Setup
  <2> QED
    BY <1>1, <1>5, <2>1, <2>2 DEF IInv, MessagesOK
<1>7. Counted'
  <2>1. "demo" \notin failed => Outstanding' = Outstanding
    BY <1>1, <1>5 DEF Outstanding
  <2> QED
    BY <1>1, <1>5, <2>1 DEF Counted, Setup
<1> QED
  BY <1>1, <1>2, <1>3, <1>4, <1>6, <1>7 DEF IInv, Down

\* Everything is taken down.
LEMMA TakeDownStep ==
  ASSUME IInv, DestroySrq \/ FreeSrq \/ CloseDevice \/ Return
  PROVE  IInv'
<1>1. /\ main \in Down /\ main' \in Down
      /\ UNCHANGED <<count, current, heard, running, other, failed, srq, mem, sending, unacked,
                     cq>>
  BY DEF DestroySrq, FreeSrq, CloseDevice, Return, threadVars, deviceVars, dataVars, Down
<1>2. PoolOK' /\ MessagesOK' /\ Counted'
  BY <1>1, Steady
<1>3. CASE DestroySrq
  <2>1. /\ main = "destroy" /\ main' = "wait" /\ armed' = FALSE
        /\ pending' = [i \in 1 .. Cardinality(At(pending, "other")) |-> "other"]
        /\ UNCHANGED <<thread, event, live, failed>>
    BY <1>3 DEF DestroySrq, threadVars
  <2>2. pending' \in Seq({"limit", "other"}) /\ ~Holds(pending', "limit")
    BY <2>1, OthersLeft DEF IInv
  <2>3. SrqTypeOK' /\ QueuesOK'
    BY <1>1, <2>1, <2>2 DEF IInv, SrqTypeOK, QueuesOK, Down
  <2>4. Watched'
    BY <2>1, <2>2 DEF IInv, Watched, Setup, Busy, Down
  <2> QED
    BY <1>2, <2>3, <2>4 DEF IInv
<1>4. CASE FreeSrq \/ CloseDevice \/ Return
  <2>1. /\ armed' = armed /\ pending' = pending
        /\ live' \subseteq live
        /\ \/ main = "wait" /\ event # "limit" /\ main' = "close" /\ event' = event
              /\ thread' = thread
           \/ main = "close" /\ main' = "return" /\ event' = event /\ live' = live \ {"ctx"}
              /\ thread' = thread
           \/ main = "return" /\ main' = "done" /\ event' = "none" /\ live' = live
              /\ thread' = "none"
    BY <1>4 DEF FreeSrq, EventAcknowledged, CloseDevice, Return, threadVars, deviceVars
  <2>2. SrqTypeOK' /\ QueuesOK'
    BY <1>1, <2>1 DEF IInv, SrqTypeOK, QueuesOK, Down
  <2>3. Watched'
    BY <2>1 DEF IInv, Watched, Setup, Busy, Down
  <2> QED
    BY <1>2, <2>2, <2>3 DEF IInv
<1> QED
  BY <1>3, <1>4

----------------------------------------------------------------------------
(* The steps of the event thread and of the device.                        *)

\* An event goes from the device through the hands of the thread.
LEMMA ThreadStep ==
  ASSUME IInv, Thread
  PROVE  IInv'
<1>1. /\ UNCHANGED <<main, count, current, heard, running, other, live, srq, mem, sending,
                     unacked, cq>>
      /\ failed' \in {failed, failed \cup {"rearm"}}
  BY DEF Thread, CheckFlag, GetEvent, GetFails, HandleEvent, LimitRearmed, AckEvent, mainVars,
         deviceVars, dataVars
<1>2. PoolOK' /\ MessagesOK' /\ Counted'
  BY <1>1, Steady
<1>3. main \notin Setup
  BY DEF Thread, CheckFlag, GetEvent, GetFails, HandleEvent, AckEvent, IInv, Watched
<1>4. CASE CheckFlag \/ GetFails \/ AckEvent
  <2>1. /\ thread' \in {"get", "ended", "check"} /\ thread \in {"check", "get", "ack"}
        /\ event' \in {event, "none"}
        /\ UNCHANGED <<armed, pending, failed>>
    BY <1>4 DEF CheckFlag, GetFails, AckEvent, deviceVars
  <2>2. SrqTypeOK' /\ QueuesOK'
    BY <1>1, <2>1 DEF IInv, SrqTypeOK, QueuesOK
  <2>3. Watched'
    BY <1>1, <1>3, <2>1 DEF IInv, Watched, Setup, Busy, Down
  <2> QED
    BY <1>2, <2>2, <2>3 DEF IInv
<1>5. CASE GetEvent
  <2>1. /\ thread = "get" /\ thread' = "handle" /\ pending # <<>>
        /\ event' = Head(pending) /\ pending' = Tail(pending) /\ armed' = armed
        /\ failed' = failed
    BY <1>5 DEF GetEvent
  <2>2. /\ pending' \in Seq({"limit", "other"}) /\ Head(pending) \in {"limit", "other"}
        /\ Holds(pending, Head(pending))
        /\ \A x : Holds(pending', x) => Holds(pending, x)
        /\ \A x : Holds(pending, x) => Holds(pending', x) \/ x = Head(pending)
    BY <2>1, HoldsTail DEF IInv, QueuesOK
  <2>3. SrqTypeOK' /\ QueuesOK'
    BY <1>1, <2>1, <2>2 DEF IInv, SrqTypeOK, QueuesOK
  <2>4. Watched'
    BY <1>1, <1>3, <2>1, <2>2 DEF IInv, Watched, Setup, Busy, Down
  <2> QED
    BY <1>2, <2>3, <2>4 DEF IInv
<1>6. CASE HandleEvent
  <2>1. /\ thread = "handle" /\ thread' = "ack" /\ event' = event
        /\ event = "limit" /\ main \notin {"wait", "close", "return"} => LimitRearmed
        /\ event # "limit" \/ main \in {"wait", "close", "return"} =>
             UNCHANGED <<armed, pending, failed>>
    BY <1>6 DEF HandleEvent
  <2>2. CASE event = "limit" /\ main \notin {"wait", "close", "return"}
    <3>1. /\ armed' \in BOOLEAN /\ pending' \in Seq({"limit", "other"})
          /\ armed' \/ Holds(pending', "limit") \/ "rearm" \in failed'
      <4>1. CASE ArmLimit
        BY <4>1, Armed DEF IInv, SrqTypeOK
      <4>2. CASE failed' = failed \cup {"rearm"} /\ UNCHANGED <<armed, pending>>
        BY <4>2 DEF IInv, SrqTypeOK, QueuesOK
      <4> QED
        BY <2>1, <2>2, <4>1, <4>2 DEF LimitRearmed
    <3>2. SrqTypeOK' /\ QueuesOK'
      BY <1>1, <2>1, <3>1 DEF IInv, SrqTypeOK, QueuesOK
    <3>3. Watched'
      BY <1>1, <1>3, <2>1, <2>2, <3>1 DEF IInv, Watched, Setup, Busy, Down
    <3> QED
      BY <1>2, <3>2, <3>3 DEF IInv
  <2>3. CASE event # "limit" \/ main \in {"wait", "close", "return"}
    <3>1. SrqTypeOK' /\ QueuesOK'
      BY <1>1, <2>1, <2>3 DEF IInv, SrqTypeOK, QueuesOK
    <3>2. Watched'
      BY <1>1, <1>3, <2>1, <2>3 DEF IInv, Watched, Setup, Busy, Down
    <3> QED
      BY <1>2, <3>1, <3>2 DEF IInv
  <2> QED
    BY <2>2, <2>3
<1> QED
  BY <1>4, <1>5, <1>6 DEF Thread

\* An event of another kind is raised.
LEMMA OtherEventStep ==
  ASSUME IInv, OtherEvent
  PROVE  IInv'
<1>1. /\ other' = other + 1 /\ pending' = Append(pending, "other")
      /\ UNCHANGED <<main, count, current, heard, thread, event, running, armed, live, failed, srq,
                     mem, sending, unacked, cq>>
  BY DEF OtherEvent, mainVars, threadVars, dataVars
<1>2. PoolOK' /\ MessagesOK' /\ Counted'
  BY <1>1, Steady
<1>3. /\ pending' \in Seq({"limit", "other"})
      /\ Holds(pending', "limit") <=> Holds(pending, "limit")
  <2>1. pending \in Seq({"limit", "other"}) /\ "other" \in {"limit", "other"}
    BY DEF IInv, QueuesOK
  <2>2. /\ Append(pending, "other") \in Seq({"limit", "other"})
        /\ Holds(Append(pending, "other"), "limit") <=> Holds(pending, "limit")
    BY <2>1, HoldsAppend
  <2> QED
    BY <1>1, <2>2
<1>4. SrqTypeOK' /\ QueuesOK'
  BY <1>1, <1>3 DEF IInv, SrqTypeOK, QueuesOK
<1>5. Watched'
  BY <1>1, <1>3 DEF IInv, Watched, Setup, Busy, Down
<1> QED
  BY <1>2, <1>4, <1>5 DEF IInv

\* A message arrives in the oldest buffer of the shared queue.
LEMMA DeliverStep ==
  ASSUME IInv, NEW k \in Qps, Deliver(k)
  PROVE  IInv'
<1> DEFINE b0 == Head(srq)
<1>1. /\ k \in sending /\ srq # <<>>
      /\ sending' = sending \ {k} /\ unacked' = unacked \cup {k}
      /\ mem' = [mem EXCEPT ![b0] = k]
      /\ cq' = Append(cq, b0) /\ srq' = Tail(srq)
      /\ \/ armed /\ armed' = FALSE /\ pending' = Append(pending, "limit")
         \/ UNCHANGED <<armed, pending>>
      /\ UNCHANGED <<main, count, current, heard, thread, event, running, other, live, failed>>
  BY DEF Deliver, mainVars, threadVars
<1>2. /\ srq' \in Seq(Bufs) /\ b0 \in Bufs /\ Holds(srq, b0)
      /\ \A x : Holds(srq', x) => Holds(srq, x)
      /\ \A x : Holds(srq, x) => Holds(srq', x) \/ x = b0
      /\ \A x : Once(srq, x) => Once(srq', x)
      /\ \A x : Once(srq, x) /\ x = b0 => ~Holds(srq', x)
  BY <1>1, HoldsTail DEF IInv, QueuesOK
<1> HIDE DEF b0
<1>3. b0 \in 0 .. NumBufs /\ k \in 0 .. NumQps
  BY <1>2, SrqAssumption DEF Bufs, Qps
<1>4. /\ cq' \in Seq(0 .. NumBufs) /\ Len(cq') = Len(cq) + 1 /\ Len(cq) \in Nat
      /\ \A x : Holds(cq', x) <=> Holds(cq, x) \/ x = b0
      /\ \A x : Once(cq, x) /\ (x = b0 => ~Holds(cq, x)) => Once(cq', x)
  <2>1. cq \in Seq(0 .. NumBufs) /\ b0 \in 0 .. NumBufs /\ cq' = Append(cq, b0)
    BY <1>1, <1>3 DEF IInv, QueuesOK
  <2>2. cq' \in Seq(0 .. NumBufs) /\ Len(cq') = Len(cq) + 1 /\ Len(cq) \in Nat
    BY <2>1, AppendProperties, LenProperties
  <2>3. /\ \A x : Holds(cq', x) <=> Holds(cq, x) \/ x = b0
        /\ \A x : Once(cq, x) /\ (x = b0 => ~Holds(cq, x)) => Once(cq', x)
    BY <2>1, HoldsAppend
  <2> QED
    BY <2>2, <2>3
<1>5. /\ pending' \in Seq({"limit", "other"}) /\ armed' \in BOOLEAN
      /\ armed \/ Holds(pending, "limit") => armed' \/ Holds(pending', "limit")
      /\ ~armed => ~armed' /\ pending' = pending
  <2>1. pending \in Seq({"limit", "other"}) /\ armed \in BOOLEAN
    BY DEF IInv, QueuesOK, SrqTypeOK
  <2>2. /\ Append(pending, "limit") \in Seq({"limit", "other"})
        /\ Holds(Append(pending, "limit"), "limit")
    BY <2>1, HoldsAppend
  <2>3. CASE armed /\ armed' = FALSE /\ pending' = Append(pending, "limit")
    BY <2>2, <2>3
  <2>4. CASE UNCHANGED <<armed, pending>>
    BY <2>1, <2>4
  <2> QED
    BY <1>1, <2>3, <2>4
<1>6. /\ mem' \in [Bufs -> 0 .. NumQps] /\ mem'[b0] = k
      /\ \A b \in Bufs \ {b0} : mem'[b] = mem[b]
  BY <1>1, <1>2, <1>3 DEF IInv, SrqTypeOK
<1>7. SrqTypeOK' /\ QueuesOK'
  BY <1>1, <1>2, <1>4, <1>5, <1>6 DEF IInv, SrqTypeOK, QueuesOK
<1>8. Watched'
  BY <1>1, <1>5 DEF IInv, Watched
<1>9. PoolOK'
  <2>1. Pool' = Pool
    BY <1>1 DEF Pool
  <2>2. ~Holds(cq, b0) /\ current # b0 /\ Once(srq, b0)
    BY <1>2 DEF IInv, PoolOK
  <2> QED
    BY <1>1, <1>2, <1>4, <2>1, <2>2 DEF IInv, PoolOK
<1>10. MessagesOK'
  <2>1. ~Holds(cq, b0) /\ current # b0
    BY <1>2 DEF IInv, PoolOK
  <2>2. /\ \A b \in Bufs : Unread(b)' <=> Unread(b) \/ b = b0
        /\ ~Unread(b0)
    BY <1>1, <1>4, <2>1 DEF Unread
  <2>3. Sent' = Sent
    BY <1>1 DEF Sent
  <2>4. k \in Sent /\ ~Holds(heard, k) /\ k \notin unacked
    BY <1>1 DEF IInv, MessagesOK
  <2>5. \A b \in Bufs : Unread(b)' =>
          mem'[b] \in Sent /\ mem'[b] \notin sending' /\ ~Holds(heard, mem'[b])
    BY <1>1, <1>6, <2>2, <2>4 DEF IInv, MessagesOK
  <2>6. \A b, c \in Bufs : Unread(b)' /\ Unread(c)' /\ mem'[b] = mem'[c] => b = c
    BY <1>1, <1>6, <2>2 DEF IInv, MessagesOK
  <2>7. "demo" \notin failed =>
          \A x \in Sent : \/ x \in sending' \/ Holds(heard, x)
                          \/ \E b \in Bufs : Unread(b)' /\ mem'[b] = x
    BY <1>1, <1>2, <1>6, <2>2 DEF IInv, MessagesOK
  <2>8. /\ sending' \subseteq Sent /\ unacked' \subseteq Sent /\ sending' \cap unacked' = {}
        /\ \A x \in Qps : Once(heard, x) /\ (Holds(heard, x) => x \in Sent \ sending')
    BY <1>1, <2>4 DEF IInv, MessagesOK
  <2> QED
    BY <1>1, <2>3, <2>5, <2>6, <2>7, <2>8 DEF IInv, MessagesOK
<1>11. Counted'
  <2>1. k \in Qps \ unacked
    BY <1>1 DEF IInv, MessagesOK
  <2>2. /\ Cardinality(sending) \in Nat /\ Cardinality(unacked) \in Nat
        /\ Cardinality(sending') = Cardinality(sending) - 1
        /\ Cardinality(unacked') = Cardinality(unacked) + 1
    BY <1>1, <2>1, Counting DEF IInv, SrqTypeOK
  <2>3. Outstanding' = Outstanding
    BY <1>4, <2>2 DEF Outstanding
  <2> QED
    BY <1>1, <2>3 DEF IInv, Counted
<1> QED
  BY <1>7, <1>8, <1>9, <1>10, <1>11 DEF IInv

\* A send completes.
LEMMA AcknowledgeStep ==
  ASSUME IInv, NEW k \in Qps, Acknowledge(k)
  PROVE  IInv'
<1>1. /\ k \in unacked /\ unacked' = unacked \ {k} /\ cq' = Append(cq, 0)
      /\ UNCHANGED <<main, count, current, heard, thread, event, running, other, armed,
                     pending, live, failed, srq, mem, sending>>
  BY DEF Acknowledge, mainVars, threadVars, deviceVars
<1>2. /\ cq' \in Seq(0 .. NumBufs) /\ Len(cq') = Len(cq) + 1 /\ Len(cq) \in Nat
      /\ \A b \in Bufs : Holds(cq', b) <=> Holds(cq, b)
      /\ \A b \in Bufs : Once(cq, b) => Once(cq', b)
  <2>1. cq \in Seq(0 .. NumBufs) /\ 0 \in 0 .. NumBufs
    BY SrqAssumption DEF IInv, QueuesOK
  <2>2. \A b \in Bufs : b # 0
    BY DEF Bufs
  <2>3. /\ \A x : Holds(cq', x) <=> Holds(cq, x) \/ x = 0
        /\ \A x : Once(cq, x) /\ x # 0 => Once(cq', x)
    BY <1>1, <2>1, HoldsAppend
  <2>4. cq' \in Seq(0 .. NumBufs) /\ Len(cq') = Len(cq) + 1 /\ Len(cq) \in Nat
    BY <1>1, <2>1, AppendProperties, LenProperties
  <2> QED
    BY <2>2, <2>3, <2>4
<1>3. SrqTypeOK' /\ QueuesOK'
  BY <1>1, <1>2 DEF IInv, SrqTypeOK, QueuesOK
<1>4. Watched'
  BY <1>1 DEF IInv, Watched
<1>5. PoolOK'
  <2>1. Pool' = Pool
    BY <1>1 DEF Pool
  <2> QED
    BY <1>1, <1>2, <2>1 DEF IInv, PoolOK
<1>6. MessagesOK'
  <2>1. (\A b \in Bufs : Unread(b)' <=> Unread(b)) /\ Sent' = Sent
    BY <1>1, <1>2 DEF Unread, Sent
  <2> QED
    BY <1>1, <2>1 DEF IInv, MessagesOK
<1>7. Counted'
  <2>1. /\ Cardinality(sending) \in Nat /\ Cardinality(unacked) \in Nat
        /\ Cardinality(unacked') = Cardinality(unacked) - 1
    BY <1>1, Counting DEF IInv, SrqTypeOK
  <2>2. Outstanding' = Outstanding
    BY <1>1, <1>2, <2>1 DEF Outstanding
  <2> QED
    BY <1>1, <2>2 DEF IInv, Counted
<1> QED
  BY <1>3, <1>4, <1>5, <1>6, <1>7 DEF IInv

----------------------------------------------------------------------------
(* The invariant and the properties of the run.                            *)

\* Every step preserves the inductive invariant.
LEMMA NextIInv == IInv /\ [Next]_vars => IInv'
<1> SUFFICES ASSUME IInv, [Next]_vars PROVE IInv'
  OBVIOUS
<1>1. CASE Next
  BY <1>1, SetLimitStep, PreFillStep, StartThreadStep, PostSendStep, PollStep, PrintStep,
     RepostStep, StopThreadStep, DemoFailsStep, DestroyQpsStep, TakeDownStep, ThreadStep, OtherEventStep, DeliverStep,
     AcknowledgeStep DEF Next, Main
<1>2. CASE UNCHANGED vars
  <2>1. PoolOK' /\ MessagesOK' /\ Counted'
    BY <1>2, Steady DEF vars
  <2> QED
    BY <1>2, <2>1 DEF vars, IInv, SrqTypeOK, QueuesOK, Watched
<1> QED
  BY <1>1, <1>2

\* The inductive invariant holds in every state of the program.
THEOREM Inductive == Spec => []IInv
BY InitIInv, NextIInv, PTL DEF Spec

\* PoolConserved: each buffer of the pool is in exactly one place.
THEOREM Pooled == Spec => []PoolConserved
<1>1. IInv => PoolConserved
  <2> SUFFICES ASSUME IInv, main \in Busy, NEW b \in Bufs
               PROVE  Cardinality(At(srq, b)) + Cardinality(At(cq, b))
                        + (IF current = b THEN 1 ELSE 0) = 1
    BY DEF PoolConserved, Busy
  <2>1. Len(srq) \in Nat /\ Len(cq) \in Nat
    BY LenProperties DEF IInv, QueuesOK
  <2>2. b \in Pool
    BY DEF Pool, Busy
  <2>3. /\ Once(srq, b) /\ Once(cq, b)
        /\ Holds(srq, b) => ~Holds(cq, b) /\ current # b
        /\ Holds(cq, b) => current # b
        /\ Holds(srq, b) \/ Holds(cq, b) \/ current = b
    BY <2>2 DEF IInv, PoolOK
  <2>4. /\ Cardinality(At(srq, b)) = IF Holds(srq, b) THEN 1 ELSE 0
        /\ Cardinality(At(cq, b)) = IF Holds(cq, b) THEN 1 ELSE 0
    BY <2>1, <2>3, Places
  <2> QED
    BY <2>3, <2>4
<1> QED
  BY <1>1, Inductive, PTL

\* HeardOnce: no message is printed twice or empty, and when the main thread
\* stops polling all have been printed.
THEOREM Heard == Spec => []HeardOnce
<1>1. IInv => HeardOnce
  <2> SUFFICES ASSUME IInv PROVE HeardOnce
    OBVIOUS
  <2>1. \A i \in 1 .. Len(heard) : heard[i] \in Qps /\ heard[i] # 0 /\ Holds(heard, heard[i])
    <3>1. heard \in Seq(Qps)
      BY DEF IInv, QueuesOK
    <3>2. \A i \in 1 .. Len(heard) : heard[i] \in Qps
      BY <3>1, ElementOfSeq
    <3> QED
      BY <3>2 DEF Qps, Holds
  <2>2. \A i, j \in 1 .. Len(heard) : i # j => heard[i] # heard[j]
    BY <2>1 DEF IInv, MessagesOK, Once
  <2>3. ASSUME main \in Down, "demo" \notin failed
        PROVE  {heard[i] : i \in 1 .. Len(heard)} = Qps
    <3>1. /\ Len(cq) \in Nat /\ Cardinality(sending) \in Nat /\ Cardinality(unacked) \in Nat
          /\ Len(cq) + 2 * Cardinality(sending) + Cardinality(unacked) = 0
      BY <2>3, Counting, LenProperties
         DEF IInv, SrqTypeOK, QueuesOK, Counted, Outstanding
    <3>2. Len(cq) = 0 /\ Cardinality(sending) = 0
      BY <3>1
    <3>3. cq = <<>> /\ sending = {}
      BY <3>2, Counting, EmptySeq DEF IInv, SrqTypeOK, QueuesOK
    <3>4. Sent = Qps /\ \A b : ~Unread(b)
      BY <2>3, <3>3, HoldsNothing DEF Sent, Unread, Setup, Down
    <3>5. \A k \in Qps : Holds(heard, k)
      BY <2>3, <3>3, <3>4 DEF IInv, MessagesOK
    <3> QED
      BY <2>1, <3>5 DEF Holds
  <2> QED
    BY <2>1, <2>2, <2>3 DEF HeardOnce, Down
<1> QED
  BY <1>1, Inductive, PTL

\* LimitIsWatched: until the queue is destroyed the limit is armed, or its event
\* waits for the thread or is in its hands.
THEOREM Watching == Spec => []LimitIsWatched
<1>1. IInv => LimitIsWatched
  BY DEF IInv, Watched, LimitIsWatched, Holds, Busy
<1> QED
  BY <1>1, Inductive, PTL

\* SrqOutlivesHandler: no event of the limit is fetched after the queue is
\* destroyed, and it is freed when the one fetched before is acknowledged.
THEOREM SrqLives == Spec => []SrqOutlivesHandler
<1>1. IInv => SrqOutlivesHandler
  BY DEF IInv, Watched, SrqOutlivesHandler
<1> QED
  BY <1>1, Inductive, PTL
=============================================================================
