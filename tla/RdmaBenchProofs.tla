--------------------------- MODULE RdmaBenchProofs ---------------------------
(***************************************************************************)
(* Proofs about RdmaBench.  For any number of queue pairs: no wait is in   *)
(* vain, the program gets past its warm-up only if the send queue holds    *)
(* all of it, and only the first queue pair is ever connected to one that  *)
(* is connected to it.  For one queue pair: behind such a warm-up the send *)
(* queue never overflows, and the memory outlives all writes but a tail.   *)
(* For these the invariant keeps the distance of the signaled writes,      *)
(* SignalInterval apart, next to the counters of the program, which count  *)
(* completions.                                                            *)
(***************************************************************************)
EXTENDS RdmaBench, SequenceTheorems, FiniteSetTheorems, TLAPS

\* After the warm-up.
Measuring == {"measure", "throttle", "drain", "done", "said"}

\* Types of the client's benchmark ...
WindowTypeOK ==
  /\ pc \in {"warm", "warmDrain", "died", "diedWarm"} \cup Measuring
  /\ left \in Nat
  /\ q \in Qps
  /\ phase \in 0 .. SignalInterval - 1
  /\ outstanding \in Nat
  /\ need \in Nat
  /\ posted \in [Qps -> Nat]
  /\ executed \in [Qps -> Nat]
  /\ freed \in [Qps -> Nat]
  /\ broken \in [Qps -> BOOLEAN]

\* ... and of its queues.
Completion == [qp : Qps, upto : Nat, ok : BOOLEAN]

LinesOK ==
  /\ signaled \in [Qps -> Seq(Nat)]
  /\ cq \in Seq(Completion)
  /\ IsFiniteSet(Marked)

\* No wait is in vain: in the warm-up every signaled write is counted and none
\* is polled; later the program waits only behind a write it has just signaled.
Waits ==
  /\ pc = "warm" => Coming >= outstanding
  /\ pc = "warmDrain" => Coming >= need
  /\ pc = "measure" => outstanding < PollMark
  /\ pc = "throttle" => need = 1 /\ outstanding = PollMark /\ Coming >= 1

WindowInv == WindowTypeOK /\ LinesOK /\ Waits

----------------------------------------------------------------------------
(* One queue pair.                                                         *)

\* The writes of n intervals.
Span(n) == SignalInterval * n

\* The signaled writes not polled yet.
Unpolled == Len(cq) + Len(signaled[0])

\* They are an interval apart, and the last of them is phase writes old.
Spaced ==
  /\ \A j \in 1 .. Len(signaled[0]) :
       signaled[0][j] = posted[0] - phase - Span(Len(signaled[0]) - j)
  /\ \A i \in 1 .. Len(cq) : /\ cq[i].ok
                             /\ cq[i].upto = posted[0] - phase - Span(Unpolled - i)

\* Slots the warm-up may have left in use ...
Carried == IF pc \in {"warm", "warmDrain", "diedWarm"} THEN 0 ELSE SignalInterval - 1

\* ... and writes of it that may not be executed when all that is signaled is.
LeftOver == IF pc \in Measuring /\ Iterations - left < SignalInterval
              THEN SignalInterval - 1 ELSE 0

\* While the connection holds, the program's counter bounds what is signaled
\* and not polled, and this bounds the slots in use.
Holding ==
  /\ Spaced
  /\ posted[0] - freed[0] <= phase + Span(Unpolled) + Carried
  /\ signaled[0] = <<>> => posted[0] - executed[0] <= phase + LeftOver
  /\ pc = "warm" => Unpolled = outstanding
  /\ pc = "warmDrain" => Unpolled = need
  /\ pc \in {"measure", "throttle"} => Unpolled <= outstanding
  /\ pc = "drain" => Unpolled <= need
  /\ pc \in {"done", "said"} => Unpolled = 0
  /\ pc \in {"drain", "done", "said"} => left = 0
  /\ pc \in Measuring => /\ left <= Iterations
                         /\ Iterations - left < SignalInterval => phase = Iterations - left
  /\ pc # "died"

SingleInv == broken[0] \/ Holding

----------------------------------------------------------------------------
(* The two processes.                                                      *)

ShakeTypeOK ==
  /\ stage \in [Peers -> Stages]
  /\ linked \in BOOLEAN
  /\ wrote \in [Peers -> Nat]
  /\ got \in [Peers -> Nat]
  /\ to \in [Peers -> Seq({ToldQp})]

\* What a process has written, by its stage ...
Written(p) ==
  /\ stage[p] \in {"start", "accept", "write"} => wrote[p] = 0
  /\ stage[p] \in {"read", "setup", "sync"} => wrote[p] = InfoLen
  /\ stage[p] = "await" => wrote[p] = InfoLen + 1
  /\ stage[p] = "running" =>
       wrote[p] = InfoLen + (IF p = Client /\ pc = "said" THEN 2 ELSE 1)

\* ... and read: the byte of the barrier may be missing when the peer is gone.
Heard(p) ==
  /\ got[p] <= wrote[Other(p)]
  /\ stage[p] \in {"setup", "sync", "await"} => got[p] = InfoLen
  /\ stage[p] \in {"start", "accept", "write", "read"} => got[p] = 0
  /\ stage[p] = "running" => got[p] = InfoLen + 1 \/ Gone(Other(p))

\* Every queue pair is connected before the barrier.
Wires(p) ==
  /\ stage[p] \in {"start", "accept", "write", "read"} => to[p] = <<>>
  /\ stage[p] = "setup" => Len(to[p]) <= QpCount
  /\ stage[p] \in {"sync", "await", "running"} => Len(to[p]) = QpCount

\* The benchmark runs behind the barrier, and the server ends behind it.
Phases ==
  /\ stage[Client] \notin {"running", "exited", "closed"} => pc = "warm"
  /\ stage[Server] = "closed" => Gone(Client) \/ (stage[Client] = "running" /\ pc = "said")

PeersInv ==
  /\ ShakeTypeOK
  /\ \A p \in Peers : Written(p) /\ Heard(p) /\ Wires(p)
  /\ Phases

----------------------------------------------------------------------------
(* The marks, and the completions to come.                                 *)

\* What is marked is a queue pair and a place in its line.
LEMMA InMarked ==
  \A x : x \in Marked <=> \E k \in Qps : \E i \in 1 .. Len(signaled[k]) : x = <<k, i>>
BY DEF Marked

\* The same one step later.
LEMMA InMarkedNext ==
  \A x : x \in Marked' <=> \E k \in Qps : \E i \in 1 .. Len(signaled'[k]) : x = <<k, i>>
BY DEF Marked

\* One signaled write more.
LEMMA MarkedGrows ==
  ASSUME LinesOK, NEW k \in Qps, NEW n \in Nat,
         signaled' = [signaled EXCEPT ![k] = Append(@, n)]
  PROVE  /\ signaled' \in [Qps -> Seq(Nat)]
         /\ IsFiniteSet(Marked') /\ Cardinality(Marked') = Cardinality(Marked) + 1
<1> DEFINE line == signaled[k]
           new == <<k, Len(line) + 1>>
<1>1. /\ line \in Seq(Nat) /\ Len(line) \in Nat
      /\ Append(line, n) \in Seq(Nat) /\ Len(Append(line, n)) = Len(line) + 1
  BY LenProperties, AppendProperties DEF LinesOK
<1>2. /\ signaled'[k] = Append(line, n)
      /\ \A j \in Qps \ {k} : signaled'[j] = signaled[j]
      /\ signaled' \in [Qps -> Seq(Nat)]
  BY <1>1 DEF LinesOK
<1>3. new \notin Marked
  BY <1>1, InMarked
<1>4. Marked' = Marked \cup {new}
  <2>1. ASSUME NEW x \in Marked PROVE x \in Marked'
    <3>1. PICK j \in Qps : \E i \in 1 .. Len(signaled[j]) : x = <<j, i>>
      BY InMarked
    <3>2. PICK i \in 1 .. Len(signaled[j]) : x = <<j, i>>
      BY <3>1
    <3>3. i \in 1 .. Len(signaled'[j])
      BY <1>1, <1>2
    <3> QED
      BY <3>2, <3>3, InMarkedNext
  <2>2. new \in Marked'
    <3>1. Len(line) + 1 \in 1 .. Len(signaled'[k])
      BY <1>1, <1>2
    <3> QED
      BY <3>1, InMarkedNext
  <2>3. ASSUME NEW x \in Marked' PROVE x \in Marked \/ x = new
    <3>1. PICK j \in Qps : \E i \in 1 .. Len(signaled'[j]) : x = <<j, i>>
      BY InMarkedNext
    <3>2. PICK i \in 1 .. Len(signaled'[j]) : x = <<j, i>>
      BY <3>1
    <3>3. i \in 1 .. Len(signaled[j]) \/ (j = k /\ i = Len(line) + 1)
      BY <1>1, <1>2
    <3> QED
      BY <3>2, <3>3, InMarked
  <2> QED
    BY <2>1, <2>2, <2>3
<1> HIDE DEF new
<1> QED
  BY <1>2, <1>3, <1>4, FS_AddElement DEF LinesOK

\* One signaled write less.
LEMMA MarkedShrinks ==
  ASSUME LinesOK, NEW k \in Qps, signaled[k] # <<>>,
         signaled' = [signaled EXCEPT ![k] = Tail(@)]
  PROVE  /\ signaled' \in [Qps -> Seq(Nat)]
         /\ IsFiniteSet(Marked') /\ Cardinality(Marked') = Cardinality(Marked) - 1
<1> DEFINE line == signaled[k]
           old == <<k, Len(line)>>
<1>1. /\ line \in Seq(Nat) /\ Len(line) \in Nat /\ Len(line) >= 1
      /\ Tail(line) \in Seq(Nat) /\ Len(Tail(line)) = Len(line) - 1
  BY LenProperties, HeadTailProperties, EmptySeq DEF LinesOK
<1>2. /\ signaled'[k] = Tail(line)
      /\ \A j \in Qps \ {k} : signaled'[j] = signaled[j]
      /\ signaled' \in [Qps -> Seq(Nat)]
  BY <1>1 DEF LinesOK
<1>3. old \in Marked
  <2>1. Len(line) \in 1 .. Len(line)
    BY <1>1
  <2> QED
    BY <2>1, InMarked
<1>4. Marked' = Marked \ {old}
  <2>1. ASSUME NEW x \in Marked, x # old PROVE x \in Marked'
    <3>1. PICK j \in Qps : \E i \in 1 .. Len(signaled[j]) : x = <<j, i>>
      BY InMarked
    <3>2. PICK i \in 1 .. Len(signaled[j]) : x = <<j, i>>
      BY <3>1
    <3>3. CASE j = k
      <4>1. i # Len(line)
        BY <2>1, <3>2, <3>3
      <4>2. i \in 1 .. Len(Tail(line))
        BY <1>1, <3>3, <4>1
      <4> QED
        BY <1>2, <3>2, <3>3, <4>2, InMarkedNext
    <3>4. CASE j # k
      BY <1>2, <3>2, <3>4, InMarkedNext
    <3> QED
      BY <3>3, <3>4
  <2>2. ASSUME NEW x \in Marked' PROVE x \in Marked /\ x # old
    <3>1. PICK j \in Qps : \E i \in 1 .. Len(signaled'[j]) : x = <<j, i>>
      BY InMarkedNext
    <3>2. PICK i \in 1 .. Len(signaled'[j]) : x = <<j, i>>
      BY <3>1
    <3>3. CASE j = k
      <4>1. i \in 1 .. Len(Tail(line))
        BY <1>2, <3>2, <3>3
      <4>2. i \in 1 .. Len(line) /\ i # Len(line)
        BY <1>1, <4>1
      <4> QED
        BY <3>2, <3>3, <4>2, InMarked
    <3>4. CASE j # k
      BY <1>2, <3>2, <3>4, InMarked
    <3> QED
      BY <3>3, <3>4
  <2> QED
    BY <2>1, <2>2
<1> HIDE DEF old
<1> QED
  BY <1>2, <1>3, <1>4, FS_RemoveElement DEF LinesOK

\* How many completions are to come is a number.
LEMMA ComingType ==
  ASSUME LinesOK
  PROVE  Coming \in Nat /\ Len(cq) \in Nat /\ Coming >= Len(cq) /\ Cardinality(Marked) \in Nat
<1>1. Cardinality(Marked) \in Nat /\ Len(cq) \in Nat
  BY FS_CardinalityType, LenProperties DEF LinesOK
<1> QED
  BY <1>1 DEF Coming

\* The program polls before it has signaled half the writes its queue holds.
LEMMA PollMarkBound ==
  /\ PollMark \in Nat /\ PollMark >= 1
  /\ 2 * Span(PollMark) <= SqDepth
<1> USE SizesAssumption, DepthAssumption
<1> DEFINE d == 2 * SignalInterval
<1>1. d \in Nat /\ d > 0 /\ SqDepth \in Nat /\ SqDepth >= d
  OBVIOUS
<1> HIDE DEF d
<1>2. /\ SqDepth \div d \in Nat /\ SqDepth \div d >= 1
      /\ d * (SqDepth \div d) <= SqDepth
  BY <1>1
<1>3. PollMark = SqDepth \div d
  BY DEF PollMark, d
<1>4. 2 * Span(PollMark) = d * PollMark
  <2>1. \A m \in Nat : 2 * (SignalInterval * m) = (2 * SignalInterval) * m
    OBVIOUS
  <2> QED
    BY <1>2, <1>3, <2>1 DEF Span, d
<1> QED
  BY <1>2, <1>3, <1>4

\* Intervals add up.
LEMMA SpanFacts ==
  /\ \A n \in Nat : Span(n) \in Nat
  /\ \A n \in Nat : Span(n + 1) = Span(n) + SignalInterval
  /\ \A m, n \in Nat : m <= n => Span(m) <= Span(n)
  /\ Span(0) = 0
BY SizesAssumption DEF Span

----------------------------------------------------------------------------
(* The steps of the benchmark, for any number of queue pairs.              *)

\* A write is posted, and counted if it is signaled.
LEMMA PostEffect ==
  ASSUME WindowInv, PostRdmaWrite
  PROVE  /\ posted' = [posted EXCEPT ![q] = posted[q] + 1] /\ posted' \in [Qps -> Nat]
         /\ LinesOK' /\ Counted \in {0, 1} /\ Coming' = Coming + Counted
         /\ Signal => Counted = 1 /\ Coming' >= 1
         /\ ~Signal => Counted = 0
         /\ UNCHANGED <<executed, freed, cq, broken>>
<1>1. /\ q \in Qps /\ posted[q] \in Nat /\ posted[q] + 1 \in Nat
      /\ posted \in [Qps -> Nat] /\ LinesOK
  BY DEF WindowInv, WindowTypeOK
<1>2. /\ posted' = [posted EXCEPT ![q] = posted[q] + 1] /\ posted' \in [Qps -> Nat]
      /\ UNCHANGED <<executed, freed, cq, broken>>
  BY <1>1 DEF PostRdmaWrite
<1>3. CASE Signal
  <2>1. signaled' = [signaled EXCEPT ![q] = Append(@, posted[q] + 1)]
    BY <1>3 DEF PostRdmaWrite
  <2>2. /\ signaled' \in [Qps -> Seq(Nat)]
        /\ IsFiniteSet(Marked') /\ Cardinality(Marked') = Cardinality(Marked) + 1
    BY <1>1, <2>1, MarkedGrows
  <2>3. LinesOK'
    BY <1>1, <1>2, <2>2 DEF LinesOK
  <2>4. Coming' = Coming + 1 /\ Coming \in Nat
    <3>1. Coming \in Nat /\ Len(cq) \in Nat /\ Cardinality(Marked) \in Nat
      BY <1>1, ComingType
    <3> QED
      BY <1>2, <2>2, <3>1 DEF Coming
  <2> QED
    BY <1>2, <1>3, <2>3, <2>4 DEF Counted
<1>4. CASE ~Signal
  <2>1. signaled' = signaled
    BY <1>1, <1>4 DEF PostRdmaWrite, LinesOK
  <2>2. Marked' = Marked
    BY <2>1 DEF Marked
  <2>3. LinesOK' /\ Coming' = Coming /\ Coming \in Nat
    BY <1>1, <1>2, <2>1, <2>2, ComingType DEF LinesOK, Coming
  <2> QED
    BY <1>2, <1>4, <2>3 DEF Counted
<1> QED
  BY <1>3, <1>4

\* The loops go on.
LEMMA AdvanceEffect ==
  ASSUME WindowInv, left > 0, Advance
  PROVE  /\ q' \in Qps /\ left' \in Nat
         /\ NextPhase \in 0 .. SignalInterval - 1
<1>1. q' \in Qps /\ left' \in Nat
  BY SizesAssumption DEF WindowInv, WindowTypeOK, Advance, LastQp, Qps
<1>2. NextPhase \in 0 .. SignalInterval - 1
  BY SizesAssumption DEF WindowInv, WindowTypeOK, NextPhase, Signal
<1> QED
  BY <1>1, <1>2

\* Completions are taken from the front of their queue.
LEMMA PollEffect ==
  ASSUME WindowInv, PollCompletions
  PROVE  /\ Taken \in Nat /\ 1 <= Taken /\ Taken <= Len(cq)
         /\ LinesOK' /\ freed' \in [Qps -> Nat]
         /\ Len(cq') = Len(cq) - Taken
         /\ \A i \in 1 .. Len(cq') : cq'[i] = cq[Taken + i]
         /\ Coming' = Coming - Taken
<1>1. /\ cq \in Seq(Completion) /\ cq # <<>> /\ LinesOK /\ Len(cq) \in Nat /\ Len(cq) >= 1
      /\ freed \in [Qps -> Nat]
  BY LenProperties, EmptySeq DEF PollCompletions, WindowInv, WindowTypeOK, LinesOK
<1>2. Taken \in Nat /\ 1 <= Taken /\ Taken <= Len(cq)
  BY <1>1, SizesAssumption DEF Taken
<1>3. \A i \in 1 .. Len(cq) : cq[i] \in Completion
  BY <1>1, ElementOfSeq
<1>4. /\ cq' = SubSeq(cq, Taken + 1, Len(cq))
      /\ freed' = [k \in Qps |-> IF LastOf(k) = {} THEN freed[k]
                                  ELSE cq[CHOOSE i \in LastOf(k) : TRUE].upto]
      /\ signaled' = signaled
  BY DEF PollCompletions
<1>5. /\ cq' \in Seq(Completion) /\ Len(cq') = Len(cq) - Taken
      /\ \A i \in 1 .. Len(cq') : cq'[i] = cq[Taken + i]
  <2>1. \A i \in Taken + 1 .. Len(cq) : cq[i] \in Completion
    BY <1>2, <1>3
  <2>2. Taken + 1 \in Int /\ Len(cq) \in Int
    BY <1>1, <1>2
  <2>3. /\ cq' \in Seq(Completion)
        /\ Len(cq') = IF Taken + 1 <= Len(cq) THEN Len(cq) - (Taken + 1) + 1 ELSE 0
        /\ \A i \in 1 .. Len(cq) - (Taken + 1) + 1 : cq'[i] = cq[(Taken + 1) + i - 1]
    BY <1>4, <2>1, <2>2, SubSeqProperties
  <2>4. Len(cq') = Len(cq) - Taken
    BY <1>1, <1>2, <2>3
  <2>5. ASSUME NEW i \in 1 .. Len(cq') PROVE cq'[i] = cq[Taken + i]
    <3>1. i \in 1 .. Len(cq) - (Taken + 1) + 1 /\ (Taken + 1) + i - 1 = Taken + i
      BY <1>1, <1>2, <2>4
    <3> QED
      BY <2>3, <3>1
  <2> QED
    BY <2>3, <2>4, <2>5
<1>6. freed' \in [Qps -> Nat]
  <2>1. ASSUME NEW k \in Qps, LastOf(k) # {}
        PROVE  cq[CHOOSE i \in LastOf(k) : TRUE].upto \in Nat
    <3> DEFINE last == CHOOSE i \in LastOf(k) : TRUE
    <3>1. last \in LastOf(k)
      BY <2>1
    <3> HIDE DEF last
    <3>2. last \in 1 .. Taken
      BY <3>1 DEF LastOf
    <3>3. cq[last] \in Completion
      BY <1>1, <1>2, <1>3, <3>2
    <3> QED
      BY <3>3 DEF Completion, last
  <2> QED
    BY <1>1, <1>4, <2>1
<1>7. Marked' = Marked
  BY <1>4 DEF Marked
<1>8. LinesOK'
  BY <1>1, <1>4, <1>5, <1>7 DEF LinesOK
<1>9. Coming' = Coming - Taken
  <2>1. Cardinality(Marked) \in Nat
    BY <1>1, ComingType
  <2> QED
    BY <1>1, <1>2, <1>5, <1>7, <2>1 DEF Coming
<1> QED
  BY <1>2, <1>5, <1>6, <1>8, <1>9

\* What the program does after a wait.
LEMMA AfterEffect ==
  ASSUME WindowInv, PollCompletions, AfterPolling, need' = 0
  PROVE  WindowInv'
<1>1. /\ Taken \in Nat /\ 1 <= Taken /\ LinesOK' /\ freed' \in [Qps -> Nat]
      /\ UNCHANGED <<posted, executed, signaled, broken>>
  BY PollEffect DEF PollCompletions
<1>2. CASE pc = "warmDrain" /\ StartMeasuring
  <2>1. /\ pc' = "measure" /\ left' = Iterations /\ q' = 0 /\ phase' = 0 /\ outstanding' = 0
    BY <1>2 DEF StartMeasuring
  <2>2. 0 \in Qps /\ 0 \in 0 .. SignalInterval - 1 /\ Iterations \in Nat
    BY SizesAssumption DEF Qps
  <2>3. WindowTypeOK'
    BY <1>1, <2>1, <2>2 DEF WindowInv, WindowTypeOK, Measuring
  <2>4. Waits'
    BY <2>1, PollMarkBound DEF Waits
  <2> QED
    BY <1>1, <2>3, <2>4 DEF WindowInv
<1>3. CASE /\ pc = "throttle" /\ pc' = "measure" /\ outstanding' = outstanding - 1
           /\ UNCHANGED loopVars
  <2>1. outstanding = PollMark /\ outstanding' \in Nat /\ outstanding' < PollMark
    BY <1>3, PollMarkBound DEF WindowInv, Waits
  <2>2. WindowTypeOK'
    BY <1>1, <1>3, <2>1 DEF WindowInv, WindowTypeOK, Measuring, loopVars
  <2>3. Waits'
    BY <1>3, <2>1 DEF Waits
  <2> QED
    BY <1>1, <2>2, <2>3 DEF WindowInv
<1>4. CASE pc = "drain" /\ pc' = "done" /\ UNCHANGED <<loopVars, outstanding>>
  <2>1. WindowTypeOK'
    BY <1>1, <1>4 DEF WindowInv, WindowTypeOK, Measuring, loopVars
  <2>2. Waits'
    BY <1>4 DEF Waits
  <2> QED
    BY <1>1, <2>1, <2>2 DEF WindowInv
<1> QED
  BY <1>2, <1>3, <1>4 DEF AfterPolling

\* The adapter finishes a write: no completion to come gets lost.
LEMMA ExecuteEffect ==
  ASSUME WindowInv, NEW k \in Qps, Execute(k)
  PROVE  /\ executed' \in [Qps -> Nat] /\ LinesOK' /\ Coming' >= Coming
         /\ executed' = [executed EXCEPT ![k] = executed[k] + 1]
         /\ UNCHANGED <<pc, loopVars, outstanding, need, posted, freed, broken>>
         /\ \/ /\ signaled[k] # <<>> /\ Head(signaled[k]) = executed[k] + 1
               /\ signaled' = [signaled EXCEPT ![k] = Tail(@)]
               /\ cq' = Append(cq, [qp |-> k, upto |-> executed[k] + 1, ok |-> ~broken[k]])
            \/ signaled' = signaled /\ (broken[k] \/ cq' = cq)
<1> DEFINE n == executed[k] + 1
           c == [qp |-> k, upto |-> n, ok |-> ~broken[k]]
           marked == signaled[k] # <<>> /\ Head(signaled[k]) = n
<1>1. LinesOK /\ executed \in [Qps -> Nat] /\ n \in Nat /\ broken[k] \in BOOLEAN
  BY DEF WindowInv, WindowTypeOK
<1>2. c \in Completion /\ cq \in Seq(Completion)
  BY <1>1 DEF Completion, LinesOK
<1>3. /\ executed' = [executed EXCEPT ![k] = n]
      /\ signaled' = [signaled EXCEPT ![k] = IF marked THEN Tail(@) ELSE @]
      /\ cq' = IF marked \/ broken[k] THEN Append(cq, c) ELSE cq
      /\ UNCHANGED <<pc, loopVars, outstanding, need, posted, freed, broken>>
  BY DEF Execute
<1> HIDE DEF c
<1>4. executed' \in [Qps -> Nat]
  BY <1>1, <1>3
<1>5. Append(cq, c) \in Seq(Completion) /\ Len(Append(cq, c)) = Len(cq) + 1 /\ Len(cq) \in Nat
  BY <1>2, AppendProperties, LenProperties
<1>6. CASE marked
  <2>1. signaled' = [signaled EXCEPT ![k] = Tail(@)] /\ cq' = Append(cq, c)
    BY <1>3, <1>6
  <2>2. /\ signaled' \in [Qps -> Seq(Nat)]
        /\ IsFiniteSet(Marked') /\ Cardinality(Marked') = Cardinality(Marked) - 1
    BY <1>1, <1>6, <2>1, MarkedShrinks
  <2>3. LinesOK' /\ Coming' = Coming /\ Coming \in Nat
    BY <1>1, <1>5, <2>1, <2>2, ComingType DEF LinesOK, Coming
  <2> QED
    BY <1>3, <1>4, <1>6, <2>1, <2>3 DEF c
<1>7. CASE ~marked
  <2>1. signaled' = signaled /\ (cq' = cq \/ (broken[k] /\ cq' = Append(cq, c)))
    BY <1>1, <1>3, <1>7 DEF LinesOK
  <2>2. Marked' = Marked
    BY <2>1 DEF Marked
  <2>3. LinesOK'
    BY <1>1, <1>5, <2>1, <2>2 DEF LinesOK
  <2>4. Coming' >= Coming
    <3>1. Cardinality(Marked) \in Nat
      BY <1>1, ComingType
    <3> QED
      BY <1>5, <2>1, <2>2, <3>1 DEF Coming
  <2> QED
    BY <1>3, <1>4, <2>1, <2>3, <2>4
<1> QED
  BY <1>6, <1>7

\* Every step of program or adapter keeps the books of the completions.
LEMMA WindowStep ==
  ASSUME WindowInv, Program \/ \E k \in Qps : Execute(k) \/ Break(k)
  PROVE  WindowInv'
<1>0. Coming \in Nat
  BY ComingType DEF WindowInv
<1>1. CASE WarmPost
  <2>1. /\ pc = "warm" /\ left > 0 /\ PostRdmaWrite /\ Advance
        /\ phase' \in {phase, NextPhase} /\ outstanding' = outstanding + Counted
        /\ pc' = "warm" /\ need' = need
    BY <1>1 DEF WarmPost
  <2>2. /\ posted' \in [Qps -> Nat] /\ LinesOK' /\ Counted \in {0, 1}
        /\ Coming' = Coming + Counted /\ UNCHANGED <<executed, freed, cq, broken>>
    BY <2>1, PostEffect
  <2>3. q' \in Qps /\ left' \in Nat /\ NextPhase \in 0 .. SignalInterval - 1
    BY <2>1, AdvanceEffect
  <2>4. WindowTypeOK'
    BY <2>1, <2>2, <2>3 DEF WindowInv, WindowTypeOK
  <2>5. Waits'
    BY <1>0, <2>1, <2>2 DEF WindowInv, WindowTypeOK, Waits
  <2> QED
    BY <2>2, <2>4, <2>5 DEF WindowInv
<1>2. CASE MeasuredPost
  <2>1. /\ pc = "measure" /\ left > 0 /\ PostRdmaWrite /\ Advance
        /\ phase' = NextPhase /\ outstanding' = outstanding + Counted
        /\ \/ outstanding' >= PollMark /\ pc' = "throttle" /\ need' = 1
           \/ ~(outstanding' >= PollMark) /\ pc' = "measure" /\ need' = need
    BY <1>2 DEF MeasuredPost
  <2>2. /\ posted' \in [Qps -> Nat] /\ LinesOK' /\ Counted \in {0, 1}
        /\ (Counted = 1 => Coming' >= 1) /\ UNCHANGED <<executed, freed, cq, broken>>
    BY <2>1, PostEffect
  <2>3. q' \in Qps /\ left' \in Nat /\ NextPhase \in 0 .. SignalInterval - 1
    BY <2>1, AdvanceEffect
  <2>4. WindowTypeOK'
    BY <2>1, <2>2, <2>3 DEF WindowInv, WindowTypeOK, Measuring
  <2>5. outstanding \in Nat /\ outstanding < PollMark /\ PollMark \in Nat
    BY <2>1, PollMarkBound DEF WindowInv, WindowTypeOK, Waits
  <2>6. Waits'
    BY <2>1, <2>2, <2>5 DEF Waits
  <2> QED
    BY <2>2, <2>4, <2>6 DEF WindowInv
<1>3. CASE PostFails
  <2>1. /\ pc' \in {"died", "diedWarm"}
        /\ UNCHANGED <<left, q, phase, outstanding, need, posted, executed, freed, signaled,
                       cq, broken>>
    BY <1>3 DEF PostFails, loopVars, queueVars
  <2>2. Marked' = Marked
    BY <2>1 DEF Marked
  <2> QED
    BY <2>1, <2>2 DEF WindowInv, WindowTypeOK, LinesOK, Waits
<1>4. CASE WarmEnd
  <2>1. /\ pc = "warm" /\ UNCHANGED <<posted, executed, freed, signaled, cq, broken>>
        /\ \/ /\ pc' = "warmDrain" /\ need' = outstanding
              /\ UNCHANGED <<left, q, phase, outstanding>>
           \/ /\ pc' = "measure" /\ left' = Iterations /\ q' = 0 /\ phase' = 0
              /\ outstanding' = 0 /\ need' = need
    BY <1>4 DEF WarmEnd, StartMeasuring, loopVars, queueVars
  <2>2. 0 \in Qps /\ 0 \in 0 .. SignalInterval - 1 /\ Iterations \in Nat
    BY SizesAssumption DEF Qps
  <2>3. Marked' = Marked /\ Coming' = Coming
    BY <2>1 DEF Marked, Coming
  <2>4. WindowTypeOK' /\ LinesOK'
    <3>1. WindowTypeOK'
      BY <2>1, <2>2 DEF WindowInv, WindowTypeOK, Measuring
    <3>2. LinesOK'
      BY <2>1, <2>3 DEF WindowInv, LinesOK
    <3> QED
      BY <3>1, <3>2
  <2>5. Waits'
    BY <2>1, <2>3, PollMarkBound DEF WindowInv, Waits
  <2> QED
    BY <2>4, <2>5 DEF WindowInv
<1>5. CASE MeasureEnd
  <2>1. /\ UNCHANGED <<left, q, phase, outstanding, posted, executed, freed, signaled, cq,
                       broken>>
        /\ pc' \in {"drain", "done"} /\ need' \in {need, outstanding}
    BY <1>5 DEF MeasureEnd, loopVars, queueVars
  <2>2. Marked' = Marked
    BY <2>1 DEF Marked
  <2> QED
    BY <2>1, <2>2 DEF WindowInv, WindowTypeOK, LinesOK, Waits, Measuring
<1>6. CASE PollCompletions
  <2>1. /\ Taken \in Nat /\ 1 <= Taken /\ LinesOK' /\ freed' \in [Qps -> Nat]
        /\ Coming' = Coming - Taken
    BY <1>6, PollEffect
  <2>2. CASE need' = 0 /\ AfterPolling
    BY <1>6, <2>2, AfterEffect
  <2>3. CASE /\ ~(need <= Taken) /\ need' = need - Taken
             /\ UNCHANGED <<pc, loopVars, outstanding>>
    <3>1. /\ UNCHANGED <<left, q, phase, posted, executed, signaled, broken>>
          /\ pc \in {"warmDrain", "throttle", "drain"}
      BY <1>6, <2>3 DEF PollCompletions, loopVars
    <3>2. need \in Nat /\ need' \in Nat
      BY <2>1, <2>3 DEF WindowInv, WindowTypeOK
    <3>3. WindowTypeOK'
      BY <2>1, <2>3, <3>1, <3>2 DEF WindowInv, WindowTypeOK
    <3>4. Waits'
      BY <1>0, <2>1, <2>3, <3>1, <3>2 DEF WindowInv, Waits
    <3> QED
      BY <2>1, <3>3, <3>4 DEF WindowInv
  <2> QED
    BY <1>6, <2>2, <2>3 DEF PollCompletions
<1>7. ASSUME NEW k \in Qps, Execute(k) PROVE WindowInv'
  <2>1. /\ executed' \in [Qps -> Nat] /\ LinesOK' /\ Coming' >= Coming /\ Coming' \in Nat
        /\ UNCHANGED <<pc, left, q, phase, outstanding, need, posted, freed, broken>>
    <3>1. /\ executed' \in [Qps -> Nat] /\ LinesOK' /\ Coming' >= Coming
          /\ UNCHANGED <<pc, left, q, phase, outstanding, need, posted, freed, broken>>
      BY <1>7, ExecuteEffect DEF loopVars
    <3>2. Coming' \in Nat
      <4>1. IsFiniteSet(Marked') /\ cq' \in Seq(Completion)
        BY <3>1 DEF LinesOK
      <4>2. Cardinality(Marked') \in Nat /\ Len(cq') \in Nat
        BY <4>1, FS_CardinalityType, LenProperties
      <4> QED
        BY <4>2 DEF Coming
    <3> QED
      BY <3>1, <3>2
  <2>2. WindowTypeOK'
    BY <2>1 DEF WindowInv, WindowTypeOK
  <2>3. Waits'
    BY <1>0, <2>1 DEF WindowInv, WindowTypeOK, Waits
  <2> QED
    BY <2>1, <2>2, <2>3 DEF WindowInv
<1>8. ASSUME NEW k \in Qps, Break(k) PROVE WindowInv'
  <2>1. /\ broken' = [broken EXCEPT ![k] = TRUE]
        /\ UNCHANGED <<pc, left, q, phase, outstanding, need, posted, executed, freed,
                       signaled, cq>>
    BY <1>8 DEF Break, loopVars
  <2>2. broken' \in [Qps -> BOOLEAN]
    BY <2>1 DEF WindowInv, WindowTypeOK
  <2>3. Marked' = Marked /\ Coming' = Coming
    BY <2>1 DEF Marked, Coming
  <2> QED
    BY <2>1, <2>2, <2>3 DEF WindowInv, WindowTypeOK, LinesOK, Waits
<1> QED
  BY <1>1, <1>2, <1>3, <1>4, <1>5, <1>6, <1>7, <1>8 DEF Program

----------------------------------------------------------------------------
(* The steps of the benchmark with one queue pair, while the connection    *)
(* holds.                                                                  *)

\* There is queue pair 0 only.
LEMMA OnlyQp ==
  ASSUME QpCount = 1, WindowInv
  PROVE  /\ Qps = {0} /\ q = 0 /\ LastQp
         /\ posted[0] \in Nat /\ executed[0] \in Nat /\ freed[0] \in Nat
         /\ signaled[0] \in Seq(Nat) /\ cq \in Seq(Completion)
         /\ Len(signaled[0]) \in Nat /\ Len(cq) \in Nat
         /\ Unpolled \in Nat /\ Unpolled >= Len(cq) /\ Unpolled >= Len(signaled[0])
         /\ Span(Unpolled) \in Nat
         /\ phase \in Nat /\ phase <= SignalInterval - 1
         /\ SignalInterval \in Nat /\ SignalInterval >= 1 /\ Iterations \in Nat
         /\ left \in Nat /\ outstanding \in Nat /\ need \in Nat
<1>1. Qps = {0}
  BY DEF Qps
<1>2. /\ signaled[0] \in Seq(Nat) /\ cq \in Seq(Completion)
      /\ Len(signaled[0]) \in Nat /\ Len(cq) \in Nat
  BY <1>1, LenProperties DEF WindowInv, LinesOK
<1>3. Unpolled \in Nat /\ Unpolled >= Len(cq) /\ Unpolled >= Len(signaled[0])
  BY <1>2 DEF Unpolled
<1>4. Span(Unpolled) \in Nat
  BY <1>3, SpanFacts
<1>5. /\ q = 0 /\ posted[0] \in Nat /\ executed[0] \in Nat /\ freed[0] \in Nat
      /\ phase \in Nat /\ phase <= SignalInterval - 1
      /\ left \in Nat /\ outstanding \in Nat /\ need \in Nat
  BY <1>1, SizesAssumption DEF WindowInv, WindowTypeOK
<1> QED
  BY <1>1, <1>2, <1>3, <1>4, <1>5, SizesAssumption DEF LastQp

\* A write is posted: the slots that the counters stand for grow by one.
LEMMA PostSpaced ==
  ASSUME QpCount = 1, WindowInv, Spaced, PostRdmaWrite, phase' = NextPhase
  PROVE  /\ Spaced' /\ Unpolled' = Unpolled + Counted /\ Counted \in {0, 1}
         /\ posted'[0] = posted[0] + 1
         /\ phase' + Span(Unpolled') = phase + Span(Unpolled) + 1
         /\ UNCHANGED <<executed, freed, broken>>
         /\ signaled'[0] = <<>> => ~Signal /\ signaled[0] = <<>>
         /\ ~Signal => phase' = phase + 1
         /\ Signal => phase = SignalInterval - 1
<1> DEFINE line == signaled[0]
           n == Len(line)
           p == posted[0]
<1>1. /\ Qps = {0} /\ q = 0 /\ p \in Nat /\ line \in Seq(Nat) /\ n \in Nat
      /\ Len(cq) \in Nat /\ Unpolled \in Nat /\ Unpolled >= Len(cq)
      /\ Span(Unpolled) \in Nat /\ phase \in Nat
      /\ SignalInterval \in Nat /\ SignalInterval >= 1
  BY OnlyQp
<1>2. /\ posted'[0] = p + 1 /\ cq' = cq
      /\ UNCHANGED <<executed, freed, broken>>
  BY <1>1 DEF PostRdmaWrite, WindowInv, WindowTypeOK
<1>3. CASE Signal
  <2>1. signaled'[0] = Append(line, p + 1)
    BY <1>1, <1>3 DEF PostRdmaWrite, WindowInv, LinesOK
  <2>2. /\ Len(signaled'[0]) = n + 1 /\ signaled'[0][n + 1] = p + 1
        /\ \A j \in 1 .. n : signaled'[0][j] = line[j]
    BY <1>1, <2>1, AppendProperties
  <2>3. Unpolled' = Unpolled + 1 /\ Counted = 1
    BY <1>1, <1>2, <1>3, <2>2 DEF Unpolled, Counted
  <2>4. phase = SignalInterval - 1 /\ phase' = 0
    BY <1>3 DEF Signal, NextPhase
  <2>5. ASSUME NEW j \in 1 .. Len(signaled'[0])
        PROVE  signaled'[0][j] = posted'[0] - phase' - Span(Len(signaled'[0]) - j)
    <3>1. CASE j = n + 1
      <4>1. Len(signaled'[0]) - j = 0
        BY <1>1, <2>2, <3>1
      <4>2. Span(Len(signaled'[0]) - j) = 0
        BY <4>1, SpanFacts
      <4> QED
        BY <1>1, <1>2, <2>2, <2>4, <3>1, <4>2
    <3>2. CASE j # n + 1
      <4>1. j \in 1 .. n /\ n - j \in Nat /\ Len(signaled'[0]) - j = (n - j) + 1
        BY <1>1, <2>2, <3>2
      <4> DEFINE span == Span(n - j)
      <4>2. line[j] = p - phase - span
        BY <4>1 DEF Spaced
      <4>3. span \in Nat /\ Span(Len(signaled'[0]) - j) = span + SignalInterval
        BY <4>1, SpanFacts
      <4> HIDE DEF span
      <4>4. signaled'[0][j] = p - (SignalInterval - 1) - span
        BY <2>2, <2>4, <4>1, <4>2
      <4> QED
        BY <1>1, <1>2, <2>4, <4>3, <4>4
    <3> QED
      BY <3>1, <3>2
  <2>6. ASSUME NEW i \in 1 .. Len(cq)
        PROVE  cq[i].ok /\ cq[i].upto = posted'[0] - phase' - Span(Unpolled' - i)
    <3>1. Unpolled - i \in Nat /\ Unpolled' - i = (Unpolled - i) + 1
      BY <1>1, <2>3
    <3> DEFINE span == Span(Unpolled - i)
    <3>2. cq[i].ok /\ cq[i].upto = p - phase - span
      BY DEF Spaced
    <3>3. span \in Nat /\ Span(Unpolled' - i) = span + SignalInterval
      BY <3>1, SpanFacts
    <3> HIDE DEF span
    <3>4. cq[i].upto = p - (SignalInterval - 1) - span
      BY <2>4, <3>2
    <3> QED
      BY <1>1, <1>2, <2>4, <3>2, <3>3, <3>4
  <2>7. Spaced'
    BY <1>2, <2>5, <2>6 DEF Spaced
  <2>8. Span(Unpolled') = Span(Unpolled) + SignalInterval
    BY <1>1, <2>3, SpanFacts
  <2>9. signaled'[0] # <<>>
    BY <1>1, <2>2
  <2> QED
    BY <1>1, <1>2, <1>3, <2>3, <2>4, <2>7, <2>8, <2>9
<1>4. CASE ~Signal
  <2>1. signaled'[0] = line
    BY <1>1, <1>4 DEF PostRdmaWrite, WindowInv, LinesOK
  <2>2. Unpolled' = Unpolled /\ Counted = 0
    BY <1>2, <1>4, <2>1 DEF Unpolled, Counted
  <2>3. phase' = phase + 1
    BY <1>4 DEF NextPhase
  <2>4. (p + 1) - (phase + 1) = p - phase
    BY <1>1
  <2>5. Spaced'
    BY <1>2, <2>1, <2>2, <2>3, <2>4 DEF Spaced
  <2> QED
    BY <1>1, <1>2, <1>4, <2>1, <2>2, <2>3, <2>5
<1> QED
  BY <1>3, <1>4

\* In the warm-up.
LEMMA WarmPostHolding ==
  ASSUME QpCount = 1, WindowInv, Holding, WarmPost
  PROVE  Holding'
<1>1. /\ pc = "warm" /\ pc' = "warm" /\ PostRdmaWrite /\ phase' = NextPhase
      /\ outstanding' = outstanding + Counted
  BY OnlyQp DEF WarmPost
<1>2. /\ Spaced' /\ Unpolled' = Unpolled + Counted
      /\ posted'[0] = posted[0] + 1
      /\ phase' + Span(Unpolled') = phase + Span(Unpolled) + 1
      /\ UNCHANGED <<executed, freed, broken>>
      /\ signaled'[0] = <<>> => ~Signal /\ signaled[0] = <<>>
      /\ ~Signal => phase' = phase + 1
  BY <1>1, PostSpaced DEF Holding
<1>3. Carried = 0 /\ Carried' = 0 /\ LeftOver = 0 /\ LeftOver' = 0
  BY <1>1 DEF Carried, LeftOver, Measuring
<1>4. /\ posted[0] \in Nat /\ executed[0] \in Nat /\ freed[0] \in Nat /\ phase \in Nat
      /\ Span(Unpolled) \in Nat
  BY OnlyQp
<1>5. posted'[0] - freed'[0] <= phase' + Span(Unpolled') + Carried'
  <2>1. posted[0] - freed[0] <= phase + Span(Unpolled) + Carried
    BY DEF Holding
  <2> QED
    BY <1>2, <1>3, <1>4, <2>1
<1>6. signaled'[0] = <<>> => posted'[0] - executed'[0] <= phase' + LeftOver'
  <2>1. signaled[0] = <<>> => posted[0] - executed[0] <= phase + LeftOver
    BY DEF Holding
  <2> QED
    BY <1>2, <1>3, <1>4, <2>1
<1>7. Unpolled' = outstanding'
  BY <1>1, <1>2 DEF Holding
<1> QED
  BY <1>1, <1>2, <1>5, <1>6, <1>7 DEF Holding, Measuring

\* In the measurement.
LEMMA MeasuredPostHolding ==
  ASSUME QpCount = 1, WindowInv, Holding, MeasuredPost
  PROVE  Holding'
<1>1. /\ pc = "measure" /\ pc' \in {"measure", "throttle"} /\ PostRdmaWrite
      /\ phase' = NextPhase /\ outstanding' = outstanding + Counted
      /\ left > 0 /\ left' = left - 1
  BY OnlyQp DEF MeasuredPost, Advance
<1>2. /\ Spaced' /\ Unpolled' = Unpolled + Counted /\ Counted \in {0, 1}
      /\ posted'[0] = posted[0] + 1
      /\ phase' + Span(Unpolled') = phase + Span(Unpolled) + 1
      /\ UNCHANGED <<executed, freed, broken>>
      /\ signaled'[0] = <<>> => ~Signal /\ signaled[0] = <<>>
      /\ ~Signal => phase' = phase + 1
      /\ Signal => phase = SignalInterval - 1
  BY <1>1, PostSpaced DEF Holding
<1>3. /\ posted[0] \in Nat /\ executed[0] \in Nat /\ freed[0] \in Nat /\ phase \in Nat
      /\ Span(Unpolled) \in Nat /\ Unpolled \in Nat /\ outstanding \in Nat
      /\ SignalInterval \in Nat /\ SignalInterval >= 1 /\ left \in Nat /\ Iterations \in Nat
  BY OnlyQp
<1>4. Carried = SignalInterval - 1 /\ Carried' = SignalInterval - 1
  BY <1>1 DEF Carried
<1>5. /\ left <= Iterations
      /\ Iterations - left < SignalInterval => phase = Iterations - left
  BY <1>1 DEF Holding, Measuring
<1>6. posted'[0] - freed'[0] <= phase' + Span(Unpolled') + Carried'
  <2>1. posted[0] - freed[0] <= phase + Span(Unpolled) + Carried
    BY DEF Holding
  <2> QED
    BY <1>2, <1>3, <1>4, <2>1
<1>7. /\ left' <= Iterations
      /\ Iterations - left' < SignalInterval => phase' = Iterations - left'
  <2>1. left' <= Iterations /\ Iterations - left' = (Iterations - left) + 1
    BY <1>1, <1>3, <1>5
  <2>2. CASE Signal
    <3>1. Iterations - left >= SignalInterval - 1
      BY <1>2, <1>3, <1>5, <2>2
    <3> QED
      BY <1>3, <2>1, <3>1
  <2>3. CASE ~Signal
    BY <1>2, <1>3, <1>5, <2>1, <2>3
  <2> QED
    BY <2>1, <2>2, <2>3
<1>8. signaled'[0] = <<>> => posted'[0] - executed'[0] <= phase' + LeftOver'
  <2> SUFFICES ASSUME signaled'[0] = <<>>
               PROVE  posted'[0] - executed'[0] <= phase' + LeftOver'
    OBVIOUS
  <2>1. ~Signal /\ posted[0] - executed[0] <= phase + LeftOver /\ phase' = phase + 1
    BY <1>2 DEF Holding
  <2>2. phase # SignalInterval - 1
    BY <2>1 DEF Signal
  <2>3. LeftOver' = LeftOver
    BY <1>1, <1>3, <1>5, <2>2 DEF LeftOver, Measuring
  <2>4. LeftOver \in Nat
    BY <1>3 DEF LeftOver
  <2>5. posted'[0] = posted[0] + 1 /\ executed'[0] = executed[0]
    BY <1>2
  <2> QED
    BY <1>3, <2>1, <2>3, <2>4, <2>5
<1>9. Unpolled' <= outstanding'
  <2>1. Unpolled <= outstanding
    BY <1>1 DEF Holding
  <2> QED
    BY <1>1, <1>2, <1>3, <2>1
<1> QED
  BY <1>1, <1>2, <1>6, <1>7, <1>8, <1>9 DEF Holding

\* The send queue is never full behind the warm-up.
LEMMA PostFailsHolding ==
  ASSUME QpCount = 1, WindowInv, Holding, PostFails
  PROVE  Holding'
<1>1. /\ pc \in {"warm", "measure"} /\ posted[q] - freed[q] >= SqDepth
      /\ pc' = IF pc = "warm" THEN "diedWarm" ELSE "died"
      /\ UNCHANGED <<left, q, phase, outstanding, posted, executed, freed, signaled, cq,
                     broken>>
  BY DEF PostFails, loopVars, queueVars
<1>2. pc # "measure"
  <2> SUFFICES ASSUME pc = "measure" PROVE FALSE
    OBVIOUS
  <2>1. /\ posted[0] \in Nat /\ freed[0] \in Nat /\ phase \in Nat
        /\ phase <= SignalInterval - 1 /\ Span(Unpolled) \in Nat /\ Unpolled \in Nat
        /\ SignalInterval \in Nat /\ SignalInterval >= 1 /\ outstanding \in Nat /\ q = 0
    BY OnlyQp
  <2>2. PollMark \in Nat /\ PollMark >= 1 /\ 2 * Span(PollMark) <= SqDepth /\ SqDepth \in Nat
    BY PollMarkBound, SizesAssumption
  <2>3. Unpolled + 1 <= PollMark
    BY <2>1, <2>2 DEF WindowInv, Waits, Holding
  <2>4. Span(Unpolled + 1) = Span(Unpolled) + SignalInterval /\ Span(PollMark) \in Nat
        /\ Span(Unpolled + 1) <= Span(PollMark)
    BY <2>1, <2>2, <2>3, SpanFacts
  <2>5. posted[0] - freed[0] <= phase + Span(Unpolled) + SignalInterval - 1
    BY <2>1 DEF Holding, Carried
  <2>6. posted[0] - freed[0] >= SqDepth
    BY <1>1, <2>1
  <2> QED
    BY <2>1, <2>2, <2>4, <2>5, <2>6
<1>3. pc = "warm" /\ pc' = "diedWarm"
  BY <1>1, <1>2
<1>4. Unpolled' = Unpolled /\ Carried' = Carried /\ LeftOver' = LeftOver /\ Spaced'
  BY <1>1, <1>3 DEF Unpolled, Carried, LeftOver, Measuring, Holding, Spaced
<1> QED
  BY <1>1, <1>3, <1>4 DEF Holding, Measuring

\* The measurement begins when all that the warm-up has signaled is polled.
LEMMA StartHolding ==
  ASSUME QpCount = 1, WindowInv, Holding, pc \in {"warm", "warmDrain"}, StartMeasuring,
         cq' = <<>>, signaled' = signaled, signaled[0] = <<>>,
         posted' = posted, executed' = executed,
         posted[0] - freed'[0] <= SignalInterval - 1, freed'[0] \in Nat
  PROVE  Holding'
<1>1. /\ pc' = "measure" /\ left' = Iterations /\ phase' = 0 /\ outstanding' = 0
  BY DEF StartMeasuring
<1>2. /\ posted[0] \in Nat /\ executed[0] \in Nat /\ phase \in Nat
      /\ phase <= SignalInterval - 1
      /\ SignalInterval \in Nat /\ SignalInterval >= 1 /\ Iterations \in Nat
  BY OnlyQp
<1>3. Unpolled' = 0 /\ Span(Unpolled') = 0
  BY SpanFacts DEF Unpolled
<1>4. Spaced'
  BY DEF Spaced
<1>5. Carried' = SignalInterval - 1 /\ LeftOver' = SignalInterval - 1 /\ LeftOver = 0
  BY <1>1, <1>2 DEF Carried, LeftOver, Measuring
<1>6. posted'[0] - executed'[0] <= phase' + LeftOver'
  BY <1>1, <1>2, <1>5 DEF Holding
<1>7. posted'[0] - freed'[0] <= phase' + Span(Unpolled') + Carried'
  BY <1>1, <1>2, <1>3, <1>5
<1> QED
  BY <1>1, <1>2, <1>3, <1>4, <1>6, <1>7 DEF Holding

\* A queue of writes without a completion to come is empty.
LEMMA AllPolled ==
  ASSUME QpCount = 1, WindowInv, Unpolled = 0
  PROVE  cq = <<>> /\ signaled[0] = <<>>
<1>1. /\ signaled[0] \in Seq(Nat) /\ cq \in Seq(Completion)
      /\ Len(signaled[0]) \in Nat /\ Len(cq) \in Nat
  BY OnlyQp
<1>2. Len(cq) = 0 /\ Len(signaled[0]) = 0
  BY <1>1 DEF Unpolled
<1> QED
  BY <1>1, <1>2, EmptySeq

\* The loops end.
LEMMA EndsHolding ==
  ASSUME QpCount = 1, WindowInv, Holding, WarmEnd \/ MeasureEnd
  PROVE  Holding'
<1>1. UNCHANGED <<posted, executed, freed, signaled, cq, broken>>
  BY DEF WarmEnd, MeasureEnd, queueVars
<1>2. Unpolled' = Unpolled /\ Unpolled \in Nat /\ outstanding \in Nat
  BY <1>1, OnlyQp DEF Unpolled
<1>3. CASE WarmEnd /\ outstanding > 0
  <2>1. pc = "warm" /\ pc' = "warmDrain" /\ need' = outstanding /\ UNCHANGED <<left, phase>>
    BY <1>3 DEF WarmEnd, loopVars
  <2>2. Spaced' /\ Carried' = Carried /\ LeftOver' = LeftOver
    BY <1>1, <1>2, <2>1 DEF Holding, Spaced, Carried, LeftOver, Measuring
  <2> QED
    BY <1>1, <1>2, <2>1, <2>2 DEF Holding, Measuring
<1>4. CASE WarmEnd /\ ~(outstanding > 0)
  <2>1. pc = "warm" /\ StartMeasuring
    BY <1>4 DEF WarmEnd
  <2>2. Unpolled = 0
    BY <1>2, <1>4, <2>1 DEF Holding
  <2>3. cq = <<>> /\ signaled[0] = <<>>
    BY <2>2, AllPolled
  <2>4. posted[0] - freed[0] <= SignalInterval - 1 /\ freed[0] \in Nat
    <3>1. Span(Unpolled) = 0 /\ Carried = 0
      BY <2>1, <2>2, SpanFacts DEF Carried
    <3>2. posted[0] - freed[0] <= phase + Span(Unpolled) + Carried
      BY DEF Holding
    <3>3. posted[0] \in Nat /\ freed[0] \in Nat /\ phase \in Nat /\ phase <= SignalInterval - 1
          /\ SignalInterval \in Nat
      BY OnlyQp
    <3> QED
      BY <3>1, <3>2, <3>3
  <2> QED
    BY <1>1, <2>1, <2>3, <2>4, StartHolding
<1>5. CASE MeasureEnd
  <2>1. /\ pc = "measure" /\ left = 0 /\ UNCHANGED <<left, phase, outstanding>>
        /\ \/ pc' = "drain" /\ need' = outstanding
           \/ pc' = "done" /\ ~(outstanding > 0)
    BY <1>5 DEF MeasureEnd, MustDrain, loopVars
  <2>2. Spaced' /\ Carried' = Carried /\ LeftOver' = LeftOver
    BY <1>1, <1>2, <2>1 DEF Holding, Spaced, Carried, LeftOver, Measuring
  <2>3. Unpolled <= outstanding
    BY <2>1 DEF Holding
  <2>4. /\ pc' = "drain" => Unpolled' <= need'
        /\ pc' = "done" => Unpolled' = 0
    BY <1>2, <2>1, <2>3
  <2> QED
    BY <1>1, <1>2, <2>1, <2>2, <2>4 DEF Holding, Measuring
<1> QED
  BY <1>3, <1>4, <1>5

\* Completions are polled: the last of them gives its slots back.
LEMMA PollSpaced ==
  ASSUME QpCount = 1, WindowInv, Spaced, PollCompletions
  PROVE  /\ Unpolled' = Unpolled - Taken /\ Unpolled' \in Nat /\ Taken \in Nat /\ 1 <= Taken
         /\ posted[0] - freed'[0] = phase + Span(Unpolled') /\ freed'[0] \in Nat
         /\ \A i \in 1 .. Len(cq') :
              cq'[i].ok /\ cq'[i].upto = posted[0] - phase - Span(Unpolled' - i)
         /\ \A j \in 1 .. Taken : cq[j].ok
<1>1. /\ Qps = {0} /\ posted[0] \in Nat /\ phase \in Nat /\ cq \in Seq(Completion)
      /\ Len(signaled[0]) \in Nat /\ Len(cq) \in Nat
  BY OnlyQp
<1>2. /\ Taken \in Nat /\ 1 <= Taken /\ Taken <= Len(cq)
      /\ Len(cq') = Len(cq) - Taken /\ freed' \in [Qps -> Nat]
      /\ \A i \in 1 .. Len(cq') : cq'[i] = cq[Taken + i]
  BY PollEffect
<1>3. /\ freed'[0] = IF LastOf(0) = {} THEN freed[0]
                     ELSE cq[CHOOSE i \in LastOf(0) : TRUE].upto
      /\ signaled' = signaled
  BY <1>1 DEF PollCompletions
<1>4. /\ Unpolled' = Unpolled - Taken /\ Unpolled' \in Nat /\ Unpolled \in Nat
  BY <1>1, <1>2, <1>3 DEF Unpolled
<1>5. LastOf(0) = {Taken}
  <2>1. \A i \in 1 .. Taken : cq[i].qp = 0
    <3>1. \A i \in 1 .. Len(cq) : cq[i] \in Completion
      BY <1>1, ElementOfSeq
    <3>2. \A i \in 1 .. Taken : cq[i] \in Completion
      BY <1>1, <1>2, <3>1
    <3> QED
      BY <1>1, <3>2 DEF Completion
  <2>2. Taken \in 1 .. Taken
    BY <1>2
  <2>3. Taken \in LastOf(0)
    BY <1>2, <2>1, <2>2 DEF LastOf
  <2>4. \A i \in LastOf(0) : i = Taken
    <3> SUFFICES ASSUME NEW i \in 1 .. Taken, \A j \in i + 1 .. Taken : cq[j].qp # 0,
                        i # Taken
                 PROVE  FALSE
      BY DEF LastOf
    <3>1. Taken \in i + 1 .. Taken
      BY <1>2
    <3> QED
      BY <2>1, <2>2, <3>1
  <2> QED
    BY <2>3, <2>4
<1>6. freed'[0] = cq[Taken].upto
  BY <1>3, <1>5
<1>7. Taken \in 1 .. Len(cq) /\ \A j \in 1 .. Taken : j \in 1 .. Len(cq)
  BY <1>1, <1>2
<1>8. posted[0] - freed'[0] = phase + Span(Unpolled')
  <2>1. cq[Taken].upto = posted[0] - phase - Span(Unpolled - Taken)
    BY <1>7 DEF Spaced
  <2>2. Span(Unpolled') \in Nat
    BY <1>4, SpanFacts
  <2> QED
    BY <1>1, <1>4, <1>6, <2>1, <2>2
<1>9. ASSUME NEW i \in 1 .. Len(cq')
      PROVE  cq'[i].ok /\ cq'[i].upto = posted[0] - phase - Span(Unpolled' - i)
  <2>1. Taken + i \in 1 .. Len(cq) /\ Unpolled' - i = Unpolled - (Taken + i)
    BY <1>1, <1>2, <1>4
  <2> QED
    BY <1>2, <2>1 DEF Spaced
<1> QED
  BY <1>1, <1>2, <1>4, <1>7, <1>8, <1>9 DEF Spaced

\* And the program goes on, or waits for more.
LEMMA PollHolding ==
  ASSUME QpCount = 1, WindowInv, Holding, PollCompletions
  PROVE  Holding'
<1>1. /\ Unpolled' = Unpolled - Taken /\ Unpolled' \in Nat /\ Taken \in Nat /\ 1 <= Taken
      /\ posted[0] - freed'[0] = phase + Span(Unpolled') /\ freed'[0] \in Nat
      /\ \A i \in 1 .. Len(cq') :
           cq'[i].ok /\ cq'[i].upto = posted[0] - phase - Span(Unpolled' - i)
      /\ \A j \in 1 .. Taken : cq[j].ok
  BY PollSpaced DEF Holding
<1>2. UNCHANGED <<posted, executed, signaled, broken>>
  BY DEF PollCompletions
<1>3. /\ phase \in Nat /\ phase <= SignalInterval - 1 /\ SignalInterval \in Nat
      /\ SignalInterval >= 1 /\ Unpolled \in Nat /\ outstanding \in Nat /\ need \in Nat
  BY OnlyQp
<1>4. phase' = phase => Spaced'
  BY <1>1, <1>2 DEF Holding, Spaced
<1>5. phase' = phase => posted'[0] - freed'[0] <= phase' + Span(Unpolled') + Carried'
  <2>1. Carried' \in Nat
    BY <1>3 DEF Carried
  <2>2. Span(Unpolled') \in Nat
    BY <1>1, SpanFacts
  <2> QED
    BY <1>1, <1>2, <1>3, <2>1, <2>2
<1>6. CASE ~(need <= Taken)
  <2>1. /\ need' = need - Taken /\ pc \in {"warmDrain", "throttle", "drain"}
        /\ UNCHANGED <<pc, left, phase, outstanding>>
    BY <1>1, <1>6 DEF PollCompletions, loopVars
  <2>2. LeftOver' = LeftOver
    BY <2>1 DEF LeftOver
  <2>3. /\ pc = "warmDrain" => Unpolled' = need'
        /\ pc = "throttle" => Unpolled' <= outstanding'
        /\ pc = "drain" => Unpolled' <= need'
    BY <1>1, <1>3, <2>1 DEF Holding
  <2> QED
    BY <1>2, <1>4, <1>5, <2>1, <2>2, <2>3 DEF Holding, Measuring
<1>7. CASE need <= Taken
  <2>1. AfterPolling
    BY <1>7 DEF PollCompletions
  <2>2. CASE pc = "warmDrain" /\ StartMeasuring
    <3>1. Unpolled' = 0
      BY <1>1, <1>3, <1>7, <2>2 DEF Holding
    <3>2. cq' = <<>> /\ signaled[0] = <<>>
      <4>1. WindowInv'
        BY WindowStep DEF Program
      <4>2. cq' \in Seq(Completion) /\ Len(cq') \in Nat
        BY <4>1, LenProperties DEF WindowInv, LinesOK
      <4>3. signaled[0] \in Seq(Nat) /\ Len(signaled[0]) \in Nat
        BY OnlyQp
      <4>4. Len(cq') = 0 /\ Len(signaled[0]) = 0
        BY <1>2, <3>1, <4>2, <4>3 DEF Unpolled
      <4> QED
        BY <4>2, <4>3, <4>4, EmptySeq
    <3>3. posted[0] - freed'[0] <= SignalInterval - 1
      <4>1. Span(Unpolled') = 0
        BY <3>1, SpanFacts
      <4> QED
        BY <1>1, <1>3, <4>1
    <3> QED
      BY <1>1, <1>2, <2>2, <3>2, <3>3, StartHolding
  <2>3. CASE /\ pc = "throttle" /\ pc' = "measure" /\ outstanding' = outstanding - 1
             /\ UNCHANGED loopVars
    <3>1. left' = left /\ phase' = phase
      BY <2>3 DEF loopVars
    <3>2. LeftOver' = LeftOver
      BY <2>3, <3>1 DEF LeftOver, Measuring
    <3>3. Unpolled' <= outstanding'
      BY <1>1, <1>3, <2>3 DEF Holding
    <3> QED
      BY <1>2, <1>4, <1>5, <2>3, <3>1, <3>2, <3>3 DEF Holding, Measuring
  <2>4. CASE pc = "drain" /\ pc' = "done" /\ UNCHANGED <<loopVars, outstanding>>
    <3>1. left' = left /\ phase' = phase
      BY <2>4 DEF loopVars
    <3>2. LeftOver' = LeftOver
      BY <2>4, <3>1 DEF LeftOver, Measuring
    <3>3. Unpolled' = 0
      BY <1>1, <1>3, <1>7, <2>4 DEF Holding
    <3> QED
      BY <1>2, <1>4, <1>5, <2>4, <3>1, <3>2, <3>3 DEF Holding, Measuring
  <2> QED
    BY <2>1, <2>2, <2>3, <2>4 DEF AfterPolling
<1> QED
  BY <1>6, <1>7

\* The adapter finishes a write, and a signaled one moves to the completions.
LEMMA ExecuteHolding ==
  ASSUME QpCount = 1, WindowInv, Holding, ~broken[0], Execute(0)
  PROVE  Holding'
<1> DEFINE line == signaled[0]
           n == executed[0] + 1
           c == [qp |-> 0, upto |-> n, ok |-> ~broken[0]]
<1>1. /\ Qps = {0} /\ posted[0] \in Nat /\ executed[0] \in Nat /\ phase \in Nat
      /\ line \in Seq(Nat) /\ cq \in Seq(Completion) /\ Len(line) \in Nat /\ Len(cq) \in Nat
      /\ Unpolled \in Nat
  BY OnlyQp
<1>2. /\ executed'[0] = n
      /\ UNCHANGED <<pc, left, phase, outstanding, need, posted, freed, broken>>
      /\ \/ /\ line # <<>> /\ Head(line) = n
            /\ signaled'[0] = Tail(line)
            /\ cq' = Append(cq, c)
         \/ signaled' = signaled /\ cq' = cq
  <2>1. /\ executed' = [executed EXCEPT ![0] = n]
        /\ UNCHANGED <<pc, left, phase, outstanding, need, posted, freed, broken>>
        /\ \/ /\ line # <<>> /\ Head(line) = n
              /\ signaled' = [signaled EXCEPT ![0] = Tail(@)]
              /\ cq' = Append(cq, c)
           \/ signaled' = signaled /\ (broken[0] \/ cq' = cq)
    BY <1>1, ExecuteEffect DEF loopVars
  <2>2. executed \in [Qps -> Nat] /\ signaled \in [Qps -> Seq(Nat)]
    BY DEF WindowInv, WindowTypeOK, LinesOK
  <2> QED
    BY <1>1, <2>1, <2>2
<1>3. Carried' = Carried /\ LeftOver' = LeftOver /\ LeftOver \in Nat
  BY <1>2, SizesAssumption DEF Carried, LeftOver
<1>4. CASE line # <<>> /\ Head(line) = n /\ signaled'[0] = Tail(line) /\ cq' = Append(cq, c)
  <2>1. /\ Len(line) >= 1 /\ line[1] = n /\ Len(signaled'[0]) = Len(line) - 1
        /\ \A j \in 1 .. Len(signaled'[0]) : signaled'[0][j] = line[j + 1]
    BY <1>1, <1>4, HeadTailProperties, EmptySeq
  <2>2. c \in Completion /\ c.ok /\ c.upto = n
    <3>1. broken[0] \in BOOLEAN /\ n \in Nat /\ 0 \in Qps
      BY <1>1 DEF WindowInv, WindowTypeOK
    <3>2. c \in Completion
      BY <3>1 DEF Completion
    <3>3. c.ok /\ c.upto = n
      OBVIOUS
    <3> QED
      BY <3>2, <3>3
  <2> HIDE DEF c
  <2>3. /\ Len(cq') = Len(cq) + 1 /\ cq'[Len(cq) + 1] = c
        /\ \A i \in 1 .. Len(cq) : cq'[i] = cq[i]
    BY <1>1, <1>4, <2>2, AppendProperties
  <2>4. Unpolled' = Unpolled
    <3>1. Len(cq') = Len(cq) + 1 /\ Len(signaled'[0]) = Len(signaled[0]) - 1
      BY <2>1, <2>3
    <3>2. Len(cq) \in Nat /\ Len(signaled[0]) \in Nat
      BY <1>1
    <3>3. \A a, b \in Nat : (a + 1) + (b - 1) = a + b
      OBVIOUS
    <3>4. Len(cq') + Len(signaled'[0]) = Len(cq) + Len(signaled[0])
      BY <3>1, <3>2, <3>3
    <3> QED
      BY <3>4 DEF Unpolled
  <2>5. n = posted[0] - phase - Span(Len(line) - 1)
    <3>1. 1 \in 1 .. Len(line)
      BY <1>1, <2>1
    <3> QED
      BY <2>1, <3>1 DEF Holding, Spaced
  <2>6. ASSUME NEW j \in 1 .. Len(signaled'[0])
        PROVE  signaled'[0][j] = posted[0] - phase - Span(Len(signaled'[0]) - j)
    <3>1. j + 1 \in 1 .. Len(line) /\ Len(signaled'[0]) - j = Len(line) - (j + 1)
      BY <1>1, <2>1
    <3> QED
      BY <2>1, <3>1 DEF Holding, Spaced
  <2>7. ASSUME NEW i \in 1 .. Len(cq')
        PROVE  cq'[i].ok /\ cq'[i].upto = posted[0] - phase - Span(Unpolled - i)
    <3>1. CASE i \in 1 .. Len(cq)
      BY <2>3, <3>1 DEF Holding, Spaced
    <3>2. CASE i = Len(cq) + 1
      <4>1. Unpolled - i = Len(line) - 1
        BY <1>1, <3>2 DEF Unpolled
      <4> QED
        BY <2>2, <2>3, <2>5, <3>2, <4>1
    <3>3. i \in 1 .. Len(cq) \/ i = Len(cq) + 1
      BY <1>1, <2>3
    <3> QED
      BY <3>1, <3>2, <3>3
  <2>8. Spaced'
    BY <1>2, <2>4, <2>6, <2>7 DEF Spaced
  <2>9. signaled'[0] = <<>> => posted'[0] - executed'[0] <= phase' + LeftOver'
    <3> SUFFICES ASSUME signaled'[0] = <<>>
                 PROVE  posted'[0] - executed'[0] <= phase' + LeftOver'
      OBVIOUS
    <3>1. Len(line) - 1 = 0
      BY <2>1
    <3>2. Span(Len(line) - 1) = 0
      BY <3>1, SpanFacts
    <3>3. n = posted[0] - phase
      BY <1>1, <2>5, <3>2
    <3> QED
      BY <1>1, <1>2, <1>3, <3>3
  <2> QED
    BY <1>2, <1>3, <2>4, <2>8, <2>9 DEF Holding
<1>5. CASE signaled' = signaled /\ cq' = cq
  <2>1. Unpolled' = Unpolled /\ Spaced'
    BY <1>2, <1>5 DEF Unpolled, Holding, Spaced
  <2>2. signaled'[0] = <<>> => posted'[0] - executed'[0] <= phase' + LeftOver'
    BY <1>1, <1>2, <1>3, <1>5 DEF Holding
  <2> QED
    BY <1>2, <1>3, <2>1, <2>2 DEF Holding
<1> QED
  BY <1>2, <1>4, <1>5

\* Every step keeps the distances, or breaks the connection.
LEMMA SingleStep ==
  ASSUME QpCount = 1, WindowInv, SingleInv,
         Program \/ \E k \in Qps : Execute(k) \/ Break(k)
  PROVE  SingleInv'
<1>1. Qps = {0}
  BY OnlyQp
<1>2. CASE broken[0]
  <2>1. broken' = broken \/ \E k \in Qps : broken' = [broken EXCEPT ![k] = TRUE]
    BY DEF Program, WarmPost, MeasuredPost, PostRdmaWrite, PostFails, WarmEnd, MeasureEnd,
           PollCompletions, Execute, Break, queueVars
  <2>2. broken'[0]
    BY <1>1, <1>2, <2>1 DEF WindowInv, WindowTypeOK
  <2> QED
    BY <2>2 DEF SingleInv
<1>3. CASE ~broken[0]
  <2>1. Holding
    BY <1>3 DEF SingleInv
  <2>2. CASE Program
    BY <2>1, <2>2, WarmPostHolding, MeasuredPostHolding, PostFailsHolding, EndsHolding,
       PollHolding DEF Program, SingleInv
  <2>3. CASE Execute(0)
    BY <1>3, <2>1, <2>3, ExecuteHolding DEF SingleInv
  <2>4. CASE Break(0)
    <3>1. broken'[0]
      BY <1>1, <2>4 DEF Break, WindowInv, WindowTypeOK
    <3> QED
      BY <3>1 DEF SingleInv
  <2> QED
    BY <1>1, <2>2, <2>3, <2>4
<1> QED
  BY <1>2, <1>3

----------------------------------------------------------------------------
(* The program keeps the books of the benchmark.                           *)

\* They are in order at first.
LEMMA InitWindow == WindowInit => WindowInv /\ (QpCount = 1 => SingleInv)
<1> SUFFICES ASSUME WindowInit PROVE WindowInv /\ (QpCount = 1 => SingleInv)
  OBVIOUS
<1> USE SizesAssumption DEF WindowInit
<1>1. WindowTypeOK
  <2>1. 0 \in Qps /\ 0 \in 0 .. SignalInterval - 1 /\ Warmup \in Nat
    BY DEF Qps
  <2> QED
    BY <2>1 DEF WindowTypeOK
<1>2. Marked = {}
  <2>1. \A k \in Qps : Len(signaled[k]) = 0
    OBVIOUS
  <2> QED
    BY <2>1, InMarked
<1>3. LinesOK
  BY <1>2, FS_EmptySet DEF LinesOK
<1>4. Waits
  <2>1. Coming = 0 /\ outstanding = 0
    BY <1>2, FS_EmptySet DEF Coming
  <2> QED
    BY <2>1 DEF Waits
<1>5. ASSUME QpCount = 1 PROVE Holding
  <2>1. 0 \in Qps
    BY <1>5 DEF Qps
  <2>2. /\ pc = "warm" /\ posted[0] = 0 /\ executed[0] = 0 /\ freed[0] = 0 /\ phase = 0
        /\ cq = <<>> /\ signaled[0] = <<>> /\ outstanding = 0
    BY <2>1
  <2>3. Unpolled = 0
    BY <2>2 DEF Unpolled
  <2>4. Span(Unpolled) = 0
    BY <2>3, SpanFacts
  <2>5. Spaced
    BY <2>2 DEF Spaced
  <2>6. Carried = 0 /\ LeftOver = 0
    BY <2>2 DEF Carried, LeftOver, Measuring
  <2> QED
    BY <2>2, <2>3, <2>4, <2>5, <2>6 DEF Holding, Measuring
<1> QED
  BY <1>1, <1>3, <1>4, <1>5 DEF WindowInv, SingleInv

\* They stay so while the benchmark rests ...
LEMMA RestWindow ==
  ASSUME WindowInv, UNCHANGED windowVars
  PROVE  WindowInv' /\ (SingleInv => SingleInv')
<1>1. UNCHANGED <<pc, left, q, phase, outstanding, need, posted, executed, freed, signaled,
                  cq, broken>>
  BY DEF windowVars
<1>2. Marked' = Marked /\ Coming' = Coming
  BY <1>1 DEF Marked, Coming
<1>3. WindowInv'
  BY <1>1, <1>2 DEF WindowInv, WindowTypeOK, LinesOK, Waits
<1>4. Unpolled' = Unpolled /\ Carried' = Carried /\ LeftOver' = LeftOver
  BY <1>1 DEF Unpolled, Carried, LeftOver
<1>5. SingleInv => SingleInv'
  BY <1>1, <1>4 DEF SingleInv, Holding, Spaced
<1> QED
  BY <1>3, <1>5

\* ... and when its end is told.
LEMMA SaidWindow ==
  ASSUME WindowInv, pc = "done", pc' = "said",
         UNCHANGED <<loopVars, outstanding, need, queueVars>>
  PROVE  WindowInv' /\ (SingleInv => SingleInv')
<1>1. UNCHANGED <<left, q, phase, outstanding, need, posted, executed, freed, signaled,
                  cq, broken>>
  BY DEF loopVars, queueVars
<1>2. Marked' = Marked
  BY <1>1 DEF Marked
<1>3. WindowInv'
  BY <1>1, <1>2 DEF WindowInv, WindowTypeOK, LinesOK, Waits, Measuring
<1>4. Unpolled' = Unpolled /\ Carried' = Carried /\ LeftOver' = LeftOver
  BY <1>1 DEF Unpolled, Carried, LeftOver, Measuring
<1>5. SingleInv => SingleInv'
  BY <1>1, <1>4 DEF SingleInv, Holding, Spaced, Measuring
<1> QED
  BY <1>3, <1>5

\* Every step of the program keeps them.
LEMMA NextWindow ==
  ASSUME WindowInv, [ProgramNext]_programVars
  PROVE  WindowInv' /\ (QpCount = 1 /\ SingleInv => SingleInv')
<1>1. CASE Program \/ \E k \in Qps : Execute(k) \/ Break(k)
  BY <1>1, WindowStep, SingleStep
<1>2. CASE UNCHANGED windowVars
  BY <1>2, RestWindow
<1>3. CASE SignalCompletion
  BY <1>3, SaidWindow DEF SignalCompletion
<1> QED
  BY <1>1, <1>2, <1>3 DEF ProgramNext, During, ConnectQp, ModifyFails, RunBenchmark,
     SignalKilled, ClientCleanup, ServerEnds, Adapter, programVars

----------------------------------------------------------------------------
(* The two processes, in a program that connects its queue pairs.          *)

\* Nothing is written, read or connected at first.
LEMMA InitPeers == ProgramInit => PeersInv
<1> SUFFICES ASSUME ProgramInit PROVE PeersInv
  OBVIOUS
<1> USE DEF ProgramInit, ShakeInit, WindowInit
<1>1. ShakeTypeOK
  <2>1. <<>> \in Seq({ToldQp})
    BY EmptySeq
  <2> QED
    BY <2>1 DEF ShakeTypeOK, Stages
<1>2. \A p \in Peers : Written(p) /\ Heard(p) /\ Wires(p)
  BY DEF Written, Heard, Wires, Other, Peers
<1>3. Phases
  BY DEF Phases, Peers
<1> QED
  BY <1>1, <1>2, <1>3 DEF PeersInv

\* The two processes and their peers.
LEMMA TwoPeers ==
  /\ Server \in Peers /\ Client \in Peers /\ Server # Client
  /\ \A p \in Peers : /\ Other(p) \in Peers /\ Other(p) # p /\ Other(Other(p)) = p
                      /\ \A r \in Peers : r = p \/ r = Other(p)
BY PeersDiffer DEF Peers, Other

\* When one process moves on, what is known of the other one stays.
LEMMA PeerMoves ==
  ASSUME PeersInv, NEW p \in Peers, ~Gone(p),
         NEW next \in Stages, NEW w \in Nat, NEW g \in Nat, NEW t \in Seq({ToldQp}),
         w >= wrote[p], g <= wrote[Other(p)],
         stage' = [stage EXCEPT ![p] = next],
         wrote' = [wrote EXCEPT ![p] = w],
         got' = [got EXCEPT ![p] = g],
         to' = [to EXCEPT ![p] = t],
         linked' \in BOOLEAN,
         p = Client \/ pc' = pc
  PROVE  /\ stage'[p] = next /\ wrote'[p] = w /\ got'[p] = g /\ to'[p] = t
         /\ stage'[Other(p)] = stage[Other(p)] /\ wrote'[Other(p)] = wrote[Other(p)]
         /\ Written(p)' /\ Wires(p)' /\ Phases'
              /\ (stage'[p] \in {"setup", "sync", "await"} => got'[p] = InfoLen)
              /\ (stage'[p] \in {"start", "accept", "write", "read"} => got'[p] = 0)
              /\ (stage'[p] = "running" => got'[p] = InfoLen + 1 \/ Gone(Other(p)))
              => PeersInv'
<1> DEFINE o == Other(p)
<1>1. o \in Peers /\ o # p /\ Other(o) = p /\ \A r \in Peers : r = p \/ r = o
  BY TwoPeers
<1>2. /\ stage \in [Peers -> Stages] /\ wrote \in [Peers -> Nat] /\ got \in [Peers -> Nat]
      /\ to \in [Peers -> Seq({ToldQp})]
      /\ Written(o) /\ Heard(o) /\ Wires(o)
  BY <1>1 DEF PeersInv, ShakeTypeOK
<1>3. /\ stage'[p] = next /\ wrote'[p] = w /\ got'[p] = g /\ to'[p] = t
      /\ stage'[o] = stage[o] /\ wrote'[o] = wrote[o] /\ got'[o] = got[o] /\ to'[o] = to[o]
      /\ stage' \in [Peers -> Stages] /\ wrote' \in [Peers -> Nat] /\ got' \in [Peers -> Nat]
      /\ to' \in [Peers -> Seq({ToldQp})]
  BY <1>1, <1>2
<1>4. ShakeTypeOK'
  BY <1>3 DEF ShakeTypeOK
<1>5. Written(o)'
  <2>1. o = Client => pc' = pc
    BY <1>1
  <2> QED
    BY <1>2, <1>3, <2>1 DEF Written
<1>6. Heard(o)'
  <2>1. got'[o] <= wrote'[Other(o)]
    BY <1>1, <1>2, <1>3 DEF Heard
  <2>2. stage[o] = "running" => got[o] = InfoLen + 1
    BY <1>1, <1>2 DEF Heard
  <2> QED
    BY <1>2, <1>3, <2>1, <2>2 DEF Heard
<1>7. Wires(o)'
  BY <1>2, <1>3 DEF Wires
<1>8. Gone(Other(p))' <=> Gone(Other(p))
  BY <1>3 DEF Gone
<1>9. ASSUME /\ Written(p)' /\ Wires(p)' /\ Phases'
             /\ (stage'[p] \in {"setup", "sync", "await"} => got'[p] = InfoLen)
             /\ (stage'[p] \in {"start", "accept", "write", "read"} => got'[p] = 0)
             /\ (stage'[p] = "running" => got'[p] = InfoLen + 1 \/ Gone(Other(p)))
      PROVE  PeersInv'
  <2>1. Heard(p)'
    BY <1>3, <1>8, <1>9 DEF Heard
  <2> QED
    BY <1>1, <1>4, <1>5, <1>6, <1>7, <1>9, <2>1 DEF PeersInv
<1> QED
  BY <1>3, <1>9

\* A step of the handshake.
LEMMA ShakePeers ==
  ASSUME AfterExchange = "setup", PeersInv, pc' = pc, to' = to,
         Greet \/ \E p \in Peers : Shake(p)
  PROVE  PeersInv'
<1> USE InfoAssumption
<1>1. CASE Greet
  <2>1. PICK p \in Peers, next \in {"accept", "write", "exited"} :
          /\ stage[p] \in {"start", "accept"}
          /\ p = Client => next # "accept"
          /\ stage' = [stage EXCEPT ![p] = next]
          /\ linked' \in {linked, TRUE} /\ UNCHANGED <<wrote, got>>
    BY <1>1, TwoPeers DEF Greet, Listen, Connect, ConnectRefused, Accept, Enter, Exit
  <2>2. /\ wrote[p] \in Nat /\ got[p] \in Nat /\ to[p] \in Seq({ToldQp}) /\ next \in Stages
        /\ wrote \in [Peers -> Nat] /\ got \in [Peers -> Nat]
        /\ to \in [Peers -> Seq({ToldQp})] /\ linked' \in BOOLEAN
        /\ Written(p) /\ Heard(p) /\ Wires(p)
    BY <2>1 DEF PeersInv, ShakeTypeOK, Stages
  <2>3. /\ wrote' = [wrote EXCEPT ![p] = wrote[p]] /\ got' = [got EXCEPT ![p] = got[p]]
        /\ to' = [to EXCEPT ![p] = to[p]]
    BY <2>1, <2>2
  <2>4. ~Gone(p) /\ wrote[p] >= wrote[p] /\ got[p] <= wrote[Other(p)]
    BY <2>1, <2>2 DEF Gone, Heard
  <2>5. stage'[p] = next /\ stage'[Other(p)] = stage[Other(p)]
        /\ wrote'[p] = wrote[p] /\ got'[p] = got[p] /\ to'[p] = to[p]
    <3>1. stage \in [Peers -> Stages]
      BY DEF PeersInv, ShakeTypeOK
    <3>2. Other(p) \in Peers /\ Other(p) # p
      BY TwoPeers
    <3> QED
      BY <2>1, <3>1, <3>2
  <2>6. Written(p)' /\ Wires(p)'
    BY <2>1, <2>2, <2>5 DEF Written, Wires
  <2>7. Phases'
    <3>1. CASE p = Server
      BY <2>1, <2>5, <3>1 DEF Phases, PeersInv, Gone, Other
    <3>2. CASE p = Client
      BY <2>1, <2>5, <3>2, PeersDiffer DEF Phases, PeersInv, Gone, Other
    <3> QED
      BY <3>1, <3>2 DEF Peers
  <2>8. /\ stage'[p] \notin {"setup", "sync", "await", "running"}
        /\ got'[p] = 0
    BY <2>1, <2>2, <2>5 DEF Heard
  <2> QED
    BY <2>1, <2>2, <2>3, <2>4, <2>6, <2>7, <2>8, PeerMoves
<1>2. ASSUME NEW p \in Peers, Shake(p) PROVE PeersInv'
  <2> DEFINE o == Other(p)
  <2>1. /\ stage \in [Peers -> Stages] /\ wrote \in [Peers -> Nat] /\ got \in [Peers -> Nat]
        /\ to \in [Peers -> Seq({ToldQp})] /\ linked \in BOOLEAN
        /\ Written(p) /\ Heard(p) /\ Wires(p)
        /\ wrote[p] \in Nat /\ got[p] \in Nat /\ to[p] \in Seq({ToldQp}) /\ wrote[o] \in Nat
    BY TwoPeers DEF PeersInv, ShakeTypeOK
  <2>2. got[p] <= wrote[o]
    BY <2>1 DEF Heard
  <2> HIDE DEF o
  <2>3. PICK next \in Stages, w \in Nat, g \in Nat :
          /\ stage' = [stage EXCEPT ![p] = next]
          /\ wrote' = [wrote EXCEPT ![p] = w]
          /\ got' = [got EXCEPT ![p] = g]
          /\ linked' = linked
          /\ stage[p] \in {"write", "read", "sync", "await"}
          /\ w >= wrote[p] /\ g <= wrote[o]
          /\ \/ stage[p] = "write" /\ next = "read" /\ w = wrote[p] + InfoLen /\ g = got[p]
             \/ stage[p] = "read" /\ next = "setup" /\ w = wrote[p]
                /\ g = got[p] + InfoLen
             \/ stage[p] = "sync" /\ next = "await" /\ w = wrote[p] + 1 /\ g = got[p]
             \/ stage[p] = "await" /\ next = "running" /\ w = wrote[p]
                /\ (g = got[p] + 1 \/ Gone(o))
             \/ next = "exited"
    <3>1. CASE WriteInfo(p)
      <4>1. /\ stage[p] = "write" /\ stage' = [stage EXCEPT ![p] = "read"]
            /\ wrote' = [wrote EXCEPT ![p] = wrote[p] + InfoLen]
            /\ got' = [got EXCEPT ![p] = got[p]] /\ linked' = linked
        BY <2>1, <3>1 DEF WriteInfo, Enter
      <4>2. wrote[p] + InfoLen \in Nat /\ "read" \in Stages /\ wrote[p] + InfoLen >= wrote[p]
        BY <2>1 DEF Stages
      <4> QED
        BY <2>1, <2>2, <4>1, <4>2
    <3>2. CASE ReadInfo(p)
      <4>1. PICK n \in 1 .. InfoLen :
              /\ n <= Pending(p) /\ got' = [got EXCEPT ![p] = got[p] + n]
              /\ stage' = [stage EXCEPT ![p] = IF n = InfoLen THEN "setup" ELSE "exited"]
        BY <2>1, <3>2 DEF ReadInfo, Enter, WholeStructure
      <4>2. /\ stage[p] = "read" /\ wrote' = [wrote EXCEPT ![p] = wrote[p]]
            /\ linked' = linked
        BY <2>1, <3>2 DEF ReadInfo
      <4>3. /\ got[p] + n \in Nat /\ got[p] + n <= wrote[o] /\ wrote[p] >= wrote[p]
        BY <2>1, <4>1 DEF Pending, o
      <4>4. "setup" \in Stages /\ "exited" \in Stages
        BY DEF Stages
      <4>5. CASE n = InfoLen
        BY <2>1, <4>1, <4>2, <4>3, <4>4, <4>5
      <4>6. CASE n # InfoLen
        BY <2>1, <4>1, <4>2, <4>3, <4>4, <4>6
      <4> QED
        BY <4>5, <4>6
    <3>3. CASE ExchangeFails(p) \/ SyncKilled(p)
      <4>1. /\ stage[p] \in {"write", "read", "sync"}
            /\ stage' = [stage EXCEPT ![p] = "exited"]
            /\ wrote' = [wrote EXCEPT ![p] = wrote[p]]
            /\ got' = [got EXCEPT ![p] = got[p]] /\ linked' = linked
        BY <2>1, <3>3 DEF ExchangeFails, SyncKilled, Exit, Enter
      <4>2. "exited" \in Stages /\ wrote[p] >= wrote[p]
        BY <2>1 DEF Stages
      <4> QED
        BY <2>1, <2>2, <4>1, <4>2
    <3>4. CASE SendSync(p)
      <4>1. /\ stage[p] = "sync" /\ stage' = [stage EXCEPT ![p] = "await"]
            /\ wrote' = [wrote EXCEPT ![p] = wrote[p] + 1]
            /\ got' = [got EXCEPT ![p] = got[p]] /\ linked' = linked
        BY <2>1, <3>4 DEF SendSync, Enter
      <4>2. wrote[p] + 1 \in Nat /\ "await" \in Stages /\ wrote[p] + 1 >= wrote[p]
        BY <2>1 DEF Stages
      <4> QED
        BY <2>1, <2>2, <4>1, <4>2
    <3>5. CASE RecvSync(p)
      <4> DEFINE g == IF Pending(p) > 0 THEN got[p] + 1 ELSE got[p]
      <4>1. /\ stage[p] = "await" /\ stage' = [stage EXCEPT ![p] = "running"]
            /\ wrote' = [wrote EXCEPT ![p] = wrote[p]]
            /\ got' = [got EXCEPT ![p] = g] /\ linked' = linked
        BY <2>1, <3>5 DEF RecvSync, Enter
      <4>2. /\ g \in Nat /\ g <= wrote[o] /\ (g = got[p] + 1 \/ Gone(o))
            /\ wrote[p] >= wrote[p] /\ "running" \in Stages
        BY <2>1, <2>2, <3>5 DEF Stages, RecvSync, SyncReturns, Pending, o
      <4> HIDE DEF g
      <4> QED
        BY <2>1, <4>1, <4>2
    <3> QED
      BY <1>2, <3>1, <3>2, <3>3, <3>4, <3>5 DEF Shake
  <2>4. to' = [to EXCEPT ![p] = to[p]] /\ ~Gone(p) /\ linked' \in BOOLEAN
    BY <2>1, <2>3 DEF Gone
  <2>5. /\ stage'[p] = next /\ wrote'[p] = w /\ got'[p] = g /\ to'[p] = to[p]
        /\ stage'[o] = stage[o]
    <3>1. o \in Peers /\ o # p
      BY TwoPeers DEF o
    <3>2. stage'[p] = next /\ stage'[o] = stage[o]
      BY <2>1, <2>3, <3>1
    <3>3. wrote'[p] = w /\ got'[p] = g
      BY <2>1, <2>3
    <3>4. to'[p] = to[p]
      BY <2>1, <2>4
    <3> QED
      BY <3>2, <3>3, <3>4
  <2>6. Written(p)'
    <3>1. p = Client => pc # "said"
      BY <2>3 DEF PeersInv, Phases
    <3> QED
      BY <2>1, <2>3, <2>5, <3>1 DEF Written
  <2>7. Wires(p)'
    <3>1. stage[p] = "read" => Len(to[p]) = 0
      BY <2>1 DEF Wires
    <3>2. QpCount \in Nat
      BY SizesAssumption
    <3> QED
      BY <2>1, <2>3, <2>5, <3>1, <3>2 DEF Wires
  <2>8. Phases'
    <3>1. CASE p = Server
      BY <2>3, <2>5, <3>1 DEF Phases, PeersInv, Gone, Other, o
    <3>2. CASE p = Client
      BY <2>3, <2>5, <3>2, PeersDiffer DEF Phases, PeersInv, Gone, Other, o
    <3> QED
      BY <3>1, <3>2 DEF Peers
  <2>9. /\ stage'[p] \in {"setup", "sync", "await"} => got'[p] = InfoLen
        /\ stage'[p] \in {"start", "accept", "write", "read"} => got'[p] = 0
        /\ stage'[p] = "running" => got'[p] = InfoLen + 1 \/ Gone(Other(p))
    BY <2>1, <2>3, <2>5 DEF Heard, o
  <2> QED
    BY <2>1, <2>3, <2>4, <2>6, <2>7, <2>8, <2>9, PeerMoves DEF o
<1> QED
  BY <1>1, <1>2

\* The wiring of a queue pair, or its failure.
LEMMA SetupPeers ==
  ASSUME AfterExchange = "setup", PeersInv,
         \E p \in Peers : ConnectQp(p) \/ ModifyFails(p)
  PROVE  PeersInv'
<1>1. PICK p \in Peers : ConnectQp(p) \/ ModifyFails(p)
  OBVIOUS
<1>2. /\ stage[p] = "setup" /\ pc' = pc /\ linked' = linked
      /\ UNCHANGED <<wrote, got>>
  BY <1>1 DEF ConnectQp, ModifyFails, Exit, windowVars
<1>3. /\ stage \in [Peers -> Stages] /\ wrote \in [Peers -> Nat] /\ got \in [Peers -> Nat]
      /\ to \in [Peers -> Seq({ToldQp})] /\ linked \in BOOLEAN
      /\ Written(p) /\ Heard(p) /\ Wires(p)
      /\ wrote[p] \in Nat /\ got[p] \in Nat /\ to[p] \in Seq({ToldQp})
      /\ Len(to[p]) \in Nat /\ QpCount \in Nat
  BY LenProperties, SizesAssumption DEF PeersInv, ShakeTypeOK
<1>4. PICK next \in {"setup", "sync", "exited"}, t \in Seq({ToldQp}) :
        /\ stage' = [stage EXCEPT ![p] = next]
        /\ to' = [to EXCEPT ![p] = t]
        /\ next = "setup" => Len(t) <= QpCount
        /\ next = "sync" => Len(t) = QpCount
  <2>1. CASE ConnectQp(p) /\ Len(to[p]) < QpCount
    <3>1. /\ Append(to[p], ToldQp) \in Seq({ToldQp})
          /\ Len(Append(to[p], ToldQp)) = Len(to[p]) + 1
      BY <1>3, AppendProperties
    <3>2. /\ stage' = [stage EXCEPT ![p] = "setup"]
          /\ to' = [to EXCEPT ![p] = Append(to[p], ToldQp)]
      BY <1>2, <1>3, <2>1 DEF ConnectQp
    <3>3. Len(Append(to[p], ToldQp)) <= QpCount
      BY <1>3, <2>1, <3>1
    <3> QED
      BY <3>1, <3>2, <3>3
  <2>2. CASE ConnectQp(p) /\ ~(Len(to[p]) < QpCount)
    <3>1. stage' = [stage EXCEPT ![p] = "sync"] /\ to' = [to EXCEPT ![p] = to[p]]
      BY <1>3, <2>2 DEF ConnectQp, Enter
    <3>2. Len(to[p]) = QpCount
      BY <1>2, <1>3, <2>2 DEF Wires
    <3> QED
      BY <1>3, <3>1, <3>2
  <2>3. CASE ModifyFails(p)
    <3>1. stage' = [stage EXCEPT ![p] = "exited"] /\ to' = [to EXCEPT ![p] = to[p]]
      BY <1>3, <2>3 DEF ModifyFails, Exit, Enter
    <3> QED
      BY <1>3, <3>1
  <2> QED
    BY <1>1, <2>1, <2>2, <2>3
<1>5. /\ wrote' = [wrote EXCEPT ![p] = wrote[p]] /\ got' = [got EXCEPT ![p] = got[p]]
      /\ ~Gone(p) /\ wrote[p] >= wrote[p] /\ got[p] <= wrote[Other(p)]
      /\ next \in Stages /\ linked' \in BOOLEAN
  BY <1>2, <1>3 DEF Gone, Heard, Stages
<1>6. /\ stage'[p] = next /\ stage'[Other(p)] = stage[Other(p)]
      /\ wrote'[p] = wrote[p] /\ got'[p] = got[p] /\ to'[p] = t
  <2>1. Other(p) \in Peers /\ Other(p) # p
    BY TwoPeers
  <2> QED
    BY <1>2, <1>3, <1>4, <2>1
<1>7. Written(p)' /\ Wires(p)'
  BY <1>2, <1>3, <1>4, <1>6 DEF Written, Wires
<1>8. Phases'
  <2>1. CASE p = Server
    BY <1>2, <1>6, <2>1 DEF Phases, PeersInv, Gone, Other
  <2>2. CASE p = Client
    BY <1>2, <1>6, <2>2, PeersDiffer DEF Phases, PeersInv, Gone, Other
  <2> QED
    BY <2>1, <2>2 DEF Peers
<1>9. /\ stage'[p] \notin {"start", "accept", "write", "read", "running"}
      /\ got'[p] = InfoLen
  BY <1>2, <1>3, <1>6 DEF Heard
<1> QED
  BY <1>2, <1>3, <1>4, <1>5, <1>7, <1>8, <1>9, PeerMoves

\* The client runs its benchmark, says so and ends.
LEMMA ClientPeers ==
  ASSUME PeersInv, RunBenchmark \/ SignalCompletion \/ SignalKilled \/ ClientCleanup
  PROVE  PeersInv'
<1>1. /\ stage[Client] = "running" /\ to' = to /\ linked' = linked /\ got' = got
  BY DEF RunBenchmark, SignalCompletion, SignalKilled, ClientCleanup, Exit
<1>2. /\ stage \in [Peers -> Stages] /\ wrote \in [Peers -> Nat] /\ got \in [Peers -> Nat]
      /\ to \in [Peers -> Seq({ToldQp})] /\ linked \in BOOLEAN
      /\ Written(Client) /\ Heard(Client) /\ Wires(Client)
      /\ wrote[Client] \in Nat /\ got[Client] \in Nat /\ to[Client] \in Seq({ToldQp})
      /\ Client \in Peers
  BY TwoPeers DEF PeersInv, ShakeTypeOK
<1>3. PICK next \in {"running", "exited", "closed"}, w \in Nat :
        /\ stage' = [stage EXCEPT ![Client] = next]
        /\ wrote' = [wrote EXCEPT ![Client] = w]
        /\ w >= wrote[Client]
        /\ \/ next = "running" /\ pc # "said" /\ pc' # "said" /\ w = wrote[Client]
           \/ next = "running" /\ pc = "done" /\ pc' = "said" /\ w = wrote[Client] + 1
           \/ next \in {"exited", "closed"}
  <2>1. CASE RunBenchmark
    <3>1. pc # "said" /\ pc' # "said"
      BY <2>1 DEF RunBenchmark, Program, WarmPost, MeasuredPost, PostFails, WarmEnd,
             MeasureEnd, PollCompletions, AfterPolling, StartMeasuring
    <3>2. wrote' = [wrote EXCEPT ![Client] = wrote[Client]]
      BY <1>2, <2>1 DEF RunBenchmark
    <3>3. \/ stage' = [stage EXCEPT ![Client] = "exited"]
          \/ stage' = [stage EXCEPT ![Client] = "running"]
      BY <2>1 DEF RunBenchmark, Enter
    <3>4. wrote[Client] \in Nat /\ wrote[Client] >= wrote[Client]
      BY <1>2
    <3>5. CASE stage' = [stage EXCEPT ![Client] = "exited"]
      <4>1. "exited" \in {"running", "exited", "closed"} /\ "exited" \in {"exited", "closed"}
        OBVIOUS
      <4> QED
        BY <3>2, <3>4, <3>5, <4>1
    <3>6. CASE stage' = [stage EXCEPT ![Client] = "running"]
      <4>1. "running" \in {"running", "exited", "closed"}
        OBVIOUS
      <4> QED
        BY <3>1, <3>2, <3>4, <3>6, <4>1
    <3> QED
      BY <3>3, <3>5, <3>6
  <2>2. CASE SignalCompletion
    <3>1. /\ pc = "done" /\ pc' = "said"
          /\ wrote' = [wrote EXCEPT ![Client] = wrote[Client] + 1]
          /\ stage' = [stage EXCEPT ![Client] = "running"]
      BY <1>1, <1>2, <2>2 DEF SignalCompletion
    <3>2. wrote[Client] + 1 \in Nat /\ wrote[Client] + 1 >= wrote[Client]
      BY <1>2
    <3> QED
      BY <3>1, <3>2
  <2>3. CASE SignalKilled \/ ClientCleanup
    <3>1. /\ \/ stage' = [stage EXCEPT ![Client] = "exited"]
             \/ stage' = [stage EXCEPT ![Client] = "closed"]
          /\ wrote' = [wrote EXCEPT ![Client] = wrote[Client]]
      BY <1>2, <2>3 DEF SignalKilled, ClientCleanup, Exit, Enter
    <3>2. wrote[Client] \in Nat /\ wrote[Client] >= wrote[Client]
      BY <1>2
    <3>3. /\ "exited" \in {"running", "exited", "closed"} /\ "exited" \in {"exited", "closed"}
          /\ "closed" \in {"running", "exited", "closed"} /\ "closed" \in {"exited", "closed"}
      OBVIOUS
    <3>4. CASE stage' = [stage EXCEPT ![Client] = "exited"]
      BY <3>1, <3>2, <3>3, <3>4
    <3>5. CASE stage' = [stage EXCEPT ![Client] = "closed"]
      BY <3>1, <3>2, <3>3, <3>5
    <3> QED
      BY <3>1, <3>4, <3>5
  <2> QED
    BY <2>1, <2>2, <2>3
<1>4. /\ got' = [got EXCEPT ![Client] = got[Client]]
      /\ to' = [to EXCEPT ![Client] = to[Client]]
      /\ ~Gone(Client) /\ got[Client] <= wrote[Other(Client)]
      /\ next \in Stages /\ linked' \in BOOLEAN
  BY <1>1, <1>2 DEF Gone, Heard, Stages
<1>5. /\ stage'[Client] = next /\ stage'[Server] = stage[Server]
      /\ wrote'[Client] = w /\ got'[Client] = got[Client] /\ to'[Client] = to[Client]
  BY <1>1, <1>2, <1>3, TwoPeers
<1>6. Written(Client)' /\ Wires(Client)'
  BY <1>1, <1>2, <1>3, <1>5, InfoAssumption DEF Written, Wires
<1>7. Phases'
  BY <1>1, <1>3, <1>5 DEF Phases, PeersInv, Gone
<1>8. /\ stage'[Client] \in {"running", "exited", "closed"}
      /\ stage'[Client] = "running" => got'[Client] = InfoLen + 1 \/ Gone(Other(Client))
  BY <1>1, <1>2, <1>3, <1>5 DEF Heard
<1> QED
  BY <1>2, <1>3, <1>4, <1>6, <1>7, <1>8, <1>1, PeerMoves

\* The server ends: the client has said so, or is gone.
LEMMA ServerPeers ==
  ASSUME PeersInv, ServerEnds
  PROVE  PeersInv'
<1>1. /\ stage[Server] = "running" /\ SyncReturns(Server)
      /\ stage' = [stage EXCEPT ![Server] = "closed"]
      /\ UNCHANGED <<linked, wrote, pc, to>>
  BY DEF ServerEnds, Enter, windowVars
<1>2. /\ stage \in [Peers -> Stages] /\ wrote \in [Peers -> Nat] /\ got \in [Peers -> Nat]
      /\ to \in [Peers -> Seq({ToldQp})] /\ linked \in BOOLEAN
      /\ Written(Server) /\ Heard(Server) /\ Wires(Server) /\ Written(Client)
      /\ wrote[Server] \in Nat /\ got[Server] \in Nat /\ to[Server] \in Seq({ToldQp})
      /\ wrote[Client] \in Nat /\ stage[Client] \in Stages
      /\ Server \in Peers /\ Client \in Peers /\ Server # Client
      /\ Other(Server) = Client
  BY TwoPeers DEF PeersInv, ShakeTypeOK, Other
<1> DEFINE g == IF Pending(Server) > 0 THEN got[Server] + 1 ELSE got[Server]
<1>3. g \in Nat /\ g <= wrote[Client] /\ got' = [got EXCEPT ![Server] = g]
  <2>1. got[Server] <= wrote[Client]
    BY <1>2 DEF Heard
  <2>2. Pending(Server) = wrote[Client] - got[Server]
    BY <1>2 DEF Pending
  <2>3. got' = [got EXCEPT ![Server] = g]
    BY DEF ServerEnds
  <2> QED
    BY <1>2, <2>1, <2>2, <2>3
<1> HIDE DEF g
<1>4. /\ wrote' = [wrote EXCEPT ![Server] = wrote[Server]]
      /\ to' = [to EXCEPT ![Server] = to[Server]]
      /\ ~Gone(Server) /\ wrote[Server] >= wrote[Server]
      /\ "closed" \in Stages /\ linked' \in BOOLEAN
  BY <1>1, <1>2 DEF Gone, Stages
<1>5. stage'[Server] = "closed" /\ stage'[Client] = stage[Client]
  BY <1>1, <1>2
<1>6. Written(Server)' /\ Wires(Server)'
  BY <1>5 DEF Written, Wires
<1>7. Gone(Client) \/ (stage[Client] = "running" /\ pc = "said")
  <2> SUFFICES ASSUME ~Gone(Client) PROVE stage[Client] = "running" /\ pc = "said"
    OBVIOUS
  <2>1. got[Server] = InfoLen + 1 /\ Pending(Server) > 0
    BY <1>1, <1>2 DEF Heard, SyncReturns
  <2>2. wrote[Client] > InfoLen + 1
    BY <1>2, <2>1, InfoAssumption DEF Pending
  <2>3. stage[Client] \in Stages \ {"exited", "closed"}
    BY <1>2 DEF Gone
  <2> QED
    BY <1>2, <2>2, <2>3, InfoAssumption DEF Written, Stages
<1>8. Phases'
  BY <1>1, <1>5, <1>7 DEF Phases, PeersInv, Gone
<1> QED
  BY <1>1, <1>2, <1>3, <1>4, <1>5, <1>6, <1>8, PeerMoves

\* Every step of the program keeps what is known of the two processes.
LEMMA NextPeers ==
  ASSUME AfterExchange = "setup", PeersInv, [ProgramNext]_programVars
  PROVE  PeersInv'
<1>1. CASE During(Greet) \/ \E p \in Peers : During(Shake(p))
  BY <1>1, ShakePeers DEF During, windowVars
<1>2. CASE \E p \in Peers : ConnectQp(p) \/ ModifyFails(p)
  BY <1>2, SetupPeers
<1>3. CASE RunBenchmark \/ SignalCompletion \/ SignalKilled \/ ClientCleanup
  BY <1>3, ClientPeers
<1>4. CASE ServerEnds
  BY <1>4, ServerPeers
<1>5. CASE (\E k \in Qps : Adapter(k)) \/ UNCHANGED programVars
  <2>1. UNCHANGED <<stage, linked, wrote, got, to, pc>>
    BY <1>5 DEF Adapter, Execute, Break, programVars, shakeVars, windowVars
  <2> QED
    BY <2>1 DEF PeersInv, ShakeTypeOK, Written, Heard, Wires, Phases, Gone
<1> QED
  BY <1>1, <1>2, <1>3, <1>4, <1>5 DEF ProgramNext

----------------------------------------------------------------------------
(* The warm-up.                                                            *)

\* A queue pair has had a write in each iteration that is done, and in this one
\* if it had its turn; no slot is ever given back.  So the program dies in its
\* warm-up for one reason only, and for this reason always.
WarmUpFitsOrDies ==
  /\ pc = "diedWarm" => Warmup > SqDepth
  /\ Warmup > SqDepth => pc \in {"warm", "diedWarm"}

WarmInv ==
  /\ pc = "warm" => \A k \in Qps :
       /\ posted[k] - freed[k] = Warmup - left + (IF k < q THEN 1 ELSE 0)
       /\ posted[k] - freed[k] <= SqDepth
  /\ pc = "warm" /\ left = 0 => q = 0
  /\ WarmUpFitsOrDies

\* The warm-up keeps these books, and is left accordingly.
LEMMA NextWarm ==
  ASSUME WindowInv, WarmInv, [ProgramNext]_programVars
  PROVE  WarmInv'
<1>1. /\ Warmup \in Nat /\ SqDepth \in Nat /\ QpCount \in Nat /\ QpCount >= 1
      /\ left \in Nat /\ q \in Qps /\ q \in Nat /\ q <= QpCount - 1
      /\ \A k \in Qps : /\ posted[k] \in Nat /\ freed[k] \in Nat
                        /\ k \in Nat /\ k <= QpCount - 1
  BY SizesAssumption DEF WindowInv, WindowTypeOK, Qps
<1>2. CASE WarmPost
  <2>1. /\ pc = "warm" /\ pc' = "warm" /\ left > 0
        /\ \A k \in Qps \ {q} : posted'[k] = posted[k]
        /\ posted'[q] = posted[q] + 1 /\ posted[q] - freed[q] < SqDepth
        /\ freed' = freed
    BY <1>1, <1>2, PostEffect DEF WarmPost, PostRdmaWrite, WindowInv, WindowTypeOK
  <2>2. ASSUME NEW k \in Qps
        PROVE  /\ posted'[k] - freed'[k] = Warmup - left + (IF k <= q THEN 1 ELSE 0)
               /\ posted'[k] - freed'[k] <= SqDepth
    <3>1. CASE k = q
      BY <1>1, <2>1, <3>1 DEF WarmInv
    <3>2. CASE k # q
      BY <1>1, <2>1, <3>2 DEF WarmInv
    <3> QED
      BY <3>1, <3>2
  <2>3. CASE LastQp
    <3>1. q' = 0 /\ left' = left - 1 /\ \A k \in Qps : k <= q /\ ~(k < q')
      BY <1>1, <1>2, <2>3 DEF WarmPost, Advance, LastQp
    <3>2. \A k \in Qps : posted'[k] - freed'[k] = Warmup - left + 1
      BY <2>2, <3>1
    <3>3. Warmup - left + 1 = Warmup - left'
      BY <1>1, <3>1
    <3> QED
      BY <2>1, <2>2, <3>1, <3>2, <3>3, <1>1 DEF WarmInv, WarmUpFitsOrDies
  <2>4. CASE ~LastQp
    <3>1. q' = q + 1 /\ left' = left /\ \A k \in Qps : k <= q <=> k < q'
      BY <1>1, <1>2, <2>4 DEF WarmPost, Advance
    <3> QED
      BY <1>1, <2>1, <2>2, <3>1 DEF WarmInv, WarmUpFitsOrDies
  <2> QED
    BY <2>3, <2>4
<1>3. CASE PostFails
  <2>1. CASE pc = "warm"
    <3>1. pc' = "diedWarm" /\ left > 0 /\ posted[q] - freed[q] >= SqDepth
      BY <1>3, <2>1 DEF PostFails
    <3>2. posted[q] - freed[q] = Warmup - left
      BY <1>1, <2>1 DEF WarmInv
    <3>3. Warmup > SqDepth
      BY <1>1, <3>1, <3>2
    <3> QED
      BY <3>1, <3>3 DEF WarmInv, WarmUpFitsOrDies
  <2>2. CASE pc # "warm"
    BY <1>3, <2>2 DEF PostFails, WarmInv, WarmUpFitsOrDies
  <2> QED
    BY <2>1, <2>2
<1>4. CASE WarmEnd
  <2>1. pc = "warm" /\ left = 0 /\ pc' \in {"warmDrain", "measure"}
    BY <1>4 DEF WarmEnd, StartMeasuring
  <2>2. posted[q] - freed[q] = Warmup /\ posted[q] - freed[q] <= SqDepth
    BY <1>1, <2>1 DEF WarmInv
  <2>3. ~(Warmup > SqDepth)
    BY <1>1, <2>2
  <2> QED
    BY <2>1, <2>3 DEF WarmInv, WarmUpFitsOrDies
<1>5. CASE MeasuredPost \/ MeasureEnd \/ PollCompletions \/ SignalCompletion
  <2>1. pc \notin {"warm", "diedWarm"} /\ pc' \notin {"warm", "diedWarm"}
    BY <1>5 DEF MeasuredPost, StartMeasuring, MeasureEnd, PollCompletions,
       AfterPolling, SignalCompletion
  <2> QED
    BY <2>1 DEF WarmInv, WarmUpFitsOrDies
<1>6. CASE UNCHANGED <<pc, left, q, posted, freed>>
  BY <1>6 DEF WarmInv, WarmUpFitsOrDies
<1>7. ASSUME NEW k \in Qps, Execute(k) \/ Break(k)
      PROVE  UNCHANGED <<pc, left, q, posted, freed>>
  BY <1>7 DEF Execute, Break, loopVars
<1>8. CASE UNCHANGED windowVars
  BY <1>6, <1>8 DEF windowVars
<1> QED
  BY <1>2, <1>3, <1>4, <1>5, <1>6, <1>7, <1>8
     DEF ProgramNext, Program, During, ConnectQp, ModifyFails, RunBenchmark,
         SignalKilled, ClientCleanup, ServerEnds, Adapter, programVars

----------------------------------------------------------------------------
(* The properties of the run.                                              *)

\* The books of the benchmark are in order in every state, for any number of
\* queue pairs.
THEOREM Inductive == ProgramSpec => []WindowInv
<1>1. ProgramSpec => ProgramInit /\ [][ProgramNext]_programVars
  BY PTL DEF ProgramSpec
<1>2. ProgramInit => WindowInv
  BY InitWindow DEF ProgramInit
<1>3. WindowInv /\ [ProgramNext]_programVars => WindowInv'
  BY NextWindow
<1> QED
  BY <1>1, <1>2, <1>3, PTL

\* With one queue pair its signaled writes keep their distance.
THEOREM InductiveSingle ==
  ASSUME QpCount = 1
  PROVE  ProgramSpec => [](WindowInv /\ SingleInv)
<1>1. ProgramSpec => ProgramInit /\ [][ProgramNext]_programVars
  BY PTL DEF ProgramSpec
<1>2. ProgramInit => WindowInv /\ SingleInv
  BY InitWindow DEF ProgramInit
<1>3. WindowInv /\ SingleInv /\ [ProgramNext]_programVars => (WindowInv /\ SingleInv)'
  BY NextWindow
<1> QED
  BY <1>1, <1>2, <1>3, PTL

\* What each process has written, read and wired at each stage.
THEOREM InductivePeers ==
  ASSUME AfterExchange = "setup"
  PROVE  ProgramSpec => []PeersInv
<1>1. ProgramSpec => ProgramInit /\ [][ProgramNext]_programVars
  BY PTL DEF ProgramSpec
<1>2. PeersInv /\ [ProgramNext]_programVars => PeersInv'
  BY NextPeers
<1> QED
  BY <1>1, <1>2, InitPeers, PTL

\* WaitsArePaid: whenever the program waits for completions, but for its last wait,
\* as many are still to come.
THEOREM Paid == ProgramSpec => []WaitsArePaid
<1>1. WindowInv => WaitsArePaid
  <2> SUFFICES ASSUME WindowInv PROVE WaitsArePaid
    OBVIOUS
  <2>1. Coming \in Nat
    BY ComingType DEF WindowInv
  <2> QED
    BY <2>1 DEF WindowInv, Waits, WaitsArePaid
<1> QED
  BY <1>1, Inductive, PTL

\* The books of the warm-up are in order in every state.
LEMMA InductiveWarm == ProgramSpec => []WarmInv
<1>1. ProgramSpec => ProgramInit /\ [][ProgramNext]_programVars
  BY PTL DEF ProgramSpec
<1>2. ProgramInit => WarmInv
  BY SizesAssumption DEF ProgramInit, WindowInit, WarmInv, WarmUpFitsOrDies, Qps
<1>3. WindowInv /\ WarmInv /\ [ProgramNext]_programVars => WarmInv'
  BY NextWarm
<1> QED
  BY <1>1, <1>2, <1>3, Inductive, PTL

\* No completion is polled, and no slot given back, before the end of the warm-up:
\* whatever option -q is, the program dies there only if option -w is larger than
\* the send queue, and then it never comes to its measurement.  So it is with the
\* defaults, 5000 writes and 512 slots.
THEOREM WarmUpFits == ProgramSpec => []WarmUpFitsOrDies
<1>1. WarmInv => WarmUpFitsOrDies
  BY DEF WarmInv
<1> QED
  BY <1>1, InductiveWarm, PTL

\* NoOverflow: with one queue pair no write finds the send queue full while the
\* connection holds, unless the warm-up alone is more than it can hold; behind
\* such a warm-up nothing is measured.
THEOREM NeverFull ==
  ASSUME QpCount = 1
  PROVE  ProgramSpec => [](NoOverflow \/ (Warmup > SqDepth /\ pc = "diedWarm"))
<1>1. WindowInv /\ SingleInv /\ WarmInv =>
        NoOverflow \/ (Warmup > SqDepth /\ pc = "diedWarm")
  BY OnlyQp DEF SingleInv, Holding, WarmInv, WarmUpFitsOrDies, NoOverflow
<1> QED
  BY <1>1, InductiveSingle, InductiveWarm, PTL

\* When the client runs its benchmark, its first queue pair, and no other one,
\* is connected to one of the server that is connected to it.
OnlyFirstWired ==
  stage[Client] = "running" /\ ~Gone(Server) => \A k \in Qps : Wired(k) <=> k = 0

\* Whatever option -q asks for, the one number in conn_info wires one queue pair:
\* with two or more, WiredBothWays fails in every state in which both run.
THEOREM OneNumberWiresOne ==
  ASSUME AfterExchange = "setup"
  PROVE  ProgramSpec => []OnlyFirstWired
<1>1. WindowInv /\ PeersInv => OnlyFirstWired
  <2> SUFFICES ASSUME WindowInv, PeersInv, stage[Client] = "running", ~Gone(Server),
                      NEW k \in Qps
               PROVE  Wired(k) <=> k = 0
    BY DEF OnlyFirstWired
  <2>1. /\ Written(Server) /\ Wires(Server) /\ Heard(Client) /\ Wires(Client)
        /\ to[Server] \in Seq({ToldQp}) /\ to[Client] \in Seq({ToldQp})
        /\ wrote[Server] \in Nat /\ stage[Server] \in Stages /\ Other(Client) = Server
    BY TwoPeers DEF PeersInv, ShakeTypeOK, Other
  <2>2. wrote[Server] >= InfoLen + 1
    BY <2>1, InfoAssumption DEF Heard
  <2>3. stage[Server] \in {"await", "running"}
    BY <2>1, <2>2, InfoAssumption DEF Written, Stages, Gone
  <2>4. Len(to[Server]) = QpCount /\ Len(to[Client]) = QpCount
    BY <2>1, <2>3 DEF Wires
  <2>5. k \in Nat /\ k + 1 \in 1 .. QpCount /\ 1 \in 1 .. QpCount
    BY SizesAssumption DEF Qps
  <2>6. to[Server][1] = 0 /\ to[Client][k + 1] = 0
    <3>1. \A i \in 1 .. QpCount : to[Server][i] \in {ToldQp} /\ to[Client][i] \in {ToldQp}
      BY <2>1, <2>4, ElementOfSeq
    <3> QED
      BY <2>5, <3>1 DEF ToldQp
  <2> QED
    BY <2>4, <2>5, <2>6 DEF Wired
<1> QED
  BY <1>1, Inductive, InductivePeers, PTL

\* WiredBothWays: with one queue pair a client that runs its benchmark is connected
\* to a server that is connected to it.
THEOREM Wiring ==
  ASSUME QpCount = 1, AfterExchange = "setup"
  PROVE  ProgramSpec => []WiredBothWays
<1>1. OnlyFirstWired => WiredBothWays
  BY DEF OnlyFirstWired, WiredBothWays, Qps
<1> QED
  BY <1>1, OneNumberWiresOne, PTL

\* MemoryOutlivesAllButTail: with one queue pair the server takes its memory down
\* when the client is gone, or when a tail of writes is all that may still come.
THEOREM MemoryLives ==
  ASSUME QpCount = 1, AfterExchange = "setup"
  PROVE  ProgramSpec => []MemoryOutlivesAllButTail
<1>1. WindowInv /\ SingleInv /\ PeersInv => MemoryOutlivesAllButTail
  <2> SUFFICES ASSUME WindowInv, SingleInv, PeersInv,
                      stage[Server] = "closed", stage[Client] = "running"
               PROVE  /\ pc = "said"
                      /\ broken[0] \/ posted[0] - executed[0] <= LongestTail
    BY OnlyQp DEF MemoryOutlivesAllButTail
  <2>1. pc = "said"
    BY DEF PeersInv, Phases, Gone
  <2>2. ASSUME Holding PROVE posted[0] - executed[0] <= LongestTail
    <3>1. Unpolled = 0 /\ left = 0
      BY <2>1, <2>2 DEF Holding
    <3>2. signaled[0] = <<>>
      BY <3>1, AllPolled
    <3>3. posted[0] - executed[0] <= phase + LeftOver
      BY <2>2, <3>2 DEF Holding
    <3>4. /\ phase \in Nat /\ phase <= SignalInterval - 1 /\ Iterations \in Nat
          /\ SignalInterval \in Nat /\ posted[0] \in Nat /\ executed[0] \in Nat
      BY OnlyQp
    <3>5. LeftOver = IF Iterations < SignalInterval THEN SignalInterval - 1 ELSE 0
      BY <2>1, <3>1, <3>4 DEF LeftOver, Measuring
    <3>6. CASE Iterations < SignalInterval
      <4>1. LongestTail = 2 * (SignalInterval - 1) /\ LeftOver = SignalInterval - 1
        BY <3>5, <3>6 DEF LongestTail
      <4> QED
        BY <3>3, <3>4, <4>1
    <3>7. CASE ~(Iterations < SignalInterval)
      <4>1. LongestTail = SignalInterval - 1 /\ LeftOver = 0
        BY <3>5, <3>7 DEF LongestTail
      <4> QED
        BY <3>3, <3>4, <4>1
    <3> QED
      BY <3>6, <3>7
  <2> QED
    BY <2>1, <2>2 DEF SingleInv
<1> QED
  BY <1>1, InductiveSingle, InductivePeers, PTL
=============================================================================
