----------------------------- MODULE BenchWindow -----------------------------
(***************************************************************************)
(* The client of rdma_bench.c (run_benchmark): it posts RDMA Writes of     *)
(* which only every SIGNAL_INTERVAL-th is signaled, first a warm-up, then  *)
(* the measured writes, and counts the completions it has yet to poll in   *)
(* outstanding_cqes.                                                       *)
(*                                                                         *)
(* The writes of a queue pair are numbered 1, 2, ... as they are posted.   *)
(* A slot of the send queue is used from the post until the program polls  *)
(* a completion of that write or of a later one: unsignaled writes have no *)
(* completion of their own.                                                *)
(*                                                                         *)
(* The signaling test reads its counter modulo SIGNAL_INTERVAL only, i in  *)
(* the warm-up and signal_cnt in the measurement: "phase" is that residue. *)
(***************************************************************************)
EXTENDS Integers, Sequences, FiniteSets

CONSTANTS
  SignalInterval,  \* SIGNAL_INTERVAL
  SqDepth,         \* cfg->sq_depth, which no option sets
  PollBatch,       \* the 32 entries of wc[] in poll_completions
  QpCount,         \* option -q
  Warmup,          \* option -w
  Iterations       \* option -n

ASSUME SizesAssumption ==
  /\ SignalInterval \in Nat \ {0}
  /\ SqDepth \in Nat
  /\ PollBatch \in Nat \ {0}
  /\ QpCount \in Nat \ {0}
  /\ Warmup \in Nat
  /\ Iterations \in Nat

\* 512 slots and an interval of 32.
ASSUME DepthAssumption == SqDepth >= 2 * SignalInterval

Qps == 0 .. QpCount - 1

\* Mutant: the mark counts writes where it should count completions.
PollMarkInWrites == SqDepth

\* cfg->sq_depth / (2 * SIGNAL_INTERVAL)
PollMark == SqDepth \div (2 * SignalInterval)

VARIABLES
  pc,           \* where run_benchmark() is
  left,         \* iterations left in the loop
  q,            \* queue pair of the next post
  phase,        \* the counter of the signaling test
  outstanding,  \* outstanding_cqes
  need,         \* completions the current poll_completions() still waits for
  posted,       \* writes posted on each queue pair
  executed,     \* writes the adapter has finished with, in order
  freed,        \* writes whose slot has been given back
  signaled,     \* numbers of the signaled writes not finished yet, in order
  cq,           \* completions in the queue, oldest first
  broken        \* queue pairs in the error state

windowVars == <<pc, left, q, phase, outstanding, need, posted, executed, freed,
          signaled, cq, broken>>
loopVars == <<left, q, phase>>
queueVars == <<posted, executed, freed, signaled, cq, broken>>

WindowInit ==
  /\ pc = "warm"
  /\ left = Warmup
  /\ q = 0
  /\ phase = 0
  /\ outstanding = 0
  /\ need = 0
  /\ posted = [k \in Qps |-> 0]
  /\ executed = [k \in Qps |-> 0]
  /\ freed = [k \in Qps |-> 0]
  /\ signaled = [k \in Qps |-> <<>>]
  /\ cq = <<>>
  /\ broken = [k \in Qps |-> FALSE]

----------------------------------------------------------------------------
(* Posting.                                                                *)

Signal == phase = SignalInterval - 1

NextPhase == IF Signal THEN 0 ELSE phase + 1

LastQp == q = QpCount - 1

\* ibv_post_send(): the send queue of this queue pair has a slot left.
PostRdmaWrite ==
  /\ posted[q] - freed[q] < SqDepth
  /\ posted' = [posted EXCEPT ![q] = @ + 1]
  /\ signaled' = [signaled EXCEPT ![q] =
                    IF Signal THEN Append(@, posted[q] + 1) ELSE @]
  /\ UNCHANGED <<executed, freed, cq, broken>>

\* for q ... inside for i ...
Advance ==
  /\ q' = IF LastQp THEN 0 ELSE q + 1
  /\ left' = IF LastQp THEN left - 1 ELSE left

\* Mutant: every write is counted as outstanding, signaled or not.
CountAll == 1

Counted == IF Signal THEN 1 ELSE 0

\* In the warm-up the signaling test reads i: all queue pairs signal in the
\* same iteration, and nothing is polled until the end, so no slot is given back:
\* the defaults, 5000 writes and 512 slots, end in PostFails.
WarmPost ==
  /\ pc = "warm"
  /\ left > 0
  /\ PostRdmaWrite
  /\ Advance
  /\ phase' = IF LastQp THEN NextPhase ELSE phase
  /\ outstanding' = outstanding + Counted
  /\ UNCHANGED <<pc, need>>

\* In the measurement it reads signal_cnt, one counter for all queue pairs;
\* a completion is awaited as soon as PollMark of them are outstanding.
MeasuredPost ==
  /\ pc = "measure"
  /\ left > 0
  /\ PostRdmaWrite
  /\ Advance
  /\ phase' = NextPhase
  /\ outstanding' = outstanding + Counted
  /\ IF outstanding' >= PollMark
       THEN pc' = "throttle" /\ need' = 1
       ELSE UNCHANGED <<pc, need>>

\* The send queue is full: ibv_post_send() fails and the program dies.
PostFails ==
  /\ pc \in {"warm", "measure"}
  /\ left > 0
  /\ posted[q] - freed[q] >= SqDepth
  /\ pc' = IF pc = "warm" THEN "diedWarm" ELSE "died"
  /\ UNCHANGED <<loopVars, outstanding, need, queueVars>>

\* The counters of the measurement start at 0.
StartMeasuring ==
  /\ pc' = "measure"
  /\ left' = Iterations
  /\ q' = 0
  /\ phase' = 0
  /\ outstanding' = 0

WarmEnd ==
  /\ pc = "warm"
  /\ left = 0
  /\ IF outstanding > 0
       THEN /\ pc' = "warmDrain"
            /\ need' = outstanding
            /\ UNCHANGED <<loopVars, outstanding>>
       ELSE StartMeasuring /\ UNCHANGED need
  /\ UNCHANGED <<queueVars>>

\* Mutant: the results are printed without the last wait.
NeverDrain == FALSE

MustDrain == outstanding > 0

MeasureEnd ==
  /\ pc = "measure"
  /\ left = 0
  /\ IF MustDrain
       THEN pc' = "drain" /\ need' = outstanding
       ELSE pc' = "done" /\ UNCHANGED need
  /\ UNCHANGED <<loopVars, outstanding, queueVars>>

----------------------------------------------------------------------------
(* Polling.                                                                *)

\* What follows the call of poll_completions() the program is in; its result
\* is not looked at.
AfterPolling ==
  \/ /\ pc = "warmDrain"
     /\ StartMeasuring
  \/ /\ pc = "throttle"
     /\ pc' = "measure"
     /\ outstanding' = outstanding - 1
     /\ UNCHANGED loopVars
  \/ /\ pc = "drain"
     /\ pc' = "done"
     /\ UNCHANGED <<loopVars, outstanding>>

\* How many completions one ibv_poll_cq() takes.
Taken == IF PollBatch < Len(cq) THEN PollBatch ELSE Len(cq)

\* The place of the last of them that is of queue pair k, if any is.
LastOf(k) ==
  {i \in 1 .. Taken : cq[i].qp = k /\ \A j \in i + 1 .. Taken : cq[j].qp # k}

\* One ibv_poll_cq(): it takes all completions there are, up to the size of
\* wc[], and gives back the slots they stand for.  poll_completions() returns
\* on the first error, or when it has seen as many as it was asked for, or
\* more.
PollCompletions ==
  /\ pc \in {"warmDrain", "throttle", "drain"}
  /\ cq # <<>>
  /\ cq' = SubSeq(cq, Taken + 1, Len(cq))
  /\ freed' = [k \in Qps |-> IF LastOf(k) = {} THEN freed[k]
                              ELSE cq[CHOOSE i \in LastOf(k) : TRUE].upto]
  /\ IF (\E j \in 1 .. Taken : ~cq[j].ok) \/ need <= Taken
       THEN need' = 0 /\ AfterPolling
       ELSE /\ need' = need - Taken
            /\ UNCHANGED <<pc, loopVars, outstanding>>
  /\ UNCHANGED <<posted, executed, signaled, broken>>

----------------------------------------------------------------------------
(* The adapter.                                                            *)

\* It finishes the next write of a queue pair.  A signaled write leaves a
\* completion; on a queue pair in the error state every write does.
Execute(k) ==
  LET n == executed[k] + 1
      marked == signaled[k] # <<>> /\ Head(signaled[k]) = n
  IN
  /\ n <= posted[k]
  /\ executed' = [executed EXCEPT ![k] = n]
  /\ signaled' = [signaled EXCEPT ![k] = IF marked THEN Tail(@) ELSE @]
  /\ cq' = IF marked \/ broken[k]
             THEN Append(cq, [qp |-> k, upto |-> n, ok |-> ~broken[k]])
             ELSE cq
  /\ UNCHANGED <<pc, loopVars, outstanding, need, posted, freed, broken>>

\* The connection fails: what is posted, and will be posted, is flushed.
Break(k) ==
  /\ ~broken[k]
  /\ broken' = [broken EXCEPT ![k] = TRUE]
  /\ UNCHANGED <<pc, loopVars, outstanding, need, posted, executed, freed,
                 signaled, cq>>

----------------------------------------------------------------------------
Program ==
  \/ WarmPost \/ MeasuredPost \/ PostFails
  \/ WarmEnd \/ MeasureEnd \/ PollCompletions

WindowNext ==
  \/ Program
  \/ \E k \in Qps : Execute(k) \/ Break(k)

WindowSpec == WindowInit /\ [][WindowNext]_windowVars

----------------------------------------------------------------------------
\* The signaled writes that are not finished yet: queue pair and place in line.
Marked == UNION {{k} \X (1 .. Len(signaled[k])) : k \in Qps}

\* Completions that will still be there to poll.
Coming == Len(cq) + Cardinality(Marked)

\* "Prevent send queue overflow: poll when half-full": no write ever finds its
\* send queue full, as long as the connection holds.  The warm-up has no such poll.
NoOverflow == pc \in {"died", "diedWarm"} => \E k \in Qps : broken[k]

\* Whenever the program waits for completions before its last wait, at least
\* as many are still to come: the counter outstanding_cqes, although several
\* completions may be taken for one, never makes it wait in vain.
WaitsArePaid ==
  pc \in {"warmDrain", "throttle"} => Coming >= need

\* "Drain remaining completions": what the last wait waits for is what remains.
DrainWaitsForRemaining == pc = "drain" => Coming >= need
=============================================================================
