-------------------------------- MODULE Srq --------------------------------
(***************************************************************************)
(* srq_example.c: one process sends a message on each of NumQps queue      *)
(* pairs, which lead back to itself; all messages are received through one *)
(* shared receive queue.  A second thread waits for asynchronous events of *)
(* the device, of which "SRQ limit reached" is one; the main thread clears *)
(* its flag when the messages are done, does not wait for it, and takes    *)
(* everything down.                                                        *)
(***************************************************************************)
EXTENDS Integers, Sequences, FiniteSets

CONSTANTS
  NumQps,      \* NUM_QPS
  NumBufs,     \* NUM_SRQ_BUFFERS
  Limit,       \* SRQ_LIMIT
  FiresOnArm,  \* whether arming a limit that is already passed raises the event
  MaxOther     \* how many events of other kinds may come (a bound)

ASSUME SrqAssumption ==
  /\ NumQps \in Nat \ {0} /\ NumBufs \in Nat \ {0}
  /\ Limit \in Nat /\ MaxOther \in Nat
  /\ FiresOnArm \in BOOLEAN

Qps == 1 .. NumQps
Bufs == 1 .. NumBufs

VARIABLES
  main,      \* where the main thread is
  count,     \* buffers posted, then messages sent, then completions polled
  current,   \* buffer being handled by the main thread, 0 for none
  heard,     \* messages printed, in order
  thread,    \* where the event thread is
  running,   \* g.async_running
  event,     \* the event the thread handles
  pending,   \* events the device has raised and nobody fetched
  other,     \* events of other kinds raised so far
  armed,     \* whether the limit is armed
  srq,       \* the shared receive queue, oldest buffer first
  live,      \* what of g.srq and g.ctx is not given back
  failed,    \* what has failed: run_demo(), the arming of the limit again
  mem,       \* message in each buffer of the pool, 0 for none
  sending,   \* queue pairs whose message is on its way
  unacked,   \* queue pairs whose message has arrived without acknowledgement
  cq         \* completions not polled

vars == <<main, count, current, heard, thread, running, event, pending, other,
          armed, srq, live, failed, mem, sending, unacked, cq>>
mainVars == <<main, count, current, heard>>
threadVars == <<thread, event>>
deviceVars == <<pending, other, armed>>
dataVars == <<srq, mem, sending, unacked, cq>>

Init ==
  /\ main = "arm"
  /\ count = 0
  /\ current = 0
  /\ heard = <<>>
  /\ thread = "none"
  /\ running = FALSE
  /\ event = "none"
  /\ pending = <<>>
  /\ other = 0
  /\ armed = FALSE
  /\ srq = <<>>
  /\ live = {"srq", "ctx"}
  /\ failed = {}
  /\ mem = [b \in Bufs |-> 0]
  /\ sending = {}
  /\ unacked = {}
  /\ cq = <<>>

----------------------------------------------------------------------------
\* ibv_modify_srq(): the limit is armed, once.  Some devices look at the queue
\* only when a receive is taken from it, others at once.
ArmLimit ==
  \/ armed' = TRUE /\ UNCHANGED pending
  \/ /\ FiresOnArm
     /\ Len(srq) < Limit
     /\ armed' = FALSE
     /\ pending' = Append(pending, "limit")

PostSrqRecv(bufs) == srq' = srq \o bufs

----------------------------------------------------------------------------
(* The main thread.                                                        *)

\* The limit is set while the queue is empty.
SetLimit ==
  /\ main = "arm"
  /\ ArmLimit
  /\ main' = "fill"
  /\ UNCHANGED <<count, current, heard, threadVars, running, other, live, failed, dataVars>>

\* "Pre-fill SRQ with receive buffers."
PreFill ==
  /\ main = "fill"
  /\ PostSrqRecv(<<count + 1>>)
  /\ IF count + 1 = NumBufs
       THEN main' = "start" /\ count' = 0
       ELSE main' = main /\ count' = count + 1
  /\ UNCHANGED <<current, heard, threadVars, running, deviceVars, live, failed, mem,
                 sending, unacked, cq>>

\* The result of pthread_create() is not looked at.
StartThread ==
  /\ main = "start"
  /\ running' = TRUE
  /\ thread' \in {"check", "none"}
  /\ main' = "send"
  /\ UNCHANGED <<count, current, heard, event, deviceVars, live, failed, dataVars>>

\* One message on each queue pair.
PostSend ==
  /\ main = "send"
  /\ sending' = sending \cup {count + 1}
  /\ IF count + 1 = NumQps
       THEN main' = "poll" /\ count' = 0
       ELSE main' = main /\ count' = count + 1
  /\ UNCHANGED <<current, heard, threadVars, running, deviceVars, live, failed, srq,
                 mem, unacked, cq>>

\* Sends and receives are told apart by the opcode.
TakeCompletion ==
  /\ main = "poll"
  /\ count < 2 * NumQps
  /\ cq # <<>>
  /\ cq' = Tail(cq)
  /\ count' = count + 1
  /\ current' = Head(cq)
  /\ main' = IF Head(cq) = 0 THEN "poll" ELSE "print"
  /\ UNCHANGED <<heard, threadVars, running, deviceVars, live, failed, mem, sending,
                 unacked>>

\* Mutant: a buffer is posted again before its message is printed.
PollAndRepost ==
  TakeCompletion /\ PostSrqRecv(SelectSeq(<<current'>>, LAMBDA b : b # 0))

Poll == TakeCompletion /\ UNCHANGED srq

PrintMessage ==
  /\ main = "print"
  /\ heard' = Append(heard, mem[current])
  /\ mem' = [mem EXCEPT ![current] = 0]
  /\ main' = "repost"
  /\ UNCHANGED <<count, current, threadVars, running, deviceVars, live, failed, srq,
                 sending, unacked, cq>>

\* Mutant: the buffer is not posted again.
NotReposted == <<>>

Reposted == <<current>>

Repost ==
  /\ main = "repost"
  /\ PostSrqRecv(Reposted)
  /\ current' = 0
  /\ main' = "poll"
  /\ UNCHANGED <<count, heard, threadVars, running, deviceVars, live, failed, mem,
                 sending, unacked, cq>>

\* A post or a poll fails, or a completion tells of an error: run_demo() returns
\* early, and main() goes on as behind a good end.
DemoFails ==
  /\ main \in {"send", "poll"}
  /\ failed' = failed \cup {"demo"}
  /\ running' = FALSE
  /\ main' = "qps"
  /\ UNCHANGED <<count, current, heard, threadVars, deviceVars, live, dataVars>>

\* "Stop async thread": the flag is cleared, nothing more.
StopThread ==
  /\ main = "poll"
  /\ count = 2 * NumQps
  /\ running' = FALSE
  /\ main' = "qps"
  /\ UNCHANGED <<count, current, heard, threadVars, deviceVars, live, failed, dataVars>>

\* cleanup() begins with the queue pairs: what they have not sent is never sent.
DestroyQps ==
  /\ main = "qps"
  /\ sending' = {}
  /\ unacked' = {}
  /\ main' = "destroy"
  /\ UNCHANGED <<count, current, heard, threadVars, running, deviceVars, live, failed, srq,
                 mem, cq>>

At(queue, x) == {i \in 1 .. Len(queue) : queue[i] = x}

\* ibv_destroy_srq(): the device forgets the queue and the events of it that
\* nobody has fetched, which leaves those of other kinds ...
DestroySrq ==
  /\ main = "destroy"
  /\ armed' = FALSE
  /\ pending' = [i \in 1 .. Cardinality(At(pending, "other")) |-> "other"]
  /\ main' = "wait"
  /\ UNCHANGED <<count, current, heard, threadVars, running, other, live, failed, dataVars>>

\* Mutant: nobody waits for the event.
AtOnce == TRUE

EventAcknowledged == event # "limit"

\* ... and g.srq is freed when those that were fetched are acknowledged.
FreeSrq ==
  /\ main = "wait"
  /\ EventAcknowledged
  /\ live' = live \ {"srq"}
  /\ main' = "close"
  /\ UNCHANGED <<count, current, heard, threadVars, running, deviceVars, failed, dataVars>>

CloseDevice ==
  /\ main = "close"
  /\ live' = live \ {"ctx"}
  /\ main' = "return"
  /\ UNCHANGED <<count, current, heard, threadVars, running, deviceVars, failed, dataVars>>

\* main() returns, or the thread has touched what is freed: it ends with the
\* process.
Return ==
  /\ main = "return"
  /\ main' = "done"
  /\ thread' = "none"
  /\ event' = "none"
  /\ UNCHANGED <<count, current, heard, running, deviceVars, live, failed, dataVars>>

----------------------------------------------------------------------------
(* The event thread.                                                       *)

CheckFlag ==
  /\ thread = "check"
  /\ thread' = IF running THEN "get" ELSE "ended"
  /\ UNCHANGED <<mainVars, running, event, deviceVars, live, failed, dataVars>>

\* ibv_get_async_event() blocks until there is an event; nothing keeps the thread
\* from calling it, or from returning from it, when g.ctx is closed already.
GetEvent ==
  /\ thread = "get"
  /\ pending # <<>>
  /\ event' = Head(pending)
  /\ pending' = Tail(pending)
  /\ thread' = "handle"
  /\ UNCHANGED <<mainVars, running, other, armed, live, failed, dataVars>>

\* It fails on a device that has been closed; the thread ends.
GetFails ==
  /\ thread = "get"
  /\ "ctx" \notin live
  /\ thread' = "ended"
  /\ UNCHANGED <<mainVars, running, event, deviceVars, live, failed, dataVars>>

\* Mutant: the limit is not armed again.
LimitForgotten == UNCHANGED <<armed, pending, failed>>

\* The result of ibv_modify_srq() is not looked at.
LimitRearmed ==
  \/ ArmLimit /\ UNCHANGED failed
  \/ failed' = failed \cup {"rearm"} /\ UNCHANGED <<armed, pending>>

\* The limit is armed again, unless the queue is not there any more; no buffer
\* is posted.
HandleEvent ==
  /\ thread = "handle"
  /\ IF event = "limit" /\ main \notin {"wait", "close", "return"}
       THEN LimitRearmed
       ELSE UNCHANGED <<armed, pending, failed>>
  /\ thread' = "ack"
  /\ UNCHANGED <<mainVars, running, event, other, live, dataVars>>

AckEvent ==
  /\ thread = "ack"
  /\ event' = "none"
  /\ thread' = "check"
  /\ UNCHANGED <<mainVars, running, deviceVars, live, failed, dataVars>>

----------------------------------------------------------------------------
(* The device.                                                             *)

\* A message arrives: it takes the oldest buffer of the shared queue, whichever
\* queue pair it came on, and may pass the limit.  Without a buffer it is sent
\* again.
Deliver(k) ==
  /\ k \in sending
  /\ srq # <<>>
  /\ sending' = sending \ {k}
  /\ unacked' = unacked \cup {k}
  /\ mem' = [mem EXCEPT ![Head(srq)] = k]
  /\ cq' = Append(cq, Head(srq))
  /\ srq' = Tail(srq)
  /\ IF armed /\ Len(srq) - 1 < Limit
       THEN armed' = FALSE /\ pending' = Append(pending, "limit")
       ELSE UNCHANGED <<armed, pending>>
  /\ UNCHANGED <<mainVars, threadVars, running, other, live, failed>>

\* The completion of a send names no buffer.
Acknowledge(k) ==
  /\ k \in unacked
  /\ unacked' = unacked \ {k}
  /\ cq' = Append(cq, 0)
  /\ UNCHANGED <<mainVars, threadVars, running, deviceVars, live, failed, srq, mem, sending>>

OtherEvent ==
  /\ "ctx" \in live
  /\ other < MaxOther
  /\ other' = other + 1
  /\ pending' = Append(pending, "other")
  /\ UNCHANGED <<mainVars, threadVars, running, armed, live, failed, dataVars>>

----------------------------------------------------------------------------
Main ==
  \/ SetLimit \/ PreFill \/ StartThread \/ PostSend
  \/ Poll \/ PrintMessage \/ Repost \/ DemoFails
  \/ StopThread \/ DestroyQps \/ DestroySrq \/ FreeSrq \/ CloseDevice \/ Return

Thread == CheckFlag \/ GetEvent \/ GetFails \/ HandleEvent \/ AckEvent

Next ==
  \/ Main \/ Thread \/ OtherEvent
  \/ \E k \in Qps : Deliver(k) \/ Acknowledge(k)

Spec == Init /\ [][Next]_vars

----------------------------------------------------------------------------
\* A buffer of the pool is in the shared queue, in the completion queue or in
\* the hands of the main thread, and in one of them only; so the queue, which
\* all queue pairs drain, is never short of a buffer that is not in use.
PoolConserved ==
  main \in {"send", "poll", "print", "repost"} =>
    \A b \in Bufs :
      Cardinality(At(srq, b)) + Cardinality(At(cq, b))
        + (IF current = b THEN 1 ELSE 0) = 1

\* Each message is printed once and whole, although its buffer is cleared and
\* posted again while other messages arrive; all are, unless run_demo() fails.
HeardOnce ==
  /\ \A i, j \in 1 .. Len(heard) :
       heard[i] # 0 /\ (i # j => heard[i] # heard[j])
  /\ main \in {"qps", "destroy", "wait", "close", "return", "done"} /\ "demo" \notin failed =>
       {heard[i] : i \in 1 .. Len(heard)} = Qps

\* The limit is armed or its event is under way: no passing of the limit goes
\* unnoticed as long as the event thread handles what it fetches, and as no arming
\* of the limit has failed, which the program would not notice.
LimitIsWatched ==
  main \in {"fill", "start", "send", "poll", "print", "repost"} =>
    \/ armed
    \/ \E i \in 1 .. Len(pending) : pending[i] = "limit"
    \/ thread = "handle" /\ event = "limit"
    \/ "rearm" \in failed

\* g.srq is not freed while the event thread uses it, although nobody waits for
\* the thread: ibv_destroy_srq() waits for the event.
SrqOutlivesHandler ==
  event = "limit" => "srq" \in live
=============================================================================
