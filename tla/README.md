# A TLA+ development of the RDMA book's programs

The repository is a book on RDMA with eleven C files under `src/code/`: small
programs, each of which shows one way to use the verbs. This directory holds
TLA+ modules of these programs, TLC configurations that check them on small
instances, and TLAPS proofs of the properties that hold for every size. Paths
below are relative to the repository's `src/code/` unless they begin with
`part-`.

## 1. The system

| Component | Files | State it keeps | Operations | Talks to |
|---|---|---|---|---|
| TCP rendezvous and queue-pair set-up | `common/rdma_common.c`, `main()` of the three RC programs | socket, local and remote `qp_info`/`mr_info`, queue-pair state and attributes | connect/accept, `exchange_qp_info`, `exchange_mr_info`, `modify_qp_to_init/rtr/rts`, one-byte barrier | the peer, over one TCP stream; the adapter |
| Ping-pong loop | `ch09-rc-pingpong/rc_pingpong.c` | one buffer, one completion queue, receive queue, loop counter | `post_receive`, `post_send`, `poll_completion` | the peer, over a reliable connection |
| RDMA Write | `ch09-rdma-write/rdma_write.c` | target buffer, notification | post write, poll, notify; wait for the notification | the peer's memory, without its program |
| RDMA Read | `ch09-rdma-read/rdma_read.c` | header and payload, notification | fill; read header, read payload, notify | the peer's memory, without its program |
| UD messaging | `ch09-ud-example/ud_send.c` | 16 receive buffers, one send buffer | pre-post, poll, print, re-post; send, poll | the peer, by datagrams |
| CM client and server | `ch10-cm-client-server/*.c` | event channel, ids, a queue pair and a completion queue per connection | one handler per connection-manager event | each other, by events and messages |
| Shared receive queue | `ch11-srq-example/srq_example.c` | pool of 32 buffers, one SRQ, four pairs of queue pairs, `async_running` | `init_resources`, pre-fill, send, poll, re-post; event thread; `cleanup` | two threads of one process, the device |
| Handshake of `ud_send` and `rdma_bench` | `exchange_ud_info`, `exchange_info`, both `main()`s | socket, one structure each way | one `write`, one `read`, one-byte barrier | the peer, over one TCP stream |
| Benchmark | `ch12-benchmark/rdma_bench.c` | `outstanding_cqes`, `signal_cnt`, send queues, completion queue | `connect_qps`, warm-up, throttled posting, `poll_completions`, the server's wait | the peer's queue pairs and memory |
| Resource listing | `ch08-hello-verbs/hello_verbs.c` | one of each verbs resource | create all, query, destroy all | the device |

What is hard in them: two processes (in Chapter 10 several, in Chapter 11 two
threads) run with no order but the one they make; packets, acknowledgements and
datagrams are lost, repeated and delayed; retries run out although the peer is
alive; a process may end at any moment of the other's work and takes its queue
pair and memory with it; completions of
both directions share a queue and are not told apart; queues have limits; and
every wait is a busy poll or a blocking call without a timeout.

What makes each of them correct:

* *rendezvous*: the byte stream stays framed; sequence numbers agree; a process
  past the barrier finds a peer that can answer; nobody waits for ever;
* *ping-pong*: pings and pongs alternate and carry their own payload; nothing of
  an iteration is left over; nobody reports results of an exchange that is not
  complete; whoever waits for ever was left by its peer;
* *one-sided operations*: a reader sees whole data; memory outlives the access;
* *UD*: buffers circulate without loss and keep a message until it is printed;
  only a missed datagram is missing;
* *CM*: events name connections that exist; both sides stop;
* *SRQ*: the pool is conserved; the limit stays watched; tear-down waits for the
  event handler;
* *benchmark*: no queue overflows while the connection holds; no wait is for something that cannot come;
  queue pairs are connected in both directions;
* *handshake*: nobody works with part of a structure;
* *resources*: nothing is destroyed while it is referred to, nor twice, and what
  is not the kernel's to reclaim is given back.

## 2. Modules

| Module | Models | Composition |
|---|---|---|
| `Rendezvous` | TCP connection, exchange with `read_all`/`write_all`, queue-pair transitions, barrier | in `RcPingPong` and `RdmaWriteProgram` |
| `Echo` | abstract: pings and pongs in turn | refined by `RcPingPong` |
| `PingLoop` | the loop of `rc_pingpong.c` with adapters and fabric below | in `RcPingPong` |
| `RcPingPong` | `rc_pingpong.c` from its first step to its last | `INSTANCE`s of `Rendezvous` and `PingLoop` that share the queue pairs |
| `RdmaWrite` | `rdma_write.c` after the barrier | in `RdmaWriteProgram` |
| `RdmaWriteProgram` | `rdma_write.c` from its first step to its last | extends `Rendezvous` and `RdmaWrite`, implements both |
| `RdmaRead` | `rdma_read.c` after the barrier | |
| `Handshake` | connection, single-`read` exchange and barrier of `ud_send.c` and `rdma_bench.c` | in `UdSend` and `RdmaBench` |
| `UdMessaging` | `ud_send.c` after the barrier, with the fabric | in `UdSend` |
| `UdSend` | `ud_send.c` from its first step to its last | extends `Handshake` and `UdMessaging` |
| `BenchWindow` | `run_benchmark()`, `poll_completions()` and the adapter | in `RdmaBench` |
| `RdmaBench` | `rdma_bench.c` from the connection to the take-down | extends `Handshake` and `BenchWindow`, adds the wiring |
| `CmService` | abstract: accepted, asked, answered and content, each once | refined by `CmConnection` |
| `CmConnection` | `cm_client.c`, `cm_server.c`, connection manager | |
| `Srq` | main thread and event thread of `srq_example.c`, device | |
| `Resources` | what all nine programs create and destroy, with every call failing once | |

A module `MCx` only extends `x`; its `.cfg` gives the constants. `xProofs` holds
the theorems about `x` and extends it; `RdmaWriteProofs` is about `RdmaWrite` and
about `RdmaWriteProgram`. There are eight: `RendezvousProofs`, `RdmaWriteProofs`,
`RcPingPongProofs`, `RdmaReadProofs`, `UdSendProofs`, `RdmaBenchProofs`,
`CmConnectionProofs` and `SrqProofs`. Operators whose comment begins with "Mutant:" are not
part of a specification: each is a form a mapped operator would have with a
plausible bug, and stands beside the operator it replaces.

How state and actions correspond to the code:

* **Rendezvous.** `pc` is the place in `main()`. A stream is two counters, the
  bytes written (`sent`) and the bytes read (`rcvd`): a program writes always the
  same structures, so a position says what the byte belongs to. `WriteAll` and
  `ReadAll` are one `write(2)`/`read(2)` each, of any number of bytes up to what
  the structure lacks, as the loops of `write_all`/`read_all` allow for;
  `SendSync`/`RecvSync` are the barrier, with the outcomes `main()` does not tell
  apart (`SendSyncLost`, `RecvSyncNothing`) and death by SIGPIPE (`SyncKilled`).
  `MrInfoLen = 0` gives `rc_pingpong`, which exchanges no memory keys; with
  `MrInfoLen > 0` the module is the set-up of `rdma_write` and `rdma_read`.
  `qp_info` is reduced to the sequence number: number, LID and GID are copied the
  same way. A process that exits or is killed becomes `exited`, one whose
  program proper is over `closed`; the kernel then closes its socket and
  destroys its queue pair.
* **PingLoop.** One action per statement that calls a verb. `PollCompletion` takes
  the oldest completion, whichever direction it belongs to, as `poll_completion`
  does. Below, an adapter transmits a send, reading the payload from the buffer
  each time, until it is acknowledged; `RnrNak`, `Duplicate`, `Lose` and
  `RetryExceeded` are what a reliable connection does with `rnr_retry = 7` (for
  ever) and `retry_cnt = 7`: retries run out against a peer that no longer answers,
  and on a fabric that loses packets (`Lossy`) also against a living one, whatever
  has been delivered. A process may end in the middle of its loop (`Die`, in
  `RcPingPong` `Killed`, for the processes in `FaultyPeers`): a verb fails, or it is
  killed. Packets carry their number; `delivered[p]` is the receiver's
  expected number less one.
* **RdmaWriteProgram.** Both modules' variables side by side: a step of the set-up
  leaves the write alone and the reverse, except that the end of a process in one
  is its end in the other (`Ends`). `ImplementsParts` says that the composition
  is a behaviour of each part, so what the proofs show of the parts
  holds of the program.
* **RdmaWrite, RdmaRead.** Memory is a set of cells the adapter of the server
  stores or loads in any order, because the verbs promise no atomicity and the
  program's plain stores and loads race with it. Requests of one queue pair are
  executed in order. Retries run out (`RetryExceeded`, `ReadGivenUp`,
  `NoticeGivenUp`) against a server that is gone and against one that is there, and
  the client fails. `RdmaRead` has a variable `room` for the option `-m`: buffers
  too small for the payload make the payload read fail.
* **Handshake.** As in `Rendezvous` a stream is two counters, but the structure is
  written by one `write` and read by one `read` that returns any part of what is
  there. Both programs compare the result with the size (`WholeStructure`) and
  exit when it is less. `ud_send` has its queue pair in RTS before the handshake,
  `rdma_bench` connects its queue pairs between exchange and barrier
  (`AfterExchange`).
* **UdMessaging, UdSend.** A datagram in flight arrives in a posted buffer, in any order,
  or is missed: lost, or dropped for want of a buffer or a receiver. A fabric that
  loses may also repeat: a datagram that has arrived may still be on its way. The
  receiver does not look at what it counts, so that a repeated datagram is a
  message to it, and it may end without having them all. What keeps a buffer's
  message until it is printed (`NothingOverwritten`) does not depend on that.
* **BenchWindow, RdmaBench.** Writes of a queue pair are numbered; a completion names the last
  write it stands for, and polling it gives back the slots of that write and of
  all before it. `phase` is the counter of the signaling test modulo
  `SIGNAL_INTERVAL`: `i` in the warm-up, `signal_cnt` in the measurement. `to[p]`
  is the list of the peer's queue pairs that those of `p` were connected to, in the
  order of the loop of `connect_qps`; since `conn_info` has room for one number,
  each entry is the peer's first (`ToldQp`). An adapter executes the writes of a
  queue pair that is connected in both directions (`Wired`) to a living server, and fails the others.
* **CmConnection.** One action per event handler up to its first busy poll, one
  for each poll. The channel is a sequence of events; `rdma_ack_cm_event` right
  after the fetch is part of `Fetch`. `Stop` is the end of `main()`. With `MayFail`
  a handler fails at each of its verbs: while a connection is set up, when the
  client's message (`ClientPostFails`) or the reply (`ServerPollFails`) cannot be
  posted; and the server may be told an event it has no handler for
  (`OnUnexpected`). With `MayDie` a client may be killed.
* **Srq.** One action per posted or polled buffer of the main thread, and per
  statement of the event thread that can block or touch shared state.
  `ibv_destroy_srq` and the release of `g.srq` are two actions, because the call
  waits for events that were fetched and not acknowledged. `failed` remembers what
  the properties have to except: `run_demo()` may fail at a post, at a poll or by a
  completion with an error (`DemoFails`), and arming the limit may fail, which the
  thread ignores (`LimitRearmed`). `pthread_create` may fail unnoticed
  (`StartThread`). The thread may ask for an event of a device already closed
  (`GetEvent` has no guard against it; `GetFails` ends the thread then).
* **Resources.** A program is a script of creations, destructions and other calls
  that may fail, in the order of its `main()`, `init_ctx`, `init_resources` or
  handlers. `Step` takes the next one; `Fail` fails it and puts the program's
  failure path in place of the rest: exit (`CHECK_*`, `DIE`, `die`), `cleanup()`
  of what is not NULL (`SrqFails`), or the labels a `goto` leads to (`Goto`) and
  the end of `main()`. `References` is which object the verbs count as a user of
  which.

Whatever is not under `src/code/` is modelled from how it is used: adapters, the
fabric, the connection manager and the kernel. They are marked external in
`PROJECT.json`.

## 3. Runs

Eight runs pass, one for each program or pair of programs and one for the resources
of all. A program is checked as a whole: its parts have no runs of their own.

| Run | Checks | Shows |
|---|---|---|
| `rc_pingpong` | `IterationsAreClosed`, `PayloadIntegrity`, `NoPacketBeforeReady`, `SuccessIsMutual`, `EchoSpec`, `EndsOrIsLeft` | no completion, receive or payload of an iteration is left for the next, although the code does not look at what it polls; the one shared buffer is not refilled while the fabric may still read it; the barrier is enough to keep packets from a queue pair in INIT; a process ends with its results only when all messages of both directions have arrived and the peer is in its last iteration or past it, although that peer may yet report a failure; the pair implements `Echo`; a process past the barrier ends, or has had everything it sent acknowledged and waits for a message of a peer that ended without results: losses, repetitions and refusals alone hang nobody |
| `rdma_write` | `TypeOK`, `BarrierHolds`, `PsnAgreement`, `FramingOK`, `NotifiedAfterData`, `MemoryOutlivesWrite`, `EveryoneArrives`, `ImplementsParts`, `EndsOrIsLeft` | each structure is read from its own place however the stream is split; both sides agree on sequence numbers; a process past the barrier has a peer in RTS or one that ended; the server prints the whole message after the notification, and its memory goes away only after every write; once the client is connected each process gets to its program proper or ends; the program implements its two parts; a process that waits for ever was left by its peer |
| `rdma_read` | `WrongOnlyByRace`, `MemoryOutlivesRead`, `ClientEnds` | a wrong result has one cause, the read that overtakes the fill; the server's memory outlives the reads; the client ends for every `-m` |
| `ud` | `BuffersConserved`, `NothingOverwritten`, `NoSilentLoss`, `NothingTorn`, `WaitsOnlyForMissed` | no process works with part of a structure or takes a byte of it for the barrier; no buffer leaks; a message that has been received stays in its buffer until it is printed, whatever arrives or is repeated meanwhile; the receiver is stuck only for a datagram that was missed or a sender that failed |
| `bench` | `NoOverflow`, `WaitsArePaid`, `WiredBothWays`, `MemoryOutlivesAllButTail`, `ServerEndsUnlessClientStuck` | with one queue pair and a warm-up that fits (eleven writes, a queue of twelve) no write finds the queue full, in the warm-up or after it, unless the connection fails; the warm-up wait and each throttling wait are for completions that come; the client posts to a queue pair that is connected to its own; when the server takes its memory down no more than a tail of unsignaled writes is unfinished (`LongestTail`); the server ends unless the client is in the last wait of `bench_drain` |
| `cm` | `EventsNameLiveIds`, `DisconnectsWhenAnswered`, `ServiceSpec`, `EndsOrIsAbandoned`, `StopsOrIsCaught` | an event never names a destroyed id; a client disconnects after its answer; the event loops of both sides implement `CmService`: each client is accepted, heard and answered at most once, in this order, and nothing is heard by a process that has ended; an end that does not stop is caught in a poll the other end left it in |
| `srq` | `PoolConserved`, `HeardOnce`, `LimitIsWatched`, `SrqOutlivesHandler` | the pool is neither leaked nor doubled; each message is printed once, and all of them unless `run_demo()` fails; the limit is armed again before it can be passed unseen, unless arming it fails; the queue is not freed under the event thread |
| `resources` | `OrderRespectsReferences`, `AllGivenBack` | on the normal path of each program and after a failure of any one call, nothing is destroyed that something refers to, or that is not there; a program that ends normally, and `srq_example` however it ends, has given all back, but for the device list of a machine without devices; a chain of labels gives back a whole connection or none of it |

Four runs end in a violation (section 4): `bench_drain`, `bench_default`,
`rdma_read_stale` and `resources_cm`. Every property of a passing run has a mutant
in `PROJECT.json`, an operator with a plausible bug under which TLC finds it violated.

Deadlock is not checked in these runs because every program ends, and because
some waits are legitimately without end when the peer is gone (a server nobody
connects to, a receiver of lost datagrams); what may wait for whom is stated by
the liveness properties instead.

**Bounds.** Rendezvous in `rdma_write`: two structures of three units each and a
socket buffer of five, so that each read and write can split, a writer can block,
and a structure can be followed by part of the next; the message has five cells;
the proofs cover all lengths. `rc_pingpong`: structures of one unit and two
iterations, so that a packet or acknowledgement of the iteration before can still
be on its way; one sequence number for both, because which numbers they are is
checked in `rdma_write` and proved; the sets of packets and acknowledgements in flight bound
themselves because each is a set of numbered messages. `rdma_read`: a payload of
two cells, buffers with room for less and for all of it. `ud`: a structure of two
units, three messages, two buffers, so that a buffer is used again while another is
being handled. `bench`: an interval of three and a queue of twelve give a mark of
two as 32 and 512 give one of eight: the mark is more than one, several
completions fit one poll and a batch (`PollBatch`) can split what is there; a
warm-up of eleven is the longest that leaves a slot of the queue free, with a tail that is
not signaled; 26 writes fill the queue twice and end in a tail; a batch of five is large
enough for the benchmark to get through although its server is gone, as a batch of 32
is after a short warm-up. The two failing runs
of the benchmark use an interval of two; `bench_default` has a warm-up of 20 for a
queue of eight as the defaults have one of 5000 for a queue of 512, and no
connection fails in it. `cm`:
two clients, the smallest number at which one can disturb another. `srq`: three
queue pairs drain two buffers, so buffers run out, with a limit of two and one
event of another kind (`MaxOther`). `resources`: two queue pairs where a program
has several, and one failure, after which no program creates anything.

**Fairness.** Stated in `RcPingPong`, `RdmaWriteProgram`, `RdmaRead`, `UdSend`,
`RdmaBench` and `CmConnection`, whose runs have liveness properties. A process or thread that can
take a step takes one in the end (weak fairness of its steps): the
operating system schedules it, and polling spins. Adapters go on with what they have (weak fairness). The
fabric may lose any packet, but not each repetition of one for ever: strong
fairness of delivery, of the answer to a duplicate and of acknowledgement in
`RcPingPong`, which is what the adapter's repetitions after a timeout are for.
A datagram in `UdSend` is not on
its way for ever: it arrives or is missed (weak fairness of `Transfer`). Failures,
deaths, losses in `RcPingPong`, retries that run out with the peer there, and `Leave`
have no fairness: they need never happen.

## 4. Disagreements

Four properties are stated as the repository states them and are violated.

* **The last wait of the benchmark can hang** (`bench_drain`). The loop polls "one"
  completion and subtracts one from `outstanding_cqes` (`rdma_bench.c:428-429`),
  but `poll_completions` takes all there are, up to 32. The counter is then too
  high, and "Drain remaining completions" (`:434`) waits for completions that were
  taken before. `WaitsArePaid` shows that the waits before it are not concerned.
* **The benchmark dies in its warm-up with its own defaults** (`bench_default`). The
  warm-up posts `-w` writes, 5000 by default, and polls nothing before its end
  (`rdma_bench.c:391-404`); the send queue has 512 slots (`:33`) and no option
  changes that. Unless the driver gives it far more than it asks for,
  write 513 is refused and `die` ends the client. So it is with the command of
  `part-4-performance/ch12-performance-engineering/benchmarking.md:262-264`, which
  sets no warm-up, although `:250` promises a "Warm-up phase with discarded
  results" and the measured loop takes care to "Prevent send queue overflow: poll
  when half-full" (`rdma_bench.c:426`). `WarmUpFits` (section 5) says that this is
  exactly when it dies there; a `-w` of at most 512 is needed.
* **An RDMA Read may read a buffer that is not filled** (`rdma_read_stale`). The
  server fills its buffer after the barrier (`rdma_read.c:319-322`), while
  `part-3-programming/ch09-programming-patterns/rc-rdma-read.md:264` describes a
  server that fills it first. The magic number catches an empty header, not a
  payload that is still missing. `WrongOnlyByRace` shows that there is no other
  way to a wrong result.
* **The CM client destroys an id whose queue pair is there** (`resources_cm`). When
  `on_established` fails, the handler returns and `main()` destroys the client's id
  (`cm_client.c:368`) while the connection has its queue pair and all that was made
  for it, against "Destroy any CM-managed QP with `rdma_destroy_qp()` before
  destroying the CM ID." (`appendices/appendix-b-rdma-cm-api-reference.md:298`).

A fifth is proved, and has no run: **with `-q 2` the second queue pair cannot work**.
`conn_info` carries the number of one queue pair (`rdma_bench.c:240`), and
`connect_qps` connects every queue pair to it (`:325-330`), although the benchmark
has a "Configurable message size, iteration count, and QP count"
(`part-4-performance/ch12-performance-engineering/benchmarking.md:249`). The
client's second one sends to the server's first, which answers to the client's
first only. `OneNumberWiresOne` (section 5) says that of any number of queue pairs
the first ones alone are connected in both directions. (Were they wired,
`signal_cnt`, which counts posts over all queue pairs (`:417-418`), would put every
signaled write on the same one when their number divides the interval, and the
slots of the others would never be given back.)

Smaller ones, seen while modelling, that have no run: a process whose peer died
in its set-up passes the barrier and prints "Peer synchronized." because the
results of `write` and `read` are ignored (`rc_pingpong.c:289-291`, action
`RecvSyncNothing`); the first of the client's two completions can be the pong's
(`rc_pingpong.c:332`); a ping-pong process whose peer fails after it has
acknowledged everything polls for ever, because `poll_completion` has no timeout
(`rdma_common.c:204`, `LeftWaiting`); a repeated datagram counts as a message, so
that the UD receiver can end without having them all (`ud_send.c:306`), though
`part-3-programming/ch09-programming-patterns/ud-messaging.md:374` says that
datagrams may be duplicated; a server of Chapter 10 whose handler fails destroys
its listener with an id of that listener still there (`cm_server.c:342`); "Server buffer before" may print a buffer that is
already written (`rdma_write.c:303`); the UD receiver posts its buffers after the
barrier that lets the sender go (`ud_send.c:298`); a server of Chapter 10 ends on
an error when the client disconnects before the acknowledgement of the reply is
back (`cm_server.c:230`, action `ServerPollFails`); the event thread of Chapter 11
is not joined before the device is closed (`srq_example.c:501`), and its limit
event cannot come with four messages for thirty-two buffers; a short read ends
`ud_send` and `rdma_bench`, though TCP may deliver a structure in parts
(`ud_send.c:135`, `rdma_bench.c:157`, action `ReadInfo`); on a machine without
devices `srq_example` does not free the list of them (`srq_example.c:184`).

## 5. Proofs

Eight modules hold proofs. They are about every value of the constants that the
`ASSUME`s of the modules allow, unless the theorem names a further assumption. The
argument is the same everywhere: an inductive invariant (`IInv`, or the name given
below) holds initially and is preserved by each action, one step of the proof per
action, and each property is a consequence of it. But for types, none of the
properties is inductive by itself. No proof uses fairness.

**`RendezvousProofs`**: for all structure lengths, socket buffers, sets of
sequence numbers and sets of processes that may fail, `Spec` implies always
`TypeOK` (`TypeCorrect`), `FramingOK` (`Framing`), `BarrierHolds` (`Barrier`) and
`PsnAgreement` (`PsnsAgree`). They use `TwoPeers` (the two processes differ) and
`LengthsAssumption` (a structure has at least one byte; the memory keys may have
none), and no bound on the buffer. That the byte read next is one of the structure expected
depends on how much was written and read when the stage was entered, so `IInv` adds,
for each process, `Counts` (bytes written and read at each stage), `AtBarrier` (the
state of its queue pair, and that only a process at the barrier or beyond has
written the sync byte) and `PsnCopies` (where each sequence number that is set was
copied from). `BarrierHolds` then follows from two facts of `AtBarrier`: a process
runs because it read the byte, which only a process in RTS writes, or because its
peer is gone.

**`RcPingPongProofs`**: for any number of iterations, with or without loss, for all
parameters of the rendezvous, `ProgramSpec` implies always `IterationsAreClosed` (`Closed`),
`PayloadIntegrity` (`Payload`), `NoPacketBeforeReady` (`PacketsMeetReadyPeers`) and
`SuccessIsMutual` (`BothHaveAll`), and it implements the abstract specification
`Echo` (`ImplementsEcho`). The program looks at no completion it polls, so that
what a completion may be has to come from the invariant: for each place
in the loop, `AtServer` and `AtClient` list what the completion queue can be and, for each
of these, how many sends were acknowledged, messages received and receives posted
in this iteration (`Count`); `Channel` ties these counts to the packets and
acknowledgements in flight, and says which of the packets may still carry the payload of
another message, namely those that were delivered before; `Alive` ties
the place in the loop to the place in the set-up and to the peer's. The sequence numbers
and the barrier are not proved again: hiding the failure of a queue pair
(`setupQp`), each step of the program is a step of `Rendezvous` or none
(`StepIsRendezvous`), and the invariant of `RendezvousProofs` is carried over. `ImplementsEcho`
takes each step to a step of `Echo` or a stutter: what `Echo` calls a ping is the delivery
of one to the server, not its sending. `QueuesFit` (`Shallow`) bounds what the model leaves
unbounded: two completions, one receive and one send not acknowledged are the most a
process has, so that the depths of the code (`CQ_DEPTH`, `RQ_DEPTH`, `SQ_DEPTH`) are never reached.

**`RdmaWriteProofs`**: for a message of any number of cells, `WriteSpec` implies always
`WriteTypeOK` (`WriteTypeCorrect`), `NotifiedAfterData` (`DataBeforeNotice`) and
`MemoryOutlivesWrite` (`MemoryLives`), from `CellsAssumption` (there is a cell). What
the server prints depends on requests it knows nothing of, so `WriteInv` ties its place
to theirs: `Posted` says which requests the client has posted at each place,
`Written` how much of the memory the executed requests account for, and
`Notified` that a notification, polled or not, means both requests were executed.
The whole program implements its two parts
(`ImplementsBoth`), so that all this and the barrier hold of it
(`ProgramWrites`); that needs `Together`, which says where a process is in one part
when it is at a given place of the other: without it, a process that ends in the
set-up would have to be shown not to have begun the write.

**`RdmaReadProofs`**: for a payload and buffers of any size, `WrongOnlyByRace`
(`NoOtherError`) and `MemoryOutlivesRead` (`MemoryLives`). `Buffer` says what the
server has stored at each of its places, `AtClient` which read the client waits for and
what it has in its own memory, `Arrived` that what a read has fetched so far is what was
prepared unless the header was asked for too early, and `Notified` that the server goes
on only after the client's last read.

**`UdSendProofs`**: for any number of messages and buffers, structures of any length,
lossy or not, and for both orders of set-up and exchange (`AfterExchange`), `NothingTorn`
(`WholeOnly`), `BuffersConserved` (`Conserved`), `NothingOverwritten` (`KeptUntilPrinted`) and
`NoSilentLoss` (`AllAccounted`). The handshake has an invariant of its own (`ShakeInv`).
`PoolOK` puts each buffer in one place; `MessagesOK` puts each message that was sent at
at least one stage of its way, a repeated one at several. `NothingOverwritten` is about
steps: it follows from `PoolOK`, because the adapter writes only to a posted buffer, and a
buffer with an unprinted message, in the completion queue or in the program's hands, is not posted.

**`RdmaBenchProofs`**: `WaitsArePaid` (`Paid`) holds for any number of queue pairs, any
sizes, and connections that may fail. `WindowInv` counts signaled writes, not polled
completions: in the warm-up nothing is polled, so that what is
counted is still to come; in the measurement the program waits only right after it has
posted a signaled write, whose completion cannot have been taken. With
one queue pair, the default of option `-q`, `NeverFull` says for every depth of two
intervals or more and every warm-up that `NoOverflow` holds, or the warm-up is longer than
the queue and the program has died in it: `SingleInv` says that signaled writes are an interval apart, the last
of them `phase` writes old, so that the slots in use are `phase`, an interval for each completion
not polled, of which there are at most `outstanding`, and what the warm-up left over; the mark
`PollMark` is half of what would fill the queue. The warm-up is settled for any number of
queue pairs and without an assumption (`WarmUpFits`, from `WarmInv`: a queue pair has had one
write in each iteration that is done, and no slot is given back): the program dies in its warm-up
only when that is longer than the queue, and then never comes to the measurement. The
defaults are on the wrong side of it (section 4).
What the set-up connects is proved for any number of queue pairs: when both processes run, the first
queue pair of the client is connected in both directions and no other (`OnlyFirstWired`,
`OneNumberWiresOne`), from `PeersInv`, which says what each process has written, read and connected
at each stage. With one queue pair this is `WiredBothWays` (`Wiring`); with two or more `WiredBothWays`
fails whenever both run. `MemoryOutlivesAllButTail` (`MemoryLives`) holds for
one queue pair. These three need queue pairs that are connected between exchange and barrier
(`AfterExchange = "setup"`), as in this program. With two queue pairs `MemoryOutlivesAllButTail` is false:
the completion with an error of the second queue pair, which is not connected, ends the last
wait early, and the client says that it is done while its first queue pair has more writes
to execute than a tail (TLC finds this with the constants of `MCRdmaBench.cfg` and `QpCount = 2`,
20 measured writes: twelve are unfinished). `NoOverflow` is
neither proved nor refuted for several queue pairs: the distance of signaled writes on one of them
depends on the common divisor of their number and the interval, and TLC found no overflow with two
queue pairs and intervals of two and three.
The attempt at this proof corrected the last property: it used to say that fewer
writes than an interval are unfinished, which is wrong when fewer than
an interval are measured, because none of them is signaled and the tail of the
warm-up is then not waited for either. `LongestTail` is the bound that holds and is reached.

**`CmConnectionProofs`**: for any number of clients, with or without failing verbs, unexpected events and
dying clients, `EventsNameLiveIds` (`LiveIds`) and `DisconnectsWhenAnswered` (`AnsweredFirst`). For the first,
`Accepted`: whatever a client tells after its request, it tells after the server has accepted,
and so after its id was created; an id goes away only as the server stops, which leaves no event. For the second,
`Confirmed` (a client confirms its connection once, and is served after that, so that it
is answered once) and `AtClient`, which lists what the client's completion queue can be
as it waits for the first and the second of its completions. `ImplementsService` shows that
`Spec` implies `ServiceSpec`, the refinement of `CmService`. A completed poll is a message heard, whatever
the code believes it polled: that the client is content only with the answer is
the same argument as `AnsweredFirst`; that nobody is accepted or answered twice needs more than `IInv`. `ServiceInv` adds
`Requested` (a client asks once, and has no answer before its request is fetched) and
`Attended` (the server has no completion of a connection, and has not replied to it, before it
has the message; the queue pairs of a server that ended are gone). Each action
is then one step of the service or a stutter.

**`SrqProofs`**: for any number of queue pairs and buffers, any limit, both kinds of
device (`FiresOnArm`), any number of other events and a `run_demo()` that may fail anywhere, `PoolConserved` (`Pooled`), `HeardOnce` (`Heard`),
`LimitIsWatched` (`Watching`) and `SrqOutlivesHandler` (`SrqLives`). `Watched` follows the limit
from the device through the channel to the thread that arms it again, `PoolOK` each
buffer, `MessagesOK` each message; `Counted` says how many completions are still to
come, without which the main thread might begin to destroy before all messages are printed.

What stays with TLC, and why:

* every liveness property (`EveryoneArrives`, `EndsOrIsLeft` of both programs that have it,
  `ClientEnds`, `WaitsOnlyForMissed`, `ServerEndsUnlessClientStuck`,
  `EndsOrIsAbandoned`, `StopsOrIsCaught`), because fairness needs `ENABLED`, which the
  prover does not have;
* `OrderRespectsReferences` and `AllGivenBack` of `Resources`: its programs
  are the nine scripts there are, and the run goes through all of them with each of their calls
  failing; what is left of a script is computed by `SelectSeq`, whose definition is recursive;
* `NoOverflow` for more than one queue pair, which is open, and the properties of
  section 4 and `MemoryOutlivesAllButTail` for more than one queue pair, which are false.

No module declares a `RECURSIVE` operator. Two operators of the libraries are recursive in their
definitions and beyond the prover, and two modules do without them: `Srq` describes what
`DestroySrq` leaves in the event queue by how many other events there are, and
`BenchWindow` counts the completions to come as elements of a set (`Marked`).

## 6. What is not modelled

* What `hello_verbs.c` and the other programs print of devices, ports and GIDs.
* The set-up of `rdma_read.c`, composed with what follows it: it is the set-up of
  `rdma_write.c` line by line, which `RdmaWriteProgram` composes.
* More than one failing call in a program of `Resources`, and failing destructions,
  whose results no program acts on.
* Loss of connection-manager messages beyond what makes a request unreachable, and the
  client's CONNECT_ERROR after the server has accepted.
* A post or a poll that returns an error after the barrier in `RdmaWrite`, `RdmaRead` and
  `UdMessaging`, and the death of a process there; in `rc_pingpong` they are (`Die`). A
  notification that `rdma_read` has given up does not come late; in `rdma_write` it may.
* A failing `post_srq_recv` when `srq_example` posts a buffer again (`srq_example.c:445`),
  whose result is ignored: the pool would be one buffer short.
* The depth a driver gives a queue beyond what is asked for.
* Options, formatting and timing; the GRH in front of a datagram and the MTU;
  the statistics.
* An RDMA Read into a server buffer smaller than the header (`rdma_read.c:322`,
  where `strncpy` gets a bound that has wrapped).

## 7. Plan

Done in this order: `Rendezvous`, `PingLoop`/`Echo`, `RcPingPong`, the one-sided
programs, `UdMessaging`, `BenchWindow`, `CmConnection`, `Srq`, with proofs of the
rendezvous and the write; then `Handshake` with `UdSend` and `RdmaBench`, `RdmaWriteProgram` and
`Resources`; then the proofs of section 5. Next:

1. `RdmaBench` for several queue pairs: `NoOverflow` with one shared `signal_cnt`, for a number
   of queue pairs that divides the interval and one that does not;
2. `Resources`: the order of destruction as a theorem about any script whose creations
   and destructions nest, of which the programs are instances.
