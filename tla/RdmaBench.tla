----------------------------- MODULE RdmaBench -----------------------------
(***************************************************************************)
(* The whole of rdma_bench.c: the handshake, the connection of the queue   *)
(* pairs of the two processes to one another, the client's benchmark, and  *)
(* the server, which waits for a byte and takes down the memory that the   *)
(* client has written.                                                     *)
(***************************************************************************)
EXTENDS Handshake, BenchWindow

CONSTANTS
  FaultyPeers,  \* processes whose ibv_modify_qp may fail
  MayBreak      \* whether a queue pair may fail on its own

ASSUME FaultsAssumption == FaultyPeers \subseteq Peers /\ MayBreak \in BOOLEAN

VARIABLE to  \* the peer's queue pair each queue pair is connected to, in order

programVars == <<shakeVars, windowVars, to>>

ProgramInit ==
  /\ ShakeInit
  /\ WindowInit
  /\ to = [p \in Peers |-> <<>>]

\* conn_info holds the number of the first queue pair only.
ToldQp == 0

\* INIT, RTR and RTS for the next queue pair.
ConnectQp(p) ==
  /\ stage[p] = "setup"
  /\ IF Len(to[p]) < QpCount
       THEN to' = [to EXCEPT ![p] = Append(@, ToldQp)] /\ UNCHANGED stage
       ELSE Enter(p, "sync") /\ UNCHANGED to
  /\ UNCHANGED <<linked, wrote, got, windowVars>>

ModifyFails(p) ==
  /\ stage[p] = "setup"
  /\ p \in FaultyPeers
  /\ Exit(p)
  /\ UNCHANGED <<windowVars, to>>

During(step) == step /\ UNCHANGED <<windowVars, to>>

\* run_benchmark(); die() ends it early.
RunBenchmark ==
  /\ stage[Client] = "running"
  /\ Program
  /\ Enter(Client, IF pc' \in {"died", "diedWarm"} THEN "exited" ELSE "running")
  /\ UNCHANGED <<linked, wrote, got, to>>

\* The client signals completion ...
SignalCompletion ==
  /\ stage[Client] = "running"
  /\ pc = "done"
  /\ wrote' = [wrote EXCEPT ![Client] = @ + 1]
  /\ pc' = "said"
  /\ UNCHANGED <<stage, linked, got, loopVars, outstanding, need, queueVars, to>>

\* ... or is killed by SIGPIPE, if the server has ended ...
SignalKilled ==
  /\ stage[Client] = "running"
  /\ pc = "done"
  /\ Gone(Server)
  /\ Exit(Client)
  /\ UNCHANGED <<windowVars, to>>

\* ... and destroys its queue pairs.
ClientCleanup ==
  /\ stage[Client] = "running"
  /\ pc = "said"
  /\ Enter(Client, "closed")
  /\ UNCHANGED <<linked, wrote, got, windowVars, to>>

\* The server's read() returns, with the byte or because the client is gone,
\* and the server takes down its queue pairs and its memory.
ServerEnds ==
  /\ stage[Server] = "running"
  /\ SyncReturns(Server)
  /\ got' = [got EXCEPT ![Server] = IF Pending(Server) > 0 THEN @ + 1 ELSE @]
  /\ Enter(Server, "closed")
  /\ UNCHANGED <<linked, wrote, windowVars, to>>

\* Two queue pairs that are connected to each other.
Wired(k) ==
  /\ Len(to[Client]) > k /\ Len(to[Server]) > to[Client][k + 1]
  /\ to[Server][to[Client][k + 1] + 1] = k

Connected(k) == Wired(k) /\ ~Gone(Server)

\* A queue pair without a peer that answers ends in the error state; any other
\* executes its writes, or fails on its own.
Adapter(k) ==
  /\ stage[Client] = "running"
  /\ \/ (Connected(k) \/ broken[k]) /\ Execute(k)
     \/ (~Connected(k) \/ MayBreak) /\ posted[k] > executed[k] /\ Break(k)
  /\ UNCHANGED <<shakeVars, to>>

ProgramNext ==
  \/ During(Greet)
  \/ \E p \in Peers : During(Shake(p)) \/ ConnectQp(p) \/ ModifyFails(p)
  \/ RunBenchmark \/ SignalCompletion \/ SignalKilled \/ ClientCleanup
  \/ ServerEnds
  \/ \E k \in Qps : Adapter(k)

\* Processes are scheduled, and adapters work.
ProgramSpec ==
  /\ ProgramInit /\ [][ProgramNext]_programVars
  /\ WF_programVars(During(Greet))
  /\ \A p \in Peers :
       WF_programVars(During(Shake(p))) /\ WF_programVars(ConnectQp(p))
  /\ WF_programVars(RunBenchmark) /\ WF_programVars(SignalCompletion)
  /\ WF_programVars(ClientCleanup) /\ WF_programVars(ServerEnds)
  /\ \A k \in Qps : WF_programVars(Adapter(k))

----------------------------------------------------------------------------
\* A client that runs its benchmark finds each of its queue pairs connected to
\* one of the server that is ready and connected to it.
WiredBothWays ==
  stage[Client] = "running" /\ ~Gone(Server) => \A k \in Qps : Wired(k)

\* The most writes of a queue pair that nobody waits for: those after the last
\* signaled one.  If too few are measured for one of them to be signaled, those
\* that are left over from the warm-up come on top.
LongestTail ==
  IF Iterations < SignalInterval THEN 2 * (SignalInterval - 1) ELSE SignalInterval - 1

\* When the server takes its memory down, the client is gone or has finished:
\* all that may still be written is such a tail of each queue pair.
MemoryOutlivesAllButTail ==
  stage[Server] = "closed" /\ stage[Client] = "running" =>
    /\ pc = "said"
    /\ \A k \in Qps : broken[k] \/ posted[k] - executed[k] <= LongestTail

\* The server ends, unless the client waits for ever for completions it has
\* taken already.
ServerEndsUnlessClientStuck ==
  stage[Server] = "running" ~> Gone(Server) \/ (pc = "drain" /\ Coming < need)
=============================================================================
