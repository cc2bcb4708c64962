------------------------------ MODULE Handshake ------------------------------
(***************************************************************************)
(* How the two processes of ud_send and of rdma_bench meet: a TCP          *)
(* connection, one structure in each direction and one byte in each        *)
(* direction as a barrier.  Unlike the other programs (Rendezvous) they    *)
(* take what a single read() returns for the structure, or give up when it *)
(* is shorter.                                                             *)
(*                                                                         *)
(* A stream is the number of bytes written and the number read; a read()   *)
(* returns any part of what has been written, as TCP allows.               *)
(***************************************************************************)
EXTENDS Integers

CONSTANTS
  Server, Client,  \* the two processes: receiver and sender in ud_send
  InfoLen,         \* size of the structure, in the units a read may split
  AfterExchange    \* "sync" in ud_send; "setup" in rdma_bench

Peers == {Server, Client}

ASSUME PeersDiffer == Server # Client
ASSUME InfoAssumption == InfoLen \in Nat \ {0}
ASSUME AfterAssumption == AfterExchange \in {"setup", "sync"}

VARIABLES
  stage,   \* where each process is in main()
  linked,  \* the client's connect() succeeded
  wrote,   \* bytes each process has written
  got      \* bytes each process has read

shakeVars == <<stage, linked, wrote, got>>

Stages == {"start", "accept", "write", "read", "setup", "sync", "await",
           "running", "exited", "closed"}

Other(p) == IF p = Server THEN Client ELSE Server
Gone(p) == stage[p] \in {"exited", "closed"}
Pending(p) == wrote[Other(p)] - got[p]

ShakeInit ==
  /\ stage = [p \in Peers |-> "start"]
  /\ linked = FALSE
  /\ wrote = [p \in Peers |-> 0]
  /\ got = [p \in Peers |-> 0]

Enter(p, next) == stage' = [stage EXCEPT ![p] = next]

\* exit(EXIT_FAILURE), or SIGPIPE.
Exit(p) == Enter(p, "exited") /\ UNCHANGED <<linked, wrote, got>>

Listen ==
  /\ stage[Server] = "start"
  /\ Enter(Server, "accept")
  /\ UNCHANGED <<linked, wrote, got>>

Connect ==
  /\ stage[Client] = "start"
  /\ stage[Server] = "accept"
  /\ linked' = TRUE
  /\ Enter(Client, "write")
  /\ UNCHANGED <<wrote, got>>

ConnectRefused ==
  /\ stage[Client] = "start"
  /\ stage[Server] # "accept"
  /\ Exit(Client)

Accept ==
  /\ stage[Server] = "accept"
  /\ linked
  /\ Enter(Server, "write")
  /\ UNCHANGED <<linked, wrote, got>>

\* The structure is written with one write().
WriteInfo(p) ==
  /\ stage[p] = "write"
  /\ wrote' = [wrote EXCEPT ![p] = @ + InfoLen]
  /\ Enter(p, "read")
  /\ UNCHANGED <<linked, got>>

\* Mutant: what read() returned is not compared with the size.
AnyLength(n) == n > 0

WholeStructure(n) == n = InfoLen

\* The structure is read with one read(); a part of it ends the process.
ReadInfo(p) ==
  /\ stage[p] = "read"
  /\ \E n \in 1 .. InfoLen :
       /\ n <= Pending(p)
       /\ got' = [got EXCEPT ![p] = @ + n]
       /\ Enter(p, IF WholeStructure(n) THEN AfterExchange ELSE "exited")
  /\ UNCHANGED <<linked, wrote>>

\* The peer has ended: EPIPE, ECONNRESET, or end of file.
ExchangeFails(p) ==
  /\ stage[p] \in {"write", "read"}
  /\ Gone(Other(p))
  /\ Exit(p)

\* The results of the write() and the read() of the barrier are ignored.
SendSync(p) ==
  /\ stage[p] = "sync"
  /\ wrote' = [wrote EXCEPT ![p] = @ + 1]
  /\ Enter(p, "await")
  /\ UNCHANGED <<linked, got>>

SyncKilled(p) ==
  /\ stage[p] = "sync"
  /\ Gone(Other(p))
  /\ Exit(p)

\* Mutant: nobody waits for the byte of the other.
NoWait(p) == TRUE

SyncReturns(p) == Pending(p) > 0 \/ Gone(Other(p))

RecvSync(p) ==
  /\ stage[p] = "await"
  /\ SyncReturns(p)
  /\ got' = [got EXCEPT ![p] = IF Pending(p) > 0 THEN @ + 1 ELSE @]
  /\ Enter(p, "running")
  /\ UNCHANGED <<linked, wrote>>

Greet == Listen \/ Connect \/ ConnectRefused \/ Accept

Shake(p) ==
  \/ WriteInfo(p) \/ ReadInfo(p) \/ ExchangeFails(p)
  \/ SendSync(p) \/ SyncKilled(p) \/ RecvSync(p)

----------------------------------------------------------------------------
\* Although nobody reads again after a short read(), no process goes on with a
\* part of a structure, or takes a byte of it for the sync byte.
NothingTorn ==
  \A p \in Peers :
    /\ stage[p] \in {"setup", "sync", "await"} => got[p] = InfoLen
    /\ stage[p] \in {"running", "closed"} => got[p] >= InfoLen
    /\ got[p] <= wrote[Other(p)]
=============================================================================
