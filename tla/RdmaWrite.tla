------------------------------ MODULE RdmaWrite ------------------------------
(***************************************************************************)
(* The program proper of rdma_write.c, after the barrier: the client       *)
(* writes its message into the memory of the server, which takes no part   *)
(* in it, and then sends a notification, which the server waits for.       *)
(* Either process may have failed before it comes to this part; its peer   *)
(* goes on all the same, because it does not look at what its read() at    *)
(* the barrier returned.                                                   *)
(*                                                                         *)
(* The message is a set of cells, which the adapter of the server places   *)
(* in any order, so that a reader may find it half written.  0 is what     *)
(* calloc left, 1 what the client writes.  The requests of the client are  *)
(* executed by the server's adapter in the order they were posted, once    *)
(* each, and acknowledged in that order (the connection of PingLoop).      *)
(***************************************************************************)
EXTENDS Integers, Sequences

CONSTANT Cells  \* the cells of the message

ASSUME CellsAssumption == Cells # {}

VARIABLES
  server,    \* where the server is
  client,    \* where the client is
  mem,       \* data_buf of the server, the target of the write
  local,     \* data_buf of the client
  after,     \* what it printed as its buffer after the write
  requests,  \* the requests the client has posted: "write" or "send"
  placed,    \* cells of the write being executed that are in place
  executed,  \* requests the server's adapter has executed
  acked,     \* requests completed at the client
  clientCq, serverCq,  \* completions not polled yet
  rq         \* receives the server has posted and not used

writeVars == <<server, client, mem, local, after, requests, placed,
          executed, acked, clientCq, serverCq, rq>>
serverVars == <<server, after>>
clientVars == <<client, local, requests>>
adapterVars == <<mem, placed, executed, acked>>

Empty == [c \in Cells |-> 0]
Full == [c \in Cells |-> 1]

WriteInit ==
  /\ server = "print"
  /\ client = "fill"
  /\ mem = Empty
  /\ local = Empty
  /\ after = Empty
  /\ requests = <<>>
  /\ placed = {}
  /\ executed = 0
  /\ acked = 0
  /\ clientCq = <<>>
  /\ serverCq = <<>>
  /\ rq = 0

----------------------------------------------------------------------------
(* The server.                                                             *)

\* Mutants: no receive is posted; the notification is not waited for.
ServerSkipsReceive == [print |-> "poll", postReceive |-> "poll"]
ServerSkipsPoll == [print |-> "postReceive", postReceive |-> "read"]

ServerOrder == [print |-> "postReceive", postReceive |-> "poll"]

\* "Server buffer before" is printed; the write may have begun.
PrintBefore ==
  /\ server = "print"
  /\ server' = ServerOrder.print
  /\ UNCHANGED <<after, clientVars, adapterVars, clientCq, serverCq, rq>>

PostReceive ==
  /\ server = "postReceive"
  /\ rq' = rq + 1
  /\ server' = ServerOrder.postReceive
  /\ UNCHANGED <<after, clientVars, adapterVars, clientCq, serverCq>>

PollNotification ==
  /\ server = "poll"
  /\ serverCq # <<>>
  /\ serverCq' = Tail(serverCq)
  /\ server' = "read"
  /\ UNCHANGED <<after, clientVars, adapterVars, clientCq, rq>>

PrintAfter ==
  /\ server = "read"
  /\ after' = mem
  /\ server' = "cleanup"
  /\ UNCHANGED <<clientVars, adapterVars, clientCq, serverCq, rq>>

\* The queue pair is destroyed, the region deregistered and freed.
ServerCleanup ==
  /\ server = "cleanup"
  /\ server' = "done"
  /\ UNCHANGED <<after, clientVars, adapterVars, clientCq, serverCq, rq>>

----------------------------------------------------------------------------
(* The client.                                                             *)

Fill ==
  /\ client = "fill"
  /\ local' = Full
  /\ client' = "postWrite"
  /\ UNCHANGED <<requests, serverVars, adapterVars, clientCq, serverCq, rq>>

\* Mutant: the notification is posted before the write.
NoticeFirst == <<"send", "write">>

Order == <<"write", "send">>

Post(label, request, next) ==
  /\ client = label
  /\ requests' = Append(requests, request)
  /\ client' = next
  /\ UNCHANGED <<local, serverVars, adapterVars, clientCq, serverCq, rq>>

\* poll_completion(); an error ends the process.
Poll(label, next) ==
  /\ client = label
  /\ clientCq # <<>>
  /\ clientCq' = Tail(clientCq)
  /\ client' = IF Head(clientCq) = "ok" THEN next ELSE "failed"
  /\ UNCHANGED <<local, requests, serverVars, adapterVars, serverCq, rq>>

PostWrite == Post("postWrite", Order[1], "pollWrite")
PollWrite == Poll("pollWrite", "postNotify")
PostNotify == Post("postNotify", Order[2], "pollNotify")
PollNotify == Poll("pollNotify", "done")

----------------------------------------------------------------------------
(* The adapters.                                                           *)

ServerUp == server \notin {"done", "failed"}
ServerCanExecute == executed < Len(requests) /\ ServerUp

\* One cell of the write arrives.
PlaceCell(c) ==
  /\ ServerCanExecute
  /\ requests[executed + 1] = "write"
  /\ c \notin placed
  /\ mem' = [mem EXCEPT ![c] = local[c]]
  /\ placed' = placed \cup {c}
  /\ UNCHANGED <<executed, acked, serverVars, clientVars, clientCq, serverCq, rq>>

\* The whole write is in place; nothing tells the server.
WriteExecuted ==
  /\ ServerCanExecute
  /\ requests[executed + 1] = "write"
  /\ placed = Cells
  /\ placed' = {}
  /\ executed' = executed + 1
  /\ UNCHANGED <<mem, acked, serverVars, clientVars, clientCq, serverCq, rq>>

\* The notification meets a receive; as long as there is none it is refused and
\* sent again.
SendExecuted ==
  /\ ServerCanExecute
  /\ requests[executed + 1] = "send"
  /\ rq > 0
  /\ rq' = rq - 1
  /\ serverCq' = Append(serverCq, "recv")
  /\ executed' = executed + 1
  /\ UNCHANGED <<mem, placed, acked, serverVars, clientVars, clientCq>>

Acknowledge ==
  /\ acked < executed
  /\ \A i \in 1 .. Len(clientCq) : clientCq[i] # "error"
  /\ client \notin {"done", "failed"}
  /\ acked' = acked + 1
  /\ clientCq' = Append(clientCq, "ok")
  /\ UNCHANGED <<mem, placed, executed, serverVars, clientVars, serverCq, rq>>

\* The retries run out: the server is gone, or the fabric lost the request or its
\* acknowledgement every time.
RetryExceeded ==
  /\ acked < Len(requests)
  /\ clientCq = <<>>
  /\ client \notin {"done", "failed"}
  /\ clientCq' = Append(clientCq, "error")
  /\ UNCHANGED <<adapterVars, serverVars, clientVars, serverCq, rq>>

\* A process fails in its setup.
SetupFails ==
  \/ /\ server = "print"
     /\ server' = "failed"
     /\ UNCHANGED <<after, clientVars, adapterVars, clientCq, serverCq, rq>>
  \/ /\ client = "fill"
     /\ client' = "failed"
     /\ UNCHANGED <<local, requests, serverVars, adapterVars, clientCq, serverCq, rq>>

----------------------------------------------------------------------------
ServerStep ==
  PrintBefore \/ PostReceive \/ PollNotification \/ PrintAfter \/ ServerCleanup

ClientStep == Fill \/ PostWrite \/ PollWrite \/ PostNotify \/ PollNotify

AdapterStep ==
  \/ \E c \in Cells : PlaceCell(c)
  \/ WriteExecuted \/ SendExecuted \/ Acknowledge \/ RetryExceeded

WriteNext == ServerStep \/ ClientStep \/ AdapterStep \/ SetupFails

WriteSpec == WriteInit /\ [][WriteNext]_writeVars

----------------------------------------------------------------------------
Places == [Cells -> {0, 1}]

WriteTypeOK ==
  /\ server \in {"print", "postReceive", "poll", "read", "cleanup",
                 "done", "failed"}
  /\ client \in {"fill", "postWrite", "pollWrite", "postNotify", "pollNotify",
                 "done", "failed"}
  /\ {mem, local, after} \subseteq Places
  /\ requests \in Seq({"write", "send"})
  /\ placed \subseteq Cells
  /\ executed \in Nat /\ acked \in Nat
  /\ clientCq \in Seq({"ok", "error"})
  /\ serverCq \in Seq({"recv"})
  /\ rq \in Nat

\* What the server prints after the notification is the whole message, never a
\* part of it, although no completion of the write itself reaches the server.
NotifiedAfterData ==
  /\ server = "read" => mem = Full
  /\ server \in {"cleanup", "done"} => after = Full

\* The server takes its memory down only when no write to it is under way or
\* can still come.
MemoryOutlivesWrite ==
  server \in {"cleanup", "done"} =>
    /\ placed = {}
    /\ \A i \in 1 .. Len(requests) : requests[i] = "write" => i <= executed
    /\ client \in {"pollNotify", "done", "failed"}
=============================================================================
