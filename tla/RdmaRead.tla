------------------------------ MODULE RdmaRead ------------------------------
(***************************************************************************)
(* The program proper of rdma_read.c, after the barrier: the server fills  *)
(* its buffer with a header and a payload and waits for a notification;    *)
(* the client reads the header, then as much payload as the header says,   *)
(* and notifies the server.  Nothing orders the filling of the buffer and  *)
(* the reading: both come after the barrier, and the adapter of the server *)
(* answers a read without its program.                                     *)
(*                                                                         *)
(* Memory is a function of cells: the two fields of the header the client  *)
(* looks at, and the cells 1 .. room of the payload.  0 is what calloc     *)
(* left.  The stores of the server and the loads of its adapter race: each *)
(* of the two happens cell by cell, in any order.                          *)
(***************************************************************************)
EXTENDS Integers, Sequences

CONSTANTS
  PayloadLen,  \* cells of the message: strlen(message) + 1
  Rooms        \* how many cells the buffers may have behind the header

ASSUME LengthAssumption == PayloadLen \in Nat \ {0}

\* Option -m: a buffer smaller than its header is not considered.
ASSUME RoomAssumption == Rooms \subseteq Nat /\ Rooms # {}

MagicCell == -1  \* the cell of hdr->magic
LenCell == 0    \* the cell of hdr->payload_len
Header == {MagicCell, LenCell}
AllCells == Header \cup UNION {1 .. n : n \in Rooms}

Zeros == [c \in AllCells |-> 0]

VARIABLES
  room,      \* cells the buffers of this run have behind the header
  server,    \* where the server is
  client,    \* where the client is
  mem,       \* data_buf of the server
  unfilled,  \* cells the server has yet to store
  copy,      \* local_hdr and data_buf of the client
  want,      \* cells of the read in progress
  got,       \* those that have arrived
  reading,   \* whether a read is in progress
  notice,    \* the notification: "none", "posted", "executed" or "completed"
  clientCq, serverCq,  \* completions not polled yet
  rq,        \* receives the server has posted and not used
  raced      \* history: the header was asked for before the buffer was filled

vars == <<room, server, client, mem, unfilled, copy, want, got, reading, notice,
          clientCq, serverCq, rq, raced>>
readVars == <<copy, want, got, reading>>

Cells == Header \cup 1 .. room

\* The buffer as the server means it to be; strncpy() stops at its end.
Prepared ==
  [c \in AllCells |-> IF c = LenCell THEN PayloadLen
                     ELSE IF c <= PayloadLen /\ c \in Cells THEN 1 ELSE 0]

Init ==
  /\ room \in Rooms
  /\ server = "fill"
  /\ client = "postHeader"
  /\ mem = Zeros
  /\ unfilled = Cells
  /\ copy = Zeros
  /\ want = {}
  /\ got = {}
  /\ reading = FALSE
  /\ notice = "none"
  /\ clientCq = <<>>
  /\ serverCq = <<>>
  /\ rq = 0
  /\ raced = FALSE

----------------------------------------------------------------------------
(* The server.                                                             *)

\* One store of the header, or of strncpy().
Fill(c) ==
  /\ server = "fill"
  /\ c \in unfilled
  /\ mem' = [mem EXCEPT ![c] = Prepared[c]]
  /\ unfilled' = unfilled \ {c}
  /\ UNCHANGED <<room, server, client, readVars, notice, clientCq, serverCq, rq, raced>>

\* Mutant: the receive for the notification is not posted.
NoReceive == 0

NoticeReceives == 1

PostReceive ==
  /\ server = "fill"
  /\ unfilled = {}
  /\ rq' = rq + NoticeReceives
  /\ server' = "poll"
  /\ UNCHANGED <<room, client, mem, unfilled, readVars, notice, clientCq, serverCq, raced>>

\* The notification is polled, and the server takes its memory down.
PollNotification ==
  /\ server = "poll"
  /\ serverCq # <<>>
  /\ serverCq' = Tail(serverCq)
  /\ server' = "done"
  /\ UNCHANGED <<room, client, mem, unfilled, readVars, notice, clientCq, rq, raced>>

----------------------------------------------------------------------------
(* The client.                                                             *)

PostHeaderRead ==
  /\ client = "postHeader"
  /\ reading' = TRUE
  /\ want' = Header
  /\ got' = {}
  /\ raced' = (unfilled # {})
  /\ client' = "pollHeader"
  /\ UNCHANGED <<room, server, mem, unfilled, copy, notice, clientCq, serverCq, rq>>

\* poll_completion(); an error ends the process.
Poll(label, next) ==
  /\ client = label
  /\ clientCq # <<>>
  /\ clientCq' = Tail(clientCq)
  /\ client' = IF Head(clientCq) = "ok" THEN next ELSE "failed"
  /\ UNCHANGED <<room, server, mem, unfilled, readVars, notice, serverCq, rq, raced>>

PollHeader == Poll("pollHeader", "check")

\* "Invalid magic!"
CheckFails ==
  /\ client = "check"
  /\ copy[MagicCell] # 1
  /\ client' = "badMagic"
  /\ UNCHANGED <<room, server, mem, unfilled, readVars, notice, clientCq, serverCq, rq, raced>>

\* Mutant: one cell too few is read.
PayloadShort == 1 .. copy[LenCell] - 1

Payload == 1 .. copy[LenCell]

\* Mutant: the completion of the payload read is not waited for.
PayloadUnpolled == "postNotify"

AfterPayloadPost == "pollPayload"

\* data_buf is cleared, and as much is read as the header says.
PostPayloadRead ==
  /\ client = "check"
  /\ copy[MagicCell] = 1
  /\ copy' = [c \in AllCells |-> IF c \in Header THEN copy[c] ELSE 0]
  /\ reading' = TRUE
  /\ want' = Payload
  /\ got' = {}
  /\ client' = AfterPayloadPost
  /\ UNCHANGED <<room, server, mem, unfilled, notice, clientCq, serverCq, rq, raced>>

PollPayload == Poll("pollPayload", "postNotify")

PostNotify ==
  /\ client = "postNotify"
  /\ notice' = "posted"
  /\ client' = "pollNotify"
  /\ UNCHANGED <<room, server, mem, unfilled, readVars, clientCq, serverCq, rq, raced>>

PollNotify == Poll("pollNotify", "done")

----------------------------------------------------------------------------
(* The adapters.                                                           *)

\* The server's adapter loads one cell; a part of the read that is repeated
\* after a loss is loaded again.
ReadCell(c) ==
  /\ reading
  /\ server # "done"
  /\ c \in want \cap Cells
  /\ copy' = [copy EXCEPT ![c] = mem[c]]
  /\ got' = got \cup {c}
  /\ UNCHANGED <<room, server, client, mem, unfilled, want, reading, notice, clientCq,
                 serverCq, rq, raced>>

EndRead(status) ==
  /\ reading' = FALSE
  /\ clientCq' = Append(clientCq, status)
  /\ UNCHANGED <<room, server, client, mem, unfilled, copy, want, got, notice,
                 serverCq, rq, raced>>

ReadCompletes ==
  /\ reading
  /\ got = want
  /\ EndRead("ok")

\* The read reaches behind the region, or the server is gone.
ReadFails ==
  /\ reading
  /\ \/ ~(want \subseteq Cells)
     \/ server = "done"
  /\ EndRead("error")

\* The notification meets a receive; until there is one it is sent again.
NoticeExecuted ==
  /\ notice = "posted"
  /\ rq > 0
  /\ server # "done"
  /\ rq' = rq - 1
  /\ serverCq' = Append(serverCq, "recv")
  /\ notice' = "executed"
  /\ UNCHANGED <<room, server, client, mem, unfilled, readVars, clientCq, raced>>

\* Its acknowledgement comes, or is lost with the server gone.
NoticeAcked ==
  /\ notice = "executed"
  /\ notice' = "completed"
  /\ \/ clientCq' = Append(clientCq, "ok")
     \/ server = "done" /\ clientCq' = Append(clientCq, "error")
  /\ UNCHANGED <<room, server, client, mem, unfilled, readVars, serverCq, rq, raced>>

\* The retries run out on the fabric, with the server there: it lost a request or
\* its answer every time.
ReadGivenUp ==
  /\ reading
  /\ EndRead("error")

NoticeGivenUp ==
  /\ notice \in {"posted", "executed"}
  /\ notice' = "completed"
  /\ clientCq' = Append(clientCq, "error")
  /\ UNCHANGED <<room, server, client, mem, unfilled, readVars, serverCq, rq, raced>>

----------------------------------------------------------------------------
ServerStep == (\E c \in Cells : Fill(c)) \/ PostReceive \/ PollNotification

ClientStep ==
  \/ PostHeaderRead \/ PollHeader \/ CheckFails
  \/ PostPayloadRead \/ PollPayload
  \/ PostNotify \/ PollNotify

AdapterStep ==
  \/ \E c \in Cells : ReadCell(c)
  \/ ReadCompletes \/ ReadFails \/ NoticeExecuted \/ NoticeAcked
  \/ ReadGivenUp \/ NoticeGivenUp

Next == ServerStep \/ ClientStep \/ AdapterStep

Spec == Init /\ [][Next]_vars

\* The programs are scheduled; a read is answered cell by cell, and a cell that
\* has come need not come again.  Nothing makes the retries run out.
FairSpec ==
  /\ Spec
  /\ WF_vars(ServerStep)
  /\ WF_vars(ClientStep)
  /\ \A c \in AllCells : WF_vars(ReadCell(c) /\ c \notin got)
  /\ WF_vars(ReadCompletes \/ ReadFails)
  /\ WF_vars(NoticeExecuted \/ NoticeAcked)

----------------------------------------------------------------------------
Ended == {"done", "failed", "badMagic"}

\* A client that asked for the header when the buffer was complete gets the
\* whole message, and its check of the magic succeeds: the race on the buffer
\* is the only way to a wrong result.
WrongOnlyByRace ==
  ~raced =>
    /\ client # "badMagic"
    /\ client \in {"postNotify", "pollNotify", "done"} => copy = Prepared

\* The server takes its memory down only when no read of it is in progress or
\* can still be posted.
MemoryOutlivesRead ==
  server = "done" => ~reading /\ client \in {"pollNotify", "done", "failed"}

\* The client ends, whatever it reads and however small the buffers are.
ClientEnds == <>(client \in Ended)

\* "Server fills its buffer with a message, registers the MR and shares the MR
\* info": the client that succeeds has the message.
ReadsTheMessage ==
  client \in {"postNotify", "pollNotify", "done"} => copy = Prepared
=============================================================================
