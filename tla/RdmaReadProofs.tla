--------------------------- MODULE RdmaReadProofs ---------------------------
(***************************************************************************)
(* Proofs about RdmaRead, for a message and buffers of any number of cells *)
(* and any loads and stores of the server's memory.  The inductive         *)
(* invariant says what the server has stored, where the client is with the *)
(* read it waits for, and what of it has arrived.  What the client has is  *)
(* known only if it asked for the header when the buffer was complete.     *)
(***************************************************************************)
EXTENDS RdmaRead, SequenceTheorems, TLAPS

ServerPlaces == {"fill", "poll", "done"}

ClientPlaces == {"postHeader", "pollHeader", "check", "pollPayload", "postNotify",
                 "pollNotify", "done", "failed", "badMagic"}

\* Types of the places, the memories and the read in progress ...
ReadTypeOK ==
  /\ room \in Rooms
  /\ server \in ServerPlaces
  /\ client \in ClientPlaces
  /\ mem \in [AllCells -> Nat]
  /\ copy \in [AllCells -> Nat]
  /\ reading \in BOOLEAN
  /\ raced \in BOOLEAN
  /\ rq \in Nat

\* ... of the cells stored and read, and of the notification.
CellsOK ==
  /\ unfilled \subseteq Cells
  /\ got \subseteq want \cap Cells
  /\ notice \in {"none", "posted", "executed", "completed"}

\* A queue of one completion.
One(x) == <<x>>

\* What the server has stored, and that it goes on only when that is everything.
Buffer ==
  /\ \A c \in AllCells : mem[c] = IF c \in unfilled THEN 0 ELSE Prepared[c]
  /\ server # "fill" => unfilled = {}
  /\ ~raced /\ client # "postHeader" => unfilled = {}

\* The client has the cells of a set as the server means them to be.
Has(cells) == ~raced => \A c \in cells : copy[c] = Prepared[c]

\* The read the client waits for: in progress, complete or failed.
Awaits(cells) ==
  \/ reading /\ clientCq = <<>>
  \/ ~reading /\ clientCq = One("ok") /\ Has(cells)
  \/ ~reading /\ clientCq = One("error")

Idle == ~reading /\ clientCq = <<>>

\* The client at each of its places.
AtClient ==
  /\ client = "postHeader" => Idle
  /\ client = "pollHeader" => Awaits(Header) /\ want = Header
  /\ client = "check" => Idle /\ Has(Header)
  /\ client = "pollPayload" =>
       /\ Awaits(AllCells)
       /\ Has(Header)
       /\ want = Payload
       /\ \A c \in AllCells \ (Header \cup got) : copy[c] = 0
  /\ client = "postNotify" => Idle /\ Has(AllCells)
  /\ client = "pollNotify" =>
       /\ ~reading /\ Has(AllCells)
       /\ \/ notice \in {"posted", "executed"} /\ clientCq = <<>>
          \/ notice = "completed" /\ clientCq \in {One("ok"), One("error")}
  /\ client = "done" => Idle /\ Has(AllCells)
  /\ client \in {"failed", "badMagic"} => Idle
  /\ client = "badMagic" => raced

\* What has arrived of the read in progress.
Arrived == reading => Has(got)

\* Where the notification is, seen from both ends.
Notified ==
  /\ notice \in {"posted", "executed"} => client = "pollNotify"
  /\ notice = "completed" => client \in {"pollNotify", "done", "failed"}
  /\ serverCq # <<>> \/ server = "done" => notice \in {"executed", "completed"}

IInv ==
  /\ ReadTypeOK
  /\ CellsOK
  /\ Buffer
  /\ AtClient
  /\ Arrived
  /\ Notified

----------------------------------------------------------------------------
(* The cells and the queues.                                               *)

\* The header has two cells, and those of a buffer are cells of the memory.
LEMMA CellFacts ==
  /\ MagicCell \in AllCells /\ LenCell \in AllCells
  /\ MagicCell \in Header /\ LenCell \in Header
  /\ Header \subseteq AllCells
  /\ \A c \in AllCells : c \in Int /\ (c \in Header \/ c >= 1)
  /\ \A r \in Rooms : Header \cup 1 .. r \subseteq AllCells
<1>1. \A r \in Rooms : r \in Nat
  BY RoomAssumption
<1> QED
  BY <1>1 DEF AllCells, Header, MagicCell, LenCell

\* The cells of the buffers of this run.
LEMMA CellsOfRun ==
  ASSUME room \in Rooms
  PROVE  /\ Cells \subseteq AllCells /\ Header \subseteq Cells
         /\ room' = room => Cells' = Cells
BY CellFacts DEF Cells

\* What the server prepares are numbers, the length among them, and beyond the
\* message there is nothing.
LEMMA PreparedFacts ==
  ASSUME room \in Rooms
  PROVE  /\ Prepared \in [AllCells -> Nat]
         /\ Prepared[LenCell] = PayloadLen
         /\ Prepared[MagicCell] = 1
         /\ \A c \in AllCells \ (Header \cup 1 .. PayloadLen) : Prepared[c] = 0
         /\ room' = room => Prepared' = Prepared
<1>1. PayloadLen \in Nat /\ PayloadLen >= 1
  BY LengthAssumption
<1>2. Prepared \in [AllCells -> Nat]
  BY <1>1 DEF Prepared
<1>3. Prepared[LenCell] = PayloadLen
  BY CellFacts DEF Prepared
<1>4. MagicCell # LenCell /\ MagicCell <= PayloadLen
  BY <1>1 DEF MagicCell, LenCell
<1>5. Prepared[MagicCell] = 1
  BY <1>4, CellFacts, CellsOfRun DEF Prepared
<1>6. ASSUME NEW c \in AllCells \ (Header \cup 1 .. PayloadLen)
      PROVE  Prepared[c] = 0
  <2>1. c >= 1 /\ c \in Int /\ c # LenCell
    BY CellFacts
  <2>2. ~(c <= PayloadLen)
    BY <1>1, <2>1
  <2> QED
    BY <2>1, <2>2 DEF Prepared
<1>7. room' = room => Prepared' = Prepared
  BY CellsOfRun DEF Prepared
<1> QED
  BY <1>2, <1>3, <1>5, <1>6, <1>7

\* Completions queued and polled one at a time.
LEMMA Queues ==
  /\ One("ok") # <<>> /\ Head(One("ok")) = "ok" /\ Tail(One("ok")) = <<>>
  /\ One("error") # <<>> /\ Head(One("error")) = "error" /\ Tail(One("error")) = <<>>
  /\ Append(<<>>, "ok") = One("ok") /\ Append(<<>>, "error") = One("error")
  /\ One("ok") # One("error")
<1> DEFINE Kinds == {"ok", "error"}
<1>1. ASSUME NEW x \in Kinds
      PROVE  /\ One(x) # <<>> /\ Head(One(x)) = x /\ Tail(One(x)) = <<>>
             /\ Append(<<>>, x) = One(x)
  BY DEF One
<1> QED
  BY <1>1

\* A buffer with nothing left to store is what the server prepares.
LEMMA Complete ==
  ASSUME ReadTypeOK, Buffer, unfilled = {}
  PROVE  mem = Prepared
<1>1. Prepared \in [AllCells -> Nat]
  BY PreparedFacts DEF ReadTypeOK
<1>2. \A c \in AllCells : mem[c] = Prepared[c]
  BY DEF Buffer
<1> QED
  BY <1>1, <1>2 DEF ReadTypeOK

----------------------------------------------------------------------------
(* The invariant at the start, and in each step.                           *)

\* Nothing is stored, read or notified at first.
LEMMA InitIInv == Init => IInv
<1> SUFFICES ASSUME Init PROVE IInv
  OBVIOUS
<1> USE DEF Init
<1>1. ReadTypeOK
  BY DEF ReadTypeOK, ServerPlaces, ClientPlaces, Zeros
<1>2. CellsOK /\ Arrived /\ Notified
  BY DEF CellsOK, Arrived, Has, Notified
<1>3. Buffer
  <2>1. ASSUME NEW c \in AllCells, c \notin Cells PROVE Prepared[c] = 0
    BY <2>1, CellsOfRun DEF Prepared, Header
  <2> QED
    BY <2>1 DEF Buffer, Zeros
<1>4. AtClient
  BY DEF AtClient, Idle
<1> QED
  BY <1>1, <1>2, <1>3, <1>4 DEF IInv

\* The server stores a cell: nothing the client could have asked for, unless
\* the two race.
LEMMA FillStep ==
  ASSUME IInv, NEW c \in Cells, Fill(c)
  PROVE  IInv'
<1>1. /\ server = "fill" /\ c \in unfilled
      /\ mem' = [mem EXCEPT ![c] = Prepared[c]]
      /\ unfilled' = unfilled \ {c}
      /\ UNCHANGED <<room, server, client, copy, want, got, reading, notice,
                     clientCq, serverCq, rq, raced>>
  BY DEF Fill, readVars
<1>2. /\ Cells' = Cells /\ Prepared' = Prepared /\ Prepared \in [AllCells -> Nat]
      /\ c \in AllCells
  BY <1>1, CellsOfRun, PreparedFacts DEF IInv, ReadTypeOK
<1>3. ReadTypeOK'
  BY <1>1, <1>2 DEF IInv, ReadTypeOK
<1>4. CellsOK'
  BY <1>1, <1>2 DEF IInv, CellsOK
<1>5. Buffer'
  BY <1>1, <1>2 DEF IInv, ReadTypeOK, Buffer
<1>6. AtClient'
  BY <1>1, <1>2 DEF IInv, AtClient, Awaits, Idle, Has, Payload
<1>7. Arrived' /\ Notified'
  BY <1>1, <1>2 DEF IInv, Arrived, Has, Notified
<1> QED
  BY <1>3, <1>4, <1>5, <1>6, <1>7 DEF IInv

\* Server steps that leave the memory alone.
LEMMA ServerStepsOn ==
  ASSUME IInv, PostReceive \/ PollNotification
  PROVE  IInv'
<1>1. /\ unfilled = {}
      /\ server' \in {"poll", "done"}
      /\ rq' \in Nat
      /\ serverCq' # <<>> \/ server' = "done" => serverCq # <<>> \/ server = "done"
      /\ UNCHANGED <<room, client, mem, unfilled, copy, want, got, reading, notice,
                     clientCq, raced>>
  <2>1. CASE PostReceive
    BY <2>1 DEF PostReceive, NoticeReceives, readVars, IInv, ReadTypeOK
  <2>2. CASE PollNotification
    BY <2>2 DEF PollNotification, readVars, IInv, ReadTypeOK, Buffer
  <2> QED
    BY <2>1, <2>2
<1>2. /\ Cells' = Cells /\ Prepared' = Prepared
  BY <1>1, CellsOfRun, PreparedFacts DEF IInv, ReadTypeOK
<1>3. ReadTypeOK'
  BY <1>1 DEF IInv, ReadTypeOK, ServerPlaces
<1>4. CellsOK'
  BY <1>1, <1>2 DEF IInv, CellsOK
<1>5. Buffer'
  BY <1>1, <1>2 DEF IInv, Buffer
<1>6. AtClient'
  BY <1>1, <1>2 DEF IInv, AtClient, Awaits, Idle, Has, Payload
<1>7. Arrived' /\ Notified'
  BY <1>1, <1>2 DEF IInv, Arrived, Has, Notified
<1> QED
  BY <1>3, <1>4, <1>5, <1>6, <1>7 DEF IInv

\* The header is asked for: of a complete buffer, or raced.
LEMMA PostHeaderStep ==
  ASSUME IInv, PostHeaderRead
  PROVE  IInv'
<1>1. /\ client = "postHeader" /\ client' = "pollHeader"
      /\ reading' = TRUE /\ want' = Header /\ got' = {}
      /\ raced' = (unfilled # {})
      /\ UNCHANGED <<room, server, mem, unfilled, copy, notice, clientCq, serverCq, rq>>
  BY DEF PostHeaderRead
<1>2. Cells' = Cells /\ Prepared' = Prepared
  BY <1>1, CellsOfRun, PreparedFacts DEF IInv, ReadTypeOK
<1>3. ReadTypeOK' /\ CellsOK'
  BY <1>1, <1>2 DEF IInv, ReadTypeOK, CellsOK, ClientPlaces
<1>4. Buffer'
  BY <1>1, <1>2 DEF IInv, Buffer
<1>5. AtClient'
  BY <1>1 DEF IInv, AtClient, Awaits, Idle
<1>6. Arrived' /\ Notified'
  BY <1>1 DEF IInv, Arrived, Has, Notified
<1> QED
  BY <1>3, <1>4, <1>5, <1>6 DEF IInv

\* A completion is polled.
LEMMA PollStep ==
  ASSUME IInv, PollHeader \/ PollPayload \/ PollNotify
  PROVE  IInv'
<1>1. /\ clientCq # <<>> /\ clientCq' = Tail(clientCq)
      /\ \/ /\ client = "pollHeader"
            /\ client' = IF Head(clientCq) = "ok" THEN "check" ELSE "failed"
         \/ /\ client = "pollPayload"
            /\ client' = IF Head(clientCq) = "ok" THEN "postNotify" ELSE "failed"
         \/ /\ client = "pollNotify"
            /\ client' = IF Head(clientCq) = "ok" THEN "done" ELSE "failed"
      /\ UNCHANGED <<room, server, mem, unfilled, copy, want, got, reading, notice,
                     serverCq, rq, raced>>
  BY DEF PollHeader, PollPayload, PollNotify, Poll, readVars
<1>2. Cells' = Cells /\ Prepared' = Prepared
  BY <1>1, CellsOfRun, PreparedFacts DEF IInv, ReadTypeOK
<1>3. ~reading /\ clientCq \in {One("ok"), One("error")}
  BY <1>1 DEF IInv, AtClient, Awaits
<1>4. clientCq' = <<>>
  BY <1>1, <1>3, Queues
<1>5. ReadTypeOK' /\ CellsOK' /\ Buffer'
  BY <1>1, <1>2 DEF IInv, ReadTypeOK, CellsOK, ClientPlaces, Buffer
<1>6. AtClient'
  <2>1. CASE client' = "failed"
    BY <1>1, <1>3, <1>4, <2>1 DEF AtClient, Idle
  <2>2. CASE client' # "failed"
    <3>1. clientCq = One("ok")
      BY <1>1, <1>3, <2>2, Queues
    <3>2. \/ client = "pollHeader" /\ client' = "check" /\ Has(Header)
          \/ client = "pollPayload" /\ client' = "postNotify" /\ Has(AllCells)
          \/ client = "pollNotify" /\ client' = "done" /\ Has(AllCells)
      BY <1>1, <3>1, Queues DEF IInv, AtClient, Awaits
    <3> QED
      BY <1>1, <1>2, <1>3, <1>4, <3>2 DEF AtClient, Idle, Has
  <2> QED
    BY <2>1, <2>2
<1>7. Arrived'
  BY <1>1, <1>3 DEF Arrived
<1>8. Notified'
  <2>1. client = "pollNotify" => notice = "completed"
    BY <1>1 DEF IInv, AtClient
  <2> QED
    BY <1>1, <2>1 DEF IInv, Notified
<1> QED
  BY <1>5, <1>6, <1>7, <1>8 DEF IInv

\* A header without its magic was read in a race.
LEMMA CheckFailsStep ==
  ASSUME IInv, CheckFails
  PROVE  IInv'
<1>1. /\ client = "check" /\ copy[MagicCell] # 1 /\ client' = "badMagic"
      /\ UNCHANGED <<room, server, mem, unfilled, copy, want, got, reading, notice,
                     clientCq, serverCq, rq, raced>>
  BY DEF CheckFails, readVars
<1>2. Cells' = Cells /\ Prepared' = Prepared
  BY <1>1, CellsOfRun, PreparedFacts DEF IInv, ReadTypeOK
<1>3. raced
  BY <1>1, CellFacts, PreparedFacts DEF IInv, ReadTypeOK, AtClient, Has
<1>4. ReadTypeOK' /\ CellsOK' /\ Buffer'
  BY <1>1, <1>2 DEF IInv, ReadTypeOK, CellsOK, ClientPlaces, Buffer
<1>5. AtClient'
  BY <1>1, <1>3 DEF IInv, AtClient, Idle
<1>6. Arrived' /\ Notified'
  BY <1>1, <1>2 DEF IInv, Arrived, Has, Notified
<1> QED
  BY <1>4, <1>5, <1>6 DEF IInv

\* The payload is asked for, into a buffer cleared of everything else.
LEMMA PostPayloadStep ==
  ASSUME IInv, PostPayloadRead
  PROVE  IInv'
<1>1. /\ client = "check" /\ client' = "pollPayload"
      /\ copy' = [c \in AllCells |-> IF c \in Header THEN copy[c] ELSE 0]
      /\ reading' = TRUE /\ want' = Payload /\ got' = {}
      /\ UNCHANGED <<room, server, mem, unfilled, notice, clientCq, serverCq, rq, raced>>
  BY DEF PostPayloadRead, AfterPayloadPost
<1>2. Cells' = Cells /\ Prepared' = Prepared
  BY <1>1, CellsOfRun, PreparedFacts DEF IInv, ReadTypeOK
<1>3. /\ \A c \in Header : copy'[c] = copy[c]
      /\ \A c \in AllCells \ Header : copy'[c] = 0
  BY <1>1, CellFacts
<1>4. Payload' = Payload
  BY <1>3, CellFacts DEF Payload
<1>5. ReadTypeOK' /\ CellsOK' /\ Buffer'
  BY <1>1, <1>2 DEF IInv, ReadTypeOK, CellsOK, ClientPlaces, Buffer
<1>6. AtClient'
  BY <1>1, <1>2, <1>3, <1>4 DEF IInv, AtClient, Awaits, Idle, Has
<1>7. Arrived' /\ Notified'
  BY <1>1, <1>2 DEF IInv, Arrived, Has, Notified
<1> QED
  BY <1>5, <1>6, <1>7 DEF IInv

\* The notification is posted by a client that waits for no read.
LEMMA PostNotifyStep ==
  ASSUME IInv, PostNotify
  PROVE  IInv'
<1>1. /\ client = "postNotify" /\ client' = "pollNotify" /\ notice' = "posted"
      /\ UNCHANGED <<room, server, mem, unfilled, copy, want, got, reading, clientCq,
                     serverCq, rq, raced>>
  BY DEF PostNotify, readVars
<1>2. Cells' = Cells /\ Prepared' = Prepared
  BY <1>1, CellsOfRun, PreparedFacts DEF IInv, ReadTypeOK
<1>3. ReadTypeOK' /\ CellsOK' /\ Buffer'
  BY <1>1, <1>2 DEF IInv, ReadTypeOK, CellsOK, ClientPlaces, Buffer
<1>4. AtClient'
  BY <1>1, <1>2 DEF IInv, AtClient, Idle, Has
<1>5. Arrived' /\ Notified'
  BY <1>1, <1>2 DEF IInv, Arrived, Has, Notified
<1> QED
  BY <1>3, <1>4, <1>5 DEF IInv

\* The client waits for a read exactly where its program polls for one.
LEMMA WhereReading ==
  ASSUME IInv, reading
  PROVE  /\ \/ client = "pollHeader" /\ want = Header
            \/ client = "pollPayload" /\ want = Payload /\ Has(Header)
         /\ clientCq = <<>>
         /\ notice = "none" /\ serverCq = <<>> /\ server # "done"
<1>1. client \in {"pollHeader", "pollPayload"}
  BY DEF IInv, ReadTypeOK, ClientPlaces, AtClient, Idle
<1>2. clientCq = <<>>
  BY <1>1, Queues DEF IInv, AtClient, Awaits
<1> QED
  BY <1>1, <1>2 DEF IInv, AtClient, CellsOK, Notified

\* A cell arrives.  Unless the two race, the server has stored it.
LEMMA ReadCellStep ==
  ASSUME IInv, NEW c \in Cells, ReadCell(c)
  PROVE  IInv'
<1>1. /\ reading /\ c \in want
      /\ copy' = [copy EXCEPT ![c] = mem[c]]
      /\ got' = got \cup {c}
      /\ UNCHANGED <<room, server, client, mem, unfilled, want, reading, notice,
                     clientCq, serverCq, rq, raced>>
  BY DEF ReadCell
<1>2. /\ Cells' = Cells /\ Prepared' = Prepared /\ c \in AllCells
  BY <1>1, CellsOfRun, PreparedFacts DEF IInv, ReadTypeOK
<1>3. /\ \/ client = "pollHeader" /\ want = Header
         \/ client = "pollPayload" /\ want = Payload /\ Has(Header)
      /\ clientCq = <<>>
  BY <1>1, WhereReading
<1>4. ~raced => mem[c] = Prepared[c]
  BY <1>2, <1>3, Complete DEF IInv, Buffer
<1>5. /\ copy' \in [AllCells -> Nat]
      /\ copy'[c] = mem[c]
      /\ \A d \in AllCells \ {c} : copy'[d] = copy[d]
  BY <1>1, <1>2 DEF IInv, ReadTypeOK
<1>6. client = "pollPayload" => c \notin Header /\ Payload' = Payload
  <2>1. copy[LenCell] \in Nat
    BY CellFacts DEF IInv, ReadTypeOK
  <2>2. client = "pollPayload" => c >= 1 /\ c \in Int
    BY <1>1, <1>3, <2>1 DEF Payload
  <2>3. client = "pollPayload" => c \notin Header
    BY <2>2 DEF Header, MagicCell, LenCell
  <2> QED
    BY <1>5, <2>3, CellFacts DEF Payload
<1>7. ReadTypeOK' /\ CellsOK' /\ Buffer'
  BY <1>1, <1>2, <1>5 DEF IInv, ReadTypeOK, CellsOK, Buffer
<1>8. Has(got)'
  BY <1>1, <1>2, <1>4, <1>5, CellsOfRun DEF IInv, ReadTypeOK, Arrived, Has, CellsOK
<1>9. AtClient'
  <2>1. client = "pollPayload" => Has(Header)'
    BY <1>1, <1>2, <1>3, <1>5, <1>6, CellFacts DEF Has
  <2>2. client = "pollPayload" =>
          \A d \in AllCells \ (Header \cup got') : copy'[d] = 0
    BY <1>1, <1>5 DEF IInv, AtClient
  <2>3. reading' /\ clientCq' = <<>> /\ client' = client /\ want' = want
    BY <1>1, <1>3
  <2>4. Header' = Header /\ AllCells' = AllCells
    OBVIOUS
  <2> QED
    BY <1>3, <1>6, <2>1, <2>2, <2>3, <2>4 DEF AtClient, Awaits
<1>10. Arrived' /\ Notified'
  BY <1>1, <1>8 DEF IInv, Arrived, Notified
<1> QED
  BY <1>7, <1>9, <1>10 DEF IInv

\* What a complete read brings: the header, or the header and the message.
LEMMA CompleteRead ==
  ASSUME IInv, reading, got = want, ~raced
  PROVE  /\ client = "pollHeader" => Has(Header)
         /\ client = "pollPayload" => Has(AllCells)
<1>1. \A c \in got : copy[c] = Prepared[c]
  BY DEF IInv, Arrived, Has
<1>2. \/ client = "pollHeader" /\ want = Header
      \/ client = "pollPayload" /\ want = Payload /\ Has(Header)
  BY WhereReading
<1>3. ASSUME client = "pollPayload" PROVE Has(AllCells)
  <2>1. got = 1 .. PayloadLen
    BY <1>2, <1>3, CellFacts, PreparedFacts DEF IInv, ReadTypeOK, Has, Payload
  <2>2. ASSUME NEW c \in AllCells PROVE copy[c] = Prepared[c]
    <3>1. CASE c \in Header
      BY <1>2, <1>3, <3>1 DEF Has
    <3>2. CASE c \in got
      BY <1>1, <3>2
    <3>3. CASE c \notin Header \cup got
      BY <1>3, <2>1, <3>3, PreparedFacts DEF IInv, ReadTypeOK, AtClient
    <3> QED
      BY <3>1, <3>2, <3>3
  <2> QED
    BY <2>2 DEF Has
<1> QED
  BY <1>1, <1>2, <1>3 DEF Has

\* A read ends, complete or with an error.
LEMMA EndReadStep ==
  ASSUME IInv, ReadCompletes \/ ReadFails \/ ReadGivenUp
  PROVE  IInv'
<1>1. /\ reading /\ reading' = FALSE
      /\ \/ got = want /\ clientCq' = Append(clientCq, "ok")
         \/ clientCq' = Append(clientCq, "error")
      /\ UNCHANGED <<room, server, client, mem, unfilled, copy, want, got, notice,
                     serverCq, rq, raced>>
  BY DEF ReadCompletes, ReadFails, ReadGivenUp, EndRead
<1>2. Cells' = Cells /\ Prepared' = Prepared
  BY <1>1, CellsOfRun, PreparedFacts DEF IInv, ReadTypeOK
<1>3. /\ \/ client = "pollHeader"
         \/ client = "pollPayload"
      /\ clientCq = <<>>
  BY <1>1, WhereReading
<1>4. \/ clientCq' = One("ok") /\ (client = "pollHeader" => Has(Header))
                               /\ (client = "pollPayload" => Has(AllCells))
      \/ clientCq' = One("error")
  <2>1. got = want => /\ client = "pollHeader" => Has(Header)
                      /\ client = "pollPayload" => Has(AllCells)
    BY <1>1, CompleteRead DEF Has
  <2> QED
    BY <1>1, <1>3, <2>1, Queues
<1>5. ReadTypeOK' /\ CellsOK' /\ Buffer'
  BY <1>1, <1>2 DEF IInv, ReadTypeOK, CellsOK, Buffer
<1>6. AtClient'
  BY <1>1, <1>2, <1>3, <1>4 DEF IInv, AtClient, Awaits, Has, Payload
<1>7. Arrived' /\ Notified'
  BY <1>1 DEF IInv, Arrived, Notified
<1> QED
  BY <1>5, <1>6, <1>7 DEF IInv

\* The notification is executed, acknowledged or given up.
LEMMA NoticeStep ==
  ASSUME IInv, NoticeExecuted \/ NoticeAcked \/ NoticeGivenUp
  PROVE  IInv'
<1>1. /\ \/ /\ notice = "posted" /\ notice' = "executed"
            /\ rq > 0 /\ rq' = rq - 1
            /\ clientCq' = clientCq
         \/ /\ notice \in {"posted", "executed"} /\ notice' = "completed"
            /\ \/ clientCq' = Append(clientCq, "ok")
               \/ clientCq' = Append(clientCq, "error")
            /\ UNCHANGED <<serverCq, rq>>
      /\ UNCHANGED <<room, server, client, mem, unfilled, copy, want, got, reading, raced>>
  BY DEF NoticeExecuted, NoticeAcked, NoticeGivenUp, readVars
<1>2. Cells' = Cells /\ Prepared' = Prepared
  BY <1>1, CellsOfRun, PreparedFacts DEF IInv, ReadTypeOK
<1>3. client = "pollNotify" /\ ~reading /\ Has(AllCells) /\ clientCq = <<>>
  BY <1>1 DEF IInv, Notified, AtClient
<1>4. rq' \in Nat
  BY <1>1 DEF IInv, ReadTypeOK
<1>5. ReadTypeOK' /\ CellsOK' /\ Buffer'
  BY <1>1, <1>2, <1>4 DEF IInv, ReadTypeOK, CellsOK, Buffer
<1>6. AtClient'
  BY <1>1, <1>2, <1>3, Queues DEF AtClient, Has
<1>7. Arrived' /\ Notified'
  BY <1>1, <1>3 DEF IInv, Arrived, Notified
<1> QED
  BY <1>5, <1>6, <1>7 DEF IInv

\* Every step preserves the inductive invariant.
LEMMA NextIInv == IInv /\ [Next]_vars => IInv'
<1> SUFFICES ASSUME IInv, [Next]_vars PROVE IInv'
  OBVIOUS
<1>1. CASE Next
  BY <1>1, FillStep, ServerStepsOn, PostHeaderStep, PollStep, CheckFailsStep,
     PostPayloadStep, PostNotifyStep, ReadCellStep, EndReadStep, NoticeStep
     DEF Next, ServerStep, ClientStep, AdapterStep
<1>2. CASE UNCHANGED vars
  <2>1. Cells' = Cells /\ Prepared' = Prepared
    BY <1>2, CellsOfRun, PreparedFacts DEF vars, IInv, ReadTypeOK
  <2>2. ReadTypeOK' /\ CellsOK' /\ Buffer'
    BY <1>2, <2>1 DEF vars, IInv, ReadTypeOK, CellsOK, Buffer
  <2>3. AtClient'
    <3>1. UNCHANGED <<Payload, Idle, Has(Header), Has(AllCells), Awaits(Header), Awaits(AllCells)>>
      BY <1>2, <2>1 DEF vars, Payload, Idle, Has, Awaits
    <3> QED
      BY <1>2, <3>1 DEF vars, IInv, AtClient
  <2>4. Arrived' /\ Notified'
    BY <1>2, <2>1 DEF vars, IInv, Arrived, Notified, Has
  <2> QED
    BY <2>2, <2>3, <2>4 DEF IInv
<1> QED
  BY <1>1, <1>2

\* The inductive invariant holds in every state of the program.
THEOREM Inductive == Spec => []IInv
BY InitIInv, NextIInv, PTL DEF Spec

----------------------------------------------------------------------------
(* The properties of the runs.                                             *)

\* WrongOnlyByRace: a client that asked for the header of a complete buffer
\* passes its check of the magic, and ends with the whole message.
THEOREM NoOtherError == Spec => []WrongOnlyByRace
<1>1. IInv => WrongOnlyByRace
  <2> SUFFICES ASSUME IInv, ~raced PROVE /\ client # "badMagic"
                                         /\ client \in {"postNotify", "pollNotify", "done"} =>
                                              copy = Prepared
    BY DEF WrongOnlyByRace
  <2>1. client # "badMagic"
    BY DEF IInv, AtClient
  <2>2. ASSUME client \in {"postNotify", "pollNotify", "done"} PROVE copy = Prepared
    <3>1. \A c \in AllCells : copy[c] = Prepared[c]
      BY <2>2 DEF IInv, AtClient, Has
    <3> QED
      BY <3>1, PreparedFacts DEF IInv, ReadTypeOK
  <2> QED
    BY <2>1, <2>2
<1> QED
  BY <1>1, Inductive, PTL

\* MemoryOutlivesRead: the server has polled the notification, which the client
\* posts after its last read has been polled.
THEOREM MemoryLives == Spec => []MemoryOutlivesRead
<1>1. IInv => MemoryOutlivesRead
  BY DEF IInv, MemoryOutlivesRead, Notified, AtClient, Idle
<1> QED
  BY <1>1, Inductive, PTL

=============================================================================
