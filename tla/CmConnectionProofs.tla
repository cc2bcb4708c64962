------------------------- MODULE CmConnectionProofs -------------------------
(***************************************************************************)
(* Proofs about CmConnection, for any number of clients, with or without   *)
(* failing verbs and dying clients.  Two arguments, each over all clients: *)
(* whatever a client tells after its request, it tells after the server    *)
(* has accepted, and so after the id of the connection was created; and a  *)
(* client is established once, so that the server replies once, and what a *)
(* completion queue holds tells the message and the reply apart.           *)
(***************************************************************************)
EXTENDS CmConnection, SequenceTheorems, TLAPS

EventTypes == {"CONNECT_REQUEST", "ESTABLISHED", "DISCONNECTED"}
Events == [type : EventTypes, c : Clients]
Messages == {"REQ", "RTU", "DREQ"}
Kinds == {"recv", "send", "error"}
Progress == {"unsent", "posted", "delivered", "acked"}

Polling == {"pollRecv", "pollSend"}
Connected == {"pollFirst", "pollSecond", "disconnecting"}
Early == {"resolveAddr", "resolveRoute", "connecting"}

\* Types of what holds no queue ...
CmTypeOK ==
  /\ server \in {"loop", "stopped"} \cup Polling
  /\ conn \in Clients \cup {None}
  /\ server \in Polling => conn \in Clients
  /\ ids \subseteq Clients
  /\ serverQp \in [Clients -> {"none", "RTS", "ERR", "gone"}]
  /\ client \in [Clients -> Early \cup Connected \cup {"stopped"}]
  /\ answer \in [Clients -> {"none", "ESTABLISHED", "REJECTED"}]
  /\ clientQp \in [Clients -> {"none", "INIT", "RTS", "ERR", "gone"}]
  /\ ping \in [Clients -> Progress]
  /\ pong \in [Clients -> Progress]

\* ... and of the queues.
QueuesOK ==
  /\ channel \in Seq(Events)
  /\ cm \in [Clients -> Seq(Messages)]
  /\ serverCq \in [Clients -> Seq(Kinds)]
  /\ clientCq \in [Clients -> Seq(Kinds)]

\* A queue holds an element, and holds it at one place only.
Holds(s, x) == \E i \in 1 .. Len(s) : s[i] = x
Once(s, x) == \A i, j \in 1 .. Len(s) : s[i] = x /\ s[j] = x => i = j

\* Until the server stops, which empties the channel, whoever has been told
\* that the connection is established has its id at the server, and only those
\* tell anything but a request.
Accepted ==
  /\ server = "stopped" => channel = <<>>
  /\ server # "stopped" => \A c \in Clients :
       /\ answer[c] = "ESTABLISHED" => c \in ids
       /\ \/ client[c] \in Connected
          \/ Holds(cm[c], "RTU") \/ Holds(cm[c], "DREQ")
          \/ Holds(channel, Event("ESTABLISHED", c))
          \/ Holds(channel, Event("DISCONNECTED", c))
          => answer[c] = "ESTABLISHED"

\* The server has begun to serve c.
Served(c) == pong[c] # "unsent" \/ (server \in Polling /\ conn = c)

\* A client confirms its connection once, and is served after that.
Confirmed(c) ==
  /\ client[c] \in Early => /\ ~Holds(cm[c], "RTU")
                            /\ ~Holds(channel, Event("ESTABLISHED", c))
                            /\ ~Served(c)
  /\ Once(cm[c], "RTU")
  /\ Once(channel, Event("ESTABLISHED", c))
  /\ Holds(cm[c], "RTU") => ~Holds(channel, Event("ESTABLISHED", c)) /\ ~Served(c)
  /\ Holds(channel, Event("ESTABLISHED", c)) => ~Served(c)
  /\ server = "pollRecv" /\ conn = c => pong[c] = "unsent"

\* Queues of one and of two completions.
One(x) == <<x>>
Two(x, y) == <<x, y>>

\* The reply is in the buffer of the client; its message is acknowledged.
Answered(c) == pong[c] \in {"delivered", "acked"}
Acked(c) == ping[c] = "acked"

\* What the queue of a client that polls can be, as it waits for the first ...
AwaitsFirst(c, queue) ==
  \/ queue = <<>> /\ ~Answered(c) /\ ~Acked(c) /\ clientQp[c] = "RTS"
  \/ queue = One("send") /\ ~Answered(c) /\ Acked(c) /\ clientQp[c] = "RTS"
  \/ queue = One("recv") /\ Answered(c) /\ ~Acked(c) /\ clientQp[c] = "RTS"
  \/ queue \in {Two("send", "recv"), Two("recv", "send")} /\ Answered(c) /\ Acked(c)
  \/ queue \in {One("error"), Two("recv", "error")} /\ clientQp[c] = "ERR"

\* ... and for the second completion.
AwaitsSecond(c, queue) ==
  \/ queue = <<>> /\ (Answered(c) <=> ~Acked(c)) /\ clientQp[c] = "RTS"
  \/ queue \in {One("send"), One("recv")} /\ Answered(c) /\ Acked(c)
  \/ queue = One("error") /\ clientQp[c] = "ERR"

\* The client at each of its places.
AtClient(c) ==
  /\ client[c] \in Early => /\ clientQp[c] \in {"none", "INIT"}
                            /\ clientCq[c] = <<>>
                            /\ ping[c] = "unsent"
  /\ client[c] = "pollFirst" => AwaitsFirst(c, clientCq[c])
  /\ client[c] = "pollSecond" => AwaitsSecond(c, clientCq[c])
  /\ client[c] = "disconnecting" => clientQp[c] = "ERR" /\ Answered(c) /\ Acked(c)
  /\ client[c] = "stopped" => clientQp[c] # "RTS"

IInv ==
  /\ CmTypeOK
  /\ QueuesOK
  /\ Accepted
  /\ \A c \in Clients : Confirmed(c) /\ AtClient(c)

\* A client asks for its connection once, and has no answer before the request
\* has been fetched.
Requested(c) ==
  /\ client[c] \in {"resolveAddr", "resolveRoute"} =>
       /\ answer[c] = "none"
       /\ ~Holds(cm[c], "REQ")
       /\ ~Holds(channel, Event("CONNECT_REQUEST", c))
  /\ Once(cm[c], "REQ")
  /\ Once(channel, Event("CONNECT_REQUEST", c))
  /\ Holds(cm[c], "REQ") =>
       answer[c] = "none" /\ ~Holds(channel, Event("CONNECT_REQUEST", c))
  /\ Holds(channel, Event("CONNECT_REQUEST", c)) => answer[c] = "none"

\* The server has no completion of a connection, and has not replied, before it
\* has the message; the queue pairs of a process that has ended are gone.
Attended(c) ==
  /\ serverCq[c] # <<>> \/ pong[c] # "unsent" => ping[c] \in {"delivered", "acked"}
  /\ server = "stopped" => serverQp[c] # "RTS"

\* What a client does, or what befalls it; what the server does, or has to.
ClientStep(c) ==
  Client(c) \/ ResolveFails(c) \/ ClientPostFails(c) \/ ClientDies(c)
ServerStep == Server \/ OnUnexpected

\* What the refinement of CmService needs besides IInv.
ServiceInv == IInv /\ \A c \in Clients : Requested(c) /\ Attended(c)

----------------------------------------------------------------------------
(* Queues.                                                                 *)

\* An empty queue holds nothing.
LEMMA HoldsNothing ==
  ASSUME NEW x
  PROVE  ~Holds(<<>>, x) /\ Once(<<>>, x)
BY DEF Holds, Once

\* What a queue holds without its head ...
LEMMA HoldsTail ==
  ASSUME NEW S, NEW s \in Seq(S), s # <<>>, NEW x
  PROVE  /\ Tail(s) \in Seq(S) /\ Head(s) \in S
         /\ Holds(s, Head(s))
         /\ Holds(Tail(s), x) => Holds(s, x)
         /\ Once(s, x) => Once(Tail(s), x)
         /\ Once(s, x) /\ x = Head(s) => ~Holds(Tail(s), x)
<1>1. /\ Tail(s) \in Seq(S) /\ Head(s) \in S /\ Head(s) = s[1]
      /\ Len(s) \in Nat /\ Len(s) >= 1 /\ Len(Tail(s)) = Len(s) - 1
      /\ \A i \in 1 .. Len(Tail(s)) : Tail(s)[i] = s[i + 1]
  BY HeadTailProperties, LenProperties, EmptySeq
<1>2. Holds(s, Head(s))
  BY <1>1 DEF Holds
<1>3. Holds(Tail(s), x) => Holds(s, x)
  BY <1>1 DEF Holds
<1>4. Once(s, x) => Once(Tail(s), x)
  <2> SUFFICES ASSUME Once(s, x), NEW i \in 1 .. Len(Tail(s)), NEW j \in 1 .. Len(Tail(s)),
                      Tail(s)[i] = x, Tail(s)[j] = x
               PROVE  i = j
    BY DEF Once
  <2>1. s[i + 1] = x /\ s[j + 1] = x /\ i + 1 \in 1 .. Len(s) /\ j + 1 \in 1 .. Len(s)
    BY <1>1
  <2>2. i + 1 = j + 1
    BY <2>1 DEF Once
  <2> QED
    BY <1>1, <2>2
<1>5. Once(s, x) /\ x = Head(s) => ~Holds(Tail(s), x)
  <2> SUFFICES ASSUME Once(s, x), x = s[1], NEW i \in 1 .. Len(Tail(s)), Tail(s)[i] = x
               PROVE  FALSE
    BY <1>1 DEF Holds
  <2>1. s[i + 1] = x /\ i + 1 \in 1 .. Len(s) /\ 1 \in 1 .. Len(s) /\ i >= 1
    BY <1>1
  <2>2. i + 1 = 1
    BY <2>1 DEF Once
  <2> QED
    BY <2>1, <2>2
<1> QED
  BY <1>1, <1>2, <1>3, <1>4, <1>5

\* ... and with one more element.
LEMMA HoldsAppend ==
  ASSUME NEW S, NEW s \in Seq(S), NEW y \in S, NEW x
  PROVE  /\ Append(s, y) \in Seq(S)
         /\ Holds(Append(s, y), x) <=> Holds(s, x) \/ x = y
         /\ Once(s, x) /\ (x = y => ~Holds(s, x)) => Once(Append(s, y), x)
<1> DEFINE n == Len(s)
           longer == Append(s, y)
<1>1. /\ longer \in Seq(S) /\ n \in Nat /\ Len(longer) = n + 1
      /\ \A i \in 1 .. n : longer[i] = s[i]
      /\ longer[n + 1] = y
  BY AppendProperties, LenProperties
<1>2. \A i \in 1 .. n + 1 : i \in 1 .. n \/ i = n + 1
  BY <1>1
<1>3. n + 1 \in 1 .. n + 1 /\ \A i \in 1 .. n : i \in 1 .. n + 1
  BY <1>1
<1> HIDE DEF longer
<1>4. Holds(longer, x) <=> Holds(s, x) \/ x = y
  BY <1>1, <1>2, <1>3 DEF Holds
<1>5. Once(s, x) /\ (x = y => ~Holds(s, x)) => Once(longer, x)
  BY <1>1, <1>2 DEF Holds, Once
<1> QED
  BY <1>1, <1>4, <1>5 DEF longer

\* Events differ in what they are or whom they are about.
LEMMA EventFacts ==
  /\ \A t, u \in EventTypes, c, d \in Clients :
       Event(t, c) = Event(u, d) <=> t = u /\ c = d
  /\ \A t \in EventTypes, c \in Clients :
       Event(t, c) \in Events /\ Event(t, c).type = t /\ Event(t, c).c = c
BY DEF Event, Events

\* What the kernel has not yet taken after a client has told something.
LEMMA Told ==
  ASSUME QueuesOK, NEW c \in Clients, NEW m \in Messages, Tell(c, m)
  PROVE  /\ cm' \in [Clients -> Seq(Messages)]
         /\ \A d \in Clients, x \in Messages :
              Holds(cm'[d], x) <=> Holds(cm[d], x) \/ (d = c /\ x = m)
         /\ \A d \in Clients, x \in Messages :
              Once(cm[d], x) /\ (d = c /\ x = m => ~Holds(cm[d], x)) => Once(cm'[d], x)
<1>1. /\ cm'[c] = Append(cm[c], m)
      /\ \A d \in Clients \ {c} : cm'[d] = cm[d]
      /\ cm \in [Clients -> Seq(Messages)]
      /\ DOMAIN cm' = Clients /\ cm' = [d \in Clients |-> cm'[d]]
  BY DEF QueuesOK, Tell
<1>2. /\ Append(cm[c], m) \in Seq(Messages)
      /\ \A x : Holds(Append(cm[c], m), x) <=> Holds(cm[c], x) \/ x = m
      /\ \A x : Once(cm[c], x) /\ (x = m => ~Holds(cm[c], x)) => Once(Append(cm[c], m), x)
  BY <1>1, HoldsAppend
<1>3. cm' \in [Clients -> Seq(Messages)]
  BY <1>1, <1>2
<1> QED
  BY <1>1, <1>2, <1>3

\* ... and after it has confirmed the connection and left.
ToldBoth(c) == cm' = [cm EXCEPT ![c] = Append(Append(@, "RTU"), "DREQ")]

LEMMA ToldTwice ==
  ASSUME QueuesOK, NEW c \in Clients, ToldBoth(c)
  PROVE  /\ cm' \in [Clients -> Seq(Messages)]
         /\ \A d \in Clients, x \in Messages :
              Holds(cm'[d], x) <=> Holds(cm[d], x) \/ (d = c /\ x \in {"RTU", "DREQ"})
         /\ \A d \in Clients, x \in Messages \ {"DREQ"} :
              Once(cm[d], x) /\ (d = c /\ x = "RTU" => ~Holds(cm[d], x)) => Once(cm'[d], x)
<1> DEFINE confirmed == Append(cm[c], "RTU")
<1>1. /\ cm'[c] = Append(confirmed, "DREQ")
      /\ \A d \in Clients \ {c} : cm'[d] = cm[d]
      /\ cm \in [Clients -> Seq(Messages)]
      /\ DOMAIN cm' = Clients /\ cm' = [d \in Clients |-> cm'[d]]
  BY DEF QueuesOK, ToldBoth
<1>2. "RTU" \in Messages /\ "DREQ" \in Messages
  BY DEF Messages
<1>3. /\ confirmed \in Seq(Messages)
      /\ \A x : Holds(confirmed, x) <=> Holds(cm[c], x) \/ x = "RTU"
      /\ \A x : Once(cm[c], x) /\ (x = "RTU" => ~Holds(cm[c], x)) => Once(confirmed, x)
  BY <1>1, <1>2, HoldsAppend
<1> HIDE DEF confirmed
<1>4. /\ Append(confirmed, "DREQ") \in Seq(Messages)
      /\ \A x : Holds(Append(confirmed, "DREQ"), x) <=> Holds(confirmed, x) \/ x = "DREQ"
      /\ \A x : Once(confirmed, x) /\ (x = "DREQ" => ~Holds(confirmed, x))
                  => Once(Append(confirmed, "DREQ"), x)
  BY <1>2, <1>3, HoldsAppend
<1>5. cm' \in [Clients -> Seq(Messages)]
  BY <1>1, <1>4
<1>6. /\ \A x : Holds(cm'[c], x) <=> Holds(cm[c], x) \/ x \in {"RTU", "DREQ"}
      /\ \A x : x # "DREQ" /\ Once(cm[c], x) /\ (x = "RTU" => ~Holds(cm[c], x))
               => Once(cm'[c], x)
  BY <1>1, <1>3, <1>4
<1> QED
  BY <1>1, <1>5, <1>6

\* What the channel holds after an event has been fetched.
LEMMA Fetched ==
  ASSUME QueuesOK, NEW t \in EventTypes, NEW c \in Clients, Fetch(t, c),
         channel' = Tail(channel)
  PROVE  /\ channel' \in Seq(Events)
         /\ Holds(channel, Event(t, c))
         /\ \A e : Holds(channel', e) => Holds(channel, e)
         /\ \A e : Once(channel, e) => Once(channel', e)
         /\ Once(channel, Event(t, c)) => ~Holds(channel', Event(t, c))
BY HoldsTail DEF QueuesOK, Fetch

\* The queues that AtClient names.
LEMMA Queues ==
  /\ One("recv") # <<>> /\ Head(One("recv")) = "recv" /\ Tail(One("recv")) = <<>>
  /\ One("send") # <<>> /\ Head(One("send")) = "send" /\ Tail(One("send")) = <<>>
  /\ One("error") # <<>> /\ Head(One("error")) = "error" /\ Tail(One("error")) = <<>>
  /\ Head(Two("send", "recv")) = "send" /\ Tail(Two("send", "recv")) = One("recv")
  /\ Head(Two("recv", "send")) = "recv" /\ Tail(Two("recv", "send")) = One("send")
  /\ Head(Two("recv", "error")) = "recv" /\ Tail(Two("recv", "error")) = One("error")
  /\ Append(<<>>, "recv") = One("recv") /\ Append(<<>>, "send") = One("send")
  /\ Append(<<>>, "error") = One("error")
  /\ Append(One("send"), "recv") = Two("send", "recv")
  /\ Append(One("recv"), "send") = Two("recv", "send")
  /\ Append(One("recv"), "error") = Two("recv", "error")
<1>1. ASSUME NEW x \in Kinds
      PROVE  /\ <<x>> \in Seq(Kinds) /\ Len(<<x>>) = 1 /\ <<x>>[1] = x
             /\ <<x>> # <<>> /\ Head(<<x>>) = x /\ Tail(<<x>>) = <<>>
             /\ Append(<<>>, x) = <<x>>
  OBVIOUS
<1>2. ASSUME NEW x \in Kinds, NEW y \in Kinds
      PROVE  /\ Head(<<x, y>>) = x /\ Tail(<<x, y>>) = <<y>>
             /\ Append(<<x>>, y) = <<x, y>>
  <2>1. /\ <<x, y>> \in Seq(Kinds) /\ Len(<<x, y>>) = 2
        /\ <<x, y>>[1] = x /\ <<x, y>>[2] = y /\ Head(<<x, y>>) = x
    OBVIOUS
  <2>2. Tail(<<x, y>>) = <<y>>
    <3>1. /\ Tail(<<x, y>>) \in Seq(Kinds) /\ Len(Tail(<<x, y>>)) = 1
          /\ Tail(<<x, y>>)[1] = y
      BY <2>1, HeadTailProperties
    <3> QED
      BY <3>1, <1>1, SeqEqual
  <2>3. Append(<<x>>, y) = <<x, y>>
    <3> DEFINE longer == Append(<<x>>, y)
    <3>1. longer \in Seq(Kinds) /\ Len(longer) = 2 /\ longer[1] = x /\ longer[2] = y
      BY <1>1, AppendProperties
    <3> HIDE DEF longer
    <3>2. longer = <<x, y>>
      BY <2>1, <3>1, SeqEqual
    <3> QED
      BY <3>2 DEF longer
  <2> QED
    BY <2>1, <2>2, <2>3
<1> QED
  BY <1>1, <1>2 DEF Kinds, One, Two

----------------------------------------------------------------------------
(* The invariant at the start.                                             *)

\* Nobody has connected, and every queue is empty.
LEMMA InitIInv == Init => IInv
<1> SUFFICES ASSUME Init PROVE IInv
  OBVIOUS
<1> USE DEF Init
<1>1. CmTypeOK
  BY DEF CmTypeOK, Early, Polling, Progress
<1>2. QueuesOK
  BY DEF QueuesOK
<1>3. Accepted
  BY HoldsNothing DEF Accepted, Connected
<1>4. ASSUME NEW c \in Clients PROVE Confirmed(c) /\ AtClient(c)
  BY HoldsNothing DEF Confirmed, Served, Polling, AtClient
<1> QED
  BY <1>1, <1>2, <1>3, <1>4 DEF IInv

----------------------------------------------------------------------------
(* The steps of a client.                                                  *)

\* A client that goes on, or stops, without telling the server anything.
LEMMA QuietStep ==
  ASSUME IInv, NEW c \in Clients,
         \/ OnAddrResolved(c) \/ ResolveFails(c) \/ OnRejected(c)
         \/ OnUnreachable(c) \/ OnClientDisconnected(c)
  PROVE  IInv'
<1>1. PICK place \in {"resolveRoute", "stopped"}, state \in {clientQp[c], "gone"} :
        /\ client' = [client EXCEPT ![c] = place]
        /\ clientQp' = [clientQp EXCEPT ![c] = state]
        /\ place = "resolveRoute" => client[c] = "resolveAddr" /\ state = clientQp[c]
        /\ place = "stopped" => client[c] \in Early \cup {"disconnecting"}
        /\ UNCHANGED <<server, conn, channel, ids, serverQp, serverCq, answer,
                       clientCq, cm, ping, pong>>
  <2>1. clientQp = [clientQp EXCEPT ![c] = clientQp[c]]
    BY DEF IInv, CmTypeOK
  <2>2. CASE OnAddrResolved(c)
    BY <2>1, <2>2 DEF OnAddrResolved, serverVars
  <2>3. CASE ResolveFails(c)
    BY <2>1, <2>3 DEF ResolveFails, serverVars, Early
  <2>4. CASE OnRejected(c) \/ OnUnreachable(c) \/ OnClientDisconnected(c)
    BY <2>4 DEF OnRejected, OnUnreachable, OnClientDisconnected, serverVars, Early
  <2> QED
    BY <2>2, <2>3, <2>4
<1>2. /\ client'[c] = place /\ clientQp'[c] = state
      /\ \A d \in Clients \ {c} : client'[d] = client[d] /\ clientQp'[d] = clientQp[d]
  BY <1>1 DEF IInv, CmTypeOK
<1>3. CmTypeOK'
  BY <1>1 DEF IInv, CmTypeOK, Early
<1>4. QueuesOK'
  BY <1>1 DEF IInv, QueuesOK
<1>5. Accepted'
  BY <1>1, <1>2 DEF IInv, Accepted, Connected
<1>6. ASSUME NEW d \in Clients PROVE Confirmed(d)'
  <2>1. client'[d] \in Early => client[d] \in Early
    BY <1>1, <1>2 DEF Early
  <2> QED
    BY <1>1, <2>1 DEF IInv, Confirmed, Served
<1>7. ASSUME NEW d \in Clients PROVE AtClient(d)'
  <2>1. CASE d # c
    BY <1>1, <1>2, <2>1 DEF IInv, AtClient, AwaitsFirst, AwaitsSecond, Answered, Acked
  <2>2. CASE d = c
    BY <1>1, <1>2, <2>2 DEF IInv, AtClient, Early
  <2> QED
    BY <2>1, <2>2
<1> QED
  BY <1>3, <1>4, <1>5, <1>6, <1>7 DEF IInv

\* A client asks for its connection.
LEMMA RequestStep ==
  ASSUME IInv, NEW c \in Clients, OnRouteResolved(c)
  PROVE  IInv'
<1>1. /\ client[c] = "resolveRoute"
      /\ client' = [client EXCEPT ![c] = "connecting"]
      /\ clientQp' = [clientQp EXCEPT ![c] = "INIT"]
      /\ Tell(c, "REQ")
      /\ UNCHANGED <<server, conn, channel, ids, serverQp, serverCq, answer, clientCq,
                     ping, pong>>
  BY DEF OnRouteResolved, serverVars
<1>2. /\ client'[c] = "connecting" /\ clientQp'[c] = "INIT"
      /\ \A d \in Clients \ {c} : client'[d] = client[d] /\ clientQp'[d] = clientQp[d]
  BY <1>1 DEF IInv, CmTypeOK
<1>3. /\ cm' \in [Clients -> Seq(Messages)]
      /\ \A d \in Clients : /\ Holds(cm'[d], "RTU") <=> Holds(cm[d], "RTU")
                            /\ Holds(cm'[d], "DREQ") <=> Holds(cm[d], "DREQ")
                            /\ Once(cm[d], "RTU") => Once(cm'[d], "RTU")
  BY <1>1, Told DEF IInv, Messages
<1>4. CmTypeOK'
  BY <1>1 DEF IInv, CmTypeOK, Early
<1>5. QueuesOK'
  BY <1>1, <1>3 DEF IInv, QueuesOK
<1>6. Accepted'
  BY <1>1, <1>2, <1>3 DEF IInv, Accepted, Connected
<1>7. ASSUME NEW d \in Clients PROVE Confirmed(d)'
  BY <1>1, <1>2, <1>3 DEF IInv, Confirmed, Served, Early
<1>8. ASSUME NEW d \in Clients PROVE AtClient(d)'
  <2>1. CASE d # c
    BY <1>1, <1>2, <2>1 DEF IInv, AtClient, AwaitsFirst, AwaitsSecond, Answered, Acked
  <2>2. CASE d = c
    BY <1>1, <1>2, <2>2 DEF IInv, AtClient, Early
  <2> QED
    BY <2>1, <2>2
<1> QED
  BY <1>4, <1>5, <1>6, <1>7, <1>8 DEF IInv

\* The connection is established: the client confirms it, for the first time.
LEMMA ConfirmStep ==
  ASSUME IInv, NEW c \in Clients, OnClientEstablished(c)
  PROVE  IInv'
<1>1. /\ client[c] = "connecting" /\ answer[c] = "ESTABLISHED"
      /\ client' = [client EXCEPT ![c] = "pollFirst"]
      /\ clientQp' = [clientQp EXCEPT ![c] = "RTS"]
      /\ ping' = [ping EXCEPT ![c] = "posted"]
      /\ Tell(c, "RTU")
      /\ UNCHANGED <<server, conn, channel, ids, serverQp, serverCq, answer, clientCq,
                     pong>>
  BY DEF OnClientEstablished, serverVars
<1>2. /\ client'[c] = "pollFirst" /\ clientQp'[c] = "RTS" /\ ping'[c] = "posted"
      /\ \A d \in Clients \ {c} : /\ client'[d] = client[d] /\ clientQp'[d] = clientQp[d]
                                  /\ ping'[d] = ping[d]
  BY <1>1 DEF IInv, CmTypeOK
<1>3. /\ ~Holds(cm[c], "RTU") /\ ~Holds(channel, Event("ESTABLISHED", c)) /\ ~Served(c)
      /\ clientCq[c] = <<>>
  BY <1>1 DEF IInv, Confirmed, AtClient, Early
<1>4. /\ cm' \in [Clients -> Seq(Messages)]
      /\ \A d \in Clients : /\ Holds(cm'[d], "RTU") <=> Holds(cm[d], "RTU") \/ d = c
                            /\ Holds(cm'[d], "DREQ") <=> Holds(cm[d], "DREQ")
                            /\ Once(cm[d], "RTU") => Once(cm'[d], "RTU")
  BY <1>1, <1>3, Told DEF IInv, Messages
<1>5. CmTypeOK'
  BY <1>1 DEF IInv, CmTypeOK, Connected, Progress
<1>6. QueuesOK'
  BY <1>1, <1>4 DEF IInv, QueuesOK
<1>7. Accepted'
  BY <1>1, <1>2, <1>4 DEF IInv, Accepted
<1>8. ASSUME NEW d \in Clients PROVE Confirmed(d)'
  BY <1>1, <1>2, <1>3, <1>4 DEF IInv, Confirmed, Served, Early
<1>9. ASSUME NEW d \in Clients PROVE AtClient(d)'
  <2>1. CASE d # c
    BY <1>1, <1>2, <2>1 DEF IInv, AtClient, AwaitsFirst, AwaitsSecond, Answered, Acked
  <2>2. CASE d = c
    BY <1>1, <1>2, <1>3, <2>2
       DEF IInv, AtClient, Early, AwaitsFirst, Answered, Acked, Served
  <2> QED
    BY <2>1, <2>2
<1> QED
  BY <1>5, <1>6, <1>7, <1>8, <1>9 DEF IInv

\* A client that polls disconnects, by its program or by its death.
LEMMA LeaveStep ==
  ASSUME IInv, NEW c \in Clients, NEW place \in {"disconnecting", "stopped"},
         NEW state \in {"ERR", "gone"},
         client[c] \in {"pollFirst", "pollSecond"},
         client' = [client EXCEPT ![c] = place],
         clientQp' = [clientQp EXCEPT ![c] = state],
         Tell(c, "DREQ"),
         place = "disconnecting" => state = "ERR" /\ Answered(c) /\ Acked(c),
         clientCq' \in [Clients -> Seq(Kinds)],
         \A d \in Clients \ {c} : clientCq'[d] = clientCq[d],
         UNCHANGED <<server, conn, channel, ids, serverQp, serverCq, answer, ping, pong>>
  PROVE  IInv'
<1>1. /\ client'[c] = place /\ clientQp'[c] = state
      /\ \A d \in Clients \ {c} : client'[d] = client[d] /\ clientQp'[d] = clientQp[d]
  BY DEF IInv, CmTypeOK
<1>2. /\ cm' \in [Clients -> Seq(Messages)]
      /\ \A d \in Clients : /\ Holds(cm'[d], "RTU") <=> Holds(cm[d], "RTU")
                            /\ Holds(cm'[d], "DREQ") <=> Holds(cm[d], "DREQ") \/ d = c
                            /\ Once(cm[d], "RTU") => Once(cm'[d], "RTU")
  BY Told DEF IInv, Messages
<1>3. CmTypeOK'
  BY DEF IInv, CmTypeOK, Connected
<1>4. QueuesOK'
  BY <1>2 DEF IInv, QueuesOK
<1>5. Accepted'
  BY <1>1, <1>2 DEF IInv, Accepted, Connected
<1>6. ASSUME NEW d \in Clients PROVE Confirmed(d)'
  BY <1>1, <1>2 DEF IInv, Confirmed, Served, Early
<1>7. ASSUME NEW d \in Clients PROVE AtClient(d)'
  <2>1. CASE d # c
    BY <1>1, <2>1 DEF IInv, AtClient, AwaitsFirst, AwaitsSecond, Answered, Acked
  <2>2. CASE d = c
    BY <1>1, <2>2 DEF AtClient, Early, Answered, Acked
  <2> QED
    BY <2>1, <2>2
<1> QED
  BY <1>3, <1>4, <1>5, <1>6, <1>7 DEF IInv

\* A client confirms its connection and leaves.
LEMMA PostFailsStep ==
  ASSUME IInv, NEW c \in Clients, ClientPostFails(c)
  PROVE  IInv'
<1>1. /\ client[c] = "connecting" /\ answer[c] = "ESTABLISHED"
      /\ client' = [client EXCEPT ![c] = "stopped"]
      /\ clientQp' = [clientQp EXCEPT ![c] = "gone"]
      /\ ToldBoth(c)
      /\ UNCHANGED <<server, conn, channel, ids, serverQp, serverCq, answer, clientCq,
                     ping, pong>>
  BY DEF ClientPostFails, ToldBoth, serverVars
<1>2. /\ client'[c] = "stopped" /\ clientQp'[c] = "gone"
      /\ \A d \in Clients \ {c} : client'[d] = client[d] /\ clientQp'[d] = clientQp[d]
  BY <1>1 DEF IInv, CmTypeOK
<1>3. ~Holds(cm[c], "RTU") /\ ~Holds(channel, Event("ESTABLISHED", c)) /\ ~Served(c)
  BY <1>1 DEF IInv, Confirmed, Early
<1>4. /\ cm' \in [Clients -> Seq(Messages)]
      /\ \A d \in Clients : /\ Holds(cm'[d], "RTU") <=> Holds(cm[d], "RTU") \/ d = c
                            /\ Holds(cm'[d], "DREQ") <=> Holds(cm[d], "DREQ") \/ d = c
                            /\ Once(cm[d], "RTU") => Once(cm'[d], "RTU")
  BY <1>1, <1>3, ToldTwice DEF IInv, Messages
<1>5. CmTypeOK'
  BY <1>1 DEF IInv, CmTypeOK, Connected
<1>6. QueuesOK'
  BY <1>1, <1>4 DEF IInv, QueuesOK
<1>7. Accepted'
  BY <1>1, <1>2, <1>4 DEF IInv, Accepted, Connected
<1>8. ASSUME NEW d \in Clients PROVE Confirmed(d)'
  BY <1>1, <1>2, <1>3, <1>4 DEF IInv, Confirmed, Served, Early
<1>9. ASSUME NEW d \in Clients PROVE AtClient(d)'
  <2>1. CASE d # c
    BY <1>1, <1>2, <2>1 DEF IInv, AtClient, AwaitsFirst, AwaitsSecond, Answered, Acked
  <2>2. CASE d = c
    BY <1>2, <2>2 DEF AtClient, Early
  <2> QED
    BY <2>1, <2>2
<1> QED
  BY <1>5, <1>6, <1>7, <1>8, <1>9 DEF IInv

\* A completion is polled.
LEMMA ClientPollStep ==
  ASSUME IInv, NEW c \in Clients, ClientPoll(c)
  PROVE  IInv'
<1>1. /\ client[c] \in {"pollFirst", "pollSecond"}
      /\ clientCq[c] # <<>>
      /\ clientCq' = [clientCq EXCEPT ![c] = Tail(clientCq[c])]
      /\ UNCHANGED <<server, conn, channel, ids, serverQp, serverCq, answer, ping, pong>>
  BY DEF ClientPoll, serverVars
<1>2. /\ clientCq' \in [Clients -> Seq(Kinds)]
      /\ clientCq'[c] = Tail(clientCq[c])
      /\ \A d \in Clients \ {c} : clientCq'[d] = clientCq[d]
  <2>1. clientCq[c] \in Seq(Kinds) /\ Tail(clientCq[c]) \in Seq(Kinds)
    BY <1>1, HoldsTail DEF IInv, QueuesOK
  <2> QED
    BY <1>1, <2>1 DEF IInv, QueuesOK
<1>3. CASE Head(clientCq[c]) = "error"
  <2>1. /\ client' = [client EXCEPT ![c] = "stopped"]
        /\ clientQp' = [clientQp EXCEPT ![c] = "gone"]
        /\ Tell(c, "DREQ")
    BY <1>3 DEF ClientPoll
  <2> QED
    BY <1>1, <1>2, <2>1, LeaveStep
<1>4. CASE Head(clientCq[c]) # "error" /\ client[c] = "pollSecond"
  <2>1. /\ client' = [client EXCEPT ![c] = "disconnecting"]
        /\ clientQp' = [clientQp EXCEPT ![c] = "ERR"]
        /\ Tell(c, "DREQ")
    BY <1>4 DEF ClientPoll, LastCompletion
  <2>2. Answered(c) /\ Acked(c)
    BY <1>1, <1>4, Queues DEF IInv, AtClient, AwaitsSecond
  <2> QED
    BY <1>1, <1>2, <2>1, <2>2, LeaveStep
<1>5. CASE Head(clientCq[c]) # "error" /\ client[c] = "pollFirst"
  <2>1. /\ client' = [client EXCEPT ![c] = "pollSecond"]
        /\ UNCHANGED <<clientQp, cm>>
    BY <1>5 DEF ClientPoll, LastCompletion
  <2>2. /\ client'[c] = "pollSecond"
        /\ \A d \in Clients \ {c} : client'[d] = client[d]
    BY <2>1 DEF IInv, CmTypeOK
  <2>3. CmTypeOK'
    BY <1>1, <2>1 DEF IInv, CmTypeOK, Connected
  <2>4. QueuesOK'
    BY <1>1, <1>2, <2>1 DEF IInv, QueuesOK
  <2>5. Accepted'
    BY <1>1, <2>1, <2>2 DEF IInv, Accepted, Connected
  <2>6. ASSUME NEW d \in Clients PROVE Confirmed(d)'
    BY <1>1, <2>1, <2>2 DEF IInv, Confirmed, Served, Early
  <2>7. ASSUME NEW d \in Clients PROVE AtClient(d)'
    <3>1. CASE d # c
      BY <1>1, <1>2, <2>1, <2>2, <3>1
         DEF IInv, AtClient, AwaitsFirst, AwaitsSecond, Answered, Acked
    <3>2. CASE d = c
      <4>1. AwaitsFirst(c, clientCq[c])
        BY <1>5 DEF IInv, AtClient
      <4>2. AwaitsSecond(c, clientCq'[c])
        BY <1>1, <1>2, <1>5, <4>1, Queues DEF AwaitsFirst, AwaitsSecond
      <4>3. AwaitsSecond(c, clientCq[c])'
        BY <1>1, <2>1, <4>2 DEF AwaitsSecond, Answered, Acked
      <4> QED
        BY <2>2, <3>2, <4>3 DEF AtClient, Early
    <3> QED
      BY <3>1, <3>2
  <2> QED
    BY <2>3, <2>4, <2>5, <2>6, <2>7 DEF IInv
<1> QED
  BY <1>1, <1>3, <1>4, <1>5

\* Every step of a client preserves the invariant.
LEMMA ClientSteps ==
  ASSUME IInv, NEW c \in Clients, ClientStep(c)
  PROVE  IInv'
<1>1. CASE ClientDies(c)
  <2>1. /\ client[c] \in {"pollFirst", "pollSecond"}
        /\ client' = [client EXCEPT ![c] = "stopped"]
        /\ clientQp' = [clientQp EXCEPT ![c] = "gone"]
        /\ Tell(c, "DREQ")
        /\ UNCHANGED <<server, conn, channel, ids, serverQp, serverCq, answer, clientCq,
                       ping, pong>>
    BY <1>1 DEF ClientDies, serverVars
  <2>2. /\ clientCq' \in [Clients -> Seq(Kinds)]
        /\ \A d \in Clients \ {c} : clientCq'[d] = clientCq[d]
    BY <2>1 DEF IInv, QueuesOK
  <2> QED
    BY <2>1, <2>2, LeaveStep
<1> QED
  BY <1>1, QuietStep, RequestStep, ConfirmStep, PostFailsStep, ClientPollStep
     DEF ClientStep, Client

----------------------------------------------------------------------------
(* The steps of the server.                                                *)

\* The server stops: whatever it has not fetched is dropped, and nobody is
\* served any more.
LEMMA StopStep ==
  ASSUME IInv, Stop, ids' \subseteq Clients, serverCq' \in [Clients -> Seq(Kinds)],
         UNCHANGED <<conn, client, clientQp, clientCq, cm, ping, pong>>
  PROVE  IInv'
<1>1. /\ server' = "stopped" /\ channel' = <<>>
      /\ answer' \in [Clients -> {"none", "ESTABLISHED", "REJECTED"}]
      /\ serverQp' \in [Clients -> {"none", "RTS", "ERR", "gone"}]
  BY DEF Stop, IInv, CmTypeOK
<1>2. CmTypeOK'
  BY <1>1 DEF IInv, CmTypeOK, Polling
<1>3. QueuesOK'
  BY <1>1 DEF IInv, QueuesOK
<1>4. Accepted'
  BY <1>1 DEF Accepted
<1>5. ASSUME NEW d \in Clients PROVE Confirmed(d)'
  BY <1>1, HoldsNothing DEF IInv, Confirmed, Served, Polling
<1>6. ASSUME NEW d \in Clients PROVE AtClient(d)'
  BY DEF IInv, AtClient, AwaitsFirst, AwaitsSecond, Answered, Acked
<1> QED
  BY <1>2, <1>3, <1>4, <1>5, <1>6 DEF IInv

\* A connection is accepted: its id exists from now on.
LEMMA AcceptStep ==
  ASSUME IInv, NEW c \in Clients, OnConnectRequest(c)
  PROVE  IInv'
<1>1. /\ server = "loop" /\ client[c] = "connecting"
      /\ ids' = ids \cup {c}
      /\ channel' = Tail(channel)
      /\ serverQp' = [serverQp EXCEPT ![c] = "RTS"]
      /\ answer' = [answer EXCEPT ![c] = "ESTABLISHED"]
      /\ Fetch("CONNECT_REQUEST", c)
      /\ UNCHANGED <<server, conn, serverCq, client, clientQp, clientCq, cm, ping, pong>>
  BY DEF OnConnectRequest, Fetch, clientVars
<1>2. /\ channel' \in Seq(Events)
      /\ \A e : Holds(channel', e) => Holds(channel, e)
      /\ \A e : Once(channel, e) => Once(channel', e)
  BY <1>1, Fetched DEF IInv, EventTypes
<1>3. /\ answer'[c] = "ESTABLISHED"
      /\ \A d \in Clients \ {c} : answer'[d] = answer[d]
  BY <1>1 DEF IInv, CmTypeOK
<1>4. CmTypeOK'
  BY <1>1 DEF IInv, CmTypeOK
<1>5. QueuesOK'
  BY <1>1, <1>2 DEF IInv, QueuesOK
<1>6. Accepted'
  BY <1>1, <1>2, <1>3 DEF IInv, Accepted
<1>7. ASSUME NEW d \in Clients PROVE Confirmed(d)'
  BY <1>1, <1>2 DEF IInv, Confirmed, Served
<1>8. ASSUME NEW d \in Clients PROVE AtClient(d)'
  BY <1>1 DEF IInv, AtClient, AwaitsFirst, AwaitsSecond, Answered, Acked
<1> QED
  BY <1>4, <1>5, <1>6, <1>7, <1>8 DEF IInv

\* The server begins to serve a client.
LEMMA ServeStep ==
  ASSUME IInv, NEW c \in Clients, OnServerEstablished(c)
  PROVE  IInv'
<1>1. /\ server = "loop" /\ server' = "pollRecv" /\ conn' = c
      /\ channel' = Tail(channel)
      /\ Fetch("ESTABLISHED", c)
      /\ UNCHANGED <<ids, serverQp, serverCq, answer, client, clientQp, clientCq, cm,
                     ping, pong>>
  BY DEF OnServerEstablished, Fetch, clientVars
<1>2. /\ channel' \in Seq(Events)
      /\ Holds(channel, Event("ESTABLISHED", c))
      /\ \A e : Holds(channel', e) => Holds(channel, e)
      /\ \A e : Once(channel, e) => Once(channel', e)
      /\ Once(channel, Event("ESTABLISHED", c)) => ~Holds(channel', Event("ESTABLISHED", c))
  BY <1>1, Fetched DEF IInv, EventTypes
<1>3. CmTypeOK'
  BY <1>1 DEF IInv, CmTypeOK, Polling
<1>4. QueuesOK'
  BY <1>1, <1>2 DEF IInv, QueuesOK
<1>5. Accepted'
  BY <1>1, <1>2 DEF IInv, Accepted
<1>6. ASSUME NEW d \in Clients PROVE Confirmed(d)'
  <2>1. CASE d # c
    BY <1>1, <1>2, <2>1 DEF IInv, Confirmed, Served
  <2>2. CASE d = c
    BY <1>1, <1>2, <2>2 DEF IInv, Confirmed, Served
  <2> QED
    BY <2>1, <2>2
<1>7. ASSUME NEW d \in Clients PROVE AtClient(d)'
  BY <1>1 DEF IInv, AtClient, AwaitsFirst, AwaitsSecond, Answered, Acked
<1> QED
  BY <1>3, <1>4, <1>5, <1>6, <1>7 DEF IInv

\* The server replies, and goes on after the completion of its reply.
LEMMA ServedStep ==
  ASSUME IInv, ServerPollRecv \/ ServerPollSend
  PROVE  IInv'
<1>1. /\ conn \in Clients
      /\ \/ /\ server = "pollRecv" /\ server' = "pollSend" /\ conn' = conn
            /\ pong' = [pong EXCEPT ![conn] = "posted"]
         \/ /\ server = "pollSend" /\ server' = "loop" /\ conn' = None
            /\ pong' = pong
      /\ serverCq[conn] # <<>>
      /\ serverCq' = [serverCq EXCEPT ![conn] = Tail(serverCq[conn])]
      /\ UNCHANGED <<channel, ids, serverQp, answer, client, clientQp, clientCq, cm, ping>>
  BY DEF ServerPollRecv, ServerPollSend, Completion, Reply, clientVars, IInv, CmTypeOK, Polling
<1>2. /\ pong' \in [Clients -> Progress]
      /\ \A d \in Clients : \/ pong'[d] = pong[d]
                            \/ /\ d = conn /\ server = "pollRecv"
                               /\ pong[d] = "unsent" /\ pong'[d] = "posted"
  BY <1>1 DEF IInv, CmTypeOK, Progress, Confirmed
<1>3. CmTypeOK'
  BY <1>1, <1>2, ClientsAssumption DEF IInv, CmTypeOK, Polling
<1>4. QueuesOK'
  <2>1. Tail(serverCq[conn]) \in Seq(Kinds)
    BY <1>1, HoldsTail DEF IInv, QueuesOK
  <2> QED
    BY <1>1, <2>1 DEF IInv, QueuesOK
<1>5. Accepted'
  BY <1>1 DEF IInv, Accepted, Polling
<1>6. ASSUME NEW d \in Clients PROVE Confirmed(d)'
  <2>1. Served(d)' => Served(d)
    BY <1>1, <1>2, ClientsAssumption DEF Served, Polling
  <2>2. server' # "pollRecv"
    BY <1>1
  <2> QED
    BY <1>1, <2>1, <2>2 DEF IInv, Confirmed
<1>7. ASSUME NEW d \in Clients PROVE AtClient(d)'
  <2>1. Answered(d)' <=> Answered(d)
    BY <1>2 DEF Answered
  <2> QED
    BY <1>1, <2>1 DEF IInv, AtClient, AwaitsFirst, AwaitsSecond, Acked
<1> QED
  BY <1>3, <1>4, <1>5, <1>6, <1>7 DEF IInv

\* Every step of the server preserves the invariant.
LEMMA ServerSteps ==
  ASSUME IInv, ServerStep
  PROVE  IInv'
<1>1. ASSUME NEW c \in Clients, ConnectRequestFails(c) \/ OnServerDisconnected(c)
      PROVE  IInv'
  BY <1>1, StopStep
     DEF ConnectRequestFails, OnServerDisconnected, StopAfter, clientVars,
         IInv, CmTypeOK, QueuesOK
<1>2. CASE ServerPollFails
  <2>1. /\ conn \in Clients
        /\ serverCq[conn] # <<>>
        /\ serverCq' = [serverCq EXCEPT ![conn] = Tail(serverCq[conn])]
        /\ Stop
        /\ UNCHANGED <<ids, conn, client, clientQp, clientCq, cm, ping, pong>>
    BY <1>2 DEF ServerPollFails, Completion, GiveUp, clientVars, IInv, CmTypeOK, Polling
  <2>2. Tail(serverCq[conn]) \in Seq(Kinds)
    BY <2>1, HoldsTail DEF IInv, QueuesOK
  <2>3. serverCq' \in [Clients -> Seq(Kinds)]
    BY <2>1, <2>2 DEF IInv, QueuesOK
  <2>4. ids' \subseteq Clients
    BY <2>1 DEF IInv, CmTypeOK
  <2> QED
    BY <2>1, <2>3, <2>4, StopStep
<1>3. CASE OnUnexpected
  <2>1. /\ Stop
        /\ UNCHANGED <<ids, serverCq, conn, client, clientQp, clientCq, cm, ping, pong>>
    BY <1>3 DEF OnUnexpected, GiveUp, clientVars
  <2>2. ids' \subseteq Clients /\ serverCq' \in [Clients -> Seq(Kinds)]
    BY <2>1 DEF IInv, CmTypeOK, QueuesOK
  <2> QED
    BY <2>1, <2>2, StopStep
<1> QED
  BY <1>1, <1>2, <1>3, AcceptStep, ServeStep, ServedStep DEF ServerStep, Server

----------------------------------------------------------------------------
(* The steps of the connection manager and the fabric.                     *)

\* A message of a client becomes an event.
LEMMA ArriveStep ==
  ASSUME IInv, NEW c \in Clients, CmArrives(c)
  PROVE  IInv'
<1> DEFINE m == Head(cm[c])
<1>1. /\ cm[c] # <<>>
      /\ cm' = [cm EXCEPT ![c] = Tail(cm[c])]
      /\ UNCHANGED <<server, conn, ids, serverQp, serverCq, client, clientQp, clientCq,
                     ping, pong>>
  BY DEF CmArrives, serverVars, clientVars
<1>2. /\ m \in Messages /\ Holds(cm[c], m)
      /\ cm' \in [Clients -> Seq(Messages)]
      /\ \A d \in Clients : \A x : Holds(cm'[d], x) => Holds(cm[d], x)
      /\ \A d \in Clients : \A x : Once(cm[d], x) => Once(cm'[d], x)
      /\ \A x : Once(cm[c], x) /\ x = m => ~Holds(cm'[c], x)
  <2>1. cm[c] \in Seq(Messages) /\ cm \in [Clients -> Seq(Messages)]
    BY DEF IInv, QueuesOK
  <2>2. /\ Tail(cm[c]) \in Seq(Messages) /\ m \in Messages /\ Holds(cm[c], m)
        /\ \A x : Holds(Tail(cm[c]), x) => Holds(cm[c], x)
        /\ \A x : Once(cm[c], x) => Once(Tail(cm[c]), x)
        /\ \A x : Once(cm[c], x) /\ x = m => ~Holds(Tail(cm[c]), x)
    BY <1>1, <2>1, HoldsTail
  <2>3. cm'[c] = Tail(cm[c]) /\ \A d \in Clients \ {c} : cm'[d] = cm[d]
    BY <1>1, <2>1
  <2>4. cm' \in [Clients -> Seq(Messages)]
    BY <1>1, <2>1, <2>2
  <2> HIDE DEF m
  <2> QED
    BY <2>2, <2>3, <2>4
<1>3. PICK type \in EventTypes :
        /\ type = "CONNECT_REQUEST" => m = "REQ"
        /\ type = "ESTABLISHED" => m = "RTU"
        /\ type = "DISCONNECTED" => m = "DREQ"
        /\ \/ /\ server # "stopped"
              /\ channel' = Append(channel, Event(type, c))
              /\ answer' = answer
           \/ /\ server = "stopped"
              /\ answer' \in [Clients -> {"none", "ESTABLISHED", "REJECTED"}]
              /\ channel' = channel
  <2>1. answer \in [Clients -> {"none", "ESTABLISHED", "REJECTED"}]
    BY DEF IInv, CmTypeOK
  <2>2. CASE m = "REQ"
    BY <2>1, <2>2 DEF CmArrives, EventTypes
  <2>3. CASE m = "RTU"
    BY <2>1, <2>3 DEF CmArrives, EventTypes
  <2>4. CASE m = "DREQ"
    BY <2>1, <2>4 DEF CmArrives, EventTypes
  <2> QED
    BY <1>2, <2>2, <2>3, <2>4 DEF Messages
<1> HIDE DEF m
<1>4. CmTypeOK'
  BY <1>1, <1>3 DEF IInv, CmTypeOK
<1>5. CASE server = "stopped"
  <2>1. channel' = channel
    BY <1>3, <1>5
  <2>2. QueuesOK'
    BY <1>1, <1>2, <2>1 DEF IInv, QueuesOK
  <2>3. Accepted'
    BY <1>1, <1>5, <2>1 DEF IInv, Accepted
  <2>4. ASSUME NEW d \in Clients PROVE Confirmed(d)'
    BY <1>1, <1>2, <2>1 DEF IInv, Confirmed, Served
  <2>5. ASSUME NEW d \in Clients PROVE AtClient(d)'
    BY <1>1 DEF IInv, AtClient, AwaitsFirst, AwaitsSecond, Answered, Acked
  <2> QED
    BY <1>4, <2>2, <2>3, <2>4, <2>5 DEF IInv
<1>6. CASE server # "stopped"
  <2>1. channel' = Append(channel, Event(type, c)) /\ answer' = answer
    BY <1>3, <1>6
  <2>2. /\ channel' \in Seq(Events)
        /\ \A e : Holds(channel', e) <=> Holds(channel, e) \/ e = Event(type, c)
        /\ \A e : Once(channel, e) /\ (e = Event(type, c) => ~Holds(channel, e))
                  => Once(channel', e)
    BY <2>1, HoldsAppend, EventFacts DEF IInv, QueuesOK
  <2>3. QueuesOK'
    BY <1>1, <1>2, <2>2 DEF IInv, QueuesOK
  <2>4. \A d \in Clients :
          /\ Holds(channel', Event("ESTABLISHED", d)) <=>
               \/ Holds(channel, Event("ESTABLISHED", d))
               \/ type = "ESTABLISHED" /\ d = c
          /\ Holds(channel', Event("DISCONNECTED", d)) <=>
               \/ Holds(channel, Event("DISCONNECTED", d))
               \/ type = "DISCONNECTED" /\ d = c
          /\ Once(channel, Event("ESTABLISHED", d)) =>
               \/ Once(channel', Event("ESTABLISHED", d))
               \/ type = "ESTABLISHED" /\ d = c /\ Holds(channel, Event("ESTABLISHED", d))
    BY <2>2, EventFacts DEF EventTypes
  <2>5. Accepted'
    BY <1>1, <1>2, <1>3, <1>6, <2>1, <2>4 DEF IInv, Accepted
  <2>6. ASSUME NEW d \in Clients PROVE Confirmed(d)'
    <3>1. Served(d)' <=> Served(d)
      BY <1>1 DEF Served
    <3>2. CASE type = "ESTABLISHED" /\ d = c
      <4>1. m = "RTU" /\ Holds(cm[c], "RTU") /\ ~Holds(cm'[c], "RTU")
        BY <1>2, <1>3, <3>2 DEF IInv, Confirmed
      <4> QED
        BY <1>1, <1>2, <2>4, <3>1, <3>2, <4>1 DEF IInv, Confirmed
    <3>3. CASE ~(type = "ESTABLISHED" /\ d = c)
      BY <1>1, <1>2, <2>4, <3>1, <3>3 DEF IInv, Confirmed
    <3> QED
      BY <3>2, <3>3
  <2>7. ASSUME NEW d \in Clients PROVE AtClient(d)'
    BY <1>1 DEF IInv, AtClient, AwaitsFirst, AwaitsSecond, Answered, Acked
  <2> QED
    BY <1>4, <2>3, <2>5, <2>6, <2>7 DEF IInv
<1> QED
  BY <1>5, <1>6

\* Message, reply and acknowledgements: the server's queue may grow and its
\* queue pair fail, and of the client c what is given here.
LEMMA FabricFrame ==
  ASSUME IInv, NEW c \in Clients,
         UNCHANGED <<server, conn, channel, ids, client, answer, cm>>,
         serverQp' \in [Clients -> {"none", "RTS", "ERR", "gone"}],
         serverCq' \in [Clients -> Seq(Kinds)],
         clientQp' \in [Clients -> {"none", "INIT", "RTS", "ERR", "gone"}],
         clientCq' \in [Clients -> Seq(Kinds)],
         ping' \in [Clients -> Progress],
         pong' \in [Clients -> Progress],
         \A d \in Clients \ {c} : /\ clientQp'[d] = clientQp[d] /\ clientCq'[d] = clientCq[d]
                                  /\ ping'[d] = ping[d] /\ pong'[d] = pong[d],
         pong[c] = "unsent" <=> pong'[c] = "unsent",
         AtClient(c)'
  PROVE  IInv'
<1>1. CmTypeOK' /\ QueuesOK'
  BY DEF IInv, CmTypeOK, QueuesOK
<1>2. Accepted'
  BY DEF IInv, Accepted
<1>3. ASSUME NEW d \in Clients PROVE Confirmed(d)'
  <2>1. pong[d] = "unsent" <=> pong'[d] = "unsent"
    OBVIOUS
  <2> QED
    BY <2>1 DEF IInv, Confirmed, Served
<1>4. ASSUME NEW d \in Clients PROVE AtClient(d)'
  <2>1. CASE d # c
    <3>1. /\ clientQp'[d] = clientQp[d] /\ clientCq'[d] = clientCq[d]
          /\ ping'[d] = ping[d] /\ pong'[d] = pong[d] /\ client'[d] = client[d]
      BY <2>1
    <3> QED
      BY <3>1 DEF IInv, AtClient, AwaitsFirst, AwaitsSecond, Answered, Acked
  <2> QED
    BY <2>1
<1> QED
  BY <1>1, <1>2, <1>3, <1>4 DEF IInv

\* Where a client with a queue pair in RTS is, and what its queue can be.
LEMMA AtRts ==
  ASSUME IInv, NEW c \in Clients, clientQp[c] = "RTS"
  PROVE  \/ client[c] = "pollFirst" /\ AwaitsFirst(c, clientCq[c])
         \/ client[c] = "pollSecond" /\ AwaitsSecond(c, clientCq[c])
BY DEF IInv, CmTypeOK, Early, Connected, AtClient

\* ... while the reply has not arrived ...
LEMMA Unanswered ==
  ASSUME IInv, NEW c \in Clients, clientQp[c] = "RTS", ~Answered(c)
  PROVE  \/ client[c] = "pollFirst" /\ clientCq[c] = <<>> /\ ~Acked(c)
         \/ client[c] = "pollFirst" /\ clientCq[c] = One("send") /\ Acked(c)
         \/ client[c] = "pollSecond" /\ clientCq[c] = <<>> /\ Acked(c)
<1>1. CASE client[c] = "pollFirst" /\ AwaitsFirst(c, clientCq[c])
  BY <1>1 DEF AwaitsFirst
<1>2. CASE client[c] = "pollSecond" /\ AwaitsSecond(c, clientCq[c])
  BY <1>2 DEF AwaitsSecond
<1> QED
  BY <1>1, <1>2, AtRts

\* ... and while the message has not been acknowledged.
LEMMA Unacknowledged ==
  ASSUME IInv, NEW c \in Clients, clientQp[c] = "RTS", ~Acked(c)
  PROVE  \/ client[c] = "pollFirst" /\ clientCq[c] = <<>> /\ ~Answered(c)
         \/ client[c] = "pollFirst" /\ clientCq[c] = One("recv") /\ Answered(c)
         \/ client[c] = "pollSecond" /\ clientCq[c] = <<>> /\ Answered(c)
<1>1. CASE client[c] = "pollFirst" /\ AwaitsFirst(c, clientCq[c])
  BY <1>1 DEF AwaitsFirst
<1>2. CASE client[c] = "pollSecond" /\ AwaitsSecond(c, clientCq[c])
  BY <1>2 DEF AwaitsSecond
<1> QED
  BY <1>1, <1>2, AtRts

\* The message arrives, or the reply is acknowledged.
LEMMA ServerSideStep ==
  ASSUME IInv, NEW c \in Clients, DeliverPing(c) \/ PongCompletes(c)
  PROVE  IInv'
<1>1. PICK k \in Kinds : serverCq' = [serverCq EXCEPT ![c] = Append(serverCq[c], k)]
  BY DEF DeliverPing, PongCompletes, Kinds
<1>2. /\ UNCHANGED <<server, conn, channel, ids, client, clientQp, clientCq, answer, cm>>
      /\ \/ serverQp' = serverQp
         \/ serverQp' = [serverQp EXCEPT ![c] = "ERR"]
      /\ \/ ping' = ping
         \/ ping[c] = "posted" /\ ping' = [ping EXCEPT ![c] = "delivered"]
      /\ \/ pong' = pong
         \/ pong[c] = "delivered" /\ pong' = [pong EXCEPT ![c] = "acked"]
  BY DEF DeliverPing, PongCompletes, clientVars
<1>3. serverCq' \in [Clients -> Seq(Kinds)]
  <2>1. Append(serverCq[c], k) \in Seq(Kinds)
    BY AppendProperties DEF IInv, QueuesOK
  <2> QED
    BY <1>1, <2>1 DEF IInv, QueuesOK
<1>4. /\ serverQp' \in [Clients -> {"none", "RTS", "ERR", "gone"}]
      /\ ping' \in [Clients -> Progress]
      /\ pong' \in [Clients -> Progress]
      /\ clientQp' \in [Clients -> {"none", "INIT", "RTS", "ERR", "gone"}]
      /\ clientCq' \in [Clients -> Seq(Kinds)]
  <2>1. serverQp' \in [Clients -> {"none", "RTS", "ERR", "gone"}]
    BY <1>2 DEF IInv, CmTypeOK
  <2>2. ping' \in [Clients -> Progress]
    BY <1>2 DEF IInv, CmTypeOK, Progress
  <2>3. pong' \in [Clients -> Progress]
    BY <1>2 DEF IInv, CmTypeOK, Progress
  <2>4. clientQp' \in [Clients -> {"none", "INIT", "RTS", "ERR", "gone"}]
    BY <1>2 DEF IInv, CmTypeOK
  <2>5. clientCq' \in [Clients -> Seq(Kinds)]
    BY <1>2 DEF IInv, QueuesOK
  <2> QED
    BY <2>1, <2>2, <2>3, <2>4, <2>5
<1>5. /\ \A d \in Clients \ {c} : ping'[d] = ping[d] /\ pong'[d] = pong[d]
      /\ pong[c] = "unsent" <=> pong'[c] = "unsent"
      /\ Answered(c)' <=> Answered(c)
      /\ Acked(c)' <=> Acked(c)
      /\ ping[c] = "unsent" => ping'[c] = "unsent"
  BY <1>2 DEF IInv, CmTypeOK, Answered, Acked
<1>6. AtClient(c)'
  BY <1>2, <1>5 DEF IInv, AtClient, AwaitsFirst, AwaitsSecond
<1> QED
  BY <1>2, <1>3, <1>4, <1>5, <1>6, FabricFrame

\* The reply arrives: it is the first, whatever else the queue holds.
LEMMA PongStep ==
  ASSUME IInv, NEW c \in Clients, DeliverPong(c)
  PROVE  IInv'
<1>1. /\ pong[c] = "posted" /\ clientQp[c] = "RTS"
      /\ pong' = [pong EXCEPT ![c] = "delivered"]
      /\ clientCq' = [clientCq EXCEPT ![c] = Append(clientCq[c], "recv")]
      /\ UNCHANGED <<server, conn, channel, ids, serverQp, serverCq, client, clientQp,
                     answer, cm, ping>>
  BY DEF DeliverPong, serverVars
<1>2. /\ clientCq'[c] = Append(clientCq[c], "recv") /\ pong'[c] = "delivered"
      /\ clientCq' \in [Clients -> Seq(Kinds)] /\ pong' \in [Clients -> Progress]
      /\ \A d \in Clients \ {c} : clientCq'[d] = clientCq[d] /\ pong'[d] = pong[d]
  <2>1. Append(clientCq[c], "recv") \in Seq(Kinds)
    BY AppendProperties DEF IInv, QueuesOK, Kinds
  <2> QED
    BY <1>1, <2>1 DEF IInv, CmTypeOK, QueuesOK, Progress
<1>3. ~Answered(c) /\ Answered(c)' /\ (Acked(c)' <=> Acked(c))
  BY <1>1, <1>2 DEF Answered, Acked
<1>4. AtClient(c)'
  <2>1. \/ client'[c] = "pollFirst" /\ AwaitsFirst(c, clientCq[c])'
        \/ client'[c] = "pollSecond" /\ AwaitsSecond(c, clientCq[c])'
    <3>1. clientQp'[c] = "RTS" /\ client'[c] = client[c]
      BY <1>1
    <3>2. CASE client[c] = "pollFirst" /\ clientCq[c] = <<>> /\ ~Acked(c)
      <4>1. clientCq'[c] = One("recv")
        BY <1>2, <3>2, Queues
      <4>2. AwaitsFirst(c, clientCq[c])'
        BY <1>3, <3>1, <3>2, <4>1 DEF AwaitsFirst
      <4> QED
        BY <3>1, <3>2, <4>2
    <3>3. CASE client[c] = "pollFirst" /\ clientCq[c] = One("send") /\ Acked(c)
      <4>1. clientCq'[c] = Two("send", "recv")
        BY <1>2, <3>3, Queues
      <4>2. AwaitsFirst(c, clientCq[c])'
        BY <1>3, <3>3, <4>1 DEF AwaitsFirst
      <4> QED
        BY <3>1, <3>3, <4>2
    <3>4. CASE client[c] = "pollSecond" /\ clientCq[c] = <<>> /\ Acked(c)
      <4>1. clientCq'[c] = One("recv")
        BY <1>2, <3>4, Queues
      <4>2. AwaitsSecond(c, clientCq[c])'
        BY <1>3, <3>4, <4>1 DEF AwaitsSecond
      <4> QED
        BY <3>1, <3>4, <4>2
    <3> QED
      BY <1>1, <1>3, <3>2, <3>3, <3>4, Unanswered
  <2> QED
    BY <1>1, <2>1 DEF AtClient, Early
<1> QED
  BY <1>1, <1>2, <1>4, FabricFrame DEF IInv, CmTypeOK, QueuesOK

\* The message is acknowledged, or given up.
LEMMA PingEndStep ==
  ASSUME IInv, NEW c \in Clients, PingCompletes(c)
  PROVE  IInv'
<1>1. /\ clientQp[c] = "RTS"
      /\ \/ /\ ping[c] = "delivered"
            /\ ping' = [ping EXCEPT ![c] = "acked"]
            /\ clientCq' = [clientCq EXCEPT ![c] = Append(clientCq[c], "send")]
            /\ clientQp' = clientQp
         \/ /\ ping[c] \in {"posted", "delivered"}
            /\ clientQp' = [clientQp EXCEPT ![c] = "ERR"]
            /\ clientCq' = [clientCq EXCEPT ![c] = Append(clientCq[c], "error")]
            /\ ping' = ping
      /\ UNCHANGED <<server, conn, channel, ids, serverQp, serverCq, client, answer, cm, pong>>
  BY DEF PingCompletes, serverVars
<1>2. /\ clientCq' \in [Clients -> Seq(Kinds)] /\ ping' \in [Clients -> Progress]
      /\ clientQp' \in [Clients -> {"none", "INIT", "RTS", "ERR", "gone"}]
      /\ \A d \in Clients \ {c} : /\ clientCq'[d] = clientCq[d] /\ ping'[d] = ping[d]
                                  /\ clientQp'[d] = clientQp[d]
      /\ \/ /\ ping'[c] = "acked" /\ clientQp'[c] = "RTS"
            /\ clientCq'[c] = Append(clientCq[c], "send")
         \/ /\ ping'[c] = ping[c] /\ clientQp'[c] = "ERR"
            /\ clientCq'[c] = Append(clientCq[c], "error")
  <2>1. Append(clientCq[c], "send") \in Seq(Kinds) /\ Append(clientCq[c], "error") \in Seq(Kinds)
    BY AppendProperties DEF IInv, QueuesOK, Kinds
  <2>2. /\ clientCq \in [Clients -> Seq(Kinds)] /\ ping \in [Clients -> Progress]
        /\ clientQp \in [Clients -> {"none", "INIT", "RTS", "ERR", "gone"}]
    BY DEF IInv, CmTypeOK, QueuesOK
  <2>3. clientCq' \in [Clients -> Seq(Kinds)]
    BY <1>1, <2>1, <2>2
  <2>4. /\ ping' \in [Clients -> Progress]
        /\ clientQp' \in [Clients -> {"none", "INIT", "RTS", "ERR", "gone"}]
    BY <1>1, <2>2 DEF Progress
  <2>5. \A d \in Clients \ {c} : /\ clientCq'[d] = clientCq[d] /\ ping'[d] = ping[d]
                                 /\ clientQp'[d] = clientQp[d]
    BY <1>1, <2>2
  <2> QED
    BY <1>1, <2>2, <2>3, <2>4, <2>5
<1>3. ~Acked(c) /\ (Answered(c)' <=> Answered(c))
  BY <1>1 DEF Answered, Acked
<1>4. AtClient(c)'
  <2>1. \/ client'[c] = "pollFirst" /\ AwaitsFirst(c, clientCq[c])'
        \/ client'[c] = "pollSecond" /\ AwaitsSecond(c, clientCq[c])'
    <3>1. client'[c] = client[c]
      BY <1>1
    <3>2. CASE ping'[c] = "acked" /\ clientQp'[c] = "RTS"
               /\ clientCq'[c] = Append(clientCq[c], "send")
      <4>1. Acked(c)'
        BY <3>2 DEF Acked
      <4>2. CASE client[c] = "pollFirst" /\ clientCq[c] = <<>> /\ ~Answered(c)
        <5>1. clientCq'[c] = One("send")
          BY <3>2, <4>2, Queues
        <5>2. AwaitsFirst(c, clientCq[c])'
          BY <1>3, <3>2, <4>1, <4>2, <5>1 DEF AwaitsFirst
        <5> QED
          BY <3>1, <4>2, <5>2
      <4>3. CASE client[c] = "pollFirst" /\ clientCq[c] = One("recv") /\ Answered(c)
        <5>1. clientCq'[c] = Two("recv", "send")
          BY <3>2, <4>3, Queues
        <5>2. AwaitsFirst(c, clientCq[c])'
          BY <1>3, <4>1, <4>3, <5>1 DEF AwaitsFirst
        <5> QED
          BY <3>1, <4>3, <5>2
      <4>4. CASE client[c] = "pollSecond" /\ clientCq[c] = <<>> /\ Answered(c)
        <5>1. clientCq'[c] = One("send")
          BY <3>2, <4>4, Queues
        <5>2. AwaitsSecond(c, clientCq[c])'
          BY <1>3, <4>1, <4>4, <5>1 DEF AwaitsSecond
        <5> QED
          BY <3>1, <4>4, <5>2
      <4> QED
        BY <1>1, <1>3, <4>2, <4>3, <4>4, Unacknowledged
    <3>3. CASE clientQp'[c] = "ERR" /\ clientCq'[c] = Append(clientCq[c], "error")
      <4>1. CASE client[c] = "pollFirst" /\ clientCq[c] \in {<<>>, One("recv")}
        <5>1. clientCq'[c] \in {One("error"), Two("recv", "error")}
          BY <3>3, <4>1, Queues
        <5>2. AwaitsFirst(c, clientCq[c])'
          BY <3>3, <5>1 DEF AwaitsFirst
        <5> QED
          BY <3>1, <4>1, <5>2
      <4>2. CASE client[c] = "pollSecond" /\ clientCq[c] = <<>>
        <5>1. clientCq'[c] = One("error")
          BY <3>3, <4>2, Queues
        <5>2. AwaitsSecond(c, clientCq[c])'
          BY <3>3, <5>1 DEF AwaitsSecond
        <5> QED
          BY <3>1, <4>2, <5>2
      <4> QED
        BY <1>1, <1>3, <4>1, <4>2, Unacknowledged
    <3> QED
      BY <1>2, <3>2, <3>3
  <2> QED
    BY <1>1, <2>1 DEF AtClient, Early
<1> QED
  BY <1>1, <1>2, <1>4, FabricFrame DEF IInv, CmTypeOK, QueuesOK

----------------------------------------------------------------------------
(* The invariant and the properties of the run.                            *)

\* Every step preserves the inductive invariant.
LEMMA NextIInv == IInv /\ [Next]_vars => IInv'
<1> SUFFICES ASSUME IInv, [Next]_vars PROVE IInv'
  OBVIOUS
<1>1. CASE Next
  BY <1>1, ClientSteps, ServerSteps, ArriveStep, ServerSideStep, PongStep, PingEndStep
     DEF Next, Fabric, ClientStep, ServerStep
<1>2. CASE UNCHANGED vars
  BY <1>2 DEF vars, IInv, CmTypeOK, QueuesOK, Accepted, Confirmed, Served, AtClient,
     AwaitsFirst, AwaitsSecond, Answered, Acked
<1> QED
  BY <1>1, <1>2

\* The inductive invariant holds in every state of the programs.
THEOREM Inductive == Spec => []IInv
BY InitIInv, NextIInv, PTL DEF Spec

\* EventsNameLiveIds: every event but a request that is still in the channel
\* names a connection whose id exists.
THEOREM LiveIds == Spec => []EventsNameLiveIds
<1>1. IInv => EventsNameLiveIds
  <2> SUFFICES ASSUME IInv, NEW i \in 1 .. Len(channel), channel[i].type # "CONNECT_REQUEST"
               PROVE  channel[i].c \in ids
    BY DEF EventsNameLiveIds
  <2>1. PICK t \in EventTypes, c \in Clients : channel[i] = Event(t, c)
    <3>1. channel[i] \in Events
      BY DEF IInv, QueuesOK
    <3> QED
      BY <3>1 DEF Events, Event
  <2>2. t \in {"ESTABLISHED", "DISCONNECTED"} /\ channel[i].c = c
    BY <2>1, EventFacts DEF EventTypes
  <2>3. Holds(channel, Event(t, c))
    BY <2>1 DEF Holds
  <2>4. server # "stopped"
    BY <2>3, HoldsNothing DEF IInv, Accepted
  <2> QED
    BY <2>2, <2>3, <2>4 DEF IInv, Accepted
<1> QED
  BY <1>1, Inductive, PTL

\* DisconnectsWhenAnswered: the two completions a client waits for are the one
\* of its message and the one of the reply, in either order.
THEOREM AnsweredFirst == Spec => []DisconnectsWhenAnswered
<1>1. IInv => DisconnectsWhenAnswered
  BY DEF IInv, AtClient, Answered, Acked, DisconnectsWhenAnswered
<1> QED
  BY <1>1, Inductive, PTL

----------------------------------------------------------------------------
(* What the service needs of the state besides: requests and messages.     *)

\* What a step of a client does: but for its request it tells no more than that
\* it confirms or leaves.
LEMMA ClientEffect ==
  ASSUME IInv, NEW c \in Clients, ClientStep(c)
  PROVE  /\ UNCHANGED <<server, conn, channel, ids, serverQp, serverCq, answer, pong>>
         /\ \A d \in Clients \ {c} : client'[d] = client[d] /\ ping'[d] = ping[d]
         /\ client'[c] \in {"resolveAddr", "resolveRoute"} => client[c] = "resolveAddr"
         /\ \/ ping'[c] = ping[c]
            \/ ping[c] = "unsent" /\ ping'[c] = "posted"
         /\ \/ cm' = cm
            \/ Tell(c, "RTU")
            \/ Tell(c, "DREQ")
            \/ ToldBoth(c)
            \/ /\ Tell(c, "REQ")
               /\ client[c] = "resolveRoute" /\ client'[c] = "connecting"
<1> DEFINE Effect(place, m) ==
             /\ client' = [client EXCEPT ![c] = place]
             /\ ping' = ping
             /\ IF m = "" THEN cm' = cm ELSE Tell(c, m)
             /\ UNCHANGED <<server, conn, channel, ids, serverQp, serverCq, answer, pong>>
<1>1. /\ client \in [Clients -> Early \cup Connected \cup {"stopped"}]
      /\ ping \in [Clients -> Progress]
  BY DEF IInv, CmTypeOK
<1>2. CASE OnRouteResolved(c)
  BY <1>1, <1>2 DEF OnRouteResolved, serverVars
<1>3. CASE OnClientEstablished(c)
  <2>1. ping[c] = "unsent"
    BY <1>3 DEF OnClientEstablished, IInv, AtClient, Early
  <2> QED
    BY <1>1, <1>3, <2>1 DEF OnClientEstablished, serverVars
<1>4. CASE OnAddrResolved(c)
  BY <1>1, <1>4 DEF OnAddrResolved, serverVars
<1>5. CASE ResolveFails(c) \/ OnRejected(c) \/ OnUnreachable(c) \/ OnClientDisconnected(c)
  <2>1. Effect("stopped", "")
    BY <1>5 DEF ResolveFails, OnRejected, OnUnreachable, OnClientDisconnected, serverVars
  <2> QED
    BY <1>1, <2>1
<1>6. CASE ClientDies(c) \/ ClientPoll(c)
  <2>1. PICK place \in {"stopped", "pollSecond", "disconnecting"} :
          Effect(place, "") \/ Effect(place, "DREQ")
    <3>1. CASE ClientDies(c)
      BY <3>1 DEF ClientDies, serverVars
    <3>2. CASE ClientPoll(c)
      BY <3>2 DEF ClientPoll, serverVars
    <3> QED
      BY <1>6, <3>1, <3>2
  <2> QED
    BY <1>1, <2>1
<1>7. CASE ClientPostFails(c)
  BY <1>1, <1>7 DEF ClientPostFails, ToldBoth, serverVars
<1> QED
  BY <1>2, <1>3, <1>4, <1>5, <1>6, <1>7 DEF ClientStep, Client

\* A client that does not ask, and is not answered.
LEMMA StillRequested ==
  ASSUME NEW c \in Clients, Requested(c),
         client'[c] \in {"resolveAddr", "resolveRoute"} =>
           client[c] \in {"resolveAddr", "resolveRoute"},
         Holds(cm'[c], "REQ") => Holds(cm[c], "REQ"),
         Once(cm[c], "REQ") => Once(cm'[c], "REQ"),
         Holds(channel', Event("CONNECT_REQUEST", c)) =>
           Holds(channel, Event("CONNECT_REQUEST", c)),
         Once(channel, Event("CONNECT_REQUEST", c)) =>
           Once(channel', Event("CONNECT_REQUEST", c)),
         answer'[c] = answer[c]
  PROVE  Requested(c)'
BY DEF Requested

\* The requests of the clients, as a client goes on ...
LEMMA RequestedAtClient ==
  ASSUME IInv, NEW c \in Clients, ClientStep(c),
         NEW d \in Clients, Requested(d)
  PROVE  Requested(d)'
<1>1. UNCHANGED <<channel, answer>>
  BY ClientEffect
<1>2. client'[d] \in {"resolveAddr", "resolveRoute"} =>
        client[d] \in {"resolveAddr", "resolveRoute"}
  BY ClientEffect
<1>3. CASE d = c /\ Tell(c, "REQ") /\ client[c] = "resolveRoute" /\ client'[c] = "connecting"
  <2>1. Once(cm'[c], "REQ")
    BY <1>3, Told DEF IInv, Messages, Requested
  <2> QED
    BY <1>1, <1>3, <2>1 DEF Requested
<1>4. CASE /\ Holds(cm'[d], "REQ") => Holds(cm[d], "REQ")
           /\ Once(cm[d], "REQ") => Once(cm'[d], "REQ")
  BY <1>1, <1>2, <1>4, StillRequested
<1>5. ASSUME NEW m \in Messages, Tell(c, m), m # "REQ" \/ d # c
      PROVE  /\ Holds(cm'[d], "REQ") => Holds(cm[d], "REQ")
             /\ Once(cm[d], "REQ") => Once(cm'[d], "REQ")
  BY <1>5, Told DEF IInv, Messages
<1>6. ASSUME ToldBoth(c)
      PROVE  /\ Holds(cm'[d], "REQ") => Holds(cm[d], "REQ")
             /\ Once(cm[d], "REQ") => Once(cm'[d], "REQ")
  BY <1>6, ToldTwice DEF IInv, Messages
<1> QED
  BY <1>3, <1>4, <1>5, <1>6, ClientEffect DEF Messages

\* ... as the server accepts one ...
LEMMA RequestedAtAccept ==
  ASSUME IInv, NEW c \in Clients, OnConnectRequest(c), NEW d \in Clients, Requested(d)
  PROVE  Requested(d)'
<1>1. /\ Fetch("CONNECT_REQUEST", c) /\ client[c] = "connecting"
      /\ channel' = Tail(channel)
      /\ answer' = [answer EXCEPT ![c] = "ESTABLISHED"]
      /\ UNCHANGED <<client, cm>>
  BY DEF OnConnectRequest, clientVars
<1>2. /\ Holds(channel, Event("CONNECT_REQUEST", c))
      /\ \A e : Holds(channel', e) => Holds(channel, e)
      /\ \A e : Once(channel, e) => Once(channel', e)
      /\ Once(channel, Event("CONNECT_REQUEST", c)) =>
           ~Holds(channel', Event("CONNECT_REQUEST", c))
  BY <1>1, Fetched DEF IInv, EventTypes
<1>3. \A k \in Clients \ {c} : answer'[k] = answer[k]
  BY <1>1 DEF IInv, CmTypeOK
<1>4. CASE d # c
  BY <1>1, <1>2, <1>3, <1>4, StillRequested
<1>5. CASE d = c
  BY <1>1, <1>2, <1>5 DEF Requested
<1> QED
  BY <1>4, <1>5

\* ... as it stops, and rejects the requests it has not fetched ...
LEMMA RequestedAtStop ==
  ASSUME IInv, Stop, UNCHANGED <<client, cm>>, NEW d \in Clients, Requested(d)
  PROVE  Requested(d)'
<1>1. channel' = <<>> /\ ~Holds(channel', Event("CONNECT_REQUEST", d))
      /\ Once(channel', Event("CONNECT_REQUEST", d))
  BY HoldsNothing DEF Stop
<1>2. answer'[d] = answer[d] \/ Holds(channel, Event("CONNECT_REQUEST", d))
  <2>1. CASE d \in Unfetched
    <3>1. PICK i \in 1 .. Len(channel) :
            channel[i].type = "CONNECT_REQUEST" /\ channel[i].c = d
      BY <2>1 DEF Unfetched
    <3>2. channel[i] \in Events
      BY DEF IInv, QueuesOK
    <3>3. channel[i] = Event("CONNECT_REQUEST", d)
      BY <3>1, <3>2 DEF Events, Event
    <3> QED
      BY <3>3 DEF Holds
  <2>2. CASE d \notin Unfetched
    BY <2>2 DEF Stop
  <2> QED
    BY <2>1, <2>2
<1>3. CASE answer'[d] = answer[d]
  BY <1>1, <1>3, StillRequested
<1>4. CASE Holds(channel, Event("CONNECT_REQUEST", d))
  <2>1. ~Holds(cm[d], "REQ") /\ client[d] \notin {"resolveAddr", "resolveRoute"}
    BY <1>4 DEF Requested
  <2> QED
    BY <1>1, <2>1 DEF Requested
<1> QED
  BY <1>2, <1>3, <1>4

\* ... and as a message arrives.
LEMMA RequestedAtArrival ==
  ASSUME IInv, NEW c \in Clients, CmArrives(c), NEW d \in Clients, Requested(d)
  PROVE  Requested(d)'
<1> DEFINE m == Head(cm[c])
           request == Event("CONNECT_REQUEST", d)
<1>1. /\ cm[c] # <<>> /\ client' = client
      /\ cm' = [cm EXCEPT ![c] = Tail(cm[c])]
  BY DEF CmArrives, clientVars
<1>2. /\ m \in Messages
      /\ Holds(cm'[d], "REQ") => Holds(cm[d], "REQ")
      /\ Once(cm[d], "REQ") => Once(cm'[d], "REQ")
      /\ d = c /\ m = "REQ" => /\ Holds(cm[d], "REQ")
                               /\ Once(cm[d], "REQ") => ~Holds(cm'[d], "REQ")
  <2>1. cm[c] \in Seq(Messages) /\ cm \in [Clients -> Seq(Messages)]
    BY DEF IInv, QueuesOK
  <2>2. /\ m \in Messages
        /\ Holds(cm[c], m)
        /\ Holds(Tail(cm[c]), "REQ") => Holds(cm[c], "REQ")
        /\ Once(cm[c], "REQ") => Once(Tail(cm[c]), "REQ")
        /\ Once(cm[c], "REQ") /\ m = "REQ" => ~Holds(Tail(cm[c]), "REQ")
    BY <1>1, <2>1, HoldsTail
  <2>3. cm'[c] = Tail(cm[c]) /\ \A k \in Clients \ {c} : cm'[k] = cm[k]
    BY <1>1, <2>1
  <2> HIDE DEF m
  <2> QED
    BY <2>2, <2>3
<1>3. CASE d = c /\ m = "REQ"
  <2>1. /\ answer[d] = "none" /\ ~Holds(channel, request)
        /\ client[d] \notin {"resolveAddr", "resolveRoute"}
        /\ Once(channel, request)
        /\ ~Holds(cm'[d], "REQ") /\ Once(cm'[d], "REQ")
    BY <1>2, <1>3 DEF Requested
  <2>2. CASE server # "stopped"
    <3>1. channel' = Append(channel, request) /\ answer' = answer
      BY <1>3, <2>2 DEF CmArrives
    <3>2. Once(channel', request)
      BY <2>1, <3>1, HoldsAppend, EventFacts DEF IInv, QueuesOK, EventTypes
    <3> QED
      BY <1>1, <2>1, <3>1, <3>2 DEF Requested
  <2>3. CASE server = "stopped"
    <3>1. channel' = channel
      BY <2>3 DEF CmArrives
    <3> QED
      BY <1>1, <2>1, <3>1 DEF Requested
  <2> QED
    BY <2>2, <2>3
<1>4. CASE ~(d = c /\ m = "REQ")
  <2>1. answer'[d] = answer[d]
    <3>1. answer \in [Clients -> {"none", "ESTABLISHED", "REJECTED"}]
      BY DEF IInv, CmTypeOK
    <3> QED
      BY <1>4, <3>1 DEF CmArrives
  <2>2. /\ Holds(channel', request) => Holds(channel, request)
        /\ Once(channel, request) => Once(channel', request)
    <3>1. CASE channel' = channel
      BY <3>1
    <3>2. ASSUME server # "stopped"
          PROVE  \E t \in EventTypes : /\ channel' = Append(channel, Event(t, c))
                                       /\ t # "CONNECT_REQUEST" \/ d # c
      BY <1>2, <1>4, <3>2 DEF CmArrives, EventTypes, Messages
    <3>3. ASSUME NEW t \in EventTypes, channel' = Append(channel, Event(t, c)),
                 t # "CONNECT_REQUEST" \/ d # c
          PROVE  /\ Holds(channel', request) => Holds(channel, request)
                 /\ Once(channel, request) => Once(channel', request)
      <4>1. request # Event(t, c) /\ Event(t, c) \in Events
        BY <3>3, EventFacts DEF EventTypes
      <4> HIDE DEF request
      <4> QED
        BY <3>3, <4>1, HoldsAppend DEF IInv, QueuesOK
    <3>4. server = "stopped" => channel' = channel
      BY DEF CmArrives
    <3> QED
      BY <3>1, <3>2, <3>3, <3>4
  <2> QED
    BY <1>1, <1>2, <2>1, <2>2, StillRequested
<1> QED
  BY <1>3, <1>4

\* What a step of the server does to connections and messages: it goes on, or
\* replies to a connection that has a completion, or stops.
LEMMA ServerEffect ==
  ASSUME IInv, ServerStep
  PROVE  /\ UNCHANGED <<client, cm, ping>>
         /\ server # "stopped"
         /\ \A d \in Clients : serverCq'[d] = serverCq[d] \/ serverCq[d] # <<>>
         /\ \/ \E c \in Clients : /\ OnConnectRequest(c)
                                  /\ UNCHANGED <<server, pong>>
            \/ /\ Stop /\ pong' = pong
            \/ \E c \in Clients : /\ OnServerEstablished(c)
                                  /\ server' # "stopped"
                                  /\ UNCHANGED <<serverQp, answer, pong>>
            \/ /\ ServerPollSend
               /\ server' # "stopped"
               /\ UNCHANGED <<channel, serverQp, answer, pong>>
            \/ /\ ServerPollRecv
               /\ server' # "stopped"
               /\ UNCHANGED <<channel, serverQp, answer>>
               /\ conn \in Clients /\ serverCq[conn] # <<>> /\ pong[conn] = "unsent"
               /\ pong' = [pong EXCEPT ![conn] = "posted"]
<1>1. CASE \E c \in Clients : OnConnectRequest(c)
  BY <1>1 DEF OnConnectRequest, Fetch, clientVars
<1>2. CASE \E c \in Clients : ConnectRequestFails(c) \/ OnServerDisconnected(c)
  BY <1>2 DEF ConnectRequestFails, OnServerDisconnected, StopAfter, Fetch, clientVars
<1>3. CASE \E c \in Clients : OnServerEstablished(c)
  BY <1>3 DEF OnServerEstablished, Fetch, clientVars
<1>4. ASSUME NEW place \in Polling, Completion(place)
      PROVE  /\ server = place /\ conn \in Clients /\ serverCq[conn] # <<>>
             /\ \A d \in Clients : serverCq'[d] = serverCq[d] \/ serverCq[d] # <<>>
  BY <1>4 DEF Completion, IInv, CmTypeOK, QueuesOK
<1>5. CASE ServerPollFails
  BY <1>4, <1>5 DEF ServerPollFails, GiveUp, clientVars, Polling
<1>6. CASE ServerPollSend
  BY <1>4, <1>6 DEF ServerPollSend, clientVars, Polling
<1>7. CASE ServerPollRecv
  <2>1. Completion("pollRecv")
    BY <1>7 DEF ServerPollRecv
  <2>2. /\ server = "pollRecv" /\ conn \in Clients /\ serverCq[conn] # <<>>
        /\ \A d \in Clients : serverCq'[d] = serverCq[d] \/ serverCq[d] # <<>>
    BY <1>4, <2>1 DEF Polling
  <2>3. pong[conn] = "unsent"
    BY <2>2 DEF IInv, Confirmed
  <2> QED
    BY <1>7, <2>2, <2>3 DEF ServerPollRecv, Reply, clientVars
<1>8. CASE OnUnexpected
  BY <1>8 DEF OnUnexpected, GiveUp, clientVars
<1> QED
  BY <1>1, <1>2, <1>3, <1>5, <1>6, <1>7, <1>8 DEF ServerStep, Server

\* Nothing is polled or replied before the message is there, and nothing is
\* left of the queue pairs when the server stops.
LEMMA AttendedStep ==
  ASSUME IInv, Next, NEW d \in Clients, Attended(d)
  PROVE  Attended(d)'
<1>1. ASSUME UNCHANGED <<server, serverQp, serverCq, pong>>,
             ping'[d] = ping[d] \/ ping[d] = "unsent" \/ ping'[d] \in {"delivered", "acked"}
      PROVE  Attended(d)'
  BY <1>1 DEF Attended
<1>2. ASSUME NEW c \in Clients, ClientStep(c)
      PROVE  Attended(d)'
  BY <1>1, <1>2, ClientEffect
<1>3. CASE ServerStep
  <2>1. UNCHANGED ping /\ server # "stopped"
        /\ (serverCq'[d] # <<>> => serverCq[d] # <<>>)
    BY <1>3, ServerEffect
  <2>2. CASE \E c \in Clients : OnConnectRequest(c) /\ UNCHANGED <<server, pong>>
    BY <2>1, <2>2 DEF Attended
  <2>3. CASE Stop /\ pong' = pong
    BY <2>1, <2>3 DEF Attended, Stop
  <2>4. CASE server' # "stopped" /\ UNCHANGED pong
    BY <2>1, <2>4 DEF Attended
  <2>5. CASE /\ server' # "stopped"
             /\ conn \in Clients /\ serverCq[conn] # <<>>
             /\ pong' = [pong EXCEPT ![conn] = "posted"]
    <3>1. d = conn \/ pong'[d] = pong[d]
      BY <2>5 DEF IInv, CmTypeOK
    <3> QED
      BY <2>1, <2>5, <3>1 DEF Attended
  <2> QED
    BY <1>3, <2>2, <2>3, <2>4, <2>5, ServerEffect
<1>4. ASSUME NEW c \in Clients, Fabric(c)
      PROVE  Attended(d)'
  <2>1. CASE CmArrives(c)
    BY <1>1, <2>1 DEF CmArrives, serverVars
  <2>2. CASE DeliverPing(c)
    <3>1. /\ ping' = [ping EXCEPT ![c] = "delivered"]
          /\ serverCq' = [serverCq EXCEPT ![c] = Append(serverCq[c], "recv")]
          /\ UNCHANGED <<server, serverQp, pong>>
      BY <2>2 DEF DeliverPing
    <3>2. \/ d = c /\ ping'[d] = "delivered"
          \/ ping'[d] = ping[d] /\ serverCq'[d] = serverCq[d]
      BY <3>1 DEF IInv, CmTypeOK, QueuesOK
    <3> QED
      BY <3>1, <3>2 DEF Attended
  <2>3. CASE DeliverPong(c)
    <3>1. /\ pong[c] = "posted" /\ pong' = [pong EXCEPT ![c] = "delivered"]
          /\ UNCHANGED <<server, serverQp, serverCq, ping>>
      BY <2>3 DEF DeliverPong, serverVars
    <3>2. pong'[d] = pong[d] \/ pong[d] = "posted"
      BY <3>1 DEF IInv, CmTypeOK
    <3> QED
      BY <3>1, <3>2 DEF Attended
  <2>4. CASE PingCompletes(c)
    <3>1. /\ UNCHANGED <<server, serverQp, serverCq, pong>>
          /\ ping' = ping \/ ping' = [ping EXCEPT ![c] = "acked"]
      BY <2>4 DEF PingCompletes, serverVars
    <3>2. ping'[d] = ping[d] \/ ping'[d] = "acked"
      BY <3>1 DEF IInv, CmTypeOK
    <3> QED
      BY <1>1, <3>1, <3>2
  <2>5. CASE PongCompletes(c)
    <3>1. /\ pong[c] \in {"posted", "delivered"}
          /\ pong' = pong \/ pong' = [pong EXCEPT ![c] = "acked"]
          /\ serverQp' = serverQp \/ serverQp' = [serverQp EXCEPT ![c] = "ERR"]
          /\ \/ serverCq' = [serverCq EXCEPT ![c] = Append(serverCq[c], "send")]
             \/ serverCq' = [serverCq EXCEPT ![c] = Append(serverCq[c], "error")]
          /\ UNCHANGED <<server, ping>>
      BY <2>5 DEF PongCompletes
    <3>2. /\ d # c => serverCq'[d] = serverCq[d] /\ pong'[d] = pong[d]
          /\ serverQp'[d] = serverQp[d] \/ serverQp'[d] = "ERR"
      BY <3>1 DEF IInv, CmTypeOK, QueuesOK
    <3> QED
      BY <3>1, <3>2 DEF Attended
  <2> QED
    BY <1>4, <2>1, <2>2, <2>3, <2>4, <2>5 DEF Fabric
<1> QED
  BY <1>2, <1>3, <1>4 DEF Next, ClientStep, ServerStep

\* Every step preserves the invariant with these two.
LEMMA NextServiceInv == ServiceInv /\ [Next]_vars => ServiceInv'
<1> SUFFICES ASSUME ServiceInv, [Next]_vars PROVE ServiceInv'
  OBVIOUS
<1>1. IInv /\ IInv'
  BY NextIInv DEF ServiceInv
<1>2. ASSUME NEW d \in Clients PROVE Requested(d)' /\ Attended(d)'
  <2>0. Requested(d) /\ Attended(d)
    BY DEF ServiceInv
  <2>1. CASE UNCHANGED vars
    BY <2>0, <2>1 DEF vars, Requested, Attended
  <2>2. ASSUME Next PROVE Attended(d)'
    BY <1>1, <2>0, <2>2, AttendedStep
  <2>3. ASSUME NEW c \in Clients, ClientStep(c)
        PROVE  Requested(d)'
    BY <1>1, <2>0, <2>3, RequestedAtClient
  <2>4. ASSUME ServerStep PROVE Requested(d)'
    <3>1. CASE Stop
      BY <1>1, <2>0, <2>4, <3>1, ServerEffect, RequestedAtStop
    <3>2. CASE \E c \in Clients : OnConnectRequest(c)
      BY <1>1, <2>0, <3>2, RequestedAtAccept
    <3>3. CASE \E c \in Clients : OnServerEstablished(c) /\ UNCHANGED answer
      <4>1. PICK c \in Clients : OnServerEstablished(c) /\ UNCHANGED answer
        BY <3>3
      <4>2. /\ Fetch("ESTABLISHED", c) /\ channel' = Tail(channel)
            /\ UNCHANGED <<client, cm, answer>>
        BY <4>1 DEF OnServerEstablished, clientVars
      <4>3. /\ \A e : Holds(channel', e) => Holds(channel, e)
            /\ \A e : Once(channel, e) => Once(channel', e)
        BY <1>1, <4>2, Fetched DEF IInv, EventTypes
      <4> QED
        BY <2>0, <4>2, <4>3, StillRequested
    <3>4. CASE UNCHANGED <<channel, answer>>
      <4>1. UNCHANGED <<client, cm>>
        BY <1>1, <2>4, ServerEffect
      <4> QED
        BY <2>0, <3>4, <4>1, StillRequested
    <3> QED
      BY <1>1, <2>4, <3>1, <3>2, <3>3, <3>4, ServerEffect
  <2>5. ASSUME NEW c \in Clients, Fabric(c)
        PROVE  Requested(d)'
    <3>1. CASE CmArrives(c)
      BY <1>1, <2>0, <3>1, RequestedAtArrival
    <3>2. CASE ~CmArrives(c)
      <4>1. UNCHANGED <<channel, client, answer, cm>>
        BY <2>5, <3>2
           DEF Fabric, DeliverPing, PingCompletes, DeliverPong, PongCompletes, clientVars
      <4> QED
        BY <2>0, <4>1, StillRequested
    <3> QED
      BY <3>1, <3>2
  <2> QED
    BY <2>1, <2>2, <2>3, <2>4, <2>5 DEF Next, ClientStep, ServerStep
<1> QED
  BY <1>1, <1>2 DEF ServiceInv

----------------------------------------------------------------------------
(* The refinement.                                                         *)

\* A function of the clients of which the part of one changes.
LEMMA OnePart ==
  ASSUME NEW c \in Clients, NEW f \in [Clients -> Progress], NEW x \in Progress,
         NEW g, g = [f EXCEPT ![c] = x]
  PROVE  /\ [d \in Clients |-> Heard(g[d])]
              = [[d \in Clients |-> Heard(f[d])] EXCEPT ![c] = Heard(x)]
         /\ [d \in Clients |-> Heard(f[d])][c] = Heard(f[c])
OBVIOUS

LEMMA OnePlace ==
  ASSUME NEW c \in Clients, \A d \in Clients \ {c} : client'[d] = client[d]
  PROVE  /\ [d \in Clients |-> Place(d)]'
              = [[d \in Clients |-> Place(d)] EXCEPT ![c] = Place(c)']
         /\ [d \in Clients |-> Place(d)][c] = Place(c)
BY DEF Place

\* What it takes for a step to stutter: only answers that are not acceptances
\* may change, and no progress but of acknowledgements.
LEMMA Stutters ==
  ASSUME server' = "stopped" <=> server = "stopped",
         \A d \in Clients : /\ Place(d)' = Place(d)
                            /\ answer'[d] = "ESTABLISHED" <=> answer[d] = "ESTABLISHED"
                            /\ Heard(ping'[d]) = Heard(ping[d])
                            /\ Heard(pong'[d]) = Heard(pong[d])
  PROVE  UNCHANGED Service!vars
<1>1. UNCHANGED (server # "stopped")
  OBVIOUS
<1>2. UNCHANGED [c \in Clients |-> Place(c)]
  OBVIOUS
<1>3. UNCHANGED {c \in Clients : answer[c] = "ESTABLISHED"}
  OBVIOUS
<1>4. UNCHANGED [c \in Clients |-> Heard(ping[c])]
  OBVIOUS
<1>5. UNCHANGED [c \in Clients |-> Heard(pong[c])]
  OBVIOUS
<1> QED
  BY <1>1, <1>2, <1>3, <1>4, <1>5 DEF Service!vars

\* A step of a client asks, is content, leaves, or stutters.
LEMMA ClientRefines ==
  ASSUME ServiceInv, ServiceInv', NEW c \in Clients,
         ClientStep(c)
  PROVE  [Service!Next]_Service!vars
<1> DEFINE place == [d \in Clients |-> Place(d)]
           accepted == {d \in Clients : answer[d] = "ESTABLISHED"}
           question == [d \in Clients |-> Heard(ping[d])]
           reply == [d \in Clients |-> Heard(pong[d])]
           open == server # "stopped"
<1>0. /\ IInv /\ IInv'
      /\ client[c] \in Early \cup Connected \cup {"stopped"}
      /\ client'[c] \in Early \cup Connected \cup {"stopped"}
  BY DEF ServiceInv, IInv, CmTypeOK
<1>1. /\ UNCHANGED <<server, answer, pong>>
      /\ \A d \in Clients \ {c} : client'[d] = client[d] /\ ping'[d] = ping[d]
  BY <1>0, ClientEffect
<1>2. /\ place' = [place EXCEPT ![c] = Place(c)']
      /\ place[c] = Place(c)
      /\ \A d \in Clients \ {c} : Place(d)' = Place(d)
  BY <1>1, OnePlace DEF Place
<1>3. UNCHANGED <<open, accepted, reply>>
  BY <1>1
<1>4. CASE OnClientEstablished(c)
  <2>1. /\ client[c] = "connecting" /\ answer[c] = "ESTABLISHED"
        /\ client'[c] = "pollFirst"
        /\ ping' = [ping EXCEPT ![c] = "posted"]
        /\ ping[c] = "unsent"
    BY <1>0, <1>4 DEF OnClientEstablished, IInv, CmTypeOK, AtClient, Early
  <2>2. Place(c) = "asking" /\ Place(c)' = "waiting"
    BY <2>1 DEF Place
  <2>3. /\ question' = [question EXCEPT ![c] = Heard("posted")]
        /\ question[c] = Heard(ping[c])
    <3>1. ping \in [Clients -> Progress] /\ "posted" \in Progress
      BY <1>0 DEF IInv, CmTypeOK, Progress
    <3>2. ping' = [ping EXCEPT ![c] = "posted"]
      BY <2>1
    <3> QED
      BY <3>1, <3>2, OnePart
  <2>4. Heard("posted") = "sent" /\ Heard(ping[c]) = "none"
    BY <2>1 DEF Heard
  <2>5. c \in accepted
    BY <2>1
  <2> HIDE DEF place, accepted, question, reply, open
  <2>6. /\ place[c] = "asking"
        /\ c \in accepted
        /\ question[c] = "none"
        /\ place' = [place EXCEPT ![c] = "waiting"]
        /\ question' = [question EXCEPT ![c] = "sent"]
        /\ UNCHANGED <<open, accepted, reply>>
    BY <1>2, <1>3, <2>2, <2>3, <2>4, <2>5
  <2>7. Service!Ask(c)
    BY <2>6 DEF Service!Ask, place, accepted, question, reply, open
  <2> QED
    BY <2>7 DEF Service!Next
<1>5. CASE ~OnClientEstablished(c)
  <2>1. ping' = ping
    BY <1>5 DEF Client, OnAddrResolved, OnRouteResolved, OnRejected, OnUnreachable,
       ClientPoll, OnClientDisconnected, ResolveFails, ClientPostFails, ClientDies,
       ClientStep
  <2>2. UNCHANGED question
    BY <2>1
  <2>3. CASE Place(c)' = Place(c)
    BY <1>1, <1>2, <2>1, <2>3, Stutters
  <2>4. CASE Place(c)' = "gone" /\ Place(c) # "gone"
    <3> HIDE DEF place, accepted, question, reply, open
    <3>1. /\ place[c] # "gone"
          /\ place' = [place EXCEPT ![c] = "gone"]
          /\ UNCHANGED <<open, accepted, question, reply>>
      BY <1>2, <1>3, <2>2, <2>4
    <3>2. Service!Leave(c)
      BY <3>1 DEF Service!Leave, place, accepted, question, reply, open
    <3> QED
      BY <3>2 DEF Service!Next
  <2>5. CASE client[c] \in {"pollFirst", "pollSecond"} /\ client'[c] = "disconnecting"
    <3>1. Place(c) = "waiting" /\ Place(c)' = "content"
      BY <2>5 DEF Place
    <3>2. Heard(pong[c]) = "heard"
      BY <1>0, <1>1, <2>5 DEF IInv, AtClient, Answered, Heard
    <3>3. reply[c] = "heard"
      BY <3>2
    <3> HIDE DEF place, accepted, question, reply, open
    <3>4. /\ place[c] = "waiting"
          /\ reply[c] = "heard"
          /\ place' = [place EXCEPT ![c] = "content"]
          /\ UNCHANGED <<open, accepted, question, reply>>
      BY <1>2, <1>3, <2>2, <3>1, <3>3
    <3>5. Service!BeContent(c)
      BY <3>4 DEF Service!BeContent, place, accepted, question, reply, open
    <3> QED
      BY <3>5 DEF Service!Next
  <2>6. \/ Place(c)' = Place(c)
        \/ Place(c)' = "gone" /\ Place(c) # "gone"
        \/ client[c] \in {"pollFirst", "pollSecond"} /\ client'[c] = "disconnecting"
    <3>1. \/ client'[c] = "stopped"
          \/ client[c] \in Early /\ client'[c] \in Early
          \/ /\ client[c] \in {"pollFirst", "pollSecond"}
             /\ client'[c] \in {"pollSecond", "disconnecting"}
      <4>1. CASE OnAddrResolved(c) \/ OnRouteResolved(c)
        BY <1>0, <4>1 DEF OnAddrResolved, OnRouteResolved, Early, IInv, CmTypeOK
      <4>2. CASE OnRejected(c) \/ OnUnreachable(c) \/ OnClientDisconnected(c)
                 \/ ResolveFails(c) \/ ClientPostFails(c) \/ ClientDies(c)
        BY <1>0, <4>2 DEF OnRejected, OnUnreachable, OnClientDisconnected, ResolveFails,
           ClientPostFails, ClientDies, IInv, CmTypeOK
      <4>3. CASE ClientPoll(c)
        BY <1>0, <4>3 DEF ClientPoll, IInv, CmTypeOK
      <4> QED
        BY <1>5, <4>1, <4>2, <4>3 DEF ClientStep, Client
    <3> QED
      BY <1>0, <3>1 DEF Place, Early
  <2> QED
    BY <2>3, <2>4, <2>5, <2>6
<1> QED
  BY <1>4, <1>5

\* A step of the server accepts, answers, closes, or stutters.
LEMMA ServerRefines ==
  ASSUME ServiceInv, ServerStep
  PROVE  [Service!Next]_Service!vars
<1> DEFINE place == [d \in Clients |-> Place(d)]
           accepted == {d \in Clients : answer[d] = "ESTABLISHED"}
           question == [d \in Clients |-> Heard(ping[d])]
           reply == [d \in Clients |-> Heard(pong[d])]
           open == server # "stopped"
<1>1. /\ IInv
      /\ \A d \in Clients : Requested(d) /\ Attended(d)
      /\ answer \in [Clients -> {"none", "ESTABLISHED", "REJECTED"}]
  BY DEF ServiceInv, IInv, CmTypeOK
<1>2. UNCHANGED <<client, ping>> /\ open
  BY <1>1, ServerEffect
<1>3. UNCHANGED <<place, question>> /\ \A d \in Clients : Place(d)' = Place(d)
  BY <1>2 DEF Place
<1>4. ASSUME NEW c \in Clients, OnConnectRequest(c), UNCHANGED <<server, pong>>
      PROVE  Service!Next
  <2>1. /\ Fetch("CONNECT_REQUEST", c) /\ client[c] = "connecting"
        /\ channel' = Tail(channel)
        /\ answer' = [answer EXCEPT ![c] = "ESTABLISHED"]
    BY <1>4 DEF OnConnectRequest
  <2>2. Holds(channel, Event("CONNECT_REQUEST", c))
    BY <1>1, <2>1, Fetched DEF IInv, EventTypes
  <2>3. answer[c] = "none"
    BY <1>1, <2>2 DEF Requested
  <2>4. place[c] = "asking"
    BY <2>1 DEF Place
  <2>5. c \notin accepted /\ accepted' = accepted \cup {c}
    BY <1>1, <2>1, <2>3
  <2>6. UNCHANGED <<open, reply>>
    BY <1>4
  <2> HIDE DEF place, accepted, question, reply, open
  <2>7. Service!Accept(c)
    BY <1>2, <1>3, <2>4, <2>5, <2>6
       DEF Service!Accept, place, accepted, question, reply, open
  <2> QED
    BY <2>7 DEF Service!Next
<1>5. CASE Stop /\ pong' = pong
  <2>1. open' = FALSE /\ UNCHANGED reply
    BY <1>5 DEF Stop
  <2>2. \A d \in Clients : answer'[d] = "ESTABLISHED" <=> answer[d] = "ESTABLISHED"
    <3> SUFFICES ASSUME NEW d \in Clients, d \in Unfetched
                 PROVE  answer[d] = "none"
      BY <1>5 DEF Stop
    <3>1. PICK i \in 1 .. Len(channel) :
            channel[i].type = "CONNECT_REQUEST" /\ channel[i].c = d
      BY DEF Unfetched
    <3>2. channel[i] \in Events
      BY <1>1 DEF IInv, QueuesOK
    <3>3. channel[i] = Event("CONNECT_REQUEST", d)
      BY <3>1, <3>2 DEF Events, Event
    <3> QED
      BY <1>1, <3>3 DEF Holds, Requested
  <2>3. UNCHANGED accepted
    BY <2>2
  <2> HIDE DEF place, accepted, question, reply, open
  <2>4. Service!Close
    BY <1>2, <1>3, <2>1, <2>3 DEF Service!Close, place, accepted, question, reply, open
  <2> QED
    BY <2>4 DEF Service!Next
<1>6. CASE server' # "stopped" /\ UNCHANGED <<answer, pong>>
  BY <1>2, <1>3, <1>6, Stutters
<1>7. CASE /\ ServerPollRecv
           /\ server' # "stopped" /\ UNCHANGED answer
           /\ conn \in Clients /\ serverCq[conn] # <<>> /\ pong[conn] = "unsent"
           /\ pong' = [pong EXCEPT ![conn] = "posted"]
  <2>1. ping[conn] \in {"delivered", "acked"}
    BY <1>1, <1>7 DEF Attended
  <2>2. question[conn] = "heard"
    <3>1. Heard(ping[conn]) = "heard"
      BY <2>1 DEF Heard
    <3> QED
      BY <1>7, <3>1
  <2>3. reply[conn] = Heard("unsent") /\ reply' = [reply EXCEPT ![conn] = Heard("posted")]
    <3>1. pong \in [Clients -> Progress] /\ "posted" \in Progress
      BY <1>1 DEF IInv, CmTypeOK, Progress
    <3>2. pong' = [pong EXCEPT ![conn] = "posted"] /\ pong[conn] = "unsent"
      BY <1>7
    <3> QED
      BY <1>7, <3>1, <3>2, OnePart
  <2>4. Heard("unsent") = "none" /\ Heard("posted") = "sent"
    BY DEF Heard
  <2>5. UNCHANGED <<open, accepted>>
    BY <1>2, <1>7
  <2> HIDE DEF place, accepted, question, reply, open
  <2>6. Service!Answer(conn)
    BY <1>2, <1>3, <2>2, <2>3, <2>4, <2>5
       DEF Service!Answer, place, accepted, question, reply, open
  <2> QED
    BY <1>7, <2>6 DEF Service!Next
<1> QED
  BY <1>1, <1>4, <1>5, <1>6, <1>7, ServerEffect

\* What a queue pair in RTS says of the connection: the client waits, and, if
\* the other one is in RTS too, the server runs.
LEMMA BothInRts ==
  ASSUME ServiceInv, NEW c \in Clients, clientQp[c] = "RTS", serverQp[c] = "RTS"
  PROVE  server # "stopped" /\ Place(c) = "waiting"
BY AtRts DEF ServiceInv, Attended, Place

\* A step of the connection manager or of the fabric brings the question or the
\* answer, or stutters.
LEMMA FabricRefines ==
  ASSUME ServiceInv, NEW c \in Clients, Fabric(c)
  PROVE  [Service!Next]_Service!vars
<1> DEFINE place == [d \in Clients |-> Place(d)]
           accepted == {d \in Clients : answer[d] = "ESTABLISHED"}
           question == [d \in Clients |-> Heard(ping[d])]
           reply == [d \in Clients |-> Heard(pong[d])]
           open == server # "stopped"
<1>1. /\ IInv
      /\ \A d \in Clients : Requested(d)
      /\ ping \in [Clients -> Progress]
      /\ pong \in [Clients -> Progress]
      /\ answer \in [Clients -> {"none", "ESTABLISHED", "REJECTED"}]
      /\ cm \in [Clients -> Seq(Messages)]
  BY DEF ServiceInv, IInv, CmTypeOK, QueuesOK
<1>2. /\ UNCHANGED <<server, client>>
      /\ UNCHANGED <<open, place>>
      /\ \A d \in Clients : Place(d)' = Place(d)
  <2>1. UNCHANGED <<server, client>>
    BY DEF Fabric, CmArrives, DeliverPing, PingCompletes, DeliverPong, PongCompletes,
       serverVars, clientVars
  <2> QED
    BY <2>1 DEF Place
<1>3. /\ Heard("posted") = "sent" /\ Heard("delivered") = "heard"
      /\ Heard("acked") = "heard"
  BY DEF Heard
<1>4. CASE CmArrives(c)
  <2>1. UNCHANGED <<ping, pong>>
    BY <1>4 DEF CmArrives
  <2>2. \A d \in Clients : answer'[d] = "ESTABLISHED" <=> answer[d] = "ESTABLISHED"
    <3>1. CASE answer' = answer
      BY <3>1
    <3>2. CASE Head(cm[c]) = "REQ" /\ answer' = [answer EXCEPT ![c] = "REJECTED"]
      <4>1. Holds(cm[c], "REQ")
        BY <1>1, <1>4, <3>2, HoldsTail DEF CmArrives
      <4>2. answer[c] = "none"
        BY <1>1, <4>1 DEF Requested
      <4> QED
        BY <1>1, <3>2, <4>2
    <3> QED
      BY <1>4, <3>1, <3>2 DEF CmArrives
  <2> QED
    BY <1>2, <2>1, <2>2, Stutters
<1>5. CASE DeliverPing(c)
  <2>1. /\ ping[c] = "posted" /\ clientQp[c] = "RTS" /\ serverQp[c] = "RTS"
        /\ ping' = [ping EXCEPT ![c] = "delivered"]
        /\ UNCHANGED <<answer, pong>>
    BY <1>5 DEF DeliverPing
  <2>2. /\ question[c] = Heard("posted")
        /\ question' = [question EXCEPT ![c] = Heard("delivered")]
    BY <1>1, <2>1, OnePart DEF Progress
  <2>3. open /\ place[c] = "waiting" /\ UNCHANGED <<accepted, reply>>
    BY <2>1, BothInRts
  <2> HIDE DEF place, accepted, question, reply, open
  <2>4. Service!HearQuestion(c)
    BY <1>2, <1>3, <2>2, <2>3
       DEF Service!HearQuestion, place, accepted, question, reply, open
  <2> QED
    BY <2>4 DEF Service!Next
<1>6. CASE DeliverPong(c)
  <2>1. /\ pong[c] = "posted" /\ clientQp[c] = "RTS" /\ serverQp[c] = "RTS"
        /\ pong' = [pong EXCEPT ![c] = "delivered"]
        /\ UNCHANGED <<answer, ping>>
    BY <1>6 DEF DeliverPong
  <2>2. /\ reply[c] = Heard("posted")
        /\ reply' = [reply EXCEPT ![c] = Heard("delivered")]
    BY <1>1, <2>1, OnePart DEF Progress
  <2>3. open /\ place[c] = "waiting" /\ UNCHANGED <<accepted, question>>
    BY <2>1, BothInRts
  <2> HIDE DEF place, accepted, question, reply, open
  <2>4. Service!HearReply(c)
    BY <1>2, <1>3, <2>2, <2>3
       DEF Service!HearReply, place, accepted, question, reply, open
  <2> QED
    BY <2>4 DEF Service!Next
<1>7. CASE PingCompletes(c) \/ PongCompletes(c)
  <2>1. /\ UNCHANGED answer
        /\ \/ ping' = ping
           \/ ping[c] = "delivered" /\ ping' = [ping EXCEPT ![c] = "acked"]
        /\ \/ pong' = pong
           \/ pong[c] = "delivered" /\ pong' = [pong EXCEPT ![c] = "acked"]
    BY <1>7 DEF PingCompletes, PongCompletes
  <2>2. \A d \in Clients : Heard(ping'[d]) = Heard(ping[d])
    BY <1>1, <1>3, <2>1
  <2>3. \A d \in Clients : Heard(pong'[d]) = Heard(pong[d])
    BY <1>1, <1>3, <2>1
  <2> QED
    BY <1>2, <2>1, <2>2, <2>3, Stutters
<1> QED
  BY <1>4, <1>5, <1>6, <1>7 DEF Fabric

\* ServiceSpec: the event loops of client and server, with the connection
\* manager and the fabric between them, implement CmService.
THEOREM ImplementsService == Spec => ServiceSpec
<1>1. Init => Service!Init /\ ServiceInv
  <2> SUFFICES ASSUME Init PROVE Service!Init /\ ServiceInv
    OBVIOUS
  <2>1. ServiceInv
    <3>1. IInv
      BY InitIInv
    <3>2. ASSUME NEW d \in Clients PROVE Requested(d) /\ Attended(d)
      BY HoldsNothing DEF Init, Requested, Attended
    <3> QED
      BY <3>1, <3>2 DEF ServiceInv
  <2>2. Service!Init
    <3>1. \A d \in Clients : Place(d) = "asking"
      BY DEF Init, Place
    <3>2. \A d \in Clients : Heard(ping[d]) = "none" /\ Heard(pong[d]) = "none"
      BY DEF Init, Heard
    <3>3. (server # "stopped") = TRUE /\ {d \in Clients : answer[d] = "ESTABLISHED"} = {}
      BY DEF Init
    <3> QED
      BY <3>1, <3>2, <3>3 DEF Service!Init
  <2> QED
    BY <2>1, <2>2
<1>2. ServiceInv /\ ServiceInv' /\ [Next]_vars => [Service!Next]_Service!vars
  <2> SUFFICES ASSUME ServiceInv, ServiceInv', [Next]_vars
               PROVE  [Service!Next]_Service!vars
    OBVIOUS
  <2>1. CASE Next
    BY <2>1, ClientRefines, ServerRefines, FabricRefines DEF Next, ClientStep, ServerStep
  <2>2. CASE UNCHANGED vars
    <3>1. UNCHANGED <<server, client, answer, ping, pong>>
      BY <2>2 DEF vars
    <3>2. \A d \in Clients : Place(d)' = Place(d)
      BY <3>1 DEF Place
    <3> QED
      BY <3>1, <3>2, Stutters
  <2> QED
    BY <2>1, <2>2
<1> QED
  BY <1>1, <1>2, NextServiceInv, PTL DEF Spec, ServiceSpec, Service!Spec
=============================================================================
