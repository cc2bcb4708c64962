---------------------------- MODULE CmConnection ----------------------------
(***************************************************************************)
(* The client and server of Chapter 10 (cm_client.c, cm_server.c): the     *)
(* connection manager does what Rendezvous does by hand.  Both programs    *)
(* are event loops over a channel of connection-manager events, whose      *)
(* handlers poll a completion queue without looking at the channel.        *)
(*                                                                         *)
(* Several clients may run; the server stops after the first disconnect.   *)
(* A connection carries one message ("ping") and one reply ("pong").       *)
(***************************************************************************)
EXTENDS Integers, Sequences

CONSTANTS
  Clients,      \* the client processes
  MayFail,      \* whether verbs may fail while a connection is set up
  MayDie,       \* whether a client may be killed while it polls
  None          \* no connection

ASSUME ClientsAssumption == Clients # {} /\ None \notin Clients
ASSUME FaultAssumption == MayFail \in BOOLEAN /\ MayDie \in BOOLEAN

VARIABLES
  server,     \* where the server is
  conn,       \* the connection whose handler the server is in
  channel,    \* events the server has not fetched, oldest first
  ids,        \* connections whose rdma_cm_id exists at the server
  serverQp,   \* queue pair of each connection at the server
  serverCq,   \* its completions not polled
  client,     \* where each client is
  answer,     \* what came back for the connect request of a client
  clientQp,   \* queue pair of each client
  clientCq,   \* its completions not polled
  cm,         \* connection-manager messages from each client to the server
  ping, pong  \* progress of message and reply

vars == <<server, conn, channel, ids, serverQp, serverCq, client, answer,
          clientQp, clientCq, cm, ping, pong>>
clientVars == <<client, clientQp, clientCq>>
serverVars == <<server, conn, ids, serverQp, serverCq>>

Init ==
  /\ server = "loop"
  /\ conn = None
  /\ channel = <<>>
  /\ ids = {}
  /\ serverQp = [c \in Clients |-> "none"]
  /\ serverCq = [c \in Clients |-> <<>>]
  /\ client = [c \in Clients |-> "resolveAddr"]
  /\ answer = [c \in Clients |-> "none"]
  /\ clientQp = [c \in Clients |-> "none"]
  /\ clientCq = [c \in Clients |-> <<>>]
  /\ cm = [c \in Clients |-> <<>>]
  /\ ping = [c \in Clients |-> "unsent"]
  /\ pong = [c \in Clients |-> "unsent"]

Event(type, c) == [type |-> type, c |-> c]

Tell(c, message) == cm' = [cm EXCEPT ![c] = Append(@, message)]

----------------------------------------------------------------------------
(* The client: one handler per event.                                      *)

OnAddrResolved(c) ==
  /\ client[c] = "resolveAddr"
  /\ client' = [client EXCEPT ![c] = "resolveRoute"]
  /\ UNCHANGED <<channel, serverVars, answer, clientQp, clientCq, cm, ping, pong>>

\* ADDR_ERROR, ROUTE_ERROR, or a verb that fails in on_route_resolved(), which
\* gives back what it has allocated; main() stops.
ResolveFails(c) ==
  /\ MayFail
  /\ client[c] \in {"resolveAddr", "resolveRoute"}
  /\ client' = [client EXCEPT ![c] = "stopped"]
  /\ UNCHANGED <<channel, serverVars, answer, clientQp, clientCq, cm, ping, pong>>

\* The queue pair is created, its receive posted, and the request sent.
OnRouteResolved(c) ==
  /\ client[c] = "resolveRoute"
  /\ client' = [client EXCEPT ![c] = "connecting"]
  /\ clientQp' = [clientQp EXCEPT ![c] = "INIT"]
  /\ Tell(c, "REQ")
  /\ UNCHANGED <<channel, serverVars, answer, clientCq, ping, pong>>

\* REJECTED: main() stops, without giving back anything.
OnRejected(c) ==
  /\ client[c] = "connecting"
  /\ answer[c] = "REJECTED"
  /\ client' = [client EXCEPT ![c] = "stopped"]
  /\ clientQp' = [clientQp EXCEPT ![c] = "gone"]
  /\ UNCHANGED <<channel, serverVars, answer, clientCq, cm, ping, pong>>

\* UNREACHABLE: the server has not fetched the request for too long.
OnUnreachable(c) ==
  /\ client[c] = "connecting"
  /\ answer[c] = "none"
  /\ client' = [client EXCEPT ![c] = "stopped"]
  /\ clientQp' = [clientQp EXCEPT ![c] = "gone"]
  /\ UNCHANGED <<channel, serverVars, answer, clientCq, cm, ping, pong>>

\* ESTABLISHED: fetching the event brings the queue pair to RTS and confirms
\* the connection; the message is sent.
OnClientEstablished(c) ==
  /\ client[c] = "connecting"
  /\ answer[c] = "ESTABLISHED"
  /\ client' = [client EXCEPT ![c] = "pollFirst"]
  /\ clientQp' = [clientQp EXCEPT ![c] = "RTS"]
  /\ ping' = [ping EXCEPT ![c] = "posted"]
  /\ Tell(c, "RTU")
  /\ UNCHANGED <<channel, serverVars, answer, clientCq, pong>>

\* The message cannot be posted: on_established() fails after the connection is
\* confirmed, and main() destroys the id, which disconnects.
ClientPostFails(c) ==
  /\ MayFail
  /\ client[c] = "connecting"
  /\ answer[c] = "ESTABLISHED"
  /\ client' = [client EXCEPT ![c] = "stopped"]
  /\ clientQp' = [clientQp EXCEPT ![c] = "gone"]
  /\ cm' = [cm EXCEPT ![c] = Append(Append(@, "RTU"), "DREQ")]
  /\ UNCHANGED <<channel, serverVars, answer, clientCq, ping, pong>>

\* Mutant: the client waits for one completion, not for two.
AnyCompletion(c) == TRUE

LastCompletion(c) == client[c] = "pollSecond"

\* The two busy-waits of on_established(): neither looks at what completed.
\* After an error main() destroys the id, which disconnects; after the second
\* completion rdma_disconnect() does.
ClientPoll(c) ==
  /\ client[c] \in {"pollFirst", "pollSecond"}
  /\ clientCq[c] # <<>>
  /\ clientCq' = [clientCq EXCEPT ![c] = Tail(@)]
  /\ \/ /\ Head(clientCq[c]) = "error"
        /\ client' = [client EXCEPT ![c] = "stopped"]
        /\ clientQp' = [clientQp EXCEPT ![c] = "gone"]
        /\ Tell(c, "DREQ")
     \/ /\ Head(clientCq[c]) # "error"
        /\ ~LastCompletion(c)
        /\ client' = [client EXCEPT ![c] = "pollSecond"]
        /\ UNCHANGED <<clientQp, cm>>
     \/ /\ Head(clientCq[c]) # "error"
        /\ LastCompletion(c)
        /\ client' = [client EXCEPT ![c] = "disconnecting"]
        /\ clientQp' = [clientQp EXCEPT ![c] = "ERR"]
        /\ Tell(c, "DREQ")
  /\ UNCHANGED <<channel, serverVars, answer, ping, pong>>

\* DISCONNECTED comes with the answer of the server's side, or after a timeout.
OnClientDisconnected(c) ==
  /\ client[c] = "disconnecting"
  /\ client' = [client EXCEPT ![c] = "stopped"]
  /\ clientQp' = [clientQp EXCEPT ![c] = "gone"]
  /\ UNCHANGED <<channel, serverVars, answer, clientCq, cm, ping, pong>>

\* The client is killed; its kernel disconnects.
ClientDies(c) ==
  /\ MayDie
  /\ client[c] \in {"pollFirst", "pollSecond"}
  /\ client' = [client EXCEPT ![c] = "stopped"]
  /\ clientQp' = [clientQp EXCEPT ![c] = "gone"]
  /\ Tell(c, "DREQ")
  /\ UNCHANGED <<channel, serverVars, answer, clientCq, ping, pong>>

----------------------------------------------------------------------------
(* The server.                                                             *)

\* The requests the server has not fetched when it ends are rejected.
Unfetched == {channel[i].c : i \in {j \in 1 .. Len(channel) :
                                     channel[j].type = "CONNECT_REQUEST"}}

\* stop = 1: the listener and the channel are destroyed, the process ends, and
\* its queue pairs with it.
Stop ==
  /\ server' = "stopped"
  /\ channel' = <<>>
  /\ answer' = [c \in Clients |-> IF c \in Unfetched THEN "REJECTED"
                                                      ELSE answer[c]]
  /\ serverQp' = [c \in Clients |-> IF serverQp[c] = "RTS" THEN "gone"
                                                          ELSE serverQp[c]]

\* rdma_get_cm_event() returns an event of this type, which is acknowledged.
Fetch(type, c) ==
  /\ server = "loop"
  /\ channel # <<>>
  /\ Head(channel) = Event(type, c)

\* The receive is posted before the connection is accepted.
OnConnectRequest(c) ==
  /\ Fetch("CONNECT_REQUEST", c)
  /\ client[c] = "connecting"
  /\ ids' = ids \cup {c}
  /\ channel' = Tail(channel)
  /\ serverQp' = [serverQp EXCEPT ![c] = "RTS"]
  /\ answer' = [answer EXCEPT ![c] = "ESTABLISHED"]
  /\ UNCHANGED <<server, conn, serverCq, clientVars, cm, ping, pong>>

\* A verb fails, rdma_accept() because the client has given up: all of the
\* connection but its id is given back, and the main loop stops.
ConnectRequestFails(c) ==
  /\ MayFail \/ client[c] = "stopped"
  /\ Fetch("CONNECT_REQUEST", c)
  /\ ids' = ids \cup {c}
  /\ Stop
  /\ UNCHANGED <<conn, serverCq, clientVars, cm, ping, pong>>

OnServerEstablished(c) ==
  /\ Fetch("ESTABLISHED", c)
  /\ channel' = Tail(channel)
  /\ server' = "pollRecv"
  /\ conn' = c
  /\ UNCHANGED <<ids, serverQp, serverCq, clientVars, answer, cm, ping, pong>>

\* The busy-waits of on_established(), for the message and for the completion
\* of the reply.
Completion(place) ==
  /\ server = place
  /\ serverCq[conn] # <<>>
  /\ serverCq' = [serverCq EXCEPT ![conn] = Tail(@)]
Succeeds == Head(serverCq[conn]) # "error"

\* Mutant: after an error the connection is taken down and the loop goes on.
TakeDownAndGoOn ==
  /\ serverQp' = [serverQp EXCEPT ![conn] = "gone"]
  /\ ids' = ids \ {conn}
  /\ server' = "loop"
  /\ UNCHANGED <<channel, answer>>

GiveUp == Stop /\ UNCHANGED ids

\* A completion tells an error, or the reply cannot be posted.
ServerPollFails ==
  /\ \/ Completion("pollRecv") /\ (~Succeeds \/ MayFail)
     \/ Completion("pollSend") /\ ~Succeeds
  /\ GiveUp
  /\ UNCHANGED <<conn, clientVars, cm, ping, pong>>

\* Mutant: no reply is sent.
NoReply == server' = "loop" /\ UNCHANGED pong

Reply == server' = "pollSend" /\ pong' = [pong EXCEPT ![conn] = "posted"]

ServerPollRecv ==
  /\ Completion("pollRecv")
  /\ Succeeds
  /\ Reply
  /\ UNCHANGED <<channel, conn, ids, serverQp, clientVars, answer, cm, ping>>

ServerPollSend ==
  /\ Completion("pollSend")
  /\ Succeeds
  /\ server' = "loop"
  /\ conn' = None
  /\ UNCHANGED <<channel, ids, serverQp, clientVars, answer, cm, ping, pong>>

\* Mutant: the main loop goes on after a disconnect.
GoOn(c) ==
  /\ channel' = Tail(channel)
  /\ serverQp' = [serverQp EXCEPT ![c] = "gone"]
  /\ UNCHANGED <<server, answer>>

StopAfter(c) == Stop

\* The connection is taken down and the main loop stops.
OnServerDisconnected(c) ==
  /\ Fetch("DISCONNECTED", c)
  /\ ids' = ids \ {c}
  /\ StopAfter(c)
  /\ UNCHANGED <<conn, serverCq, clientVars, cm, ping, pong>>

\* The connection manager reports an event that has no handler, as the removal
\* of the device: the main loop stops.
OnUnexpected ==
  /\ MayFail
  /\ server = "loop"
  /\ GiveUp
  /\ UNCHANGED <<conn, serverCq, clientVars, cm, ping, pong>>

----------------------------------------------------------------------------
(* The connection manager and the fabric.                                  *)

\* The kernel of the server takes the next message of a client and puts the
\* event it stands for into the channel; without a server a request is
\* rejected and the rest ignored.
CmArrives(c) ==
  /\ cm[c] # <<>>
  /\ cm' = [cm EXCEPT ![c] = Tail(@)]
  /\ \/ /\ server # "stopped"
        /\ channel' = Append(channel,
             Event(CASE Head(cm[c]) = "REQ" -> "CONNECT_REQUEST"
                     [] Head(cm[c]) = "RTU" -> "ESTABLISHED"
                     [] Head(cm[c]) = "DREQ" -> "DISCONNECTED", c))
        /\ UNCHANGED answer
     \/ /\ server = "stopped"
        /\ answer' = IF Head(cm[c]) = "REQ"
                       THEN [answer EXCEPT ![c] = "REJECTED"] ELSE answer
        /\ UNCHANGED channel
  /\ UNCHANGED <<serverVars, clientVars, ping, pong>>

DeliverPing(c) ==
  /\ ping[c] = "posted"
  /\ clientQp[c] = "RTS"
  /\ serverQp[c] = "RTS"
  /\ ping' = [ping EXCEPT ![c] = "delivered"]
  /\ serverCq' = [serverCq EXCEPT ![c] = Append(@, "recv")]
  /\ UNCHANGED <<server, conn, channel, ids, serverQp, clientVars, answer, cm, pong>>

DeliverPong(c) ==
  /\ pong[c] = "posted"
  /\ clientQp[c] = "RTS"
  /\ serverQp[c] = "RTS"
  /\ pong' = [pong EXCEPT ![c] = "delivered"]
  /\ clientCq' = [clientCq EXCEPT ![c] = Append(@, "recv")]
  /\ UNCHANGED <<channel, serverVars, client, clientQp, answer, cm, ping>>

\* The acknowledgement of the message comes, or there is nobody to send one.
PingCompletes(c) ==
  /\ clientQp[c] = "RTS"
  /\ \/ /\ ping[c] = "delivered"
        /\ ping' = [ping EXCEPT ![c] = "acked"]
        /\ clientCq' = [clientCq EXCEPT ![c] = Append(@, "send")]
        /\ UNCHANGED clientQp
     \/ /\ ping[c] \in {"posted", "delivered"}
        /\ serverQp[c] = "gone"
        /\ clientQp' = [clientQp EXCEPT ![c] = "ERR"]
        /\ clientCq' = [clientCq EXCEPT ![c] = Append(@, "error")]
        /\ UNCHANGED ping
  /\ UNCHANGED <<channel, serverVars, client, answer, cm, pong>>

PongCompletes(c) ==
  /\ serverQp[c] = "RTS"
  /\ \/ /\ pong[c] = "delivered"
        /\ pong' = [pong EXCEPT ![c] = "acked"]
        /\ serverCq' = [serverCq EXCEPT ![c] = Append(@, "send")]
        /\ UNCHANGED serverQp
     \/ /\ pong[c] \in {"posted", "delivered"}
        /\ clientQp[c] \in {"ERR", "gone"}
        /\ serverQp' = [serverQp EXCEPT ![c] = "ERR"]
        /\ serverCq' = [serverCq EXCEPT ![c] = Append(@, "error")]
        /\ UNCHANGED pong
  /\ UNCHANGED <<server, conn, channel, ids, clientVars, answer, cm, ping>>

----------------------------------------------------------------------------
Client(c) ==
  \/ OnAddrResolved(c) \/ OnRouteResolved(c)
  \/ OnRejected(c) \/ OnUnreachable(c) \/ OnClientEstablished(c)
  \/ ClientPoll(c) \/ OnClientDisconnected(c)

Server ==
  \/ \E c \in Clients : \/ OnConnectRequest(c) \/ ConnectRequestFails(c)
                        \/ OnServerEstablished(c) \/ OnServerDisconnected(c)
  \/ ServerPollRecv \/ ServerPollSend \/ ServerPollFails

Fabric(c) ==
  \/ CmArrives(c)
  \/ DeliverPing(c) \/ PingCompletes(c)
  \/ DeliverPong(c) \/ PongCompletes(c)

Next ==
  \/ Server \/ OnUnexpected
  \/ \E c \in Clients : \/ Client(c) \/ Fabric(c)
                        \/ ResolveFails(c) \/ ClientPostFails(c) \/ ClientDies(c)

Spec == Init /\ [][Next]_vars

\* The programs are scheduled and the connection manager delivers in the end;
\* nothing need ever fail.
FairSpec ==
  /\ Spec
  /\ WF_vars(Server)
  /\ \A c \in Clients :
       /\ WF_vars(Client(c))
       /\ WF_vars(CmArrives(c))
       /\ WF_vars(DeliverPing(c)) /\ WF_vars(PingCompletes(c))
       /\ WF_vars(DeliverPong(c)) /\ WF_vars(PongCompletes(c))

----------------------------------------------------------------------------
\* An event in the channel names an rdma_cm_id that exists: no handler runs for
\* a connection that a handler before it has destroyed.
EventsNameLiveIds ==
  \A i \in 1 .. Len(channel) : channel[i].type # "CONNECT_REQUEST" =>
    \/ channel[i].c \in ids
    \/ \E j \in 1 .. i - 1 : channel[j] = Event("CONNECT_REQUEST", channel[i].c)

\* A client disconnects only with the reply in its buffer and its own message
\* acknowledged, in whichever order the two completions came.
DisconnectsWhenAnswered ==
  \A c \in Clients : client[c] = "disconnecting" =>
    pong[c] \in {"delivered", "acked"} /\ ping[c] = "acked"

\* The promise of both programs, and where each of its parts is kept.
Place(c) ==
  CASE client[c] \in {"pollFirst", "pollSecond"} -> "waiting"
    [] client[c] = "disconnecting" -> "content"
    [] client[c] = "stopped" -> "gone"
    [] OTHER -> "asking"
Heard(progress) ==
  CASE progress = "unsent" -> "none"
    [] progress = "posted" -> "sent"
    [] OTHER -> "heard"

Service == INSTANCE CmService WITH
       open <- server # "stopped",
       place <- [c \in Clients |-> Place(c)],
       accepted <- {c \in Clients : answer[c] = "ESTABLISHED"},
       question <- [c \in Clients |-> Heard(ping[c])],
       reply <- [c \in Clients |-> Heard(pong[c])]

\* The two event loops implement the service: whichever handler waits while
\* messages, events and completions arrive, whatever fails and whoever dies, a
\* client is accepted once, is answered once and only when the server has its
\* message, and disconnects of its own accord only with the reply.
ServiceSpec == Service!Spec

\* The server polls for the message of a client that is dead.
Caught == server = "pollRecv" /\ client[conn] = "stopped"

\* A client ends, or the server has left it after taking its message: it was
\* stopped by another client, or is caught with another one.
EndsOrIsAbandoned ==
  \A c \in Clients :
    <>[](\/ client[c] = "stopped"
         \/ /\ server = "stopped" \/ Caught
            /\ ping[c] = "acked" /\ pong[c] = "unsent")

\* The server stops, or is caught, or no client has come.
StopsOrIsCaught ==
  <>[](\/ server = "stopped"
       \/ Caught
       \/ server = "loop" /\ \A c \in Clients : clientQp[c] = "none")
=============================================================================
