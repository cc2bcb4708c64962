------------------------------ MODULE Resources ------------------------------
(***************************************************************************)
(* What each program of the repository creates and destroys, and in which  *)
(* order: verbs objects, CM objects, memory, sockets.  A process runs the  *)
(* script of its program.  Any creation and any other call that the        *)
(* program checks may fail; the process then takes the program's failure   *)
(* path: it exits at once (hello_verbs, Chapter 9, rdma_bench), cleans up  *)
(* what is there (srq_example) or unwinds along a chain of labels (the CM  *)
(* programs).                                                              *)
(***************************************************************************)
EXTENDS Integers, Sequences

CONSTANT Programs  \* the programs to run

ASSUME ProgramsAssumption ==
  Programs \subseteq {"hello_verbs", "rc_pingpong", "rdma_write", "rdma_read",
                      "ud_send", "rdma_bench", "srq_example", "cm_server",
                      "cm_client"}

VARIABLES
  program,  \* what the process runs
  role,     \* as a server or receiver, as a client or sender, or alone
  todo,     \* the steps it still has to take: "new", "free" or "work"
  live,     \* what it has created and not destroyed
  outcome   \* "ok" so far, "failed", or "exit" once it has called exit()

vars == <<program, role, todo, live, outcome>>

New(objects) == [i \in DOMAIN objects |-> <<"new", objects[i]>>]
Free(objects) == [i \in DOMAIN objects |-> <<"free", objects[i]>>]
Work(label) == <<<<"work", label>>>>

----------------------------------------------------------------------------
(* What holds a reference to what.                                         *)

\* libibverbs: a protection domain and a completion queue belong to a context,
\* memory regions, queue pairs, SRQs and address handles to a protection
\* domain; a queue pair uses its completion queue and its SRQ.  A region also
\* needs the memory it registers.
Qps == {"qp", "qp1", "qp2", "sendQp1", "sendQp2", "recvQp1", "recvQp2"}
References ==
  ({"pd", "cq"} \X {"ctx"})
  \cup ((Qps \cup {"mr", "dataMr", "notifyMr", "headerMr", "sendMr", "recvMr",
                   "staticMr", "srq", "ah"}) \X {"pd"})
  \cup (Qps \X {"cq"})
  \cup ({"recvQp1", "recvQp2"} \X {"srq"})
  \cup {<<"mr", "buf">>, <<"dataMr", "dataBuf">>, <<"notifyMr", "notifyBuf">>,
        <<"sendMr", "sendBuf">>, <<"recvMr", "recvBuf">>}
  \cup ({"connRecvMr", "connSendMr"} \X {"connPd", "conn"})
  \cup ({"connQp"} \X {"connPd", "connCq"})

\* librdmacm: a queue pair is destroyed before the identifier of its connection.
CmReferences == {<<"connQp", "id">>}

InUse(o, references) == \E u \in live : <<u, o>> \in references

----------------------------------------------------------------------------
(* The scripts.                                                            *)

\* The device list is freed once the device is open.
OpenDevice == New(<<"list", "ctx">>) \o Free(<<"list">>)

\* A server closes the socket it listens on when it has accepted.
TcpConnect(r) ==
  IF r = "server" THEN New(<<"listener", "sock">>) \o Free(<<"listener">>)
                  ELSE New(<<"sock">>)

HelloTeardown == Free(<<"qp", "mr", "buf", "cq", "pd", "ctx">>)
HelloVerbs ==
  OpenDevice \o Work("query") \o New(<<"pd", "cq", "buf", "mr", "qp">>)
  \o HelloTeardown

RcPingPong(r) ==
  OpenDevice \o New(<<"pd", "cq", "qp", "buf", "mr">>)
  \o TcpConnect(r) \o Work("setup and loop")
  \o Free(<<"sock", "qp", "mr", "cq", "pd", "ctx", "buf">>)

OneSidedSetup(r) ==
  OpenDevice \o New(<<"pd", "cq", "qp", "dataBuf", "dataMr", "notifyBuf",
                      "notifyMr">>)
  \o TcpConnect(r) \o Work("setup")
OneSidedTeardown ==
  Free(<<"sock", "qp", "dataMr", "notifyMr", "cq", "pd", "ctx", "dataBuf",
         "notifyBuf">>)

RdmaWrite(r) == OneSidedSetup(r) \o Work("write or wait") \o OneSidedTeardown

\* The client reads the header into a variable registered for that alone.
RdmaRead(r) ==
  OneSidedSetup(r)
  \o (IF r = "client" THEN New(<<"headerMr">>) \o Work("read")
                           \o Free(<<"headerMr">>)
                      ELSE Work("wait"))
  \o OneSidedTeardown

\* Only the sender makes an address handle.  The receive buffers are allocated
\* one by one, then replaced by a single block.
UdSend(r) ==
  OpenDevice \o New(<<"pd", "cq", "qp", "sendBuf", "sendMr", "bufs", "recvBuf",
                      "recvMr">>)
  \o Free(<<"bufs">>) \o Work("to RTS") \o TcpConnect(r) \o Work("exchange")
  \o (IF r = "client" THEN New(<<"ah">>) \o Work("send") \o Free(<<"ah">>)
                      ELSE Work("receive"))
  \o Free(<<"sock", "qp", "sendMr", "recvMr", "cq", "pd", "ctx", "sendBuf",
            "recvBuf">>)

\* With two queue pairs, as -q 2 asks for.
BenchTeardown ==
  Free(<<"qp1", "qp2", "qps", "cq", "mr", "pd", "buf", "ctx">>)

RdmaBench(r) ==
  OpenDevice \o New(<<"pd", "buf", "mr", "cq", "qps", "qp1", "qp2">>)
  \o Work("query") \o TcpConnect(r) \o Work("connect and run")
  \o Free(<<"sock">>) \o BenchTeardown

\* init_resources() and run_demo(), with two connected pairs.  The send buffers
\* are part of the global variable, the receive buffers are allocated.
SrqSetup ==
  OpenDevice \o Work("query port") \o New(<<"pd", "cq", "srq">>)
  \o Work("set limit") \o New(<<"recvBuf", "recvMr", "staticMr">>)
  \o Work("fill") \o New(<<"sendQp1", "recvQp1", "sendQp2", "recvQp2">>)
  \o Work("connect")

\* Mutant: the receive queue pairs are destroyed after the SRQ they use.
SrqBeforeQps ==
  <<"sendQp1", "sendQp2", "staticMr", "recvMr", "srq", "recvQp1", "recvQp2",
    "cq", "pd", "ctx", "recvBuf">>

SrqCleanup ==
  <<"recvQp1", "sendQp1", "recvQp2", "sendQp2", "staticMr", "recvMr", "srq",
    "cq", "pd", "ctx", "recvBuf">>

\* on_connect_request() and on_route_resolved() create the same objects.
ConnObjects ==
  <<"conn", "connPd", "connCq", "connRecvMr", "connSendMr", "connQp">>
ConnLabels ==
  <<"connQp", "connSendMr", "connRecvMr", "connCq", "connPd", "conn">>

CmServer ==
  New(<<"channel", "listener">>) \o Work("listen") \o New(<<"id">>)
  \o New(ConnObjects) \o Work("accept") \o Work("established")
  \o Free(ConnLabels) \o Free(<<"id">>)
  \o Free(<<"listener", "channel">>)

CmClient ==
  New(<<"channel", "id">>) \o Work("resolve") \o Work("route")
  \o New(ConnObjects) \o Work("accept") \o Work("established")
  \o Free(ConnLabels) \o Free(<<"id", "channel">>)

Script(prog, r) ==
  CASE prog = "hello_verbs" -> HelloVerbs
    [] prog = "rc_pingpong" -> RcPingPong(r)
    [] prog = "rdma_write"  -> RdmaWrite(r)
    [] prog = "rdma_read"   -> RdmaRead(r)
    [] prog = "ud_send"     -> UdSend(r)
    [] prog = "rdma_bench"  -> RdmaBench(r)
    [] prog = "srq_example" -> SrqSetup \o Work("demo") \o Free(SrqCleanup)
    [] prog = "cm_server"   -> CmServer
    [] prog = "cm_client"   -> CmClient

----------------------------------------------------------------------------
(* The failure paths.                                                      *)

Position(o, objects) == CHOOSE i \in DOMAIN objects : objects[i] = o

\* Mutant: a goto that skips one label too many.
GotoNextLabel(o) ==
  IF o = "accept" THEN ConnLabels
  ELSE IF o \in {"id", "resolve", "route", "established"} THEN <<>>
  ELSE SubSeq(ConnLabels, Position(o, ConnLabels) + 2, Len(ConnLabels))

\* The goto of a failing step: everything from the label of the object created
\* last.  Outside the two handlers there is none.
Goto(o) ==
  IF o = "accept" THEN ConnLabels
  ELSE IF o \in {"id", "resolve", "route", "established"} THEN <<>>
  ELSE SubSeq(ConnLabels, Position(o, ConnLabels) + 1, Len(ConnLabels))

\* cleanup() destroys what is not NULL.
IfNotNull(o) == o \in live

\* main() returns 1 before its event loop, and else destroys its identifier and
\* the channel after it.
CmServerFails(o) ==
  IF o \in {"channel", "listener", "listen"} THEN <<>>
  ELSE Free(Goto(o) \o <<"listener", "channel">>)
CmClientFails(o) ==
  IF o \in {"channel", "id", "resolve"} THEN <<>>
  ELSE Free(Goto(o) \o <<"id", "channel">>)

\* Without a device the list is left; else it is freed whether or not the
\* device opens.
SrqFails(o) ==
  LET cleanup == Free(SelectSeq(SrqCleanup, IfNotNull)) IN
  IF o = "ctx" THEN {Free(<<"list">>) \o cleanup, cleanup} ELSE {cleanup}

FailurePaths(o) ==
  CASE program = "cm_server"   -> {CmServerFails(o)}
    [] program = "cm_client"   -> {CmClientFails(o)}
    [] program = "srq_example" -> SrqFails(o)
    [] OTHER                   -> {<<>>}

----------------------------------------------------------------------------
Roles(prog) ==
  CASE prog \in {"hello_verbs", "srq_example"} -> {"alone"}
    [] prog = "cm_server" -> {"server"}
    [] prog = "cm_client" -> {"client"}
    [] OTHER -> {"server", "client"}

Init ==
  /\ program \in Programs
  /\ role \in Roles(program)
  /\ todo = Script(program, role)
  /\ live = {}
  /\ outcome = "ok"

\* The next step of the script succeeds.
Step ==
  /\ todo # <<>>
  /\ todo' = Tail(todo)
  /\ LET o == Head(todo)[2] IN
       live' = CASE Head(todo)[1] = "new"  -> live \cup {o}
                 [] Head(todo)[1] = "free" -> live \ {o}
                 [] OTHER                  -> live
  /\ UNCHANGED <<program, role, outcome>>

\* CHECK_NULL, CHECK_ERRNO, CHECK_RC, DIE and die(): exit(EXIT_FAILURE).
Exits == program \notin {"srq_example", "cm_server", "cm_client"}

\* The next step fails.  What is left when a process exits is the kernel's to
\* reclaim, in an order that is right by itself.
Fail ==
  /\ todo # <<>>
  /\ Head(todo)[1] # "free"
  /\ outcome = "ok"
  /\ todo' \in FailurePaths(Head(todo)[2])
  /\ outcome' = IF Exits THEN "exit" ELSE "failed"
  /\ live' = IF Exits THEN {} ELSE live
  /\ UNCHANGED <<program, role>>

Next == Step \/ Fail

Spec == Init /\ [][Next]_vars

----------------------------------------------------------------------------
\* o is what the process destroys next.
AboutToFree(o) == todo # <<>> /\ Head(todo) = <<"free", o>>

\* Nothing is destroyed that is not there, or no longer there, or while
\* something that refers to it is, on the normal path of every program and on
\* every failure path: the kernel would refuse a protection domain, a completion
\* queue or an SRQ with EBUSY, and memory would be freed that an adapter may
\* still write.  And nothing is created twice, or before what it refers to.
OrderRespectsReferences ==
  todo # <<>> =>
    LET o == Head(todo)[2] IN
    /\ Head(todo)[1] = "free" => o \in live /\ ~InUse(o, References)
    /\ Head(todo)[1] = "new" =>
         /\ o \notin live
         /\ \A r \in References : r[1] = o => r[2] \in live

\* A program that runs to its end has given back everything, and so has
\* srq_example when it fails at any point, except for the list of a machine
\* without devices.  The labels of the CM programs give back all that a
\* connection has, or, when it fails after it was set up, nothing; they never
\* leave half of it.
AllGivenBack ==
  todo = <<>> =>
    /\ outcome = "ok" => live = {}
    /\ program = "srq_example" => live \subseteq {"list"}
    /\ "connQp" \in live \/ {ConnObjects[i] : i \in DOMAIN ConnObjects} \cap live = {}

\* The order the API reference of the book asks for: no connection loses its
\* identifier while it has its queue pair.
CmOrder ==
  \A o \in live : AboutToFree(o) => ~InUse(o, CmReferences)
=============================================================================
