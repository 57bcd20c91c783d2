----------------------------- MODULE EdlServer -----------------------------
(* The SOAP server: EdlProviderServer::run accepts connections in one thread  *)
(* and hands each one, as a copy of the soap context, to a runnable of the    *)
(* global QThreadPool; the runnable serves the request, which looks the       *)
(* plugin up in the shared EdlPluginManager (module PluginManager) and runs   *)
(* it.  gSOAP (reading a request, sending a reply) is external.               *)
EXTENDS PluginManager, Sequences, Functions

CONSTANTS
    Clients,       \* clients; each makes one connection with one request
    Requests,      \* the requests they choose from
    Silent,        \* clients that keep the thread serving them for good: they never
                   \* send their request, or never read a reply too long to buffer
    Backlog,       \* the backlog given to bind
    AcceptErrors,  \* whether accept may fail
    None           \* no client, no request

ASSUME ClientsAssumption ==
    Silent \subseteq Clients /\ None \notin Clients /\ "listening" \notin Clients
\* What createEdl throws; "unknown" is anything but its own exceptions.
Exceptions == {"invalid_argument", "UNSUPPORTED_FRAME_RATE", "REQUIRED_VALUE",
               "MARKIN_BIGGER_THAN_MARKOUT", "MARK_INOUT_OUTSIDE_DURATION",
               "GENERIC", "unknown"}

\* clips, rate: whether the request has a clips element and, for getEdlDouble, a
\* frame rate that is known; ends: what createEdl does with it.
ASSUME RequestsAssumption ==
    /\ None \notin Requests
    /\ Requests \subseteq [op : {"getInstalledEdls", "getEdl", "getEdlDouble", "malformed"},
                           type : Types, clips : BOOLEAN, rate : BOOLEAN,
                           ends : {"none"} \cup Exceptions]
ASSUME BacklogAssumption == Backlog \in Nat /\ AcceptErrors \in BOOLEAN

VARIABLES
    backlog,  \* connections the kernel completed, not accepted yet
    request,  \* request[c]: what client c sends, None before it connects
    gone,     \* clients that closed their end
    loop,     \* where EdlProviderServer::run is
    socket,   \* the socket of the listening soap context, set by accept
    queue,    \* runnables waiting in the pool: the context each serves
    task,     \* task[w]: the context thread w serves, None when it is free
    parsed,   \* parsed[w]: the request thread w has read, None before
    reply     \* reply[c]: the answers client c received

netVars  == <<backlog, request, gone>>
loopVars == <<loop, socket>>
poolVars == <<queue, task, parsed>>
srvVars  == <<backlog, request, gone, loop, socket, queue, task, parsed, reply>>
vars     == <<pmVars, srvVars>>

Listening == "listening"      \* the context EdlProviderServer::run works with

\* The socket a context reads and writes: a copy has its own.
SocketOf(ctx) == IF ctx = Listening THEN socket ELSE ctx

\* Mutant of Copy: the runnable is given the listening context itself.
SharedContext == Listening

\* EdlProviderServer::copy: the new context keeps the socket just accepted.
Copy == socket

Answer(kind, body) == [kind |-> kind, body |-> body]

\* Mutant of FaultCode: the two faults about marks are swapped.
FaultCodeSwapped ==
    [invalid_argument            |-> "DAT_S00_0006",
     UNSUPPORTED_FRAME_RATE      |-> "EXT_S00_0002",
     REQUIRED_VALUE              |-> "EXT_S00_0003",
     MARKIN_BIGGER_THAN_MARKOUT  |-> "EXT_S00_0005",
     MARK_INOUT_OUTSIDE_DURATION |-> "EXT_S00_0004",
     GENERIC                     |-> "EXT_S00_0006",
     unknown                     |-> "INF_S00_0003"]

\* processGetEdl: the fault each exception is turned into.
FaultCode ==
    [invalid_argument            |-> "DAT_S00_0006",
     UNSUPPORTED_FRAME_RATE      |-> "EXT_S00_0002",
     REQUIRED_VALUE              |-> "EXT_S00_0003",
     MARKIN_BIGGER_THAN_MARKOUT  |-> "EXT_S00_0004",
     MARK_INOUT_OUTSIDE_DURATION |-> "EXT_S00_0005",
     GENERIC                     |-> "EXT_S00_0006",
     unknown                     |-> "INF_S00_0003"]

-----------------------------------------------------------------------------
(* Clients and the kernel (external)                                          *)

\* Also when run has returned: nothing closes the socket that is bound.
Connect(c) ==
    /\ request[c] = None
    /\ loop \in {"accepting", "spawning", "stopped"} /\ Len(backlog) < Backlog
    /\ \E r \in Requests : request' = [request EXCEPT ![c] = r]
    /\ backlog' = Append(backlog, c)
    /\ UNCHANGED <<pmVars, gone, loopVars, poolVars, reply>>

\* A client that waits for its answer closes the connection.
HangUp(c) ==
    /\ request[c] # None /\ reply[c] = <<>> /\ c \notin gone
    /\ gone' = gone \cup {c}
    /\ UNCHANGED <<pmVars, backlog, request, loopVars, poolVars, reply>>

-----------------------------------------------------------------------------
(* EdlProviderServer::run                                                     *)

\* bind, once the constructor has returned; run returns when it fails.
Bind ==
    /\ Built /\ loop = "down"
    /\ loop' \in {"accepting", "unbound"}
    /\ UNCHANGED <<pmVars, netVars, socket, poolVars, reply>>

Accept ==
    /\ Built /\ loop = "accepting" /\ backlog # <<>>
    /\ socket' = Head(backlog)
    /\ backlog' = Tail(backlog)
    /\ loop' = "spawning"
    /\ UNCHANGED <<pmVars, request, gone, poolVars, reply>>

\* Any error of accept ends run for good.
AcceptFails ==
    /\ Built /\ loop = "accepting" /\ AcceptErrors
    /\ loop' = "stopped"
    /\ UNCHANGED <<pmVars, netVars, socket, poolVars, reply>>

\* new EdlProviderProcessRequest(copy()), QThreadPool::start.
Spawn ==
    /\ Built /\ loop = "spawning"
    /\ queue' = Append(queue, Copy)
    /\ loop' = "accepting"
    /\ UNCHANGED <<pmVars, netVars, socket, task, parsed, reply>>

-----------------------------------------------------------------------------
(* EdlProviderProcessRequest::run in pool thread w                            *)

Take(w) ==
    /\ Built /\ task[w] = None /\ queue # <<>>
    /\ task' = [task EXCEPT ![w] = Head(queue)]
    /\ queue' = Tail(queue)
    /\ UNCHANGED <<pmVars, netVars, loopVars, parsed, reply>>

\* Mutant of Finish: the runnable never returns when its client is gone.
FinishUnlessGone(w, answers) ==
    LET c == SocketOf(task[w])
    IN  /\ c \notin gone
        /\ reply' = [reply EXCEPT ![c] = @ \o answers]
        /\ task' = [task EXCEPT ![w] = None]
        /\ parsed' = [parsed EXCEPT ![w] = None]
        /\ UNCHANGED <<netVars, loopVars, queue>>

\* The reply, if any, is sent on the context's socket, and the runnable ends.
Finish(w, answers) ==
    LET c == SocketOf(task[w])
    IN  /\ reply' = IF c \in gone THEN reply
                    ELSE [reply EXCEPT ![c] = @ \o answers]
        /\ task' = [task EXCEPT ![w] = None]
        /\ parsed' = [parsed EXCEPT ![w] = None]
        /\ UNCHANGED <<netVars, loopVars, queue>>

\* serve() blocks in recv until the request is there.
Receiving(w) == Built /\ task[w] # None /\ parsed[w] = None
Arrived(w)   == Receiving(w) /\ SocketOf(task[w]) \notin gone \cup Silent
Incoming(w)  == request[SocketOf(task[w])]
BadRate(r)   == r.op = "getEdlDouble" /\ ~r.rate

\* recv fails: serve returns the error, the runnable only logs it.
LoseClient(w) ==
    /\ Receiving(w) /\ SocketOf(task[w]) \in gone
    /\ Finish(w, <<>>)
    /\ UNCHANGED pmVars

ReceiveMalformed(w) ==
    /\ Arrived(w) /\ Incoming(w).op = "malformed"
    /\ Finish(w, <<Answer("SOAP_FAULT", {})>>)
    /\ UNCHANGED pmVars

\* getEdlDouble: setEditRate does not know the frame rate.
RejectRate(w) ==
    /\ Arrived(w) /\ BadRate(Incoming(w))
    /\ Finish(w, <<Answer("EXT_S00_0002", {})>>)
    /\ UNCHANGED pmVars

\* The operations that go to the plugin manager.
Dispatch(w) ==
    /\ Arrived(w) /\ Incoming(w).op # "malformed" /\ ~BadRate(Incoming(w))
    /\ parsed' = [parsed EXCEPT ![w] = Incoming(w)]
    /\ ReadLoader(w)
    /\ UNCHANGED <<netVars, loopVars, queue, task, reply>>

Serving(w) == Built /\ parsed[w] # None
Wants(w)   == Serving(w) /\ parsed[w].op # "getInstalledEdls"

List(w) ==
    /\ Serving(w)
    /\ GetInstances(w)
    /\ UNCHANGED srvVars

\* getInstalledEdls
ReturnInstalledEdls(w) ==
    /\ Serving(w) /\ ~Wants(w) /\ use[w].st = "listed"
    /\ Leave(w)
    /\ Finish(w, <<Answer("edls", {Name[l] : l \in use[w].libs})>>)

\* processGetEdl: findEdl returned nullptr.
RejectType(w) ==
    /\ Wants(w)
    /\ FindMiss(w, parsed[w].type)
    /\ Finish(w, <<Answer("EXT_S00_0001", {})>>)

FindPlugin(w) ==
    /\ Wants(w)
    /\ FindHit(w, parsed[w].type)
    /\ UNCHANGED srvVars

\* createEdl returned the data, which takes the clips.
ReturnEdl(w) ==
    /\ Wants(w) /\ use[w].st = "inside"
    /\ parsed[w].ends = "none" /\ parsed[w].clips
    /\ Leave(w)
    /\ Finish(w, <<Answer("edl", {Name[l] : l \in use[w].libs})>>)

\* createEdl threw.
ReturnFault(w) ==
    /\ Wants(w) /\ use[w].st = "inside"
    /\ parsed[w].ends # "none"
    /\ Leave(w)
    /\ Finish(w, <<Answer(FaultCode[parsed[w].ends], {})>>)

\* getEdl dereferenced the clips element, which is optional: the plugin reads
\* the vector through a null pointer.
CreateWithoutClips(w) ==
    /\ Wants(w) /\ ~parsed[w].clips
    /\ PluginFails(w)
    /\ UNCHANGED srvVars

\* The other ways a thread can bring the process down.
Crash(w) ==
    /\ \/ Wants(w) /\ FindNull(w, parsed[w].type)
       \/ Serving(w) /\ ~Wants(w) /\ EnumerateNull(w)
       \/ Serving(w) /\ Fault(w)
    /\ UNCHANGED srvVars

Thread(w) ==
    \/ Take(w) \/ LoseClient(w) \/ ReceiveMalformed(w) \/ RejectRate(w)
    \/ Dispatch(w) \/ List(w) \/ ReturnInstalledEdls(w) \/ RejectType(w)
    \/ FindPlugin(w) \/ ReturnEdl(w) \/ ReturnFault(w) \/ CreateWithoutClips(w)
    \/ Crash(w)

-----------------------------------------------------------------------------

Init ==
    /\ PMInit
    /\ backlog = <<>> /\ queue = <<>> /\ gone = {}
    /\ request = [c \in Clients |-> None]
    /\ loop = "down" /\ socket = None
    /\ task = [w \in Workers |-> None]
    /\ parsed = [w \in Workers |-> None]
    /\ reply = [c \in Clients |-> <<>>]

Next ==
    \/ (Main \/ Directory) /\ UNCHANGED srvVars
    \/ \E c \in Clients : Connect(c) \/ HangUp(c)
    \/ Bind \/ Accept \/ AcceptFails \/ Spawn
    \/ \E w \in Workers : Thread(w)

Spec == Init /\ [][Next]_vars

-----------------------------------------------------------------------------
(* Properties                                                                 *)

Contexts == Clients \cup {Listening}
Kinds    == {"edls", "edl", "SOAP_FAULT", "EXT_S00_0001"}
            \cup {FaultCode[e] : e \in DOMAIN FaultCode}
Answers  == [kind : Kinds, body : SUBSET Types]

\* Every variable of the server keeps its type.
ServerTypeOK ==
    /\ backlog \in Seq(Clients) /\ Len(backlog) <= Backlog
    /\ request \in [Clients -> Requests \cup {None}]
    /\ gone \subseteq Clients
    /\ loop \in {"down", "unbound", "accepting", "spawning", "stopped"}
    /\ socket \in Clients \cup {None}
    /\ queue \in Seq(Contexts)
    /\ task \in [Workers -> Contexts \cup {None}]
    /\ parsed \in [Workers -> Requests \cup {None}]
    /\ reply \in [Clients -> Seq(Answers)]

Accepted == IF loop = "spawning" THEN {socket} ELSE {}
InHand   == {task[w] : w \in Workers} \ {None}

\* Requests served at the same time share nothing: a connection is in the
\* backlog, just accepted, queued or in the hands of one thread, and in one of
\* these places only (EdlProviderServer::copy gives each its own context).
OneContextPerClient ==
    /\ IsInjective(backlog) /\ IsInjective(queue)
    /\ \A v, w \in Workers : task[v] = task[w] => v = w \/ task[v] = None
    /\ Range(backlog) \cap (Accepted \cup Range(queue) \cup InHand) = {}
    /\ Accepted \cap (Range(queue) \cup InHand) = {}
    /\ Range(queue) \cap InHand = {}

\* A client that waits for its answer has not been forgotten: its connection is
\* in one of those places, whatever errors, exceptions and hang-ups there were;
\* and in none of them once it has its answer.
NoneForgotten ==
    LET Held == Range(backlog) \cup Accepted \cup Range(queue) \cup InHand
    IN  \A c \in Clients :
            /\ request[c] # None /\ reply[c] = <<>> /\ c \notin gone => c \in Held
            /\ c \in Held => request[c] # None /\ reply[c] = <<>>

Published == mgr \notin CtorStates
Offered   == {Name[l] : l \in loader["edl"].files}
Catalogue == IF Published THEN Offered ELSE {}

Contract == INSTANCE EdlContract WITH
                published <- Published,
                catalogue <- Catalogue,
                sent      <- request,
                got       <- reply,
                Unsent    <- None

\* Without AutoReload the server, with its threads and shared plugins, does what
\* EdlContract says: one answer at most, its own, from a fixed catalogue.
ImplementsContract == Contract!Spec

\* While a plugin runs for a request without a clips element the process is up:
\* README.md calls one "a working request".
MinimalRequestWorks ==
    \A w \in Workers :
        parsed[w] # None /\ use[w].st = "inside" /\ ~parsed[w].clips => Alive

\* With AutoReload the catalogue may change under a request, but still no
\* client gets two answers, or one its own request could not have with any
\* catalogue.
OwnAnswer ==
    \A c \in Clients :
        \/ reply[c] = <<>>
        \/ /\ Len(reply[c]) = 1 /\ request[c] # None
           /\ \E offered \in SUBSET Types :
                 reply[c][1] \in Contract!Permitted(request[c], offered)

=============================================================================
