-------------------------- MODULE EdlServerProofs --------------------------
(* Theorems about EdlServer, for any clients, requests, threads, libraries    *)
(* and directory, with AutoReload or without it unless they say so.           *)
EXTENDS EdlServer, PluginManagerProofs

-----------------------------------------------------------------------------
(* The shapes of a thread's steps                                             *)

\* createEdl came back, with an EDL or an exception.
Created(w) == ReturnEdl(w) \/ ReturnFault(w)

LEMMA ThreadShapes ==
    ASSUME NEW w \in Workers, Thread(w)
    PROVE  \/ Take(w)
           \/ \E a : Finish(w, a) /\ (Receiving(w) \/ Serving(w))
           \/ Dispatch(w)
           \/ UNCHANGED srvVars
<1>1. CASE LoseClient(w) \/ ReceiveMalformed(w) \/ RejectRate(w)
  BY <1>1 DEF LoseClient, ReceiveMalformed, RejectRate, Arrived
<1>2. CASE ReturnInstalledEdls(w) \/ RejectType(w)
  BY <1>2 DEF ReturnInstalledEdls, RejectType, Wants
<1>3. CASE Created(w)
  BY <1>3 DEF Created, ReturnEdl, ReturnFault, Wants
<1>4. CASE List(w) \/ FindPlugin(w) \/ CreateWithoutClips(w) \/ Crash(w)
  BY <1>4 DEF List, FindPlugin, CreateWithoutClips, Crash
<1> QED
  BY <1>1, <1>2, <1>3, <1>4 DEF Thread, Created

-----------------------------------------------------------------------------
(* Types of everything but the replies                                        *)

\* Only copies of the context are ever queued or served.
NetTypes ==
    /\ backlog \in Seq(Clients) /\ Len(backlog) <= Backlog
    /\ request \in [Clients -> Requests \cup {None}]
    /\ gone \subseteq Clients
    /\ loop \in {"down", "unbound", "accepting", "spawning", "stopped"}
    /\ socket \in Clients \cup {None}
    /\ loop = "spawning" => socket \in Clients
    /\ queue \in Seq(Clients)
    /\ task \in [Workers -> Clients \cup {None}]
    /\ parsed \in [Workers -> Requests \cup {None}]

LEMMA NetTyping == Spec => []NetTypes
<1>1. Init => NetTypes
  BY BacklogAssumption DEF Init, NetTypes
<1>2. NetTypes /\ [Next]_vars => NetTypes'
  <2> SUFFICES ASSUME NetTypes, [Next]_vars PROVE NetTypes'
    OBVIOUS
  <2> USE DEF NetTypes
  <2>1. CASE (Main \/ Directory) /\ UNCHANGED srvVars
    BY <2>1 DEF srvVars
  <2>2. ASSUME NEW c \in Clients, Connect(c) PROVE NetTypes'
    <3>1. backlog' \in Seq(Clients) /\ Len(backlog') <= Backlog
      BY <2>2, BacklogAssumption DEF Connect
    <3> QED
      BY <2>2, <3>1 DEF Connect, loopVars, poolVars
  <2>3. ASSUME NEW c \in Clients, HangUp(c) PROVE NetTypes'
    BY <2>3 DEF HangUp, loopVars, poolVars
  <2>4. CASE Bind \/ AcceptFails
    BY <2>4 DEF Bind, AcceptFails, netVars, poolVars
  <2>5. CASE Accept
    <3>1. /\ Head(backlog) \in Clients /\ Tail(backlog) \in Seq(Clients)
          /\ Len(Tail(backlog)) <= Backlog
      BY <2>5, BacklogAssumption DEF Accept
    <3> QED
      BY <2>5, <3>1 DEF Accept, poolVars
  <2>6. CASE Spawn
    <3>1. Append(queue, socket) \in Seq(Clients)
      BY <2>6 DEF Spawn
    <3> QED
      BY <2>6, <3>1 DEF Spawn, Copy, netVars
  <2>7. ASSUME NEW w \in Workers, Thread(w) PROVE NetTypes'
    <3>1. CASE Take(w)
      <4>1. Head(queue) \in Clients /\ Tail(queue) \in Seq(Clients)
        BY <3>1 DEF Take
      <4> QED
        BY <3>1, <4>1 DEF Take, netVars, loopVars
    <3>2. ASSUME NEW a, Finish(w, a) PROVE NetTypes'
      BY <3>2 DEF Finish, netVars, loopVars
    <3>3. CASE Dispatch(w)
      <4>1. task[w] \in Clients /\ Incoming(w) = request[task[w]]
        BY <3>3, ClientsAssumption DEF Dispatch, Arrived, Receiving, Incoming,
                                       SocketOf, Listening
      <4> QED
        BY <3>3, <4>1 DEF Dispatch, netVars, loopVars
    <3>4. CASE UNCHANGED srvVars
      BY <3>4 DEF srvVars
    <3> QED
      BY <2>7, <3>1, <3>2, <3>3, <3>4, ThreadShapes
  <2>8. CASE UNCHANGED vars
    BY <2>8 DEF vars, srvVars
  <2> QED
    BY <2>1, <2>2, <2>3, <2>4, <2>5, <2>6, <2>7, <2>8 DEF Next
<1> QED
  BY <1>1, <1>2, PTL DEF Spec

-----------------------------------------------------------------------------
(* The server is one of the programs PluginManager describes                  *)

LEMMA StepsOfManager ==
    ASSUME NetTypes, [Next]_vars
    PROVE  [PMNext]_pmVars
<1>1. CASE UNCHANGED vars
  BY <1>1 DEF vars
<1>2. CASE (Main \/ Directory) /\ UNCHANGED srvVars
  BY <1>2 DEF PMNext
<1>3. ASSUME NEW c \in Clients, Connect(c) \/ HangUp(c) PROVE [PMNext]_pmVars
  BY <1>3 DEF Connect, HangUp
<1>4. CASE Bind \/ Accept \/ AcceptFails \/ Spawn
  BY <1>4 DEF Bind, Accept, AcceptFails, Spawn
<1>5. ASSUME NEW w \in Workers, Thread(w) PROVE [PMNext]_pmVars
  <2>0. Wants(w) => parsed[w].type \in Types
    BY RequestsAssumption DEF Wants, Serving, NetTypes
  <2>1. CASE Take(w) \/ LoseClient(w) \/ ReceiveMalformed(w) \/ RejectRate(w)
    BY <2>1 DEF Take, LoseClient, ReceiveMalformed, RejectRate
  <2>2. CASE Dispatch(w)
    BY <2>2 DEF Dispatch, PMNext, Lookup
  <2>3. CASE List(w)
    BY <2>3 DEF List, PMNext, Lookup
  <2>4. CASE ReturnInstalledEdls(w) \/ Created(w)
    BY <2>4 DEF ReturnInstalledEdls, Created, ReturnEdl, ReturnFault, PMNext, Lookup
  <2>5. CASE RejectType(w) \/ FindPlugin(w)
    BY <2>0, <2>5 DEF RejectType, FindPlugin, PMNext, Lookup
  <2>6. CASE CreateWithoutClips(w) \/ Crash(w)
    BY <2>0, <2>6 DEF CreateWithoutClips, Crash, PMNext, Lookup
  <2> QED
    BY <1>5, <2>1, <2>2, <2>3, <2>4, <2>5, <2>6 DEF Thread, Created
<1> QED
  BY <1>1, <1>2, <1>3, <1>4, <1>5 DEF Next

\* What is proved of PluginManager holds in the server: its threads use the
\* manager as PMSpec says.
THEOREM ServerImplementsManager == Spec => PMSpec
<1>1. Init => PMInit
  BY DEF Init
<1> QED
  BY <1>1, StepsOfManager, NetTyping, PTL DEF Spec, PMSpec

-----------------------------------------------------------------------------
(* A connection is in one place, and in none once it is answered              *)

\* What a queue's two operations do to its contents.
LEMMA AppendContents ==
    ASSUME NEW S, NEW q \in Seq(S), NEW e \in S, IsInjective(q), e \notin Range(q)
    PROVE  IsInjective(Append(q, e)) /\ Range(Append(q, e)) = Range(q) \cup {e}
<1> DEFINE r == Append(q, e)
<1>1. DOMAIN q = 1..Len(q) /\ DOMAIN r = 1..(Len(q) + 1) /\ Len(q) \in Nat
  OBVIOUS
<1>2. \A i \in 1..Len(q) : r[i] = q[i]
  OBVIOUS
<1>3. r[Len(q) + 1] = e
  OBVIOUS
<1> HIDE DEF r
<1>4. \A i \in DOMAIN r : i \in DOMAIN q \/ i = Len(q) + 1
  BY <1>1
<1>5. Range(r) = Range(q) \cup {e}
  BY <1>1, <1>2, <1>3, <1>4 DEF Range
<1>6. ASSUME NEW i \in DOMAIN r, NEW j \in DOMAIN r, r[i] = r[j] PROVE i = j
  BY <1>1, <1>2, <1>3, <1>4, <1>6 DEF Range, IsInjective
<1> QED
  BY <1>5, <1>6 DEF r, IsInjective

LEMMA TailContents ==
    ASSUME NEW S, NEW q \in Seq(S), q # <<>>, IsInjective(q)
    PROVE  /\ IsInjective(Tail(q)) /\ Range(Tail(q)) = Range(q) \ {Head(q)}
           /\ Head(q) \in Range(q)
<1> DEFINE r == Tail(q)
<1>1. /\ DOMAIN q = 1..Len(q) /\ Len(q) \in Nat /\ Len(q) > 0
      /\ DOMAIN r = 1..(Len(q) - 1)
  OBVIOUS
<1>2. \A i \in 1..(Len(q) - 1) : r[i] = q[i + 1]
  OBVIOUS
<1>3. Head(q) = q[1]
  OBVIOUS
<1> HIDE DEF r
<1>4. Range(r) = Range(q) \ {q[1]}
  <2>1. ASSUME NEW i \in DOMAIN r PROVE r[i] \in Range(q) \ {q[1]}
    <3>1. i + 1 \in DOMAIN q /\ 1 \in DOMAIN q /\ i + 1 # 1 /\ r[i] = q[i + 1]
      BY <1>1, <1>2
    <3> QED
      BY <3>1 DEF IsInjective, Range
  <2>2. ASSUME NEW i \in DOMAIN q, q[i] # q[1] PROVE q[i] \in Range(r)
    <3>1. i - 1 \in DOMAIN r /\ (i - 1) + 1 = i
      BY <1>1, <2>2
    <3> QED
      BY <1>1, <1>2, <3>1 DEF Range
  <2> QED
    BY <2>1, <2>2 DEF Range
<1>5. ASSUME NEW i \in DOMAIN r, NEW j \in DOMAIN r, r[i] = r[j] PROVE i = j
  <2>1. /\ i + 1 \in DOMAIN q /\ j + 1 \in DOMAIN q
        /\ i \in Nat /\ j \in Nat /\ q[i + 1] = q[j + 1]
    BY <1>1, <1>2, <1>5
  <2>2. i + 1 = j + 1
    BY <2>1 DEF IsInjective
  <2> QED
    BY <2>1, <2>2
<1>6. Head(q) \in Range(q)
  BY <1>1, <1>3 DEF Range
<1> QED
  BY <1>3, <1>4, <1>5, <1>6 DEF r, IsInjective

Open(c) == request[c] # None /\ reply[c] = <<>>
Places ==
    /\ OneContextPerClient
    /\ \A c \in Range(backlog) \cup Accepted \cup Range(queue) \cup InHand : Open(c)
    /\ \A w \in Workers : parsed[w] # None => task[w] # None
    /\ \A c \in Clients : request[c] = None => reply[c] = <<>>

LEMMA PlacesInvariant == Spec => []Places
<1>1. Init => Places
  BY DEF Init, Places, OneContextPerClient, Range, IsInjective, Accepted, InHand
<1>2. NetTypes /\ Places /\ [Next]_vars => Places'
  <2> SUFFICES ASSUME NetTypes, Places, [Next]_vars PROVE Places'
    OBVIOUS
  <2> USE DEF NetTypes, Places, OneContextPerClient, Open
  <2>1. CASE UNCHANGED srvVars
    BY <2>1 DEF srvVars, Accepted, InHand
  <2>2. ASSUME NEW c \in Clients, Connect(c) PROVE Places'
    <3>1. c \notin Range(backlog) \cup Accepted \cup Range(queue) \cup InHand
      BY <2>2 DEF Connect
    <3>2. request'[c] # None /\ \A d \in Clients \ {c} : request'[d] = request[d]
      BY <2>2, RequestsAssumption DEF Connect
    <3>3. IsInjective(backlog') /\ Range(backlog') = Range(backlog) \cup {c}
      BY <2>2, <3>1, AppendContents DEF Connect
    <3>4. UNCHANGED <<gone, loop, socket, queue, task, parsed, reply>>
      BY <2>2 DEF Connect, loopVars, poolVars
    <3>5. Range(queue') = Range(queue) /\ Accepted' = Accepted /\ InHand' = InHand
      BY <3>4 DEF Accepted, InHand
    <3>6. reply[c] = <<>> /\ \A d \in Clients : request[d] # None => request'[d] # None
      BY <2>2, <3>2 DEF Connect
    <3>7. \A d \in Range(backlog') \cup Accepted' \cup Range(queue') \cup InHand' : Open(d)'
      <4>1. Range(backlog) \cup Accepted \cup Range(queue) \cup InHand \subseteq Clients
        BY DEF Range, Accepted, InHand
      <4> QED
        BY <3>2, <3>3, <3>4, <3>5, <3>6, <4>1
    <3>8. OneContextPerClient'
      BY <3>1, <3>3, <3>4, <3>5
    <3>9. \A d \in Clients : request'[d] = None => reply'[d] = <<>>
      BY <3>2, <3>4
    <3> QED
      BY <3>4, <3>7, <3>8, <3>9
  <2>3. ASSUME NEW c \in Clients, HangUp(c) PROVE Places'
    BY <2>3 DEF HangUp, loopVars, poolVars, Accepted, InHand
  <2>4. CASE Bind \/ AcceptFails
    BY <2>4 DEF Bind, AcceptFails, netVars, poolVars, Accepted, InHand
  <2>5. CASE Accept
    <3>1. /\ IsInjective(backlog') /\ Range(backlog') = Range(backlog) \ {socket'}
          /\ socket' \in Range(backlog)
      BY <2>5, TailContents DEF Accept
    <3>2. UNCHANGED <<request, gone, queue, task, parsed, reply>>
      BY <2>5 DEF Accept, poolVars
    <3>3. Accepted' = {socket'} /\ InHand' = InHand
      BY <2>5, <3>2 DEF Accept, Accepted, InHand
    <3>4. Range(queue') = Range(queue) /\ IsInjective(queue')
      BY <3>2
    <3>5. /\ Range(backlog') \cup Accepted' \subseteq Range(backlog)
          /\ Range(backlog') \cap Accepted' = {}
      BY <3>1, <3>3
    <3>6. \A c \in Range(backlog') \cup Accepted' \cup Range(queue') \cup InHand' : Open(c)'
      BY <3>2, <3>3, <3>4, <3>5
    <3>7. OneContextPerClient'
      BY <3>1, <3>2, <3>3, <3>4, <3>5
    <3> QED
      BY <3>2, <3>6, <3>7
  <2>6. CASE Spawn
    <3>1. Accepted = {socket} /\ Accepted' = {}
      BY <2>6 DEF Spawn, Accepted
    <3>2. IsInjective(queue') /\ Range(queue') = Range(queue) \cup {socket}
      BY <2>6, <3>1, AppendContents DEF Spawn, Copy
    <3>3. UNCHANGED <<backlog, request, gone, socket, task, parsed, reply>>
      BY <2>6 DEF Spawn, netVars
    <3>4. InHand' = InHand
      BY <3>3 DEF InHand
    <3> QED
      BY <3>1, <3>2, <3>3, <3>4
  <2>7. ASSUME NEW w \in Workers, Thread(w) PROVE Places'
    <3>1. CASE Take(w)
      <4> DEFINE c == Head(queue)
      <4>1. /\ IsInjective(queue') /\ Range(queue') = Range(queue) \ {c}
            /\ c \in Range(queue) /\ c \in Clients
        BY <3>1, TailContents DEF Take
      <4>2. UNCHANGED <<backlog, request, gone, loop, socket, parsed, reply>>
            /\ task' = [task EXCEPT ![w] = c] /\ task[w] = None
        BY <3>1 DEF Take, netVars, loopVars
      <4> HIDE DEF c
      <4>3. InHand' = InHand \cup {c} /\ Accepted' = Accepted
        BY <4>1, <4>2, ClientsAssumption DEF InHand, Accepted
      <4>4. \A v \in Workers : task[v] # c
        BY <4>1, ClientsAssumption DEF InHand
      <4>5. \A v, x \in Workers : task'[v] = task'[x] => v = x \/ task'[v] = None
        BY <4>2, <4>4
      <4>6. \A v \in Workers : parsed'[v] # None => task'[v] # None
        BY <4>1, <4>2, ClientsAssumption
      <4> QED
        BY <4>1, <4>2, <4>3, <4>5, <4>6
    <3>2. ASSUME NEW a, Finish(w, a), Receiving(w) \/ Serving(w) PROVE Places'
      <4> DEFINE c == task[w]
      <4>1. c \in Clients /\ SocketOf(c) = c
        BY <3>2, ClientsAssumption DEF Receiving, Serving, SocketOf, Listening
      <4>2. /\ \A d \in Clients \ {c} : reply'[d] = reply[d]
            /\ task' = [task EXCEPT ![w] = None]
            /\ parsed' = [parsed EXCEPT ![w] = None]
            /\ UNCHANGED <<backlog, request, gone, loop, socket, queue>>
        BY <3>2, <4>1 DEF Finish, netVars, loopVars
      <4>3. c \in InHand
        BY <4>1, ClientsAssumption DEF InHand
      <4>4. request[c] # None
        BY <4>3
      <4>5. InHand' = InHand \ {c} /\ Accepted' = Accepted
        BY <4>1, <4>2, ClientsAssumption DEF InHand, Accepted
      <4>6. \A v, x \in Workers : task'[v] = task'[x] => v = x \/ task'[v] = None
        BY <4>2
      <4>7. \A v \in Workers : parsed'[v] # None => task'[v] # None
        BY <4>2
      <4>8. Range(backlog) \cup Accepted \cup Range(queue) \cup InHand \subseteq Clients
        BY DEF Range, Accepted, InHand
      <4>9. \A d \in Clients : request'[d] = None => reply'[d] = <<>>
        BY <4>2, <4>4
      <4> HIDE DEF c
      <4> QED
        BY <4>2, <4>3, <4>5, <4>6, <4>7, <4>8, <4>9
    <3>3. CASE Dispatch(w)
      BY <3>3 DEF Dispatch, Arrived, Receiving, netVars, loopVars, Accepted, InHand
    <3>4. CASE UNCHANGED srvVars
      BY <2>1, <3>4
    <3> QED
      BY <2>7, <3>1, <3>2, <3>3, <3>4, ThreadShapes
  <2>8. CASE UNCHANGED vars
    BY <2>1, <2>8 DEF vars
  <2> QED
    BY <2>1, <2>2, <2>3, <2>4, <2>5, <2>6, <2>7, <2>8 DEF Next
<1> QED
  BY <1>1, <1>2, NetTyping, PTL DEF Spec

\* No two threads, and no thread and the accept loop, ever share a connection.
THEOREM ContextsAreSeparate == Spec => []OneContextPerClient
<1>1. Places => OneContextPerClient
  BY DEF Places
<1> QED
  BY <1>1, PlacesInvariant, PTL

-----------------------------------------------------------------------------
(* What is answered                                                           *)

\* A thread that is past reading its request has the request of its client; one
\* that is inside a plugin is inside the plugin that client named.
Content ==
    /\ \A w \in Workers : parsed[w] # None =>
          /\ parsed[w] = request[task[w]]
          /\ parsed[w].op # "malformed" /\ ~BadRate(parsed[w])
    /\ \A w \in Workers : use[w].st = "inside" =>
          /\ parsed[w] # None /\ parsed[w].op # "getInstalledEdls"
          /\ \E l \in Libs : use[w].libs = {l} /\ Name[l] = parsed[w].type

\* A thread leaves the manager when it answers.
LEMMA AnswerLeaves ==
    ASSUME PMTypeOK, NEW w \in Workers,
           ReturnInstalledEdls(w) \/ RejectType(w) \/ Created(w)
    PROVE  use' = [use EXCEPT ![w] = NoUse] /\ \E a : Finish(w, a)
<1>1. CASE ReturnInstalledEdls(w)
  BY <1>1 DEF ReturnInstalledEdls, Leave
<1>2. CASE RejectType(w)
  BY <1>2 DEF RejectType, FindMiss
<1>3. CASE Created(w)
  BY <1>3 DEF Created, ReturnEdl, ReturnFault, Leave
<1> QED
  BY <1>1, <1>2, <1>3

LEMMA ContentInvariant == Spec => []Content
<1>1. Init => Content
  BY DEF Init, PMInit, Content, NoUse
<1>2. PMTypeOK /\ NetTypes /\ Places /\ Content /\ [Next]_vars => Content'
  <2> SUFFICES ASSUME PMTypeOK, NetTypes, Places, Content, [Next]_vars PROVE Content'
    OBVIOUS
  <2> USE DEF Content, BadRate
  <2>1. CASE Main /\ UNCHANGED srvVars
    <3>1. \A w \in Workers : use'[w].libs = use[w].libs /\ use'[w].st = use[w].st
      BY <2>1 DEF Main, CtorLogger, CtorEdl, CtorStorage, CtorWatch, HandleChange,
                  DropLogger, BuildEdl, DropEdl, ShareStorage, PMTypeOK, Uses
    <3> QED
      BY <2>1, <3>1 DEF srvVars
  <2>2. CASE Directory /\ UNCHANGED srvVars
    <3>1. use' = use
      BY <2>2 DEF Directory, Place, Delete, StartCopy, FinishCopy, Change
    <3> QED
      BY <2>2, <3>1 DEF srvVars
  <2>3. ASSUME NEW c \in Clients, Connect(c) PROVE Content'
    <3>1. \A w \in Workers : parsed[w] # None => task[w] # c
      BY <2>3 DEF Connect, Places, Open, InHand
    <3>2. \A w \in Workers : parsed[w] # None => request'[task[w]] = request[task[w]]
      BY <2>3, <3>1 DEF Connect, Places, NetTypes
    <3> QED
      BY <2>3, <3>2 DEF Connect, pmVars, poolVars
  <2>4. ASSUME NEW c \in Clients, HangUp(c) PROVE Content'
    BY <2>4 DEF HangUp, pmVars, poolVars
  <2>5. CASE Bind \/ Accept \/ AcceptFails \/ Spawn
    BY <2>5 DEF Bind, Accept, AcceptFails, Spawn, pmVars, netVars, poolVars
  <2>6. ASSUME NEW w \in Workers, Thread(w) PROVE Content'
    <3>0. \A v \in Workers : parsed[v] # None => task[v] # None
      BY DEF Places
    <3>1. CASE Take(w)
      <4>1. parsed[w] = None
        BY <3>0, <3>1 DEF Take
      <4> QED
        BY <3>1, <4>1 DEF Take, pmVars, netVars, NetTypes
    <3>2. ASSUME NEW a, Finish(w, a), use' = use \/ use' = [use EXCEPT ![w] = NoUse],
                 use'[w].st # "inside"
          PROVE  Content'
      <4>1. /\ parsed' = [parsed EXCEPT ![w] = None] /\ task' = [task EXCEPT ![w] = None]
            /\ UNCHANGED request
        BY <3>2 DEF Finish, netVars
      <4>2. \A v \in Workers \ {w} : use'[v] = use[v]
        BY <3>2 DEF PMTypeOK
      <4> QED
        BY <3>2, <4>1, <4>2 DEF NetTypes
    <3>3. CASE LoseClient(w) \/ ReceiveMalformed(w) \/ RejectRate(w)
      <4>1. use' = use /\ use[w].st # "inside"
        BY <3>3 DEF LoseClient, ReceiveMalformed, RejectRate, Arrived, Receiving, pmVars
      <4> QED
        BY <3>2, <3>3, <4>1 DEF LoseClient, ReceiveMalformed, RejectRate
    <3>4. CASE ReturnInstalledEdls(w) \/ RejectType(w) \/ Created(w)
      <4>1. use' = [use EXCEPT ![w] = NoUse] /\ use'[w].st # "inside"
        BY <3>4, AnswerLeaves DEF NoUse, PMTypeOK
      <4> QED
        BY <3>2, <3>4, <4>1, AnswerLeaves
    <3>5. CASE Dispatch(w)
      <4>1. task[w] \in Clients /\ Incoming(w) = request[task[w]]
        BY <3>5, ClientsAssumption DEF Dispatch, Arrived, Receiving, Incoming,
                                       SocketOf, Listening, NetTypes
      <4>2. /\ use'[w].st # "inside" /\ \A v \in Workers \ {w} : use'[v] = use[v]
            /\ parsed' = [parsed EXCEPT ![w] = request[task[w]]]
            /\ UNCHANGED <<request, task>>
            /\ request[task[w]].op # "malformed" /\ ~BadRate(request[task[w]])
        BY <3>5, <4>1 DEF Dispatch, ReadLoader, NoUse, PMTypeOK, netVars
      <4>3. ASSUME NEW v \in Workers, v # w
            PROVE  parsed'[v] = parsed[v] /\ request'[task'[v]] = request[task[v]]
        BY <4>2, <4>3 DEF NetTypes
      <4>4. parsed'[w] = request[task[w]] /\ request'[task'[w]] = request[task[w]]
        BY <4>2 DEF NetTypes
      <4>5. \A v \in Workers : parsed'[v] # None =>
               /\ parsed'[v] = request'[task'[v]]
               /\ parsed'[v].op # "malformed" /\ ~BadRate(parsed'[v])
        <5> TAKE v \in Workers
        <5>1. CASE v = w
          BY <5>1, <4>2, <4>4
        <5>2. CASE v # w
          BY <5>2, <4>3
        <5> QED
          BY <5>1, <5>2
      <4>6. \A v \in Workers : use'[v].st = "inside" =>
               /\ parsed'[v] # None /\ parsed'[v].op # "getInstalledEdls"
               /\ \E l \in Libs : use'[v].libs = {l} /\ Name[l] = parsed'[v].type
        BY <4>2, <4>3
      <4> QED
        BY <4>5, <4>6
    <3>6. CASE List(w)
      <4>1. use'[w].st # "inside" /\ \A v \in Workers \ {w} : use'[v] = use[v]
        BY <3>6 DEF List, GetInstances, PMTypeOK, Uses
      <4> QED
        BY <3>6, <4>1 DEF List, srvVars
    <3>7. CASE FindPlugin(w)
      <4> PICK l \in Matches(w, parsed[w].type) :
              use' = [use EXCEPT ![w] = [@ EXCEPT !.st = "inside", !.libs = {l},
                                                 !.absent = {}]]
        BY <3>7 DEF FindPlugin, FindHit
      <4>1. l \in Libs /\ Name[l] = parsed[w].type
        BY DEF Matches, PMTypeOK, Uses
      <4>2. use'[w].libs = {l} /\ \A v \in Workers \ {w} : use'[v] = use[v]
        BY DEF PMTypeOK, Uses
      <4> QED
        BY <3>7, <4>1, <4>2 DEF FindPlugin, Wants, Serving, srvVars
    <3>8. CASE CreateWithoutClips(w) \/ Crash(w)
      BY <3>8 DEF CreateWithoutClips, Crash, PluginFails, FindNull, EnumerateNull, Fault,
                  srvVars
    <3> QED
      BY <2>6, <3>1, <3>3, <3>4, <3>5, <3>6, <3>7, <3>8 DEF Thread, Created
  <2>7. CASE UNCHANGED vars
    BY <2>7 DEF vars, pmVars, srvVars
  <2> QED
    BY <2>1, <2>2, <2>3, <2>4, <2>5, <2>6, <2>7 DEF Next
<1> QED
  BY <1>1, <1>2, NetTyping, PlacesInvariant, ServerImplementsManager, PMTyping, PTL DEF Spec

-----------------------------------------------------------------------------
(* What the clients get                                                       *)

\* An answer client c could have had, with some catalogue.
Fits(c, a) ==
    /\ a \in Answers /\ request[c] # None
    /\ \E offered \in SUBSET Types : a \in Contract!Permitted(request[c], offered)
\* The same, with the catalogue there is when threads hold what is installed.
Earned(c, a) ==
    /\ a \in Answers /\ request[c] # None
    /\ \E offered \in SUBSET Types :
          /\ a \in Contract!Permitted(request[c], offered)
          /\ Catalogued => offered = Offered
Replies ==
    /\ reply \in [Clients -> Seq(Answers)]
    /\ \A c \in Clients : reply[c] = <<>> \/ \E a : reply[c] = <<a>> /\ Fits(c, a)

\* The answer of a thread is the only one of its client.
LEMMA OnlyAnswer ==
    ASSUME NetTypes, Places, reply \in [Clients -> Seq(Answers)],
           NEW w \in Workers, Receiving(w) \/ Serving(w),
           NEW a, Finish(w, <<a>>)
    PROVE  /\ task[w] \in Clients /\ SocketOf(task[w]) = task[w]
           /\ request[task[w]] # None /\ reply[task[w]] = <<>>
           /\ UNCHANGED request
           /\ \/ reply' = reply
              \/ reply' = [reply EXCEPT ![task[w]] = <<a>>]
<1>1. task[w] \in Clients
  BY ClientsAssumption DEF Places, NetTypes, Receiving, Serving
<1>2. SocketOf(task[w]) = task[w]
  BY <1>1, ClientsAssumption DEF SocketOf, Listening
<1>3. task[w] \in InHand
  BY <1>1, ClientsAssumption DEF InHand
<1>4. request[task[w]] # None /\ reply[task[w]] = <<>>
  BY <1>3 DEF Places, Open
<1>5. <<>> \o <<a>> = <<a>>
  OBVIOUS
<1> QED
  BY <1>1, <1>2, <1>4, <1>5 DEF Finish, netVars

\* Each answer is one the request asks for.
LEMMA RightAnswer ==
    ASSUME PMTypeOK, NetTypes, Places, Content, reply \in [Clients -> Seq(Answers)],
           NEW w \in Workers,
           \/ ReceiveMalformed(w) \/ RejectRate(w) \/ ReturnInstalledEdls(w)
           \/ RejectType(w) \/ Created(w)
    PROVE  \E a : /\ Finish(w, <<a>>) /\ (Receiving(w) \/ Serving(w))
                  /\ Earned(task[w], a)
<1> DEFINE r == request[task[w]]
           names == {Name[l] : l \in use[w].libs}
<1>1. Offered \in SUBSET Types /\ names \in SUBSET Types
  BY NameAssumption DEF Offered, PMTypeOK, Uses, LoaderIds
<1>2. CASE ReceiveMalformed(w) \/ RejectRate(w)
  <2>1. Receiving(w) /\ \E a : Finish(w, <<a>>)
    BY <1>2 DEF ReceiveMalformed, RejectRate, Arrived
  <2>2. Incoming(w) = r /\ r # None
    BY <2>1, OnlyAnswer DEF Incoming
  <2>3. CASE ReceiveMalformed(w)
    <3>1. Finish(w, <<Answer("SOAP_FAULT", {})>>) /\ r.op = "malformed"
      BY <2>2, <2>3 DEF ReceiveMalformed
    <3>2. Earned(task[w], Answer("SOAP_FAULT", {}))
      BY <1>1, <2>2, <3>1 DEF Earned, Answers, Kinds, Answer, Contract!Permitted,
                              Contract!Answer
    <3> QED
      BY <2>1, <3>1, <3>2
  <2>4. CASE RejectRate(w)
    <3>1. /\ Finish(w, <<Answer("EXT_S00_0002", {})>>)
          /\ r.op = "getEdlDouble" /\ ~r.rate
      BY <2>2, <2>4 DEF RejectRate, BadRate
    <3>2. "EXT_S00_0002" \in Kinds
      BY DEF Kinds, FaultCode
    <3>3. Earned(task[w], Answer("EXT_S00_0002", {}))
      BY <1>1, <2>2, <3>1, <3>2 DEF Earned, Answers, Answer, Contract!Permitted,
                                    Contract!Answer
    <3> QED
      BY <2>1, <3>1, <3>3
  <2> QED
    BY <1>2, <2>3, <2>4
<1>3. CASE ReturnInstalledEdls(w) \/ RejectType(w) \/ Created(w)
  <2>1. Serving(w) /\ \E a : Finish(w, <<a>>)
    <3>1. CASE ReturnInstalledEdls(w)
      BY <3>1 DEF ReturnInstalledEdls
    <3>2. CASE RejectType(w)
      BY <3>2 DEF RejectType, Wants
    <3>3. CASE Created(w)
      BY <3>3 DEF Created, ReturnEdl, ReturnFault, Wants
    <3> QED
      BY <1>3, <3>1, <3>2, <3>3
  <2>2. r # None
    BY <2>1, OnlyAnswer
  <2>3. parsed[w] = r /\ r.op # "malformed" /\ ~BadRate(r)
    BY <2>1 DEF Serving, Content
  <2>4. CASE ReturnInstalledEdls(w)
    <3>1. Finish(w, <<Answer("edls", names)>>) /\ r.op = "getInstalledEdls"
      BY <2>1, <2>3, <2>4 DEF ReturnInstalledEdls, Wants
    <3>2. Catalogued => names = Offered
      BY <2>4 DEF ReturnInstalledEdls, Leave, Catalogued, Offered
    <3>3. Answer("edls", names) \in Contract!Permitted(r, names)
      BY <3>1 DEF Answer, Contract!Permitted, Contract!Answer
    <3>4. Earned(task[w], Answer("edls", names))
      BY <1>1, <2>2, <3>2, <3>3 DEF Earned, Answers, Kinds, Answer
    <3> QED
      BY <2>1, <3>1, <3>4
  <2>5. CASE RejectType(w)
    <3>1. Finish(w, <<Answer("EXT_S00_0001", {})>>) /\ r.op # "getInstalledEdls"
      BY <2>3, <2>5 DEF RejectType, Wants
    <3>2. r.type \notin names
      BY <2>3, <2>5 DEF RejectType, FindMiss, Matches
    <3>3. Catalogued => names = Offered
      BY <2>5 DEF RejectType, FindMiss, Catalogued, Offered
    <3>4. Answer("EXT_S00_0001", {}) \in Contract!Permitted(r, names)
      BY <2>3, <3>1, <3>2 DEF BadRate, Answer, Contract!Permitted, Contract!Answer
    <3>5. Earned(task[w], Answer("EXT_S00_0001", {}))
      BY <1>1, <2>2, <3>3, <3>4 DEF Earned, Answers, Kinds, Answer
    <3> QED
      BY <2>1, <3>1, <3>5
  <2>6. CASE Created(w)
    <3> DEFINE offered == Offered \cup {r.type}
    <3>1. r.op # "getInstalledEdls" /\ r.type \in Types /\ r.ends \in {"none"} \cup Exceptions
      BY <2>3, <2>6, RequestsAssumption DEF Created, ReturnEdl, ReturnFault, Wants, Serving,
                                            NetTypes
    <3>2. use[w].st = "inside"
      BY <2>6 DEF Created, ReturnEdl, ReturnFault
    <3>3. names = {r.type} /\ (Catalogued => offered = Offered)
      BY <2>3, <3>2 DEF Content, Catalogued, Offered
    <3>4. offered \in SUBSET Types /\ r.type \in offered
      BY <1>1, <3>1
    <3>5. Contract!Permitted(r, offered) = Contract!Outcome(r)
      BY <2>3, <3>1, <3>4 DEF BadRate, Contract!Permitted
    <3> HIDE DEF offered, names
    <3>6. CASE ReturnEdl(w)
      <4>1. Finish(w, <<Answer("edl", {r.type})>>) /\ r.ends = "none"
        BY <2>3, <3>3, <3>6 DEF ReturnEdl, names
      <4>2. Answer("edl", {r.type}) \in Contract!Permitted(r, offered)
        BY <3>5, <4>1 DEF Answer, Contract!Outcome, Contract!Answer
      <4>3. Earned(task[w], Answer("edl", {r.type}))
        BY <2>2, <3>1, <3>3, <3>4, <4>2 DEF Earned, Answers, Kinds, Answer
      <4> QED
        BY <2>1, <4>1, <4>3
    <3>7. CASE ReturnFault(w)
      <4>1. Finish(w, <<Answer(FaultCode[r.ends], {})>>) /\ r.ends \in Exceptions
        BY <2>3, <3>1, <3>7 DEF ReturnFault
      <4>2. /\ FaultCode[r.ends] \in Kinds
            /\ FaultCode[r.ends] \in DOMAIN Contract!Meaning
            /\ Contract!Meaning[FaultCode[r.ends]] = r.ends
        BY <4>1 DEF Exceptions, Kinds, FaultCode, Contract!Meaning
      <4>3. r.ends # "none"
        BY <3>7, <2>3 DEF ReturnFault
      <4>4. Answer(FaultCode[r.ends], {}) \in Contract!Permitted(r, offered)
        BY <3>5, <4>2, <4>3 DEF Answer, Contract!Outcome, Contract!Answer
      <4>5. Earned(task[w], Answer(FaultCode[r.ends], {}))
        BY <2>2, <3>3, <3>4, <4>2, <4>4 DEF Earned, Answers, Answer
      <4> QED
        BY <2>1, <4>1, <4>5
    <3> QED
      BY <2>6, <3>6, <3>7 DEF Created
  <2> QED
    BY <1>3, <2>4, <2>5, <2>6
<1> QED
  BY <1>2, <1>3

LEMMA RepliesInvariant == Spec => []Replies
<1>1. Init => Replies
  BY DEF Init, Replies
<1>2. PMTypeOK /\ NetTypes /\ Places /\ Content /\ Replies /\ [Next]_vars => Replies'
  <2> SUFFICES ASSUME PMTypeOK, NetTypes, Places, Content, Replies, [Next]_vars
               PROVE  Replies'
    OBVIOUS
  <2> USE DEF Replies
  <2>1. ASSUME UNCHANGED <<request, reply>> PROVE Replies'
    BY <2>1 DEF Fits
  <2>2. ASSUME NEW c \in Clients, Connect(c) PROVE Replies'
    <3>1. reply[c] = <<>> /\ \A d \in Clients \ {c} : request'[d] = request[d]
      BY <2>2 DEF Connect, Places, NetTypes
    <3> QED
      BY <2>2, <3>1 DEF Connect, Fits
  <2>3. CASE (Main \/ Directory) /\ UNCHANGED srvVars
    BY <2>1, <2>3 DEF srvVars
  <2>4. ASSUME NEW c \in Clients, HangUp(c) PROVE Replies'
    BY <2>1, <2>4 DEF HangUp
  <2>5. CASE Bind \/ Accept \/ AcceptFails \/ Spawn
    BY <2>1, <2>5 DEF Bind, Accept, AcceptFails, Spawn, netVars
  <2>6. ASSUME NEW w \in Workers, Thread(w) PROVE Replies'
    <3>1. CASE \/ ReceiveMalformed(w) \/ RejectRate(w) \/ ReturnInstalledEdls(w)
              \/ RejectType(w) \/ Created(w)
      <4> PICK a : /\ Finish(w, <<a>>) /\ (Receiving(w) \/ Serving(w))
                   /\ Fits(task[w], a)
        BY <3>1, RightAnswer DEF Earned, Fits
      <4>1. /\ task[w] \in Clients /\ UNCHANGED request
            /\ reply' = reply \/ reply' = [reply EXCEPT ![task[w]] = <<a>>]
        BY OnlyAnswer
      <4>2. <<a>> \in Seq(Answers)
        BY DEF Fits
      <4> QED
        BY <4>1, <4>2 DEF Fits
    <3>2. CASE LoseClient(w)
      <4>1. SocketOf(task[w]) \in gone
        BY <3>2 DEF LoseClient
      <4> QED
        BY <2>1, <3>2, <4>1 DEF LoseClient, Finish, netVars
    <3>3. CASE \/ Take(w) \/ Dispatch(w) \/ List(w) \/ FindPlugin(w)
              \/ CreateWithoutClips(w) \/ Crash(w)
      BY <2>1, <3>3 DEF Take, Dispatch, List, FindPlugin, CreateWithoutClips, Crash,
                        netVars, srvVars
    <3> QED
      BY <2>6, <3>1, <3>2, <3>3 DEF Thread, Created
  <2>7. CASE UNCHANGED vars
    BY <2>1, <2>7 DEF vars, srvVars
  <2> QED
    BY <2>2, <2>3, <2>4, <2>5, <2>6, <2>7 DEF Next
<1> QED
  BY <1>1, <1>2, NetTyping, PlacesInvariant, ContentInvariant, ServerImplementsManager,
     PMTyping, PTL DEF Spec

\* The server's variables keep their types, with the invariants that takes.
THEOREM ServerTyping == Spec => []ServerTypeOK
<1>1. NetTypes /\ Replies => ServerTypeOK
  BY DEF NetTypes, Replies, ServerTypeOK, Contexts
<1> QED
  BY <1>1, NetTyping, RepliesInvariant, PTL

\* Whatever is reloaded meanwhile, a client never gets two answers, nor one its
\* own request could not have.
THEOREM AnswersAreOwn == Spec => []OwnAnswer
<1>1. Replies => OwnAnswer
  <2> SUFFICES ASSUME Replies, NEW c \in Clients, reply[c] # <<>>
               PROVE  /\ Len(reply[c]) = 1 /\ request[c] # None
                      /\ \E offered \in SUBSET Types :
                            reply[c][1] \in Contract!Permitted(request[c], offered)
    BY DEF OwnAnswer
  <2> PICK a : reply[c] = <<a>> /\ Fits(c, a)
    BY DEF Replies
  <2>1. Len(<<a>>) = 1 /\ <<a>>[1] = a
    OBVIOUS
  <2> QED
    BY <2>1 DEF Fits
<1> QED
  BY <1>1, RepliesInvariant, PTL

-----------------------------------------------------------------------------
(* Nobody is forgotten                                                        *)

HeldClients == Range(backlog) \cup Accepted \cup Range(queue) \cup InHand

Kept == \A c \in Clients :
            request[c] # None /\ reply[c] = <<>> /\ c \notin gone => c \in HeldClients

\* A thread lets go of a client with one answer, or of one that is gone.
LEMMA AnsweredOrGone ==
    ASSUME NEW w \in Workers, Thread(w)
    PROVE  \/ Take(w) \/ Dispatch(w) \/ UNCHANGED srvVars
           \/ /\ Receiving(w) \/ Serving(w)
              /\ \/ Finish(w, <<>>) /\ SocketOf(task[w]) \in gone
                 \/ \E a : Finish(w, <<a>>)
<1>1. CASE LoseClient(w)
  BY <1>1 DEF LoseClient
<1>2. CASE ReceiveMalformed(w) \/ RejectRate(w)
  BY <1>2 DEF ReceiveMalformed, RejectRate, Arrived
<1>3. CASE ReturnInstalledEdls(w) \/ RejectType(w)
  BY <1>3 DEF ReturnInstalledEdls, RejectType, Wants
<1>4. CASE Created(w)
  BY <1>4 DEF Created, ReturnEdl, ReturnFault, Wants
<1>5. CASE List(w) \/ FindPlugin(w) \/ CreateWithoutClips(w) \/ Crash(w)
  BY <1>5 DEF List, FindPlugin, CreateWithoutClips, Crash
<1> QED
  BY <1>1, <1>2, <1>3, <1>4, <1>5 DEF Thread, Created

LEMMA ThreadKeeps ==
    ASSUME NetTypes, Places, reply \in [Clients -> Seq(Answers)], Kept,
           NEW w \in Workers, Thread(w)
    PROVE  Kept'
<1>1. CASE Take(w)
  <2>1. /\ IsInjective(queue) /\ queue \in Seq(Clients) /\ queue # <<>>
        /\ task[w] = None /\ task' = [task EXCEPT ![w] = Head(queue)]
        /\ queue' = Tail(queue)
        /\ UNCHANGED <<backlog, request, gone, loop, socket, reply>>
    BY <1>1 DEF Take, Places, OneContextPerClient, NetTypes, netVars, loopVars
  <2>2. Range(queue') = Range(queue) \ {Head(queue)} /\ Head(queue) \in Clients
    BY <2>1, TailContents
  <2>3. InHand \cup {Head(queue)} \subseteq InHand' /\ Accepted' = Accepted
    BY <2>1, <2>2, ClientsAssumption DEF InHand, Accepted, NetTypes
  <2>4. HeldClients \subseteq HeldClients'
    BY <2>1, <2>2, <2>3 DEF HeldClients
  <2> QED
    BY <2>1, <2>4 DEF Kept
<1>2. CASE Dispatch(w)
  <2>1. UNCHANGED <<backlog, request, gone, loop, socket, queue, task, reply>>
    BY <1>2 DEF Dispatch, netVars, loopVars
  <2>2. HeldClients' = HeldClients
    BY <2>1 DEF HeldClients, Accepted, InHand
  <2> QED
    BY <2>1, <2>2 DEF Kept
<1>3. CASE UNCHANGED srvVars
  BY <1>3 DEF srvVars, Kept, HeldClients, Accepted, InHand
<1>4. ASSUME NEW a, Finish(w, a), Receiving(w) \/ Serving(w),
             task[w] \in gone \/ reply'[task[w]] # <<>>,
             \A c \in Clients \ {task[w]} : reply'[c] = reply[c]
      PROVE  Kept'
  <2>1. /\ task' = [task EXCEPT ![w] = None]
        /\ UNCHANGED <<backlog, request, gone, loop, socket, queue>>
    BY <1>4 DEF Finish, netVars, loopVars
  <2>2. InHand \ {task[w]} \subseteq InHand' /\ Accepted' = Accepted
    BY <2>1 DEF InHand, Accepted, NetTypes
  <2>3. HeldClients \ {task[w]} \subseteq HeldClients'
    BY <2>1, <2>2 DEF HeldClients
  <2> SUFFICES ASSUME NEW c \in Clients, request'[c] # None, reply'[c] = <<>>, c \notin gone'
               PROVE  c \in HeldClients'
    BY DEF Kept
  <2>4. c # task[w]
    BY <1>4, <2>1
  <2> QED
    BY <1>4, <2>1, <2>3, <2>4 DEF Kept
<1>5. CASE Finish(w, <<>>) /\ SocketOf(task[w]) \in gone /\ (Receiving(w) \/ Serving(w))
  <2>1. task[w] \in Clients
    BY <1>5, ClientsAssumption DEF Places, NetTypes, Receiving, Serving
  <2>2. SocketOf(task[w]) = task[w]
    BY <2>1, ClientsAssumption DEF SocketOf, Listening
  <2>3. reply' = reply
    BY <1>5 DEF Finish
  <2> QED
    BY <1>4, <1>5, <2>2, <2>3
<1>6. ASSUME NEW a, Finish(w, <<a>>), Receiving(w) \/ Serving(w)
      PROVE  Kept'
  <2>1. /\ task[w] \in Clients /\ SocketOf(task[w]) = task[w]
        /\ \/ reply' = reply
           \/ reply' = [reply EXCEPT ![task[w]] = <<a>>]
    BY <1>6, OnlyAnswer
  <2>2. <<>> \o <<a>> = <<a>> /\ <<a>> # <<>>
    OBVIOUS
  <2>3. reply[task[w]] = <<>>
    BY <1>6, OnlyAnswer
  <2>4. task[w] \in gone \/ reply'[task[w]] = <<a>>
    BY <1>6, <2>1, <2>2, <2>3 DEF Finish
  <2>5. \A c \in Clients \ {task[w]} : reply'[c] = reply[c]
    BY <2>1
  <2> QED
    BY <1>4, <1>6, <2>2, <2>4, <2>5
<1> QED
  BY <1>1, <1>2, <1>3, <1>5, <1>6, AnsweredOrGone

\* Whatever errors and exceptions there are, a client that sent its request and
\* waits for the answer has a place in the server, and an answered one has none.
THEOREM NobodyIsForgotten == Spec => []NoneForgotten
<1>1. Init => Kept
  BY DEF Init, Kept
<1>2. NetTypes /\ Places /\ Replies /\ Kept /\ [Next]_vars => Kept'
  <2> SUFFICES ASSUME NetTypes, Places, Replies, Kept, [Next]_vars PROVE Kept'
    OBVIOUS
  <2>1. CASE UNCHANGED srvVars
    BY <2>1 DEF srvVars, Kept, HeldClients, Accepted, InHand
  <2>2. ASSUME NEW c \in Clients, Connect(c) PROVE Kept'
    <3>1. c \notin Range(backlog) /\ IsInjective(backlog) /\ backlog \in Seq(Clients)
      BY <2>2 DEF Connect, Places, OneContextPerClient, Open, NetTypes
    <3>2. Range(backlog') = Range(backlog) \cup {c}
      BY <2>2, <3>1, AppendContents DEF Connect
    <3>3. UNCHANGED <<gone, loop, socket, queue, task, reply>>
      BY <2>2 DEF Connect, loopVars, poolVars
    <3>4. HeldClients' = HeldClients \cup {c}
      BY <3>2, <3>3 DEF HeldClients, Accepted, InHand
    <3>5. \A d \in Clients \ {c} : request'[d] = request[d]
      BY <2>2 DEF Connect, NetTypes
    <3> QED
      BY <3>3, <3>4, <3>5 DEF Kept
  <2>3. ASSUME NEW c \in Clients, HangUp(c) PROVE Kept'
    BY <2>3 DEF HangUp, loopVars, poolVars, Kept, HeldClients, Accepted, InHand
  <2>4. CASE Bind \/ AcceptFails
    <3>1. Accepted = {} /\ Accepted' = {}
      BY <2>4 DEF Bind, AcceptFails, Accepted
    <3>2. UNCHANGED <<backlog, request, gone, socket, queue, task, reply>>
      BY <2>4 DEF Bind, AcceptFails, netVars, poolVars
    <3> QED
      BY <3>1, <3>2 DEF Kept, HeldClients, InHand
  <2>5. CASE Accept
    <3>1. /\ Range(backlog') = Range(backlog) \ {socket'} /\ Accepted' = {socket'}
          /\ Accepted = {}
      BY <2>5, TailContents DEF Accept, Places, OneContextPerClient, NetTypes, Accepted
    <3>2. UNCHANGED <<request, gone, queue, task, reply>>
      BY <2>5 DEF Accept, poolVars
    <3>3. HeldClients \subseteq HeldClients'
      BY <3>1, <3>2 DEF HeldClients, InHand
    <3> QED
      BY <3>2, <3>3 DEF Kept
  <2>6. CASE Spawn
    <3>1. /\ Accepted = {socket} /\ queue' = Append(queue, socket)
          /\ socket \notin Range(queue) /\ IsInjective(queue) /\ queue \in Seq(Clients)
          /\ socket \in Clients
      BY <2>6 DEF Spawn, Copy, Accepted, Places, OneContextPerClient, NetTypes
    <3>2. Range(queue') = Range(queue) \cup {socket}
      BY <3>1, AppendContents
    <3>3. UNCHANGED <<backlog, request, gone, socket, task, reply>>
      BY <2>6 DEF Spawn, netVars
    <3>4. HeldClients \subseteq HeldClients'
      BY <3>1, <3>2, <3>3 DEF HeldClients, InHand
    <3> QED
      BY <3>3, <3>4 DEF Kept
  <2>7. ASSUME NEW w \in Workers, Thread(w) PROVE Kept'
    BY <2>7, ThreadKeeps DEF Replies
  <2>8. CASE UNCHANGED vars
    BY <2>1, <2>8 DEF vars
  <2> QED
    BY <2>1, <2>2, <2>3, <2>4, <2>5, <2>6, <2>7, <2>8 DEF Next
<1>3. Places /\ Kept => NoneForgotten
  BY DEF Places, Open, Kept, HeldClients, NoneForgotten
<1> QED
  BY <1>1, <1>2, <1>3, NetTyping, PlacesInvariant, RepliesInvariant, PTL DEF Spec

-----------------------------------------------------------------------------
(* Without AutoReload the server implements EdlContract                       *)

LEMMA ContractStep ==
    ASSUME PMTypeOK, PMTypeOK', Quiet, Catalogued, NetTypes, Places, Content, Replies,
           [Next]_vars
    PROVE  [Contract!Next]_(Contract!contractVars)
<1>1. Published => Published' /\ Catalogue' = Catalogue
  BY StepsOfManager, CatalogueKept DEF Published, Catalogue, Offered
<1>2. ASSUME UNCHANGED <<request, reply>>
      PROVE  [Contract!Next]_(Contract!contractVars)
  <2>1. CASE Published \/ ~Published'
    <3>1. Catalogue' = Catalogue
      BY <1>1, <2>1 DEF Catalogue
    <3>2. Published' = Published
      <4>1. Published <=> Published'
        BY <1>1, <2>1
      <4> QED
        BY <4>1 DEF Published
    <3> QED
      BY <1>2, <3>1, <3>2 DEF Contract!contractVars
  <2>2. CASE ~Published /\ Published'
    <3>1. Catalogue' \in SUBSET Types
      BY NameAssumption DEF Catalogue, Offered, PMTypeOK, LoaderIds
    <3> QED
      BY <1>2, <2>2, <3>1 DEF Contract!Next, Contract!Publish
  <2> QED
    BY <2>1, <2>2
<1>3. ASSUME UNCHANGED pmVars
      PROVE  UNCHANGED <<Published, Catalogue>>
  BY <1>3 DEF pmVars, Published, Catalogue, Offered
<1>4. ASSUME NEW c \in Clients, Connect(c)
      PROVE  Contract!Next
  <2>1. UNCHANGED <<Published, Catalogue, reply>>
    BY <1>3, <1>4 DEF Connect
  <2>2. Contract!Ask(c)
    BY <1>4, <2>1 DEF Connect, Contract!Ask
  <2> QED
    BY <2>2 DEF Contract!Next
<1>5. CASE (Main \/ Directory) /\ UNCHANGED srvVars
  BY <1>2, <1>5 DEF srvVars
<1>6. ASSUME NEW c \in Clients, HangUp(c) PROVE [Contract!Next]_(Contract!contractVars)
  BY <1>2, <1>6 DEF HangUp
<1>7. CASE Bind \/ Accept \/ AcceptFails \/ Spawn
  BY <1>2, <1>7 DEF Bind, Accept, AcceptFails, Spawn, netVars
<1>8. ASSUME NEW w \in Workers, Thread(w)
      PROVE  [Contract!Next]_(Contract!contractVars)
  <2>1. CASE \/ ReceiveMalformed(w) \/ RejectRate(w) \/ ReturnInstalledEdls(w)
            \/ RejectType(w) \/ Created(w)
    <3> DEFINE c == task[w]
    <3> PICK a : /\ Finish(w, <<a>>) /\ (Receiving(w) \/ Serving(w))
                 /\ Earned(task[w], a)
      BY <2>1, RightAnswer DEF Replies
    <3>1. /\ c \in Clients /\ request[c] # None /\ reply[c] = <<>> /\ UNCHANGED request
          /\ reply' = reply \/ reply' = [reply EXCEPT ![c] = <<a>>]
      BY OnlyAnswer DEF Replies
    <3>2. Published /\ UNCHANGED <<Published, Catalogue>> /\ Catalogue = Offered
      BY <1>1 DEF Receiving, Serving, Built, Published, Catalogue
    <3>3. a \in Contract!Permitted(request[c], Catalogue)
      BY <3>2 DEF Earned
    <3>4. CASE reply' = [reply EXCEPT ![c] = <<a>>]
      <4>1. Contract!Reply(c)
        BY <3>1, <3>2, <3>3, <3>4 DEF Contract!Reply
      <4> QED
        BY <3>1, <4>1 DEF Contract!Next
    <3> QED
      BY <1>2, <3>1, <3>4
  <2>2. CASE LoseClient(w)
    <3>1. SocketOf(task[w]) \in gone
      BY <2>2 DEF LoseClient
    <3> QED
      BY <1>2, <2>2, <3>1 DEF LoseClient, Finish, netVars
  <2>3. CASE \/ Take(w) \/ Dispatch(w) \/ List(w) \/ FindPlugin(w)
            \/ CreateWithoutClips(w) \/ Crash(w)
    BY <1>2, <2>3 DEF Take, Dispatch, List, FindPlugin, CreateWithoutClips, Crash,
                      netVars, srvVars
  <2> QED
    BY <1>8, <2>1, <2>2, <2>3 DEF Thread, Created
<1>9. CASE UNCHANGED vars
  BY <1>2, <1>9 DEF vars, srvVars
<1> QED
  BY <1>4, <1>5, <1>6, <1>7, <1>8, <1>9 DEF Next

\* Without AutoReload, whatever the number of clients, threads and plugins, the
\* server with its threads and shared plugins is the service EdlContract states.
THEOREM ServerImplementsContract ==
    ASSUME ~AutoReload
    PROVE  Spec => ImplementsContract
<1>1. Init => Contract!Init
  BY DEF Init, PMInit, Contract!Init, Published, Catalogue, CtorStates
<1>2. Spec => [](PMTypeOK /\ Quiet)
  BY ServerImplementsManager, QuietInvariant, PTL
<1>3. Spec => []Catalogued
  BY ServerImplementsManager, CataloguedInvariant, PTL
<1>4. /\ PMTypeOK /\ PMTypeOK' /\ Quiet /\ Catalogued
      /\ NetTypes /\ Places /\ Content /\ Replies /\ [Next]_vars
      => [Contract!Next]_(Contract!contractVars)
  BY ContractStep
<1> QED
  BY <1>1, <1>2, <1>3, <1>4, NetTyping, PlacesInvariant, ContentInvariant,
     RepliesInvariant, PTL DEF Spec, ImplementsContract, Contract!Spec

=============================================================================
