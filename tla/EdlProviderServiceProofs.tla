---------------------- MODULE EdlProviderServiceProofs ----------------------
(* Theorems about EdlProviderService, for any clients, requests, pool         *)
(* threads, plugins and directory: the service runs EdlServer and nothing     *)
(* else, so the theorems of EdlServerProofs hold of it.                       *)
EXTENDS EdlProviderService, EdlServerProofs, PluginReloadProofs

-----------------------------------------------------------------------------
(* The service implements the server                                          *)

LEMMA StepsOfServer == [ServiceNext]_serviceVars => [Next]_vars
<1> SUFFICES ASSUME [ServiceNext]_serviceVars PROVE [Next]_vars
  OBVIOUS
<1>1. CASE UNCHANGED serviceVars
  BY <1>1 DEF serviceVars
<1>2. CASE \/ LoadConfiguration \/ StartThread \/ LeaveLoop \/ DeleteApplication
           \/ DropThread \/ DropServer \/ Stop \/ DeleteLater \/ RunReturns
           \/ ThreadFinishes
  BY <1>2 DEF LoadConfiguration, StartThread, LeaveLoop, DeleteApplication, DropThread,
              DropServer, Stop, DeleteLater, RunReturns, ThreadFinishes
<1>3. CASE ManagerSteps
  BY <1>3 DEF ManagerSteps, Next
<1>4. CASE RunSteps
  BY <1>4 DEF RunSteps, Next
<1>5. ASSUME NEW w \in Workers, PoolSteps(w) PROVE [Next]_vars
  BY <1>5 DEF PoolSteps, Next
<1>6. CASE Outside
  BY <1>6 DEF Outside, Next
<1> QED
  BY <1>1, <1>2, <1>3, <1>4, <1>5, <1>6 DEF ServiceNext, MainThread

\* Whatever the main thread does before, besides and after, the server's threads,
\* clients and plugins behave as in EdlServer.
THEOREM ServiceImplementsServer == ServiceSpec => RunsServer
<1>1. ServiceInit => Init
  BY DEF ServiceInit
<1> QED
  BY <1>1, StepsOfServer, PTL DEF ServiceSpec, RunsServer, Spec

\* Starting and stopping give no client an answer that is not its own.
THEOREM ServiceAnswersAreOwn == ServiceSpec => []OwnAnswer
BY ServiceImplementsServer, AnswersAreOwn, PTL DEF RunsServer

\* Without AutoReload the service keeps the contract, from its start to its end.
THEOREM ServiceKeepsContract ==
    ASSUME ~AutoReload
    PROVE  ServiceSpec => ImplementsContract
<1>1. Spec => ImplementsContract
  BY ServerImplementsContract
<1> QED
  BY <1>1, ServiceImplementsServer, PTL DEF RunsServer

\* Nor, without AutoReload, is a thread given a plugin that cannot be used,
\* or one that is unloaded under it, and the catalogue does not change.
THEOREM ServiceIsSafeWithoutReload ==
    ASSUME ~AutoReload, ~StartupChanges
    PROVE  ServiceSpec => /\ [](ServerTypeOK /\ OneContextPerClient /\ NoDangling /\ InstancesReady)
                          /\ StableCatalogue
<1>1. PMSpec => []NoDangling /\ []InstancesReady /\ StableCatalogue
  BY NoDanglingWithoutReload, InstancesReadyWithoutReload, CatalogueIsStable
<1> QED
  BY <1>1, ServiceImplementsServer, ServerImplementsManager, ServerTyping,
     ContextsAreSeparate, PTL DEF RunsServer

\* Neither a stop nor the end of the event loop loses a client's request.
THEOREM ServiceForgetsNobody == ServiceSpec => []NoneForgotten
BY ServiceImplementsServer, NobodyIsForgotten, PTL DEF RunsServer

\* The reload does its work in the whole process: the slot runs in the event
\* loop only, while threads look plugins up, and while the service stops.
THEOREM ServiceIsUpToDate ==
    ASSUME AutoReload, ~StartupChanges, AllImplementBoth
    PROVE  ServiceSpec => []UpToDate
<1>1. PMSpec => []UpToDate
  BY ReloadIsUpToDate
<1> QED
  BY <1>1, ServiceImplementsServer, ServerImplementsManager, PTL DEF RunsServer

-----------------------------------------------------------------------------
(* The thread and what it runs                                                *)

\* The threads of the pool leave run alone.
LEMMA PoolLeavesRun ==
    ASSUME NEW w \in Workers, Thread(w)
    PROVE  loop' = loop
<1>1. ASSUME NEW a, Finish(w, a) PROVE loop' = loop
  BY <1>1 DEF Finish, loopVars
<1>2. CASE Take(w) \/ Dispatch(w) \/ UNCHANGED srvVars
  BY <1>2 DEF Take, Dispatch, srvVars, loopVars
<1> QED
  BY <1>1, <1>2, ThreadShapes

\* run is where it is but for its own steps.
LEMMA OnlyRunMovesLoop ==
    ASSUME [ServiceNext]_serviceVars
    PROVE  RunSteps \/ loop' = loop
<1>1. CASE UNCHANGED vars
  BY <1>1 DEF vars, srvVars
<1>2. CASE UNCHANGED serviceVars
  BY <1>1, <1>2 DEF serviceVars
<1>3. CASE \/ LoadConfiguration \/ StartThread \/ LeaveLoop \/ DeleteApplication
           \/ DropThread \/ DropServer \/ Stop \/ DeleteLater \/ RunReturns
           \/ ThreadFinishes
  BY <1>1, <1>3 DEF LoadConfiguration, StartThread, LeaveLoop, DeleteApplication,
                    DropThread, DropServer, Stop, DeleteLater, RunReturns, ThreadFinishes
<1>4. CASE ManagerSteps
  BY <1>4 DEF ManagerSteps, srvVars
<1>5. ASSUME NEW w \in Workers, PoolSteps(w) PROVE loop' = loop
  BY <1>5, PoolLeavesRun DEF PoolSteps
<1>6. CASE Outside
  BY <1>6 DEF Outside, Connect, HangUp, srvVars, loopVars
<1> QED
  BY <1>2, <1>3, <1>4, <1>5, <1>6 DEF ServiceNext, MainThread

\* ThreadInStep is inductive: run moves only while its thread is running, and
\* that thread goes on only when run has stopped.
LEMMA ThreadKeepsStep == ServiceSpec => []ThreadInStep
<1>1. ServiceInit => ThreadInStep
  BY DEF ServiceInit, Init, ThreadInStep, MainStates, ThreadStates, Returned
<1>2. ThreadInStep /\ [ServiceNext]_serviceVars => ThreadInStep'
  <2> SUFFICES ASSUME ThreadInStep, [ServiceNext]_serviceVars PROVE ThreadInStep'
    OBVIOUS
  <2> USE DEF ThreadInStep, MainStates, ThreadStates, Returned
  <2>1. CASE RunSteps
    BY <2>1 DEF RunSteps, InRun
  <2>2. CASE loop' = loop /\ UNCHANGED <<main, thread, quitting>>
    BY <2>2
  <2>3. CASE UNCHANGED serviceVars
    BY <2>2, <2>3 DEF serviceVars, vars, srvVars
  <2>4. CASE /\ loop' = loop
             /\ \/ LoadConfiguration \/ LeaveLoop \/ DeleteApplication \/ DropThread
                \/ DropServer
    BY <2>4 DEF LoadConfiguration, LeaveLoop, DeleteApplication, DropThread, DropServer
  <2>5. CASE loop' = loop /\ (StartThread \/ RunReturns \/ ThreadFinishes)
    BY <2>5 DEF StartThread, RunReturns, ThreadFinishes
  <2>6. CASE loop' = loop /\ (Stop \/ DeleteLater)
    BY <2>6 DEF Stop, DeleteLater
  <2>7. CASE loop' = loop /\ (ManagerSteps \/ Outside \/ \E w \in Workers : PoolSteps(w))
    BY <2>2, <2>7 DEF ManagerSteps, Outside, PoolSteps
  <2> QED
    BY <2>1, <2>3, <2>4, <2>5, <2>6, <2>7, OnlyRunMovesLoop DEF ServiceNext, MainThread
<1> QED
  BY <1>1, <1>2, PTL DEF ServiceSpec

\* Types of the whole process, with the states its thread can be in.
THEOREM ServiceTyping == ServiceSpec => []ServiceTypeOK
<1>1. ServerTypeOK /\ ThreadInStep => ServiceTypeOK
  BY DEF ServiceTypeOK
<1> QED
  BY <1>1, ServiceImplementsServer, ServerTyping, ThreadKeepsStep, PTL DEF RunsServer

\* soapServer_ is only destroyed after a thread that finished.
Dropped == main \in {"dropServer", "ended"} => thread \in {"finished", "deleted"}

\* However the service is stopped, soapServer_ is not destroyed under run.
THEOREM RunIsOver == ServiceSpec => []ServerOutlivesRun
<1>1. ServiceInit => Dropped
  BY DEF ServiceInit, Dropped
<1>2. Dropped /\ [ServiceNext]_serviceVars => Dropped'
  <2> SUFFICES ASSUME Dropped, [ServiceNext]_serviceVars PROVE Dropped'
    OBVIOUS
  <2> USE DEF Dropped
  <2>1. CASE UNCHANGED <<main, thread, quitting>>
    BY <2>1
  <2>2. CASE LoadConfiguration \/ StartThread \/ LeaveLoop \/ DeleteApplication
    BY <2>2 DEF LoadConfiguration, StartThread, LeaveLoop, DeleteApplication
  <2>3. CASE DropThread \/ DropServer
    BY <2>3 DEF DropThread, DropServer
  <2>4. CASE Stop \/ DeleteLater \/ RunReturns \/ ThreadFinishes
    BY <2>4 DEF Stop, DeleteLater, RunReturns, ThreadFinishes
  <2>5. CASE \/ ManagerSteps \/ RunSteps \/ Outside \/ UNCHANGED serviceVars
             \/ \E w \in Workers : PoolSteps(w)
    BY <2>1, <2>5 DEF ManagerSteps, RunSteps, InRun, Outside, PoolSteps, serviceVars
  <2> QED
    BY <2>2, <2>3, <2>4, <2>5 DEF ServiceNext, MainThread
<1>3. Dropped /\ ThreadInStep => ServerOutlivesRun
  BY DEF Dropped, ThreadInStep, ServerOutlivesRun
<1> QED
  BY <1>1, <1>2, <1>3, ThreadKeepsStep, PTL DEF ServiceSpec

=============================================================================
