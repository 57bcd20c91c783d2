------------------------- MODULE EdlProviderService -------------------------
(* The service: the main thread starts EdlServer in a thread of its own, runs *)
(* the event loop the plugin manager is signalled in, and at the end destroys *)
(* what it owns.                                                              *)
(*                                                                            *)
(* QtService, QThread and the global QThreadPool (Qt 5) are external:         *)
(*  - stop() is called in the event loop, which is left some time after;      *)
(*  - run's lambda has no context object, so it runs in the thread started;   *)
(*  - quit() ends that thread's event loop, now or when it gets there, but    *)
(*    interrupts no function it is in;                                        *)
(*  - the application is deleted once its loop is left, and waits for the     *)
(*    pool's threads and all that is queued;                                  *)
(*  - a QThread that is destroyed while it runs aborts the process.           *)
EXTENDS EdlServer

VARIABLES
    main,      \* where the main thread is
    thread,    \* soapServerThread_
    quitting   \* whether it was told to quit

serviceVars == <<vars, main, thread, quitting>>

MainStates   == {"starting", "constructing", "looping", "stopping", "leaving",
                 "dropThread", "dropServer", "ended", "aborted"}
ThreadStates == {"none", "running", "events", "finished", "deleted"}

\* run has returned: bind or accept failed.
Returned == loop \in {"unbound", "stopped"}

Up == Alive /\ main \notin {"ended", "aborted"}

-----------------------------------------------------------------------------
(* start                                                                      *)

\* LOG(FATAL) aborts when the configuration is not read.
LoadConfiguration ==
    /\ main = "starting"
    /\ main' \in {"constructing", "aborted"}
    /\ UNCHANGED <<vars, thread, quitting>>

StartThread ==
    /\ main = "constructing" /\ Built
    /\ main' = "looping" /\ thread' = "running"
    /\ UNCHANGED <<vars, quitting>>

-----------------------------------------------------------------------------
(* soapServerThread_                                                          *)

\* run returns, and its error is logged; QThread::run goes on to exec.
RunReturns ==
    /\ Up /\ thread = "running" /\ Returned
    /\ thread' = "events"
    /\ UNCHANGED <<vars, main, quitting>>

\* Mutant of ThreadFinishes: QThread::run is overridden and does not exec.
FinishesUnasked ==
    /\ Up /\ thread = "events"
    /\ thread' = "finished"
    /\ UNCHANGED <<vars, main, quitting>>

ThreadFinishes ==
    /\ Up /\ thread = "events" /\ quitting
    /\ thread' = "finished"
    /\ UNCHANGED <<vars, main, quitting>>

-----------------------------------------------------------------------------
(* stop, the end of the event loop, and the destructors                       *)

\* A slot is not interrupted.
InLoop == Up /\ mgr = "idle" /\ main \in {"looping", "stopping"}

Stop ==
    /\ InLoop /\ main = "looping"
    /\ main' = "stopping" /\ quitting' = TRUE
    /\ UNCHANGED <<vars, thread>>

\* finished is connected to deleteLater: the loop deletes what soapServerThread_
\* points to.
DeleteLater ==
    /\ InLoop /\ thread = "finished"
    /\ thread' = "deleted"
    /\ UNCHANGED <<vars, main, quitting>>

\* Mutant of LeaveLoop: what waits in the pool is cleared.
LeaveLoopAndClear ==
    /\ InLoop /\ main = "stopping"
    /\ main' = "leaving" /\ queue' = <<>>
    /\ UNCHANGED <<pmVars, netVars, loopVars, task, parsed, reply, thread, quitting>>

LeaveLoop ==
    /\ InLoop /\ main = "stopping"
    /\ main' = "leaving"
    /\ UNCHANGED <<vars, thread, quitting>>

\* run goes on accepting while the application waits.
DeleteApplication ==
    /\ Up /\ main = "leaving"
    /\ queue = <<>> /\ \A w \in Workers : task[w] = None
    /\ main' = "dropThread"
    /\ UNCHANGED <<vars, thread, quitting>>

\* Mutant of DropThread: the members are declared in another order, and
\* soapServer_ is destroyed before its thread.
DropServerFirst ==
    /\ Up /\ main = "dropThread"
    /\ main' = "ended"
    /\ UNCHANGED <<vars, thread, quitting>>

\* ~QScopedPointer, the member declared last first: a thread that runs aborts
\* the process, and one that was deleted already may.
DropThread ==
    /\ Up /\ main = "dropThread"
    /\ main' \in CASE thread = "finished" -> {"dropServer"}
                   [] thread = "deleted"  -> {"dropServer", "aborted"}
                   [] OTHER               -> {"aborted"}
    /\ UNCHANGED <<vars, thread, quitting>>

DropServer ==
    /\ Up /\ main = "dropServer"
    /\ main' = "ended"
    /\ UNCHANGED <<vars, thread, quitting>>

-----------------------------------------------------------------------------
(* The server and the plugin manager, in the threads they run in              *)

\* The constructor of the server is the manager's; later its slot is called
\* from the event loop.
ManagerSteps ==
    /\ \/ main = "constructing" /\ mgr \in CtorStates
       \/ main \in {"looping", "stopping"}
    /\ Main /\ UNCHANGED srvVars
    /\ UNCHANGED <<main, thread, quitting>>

InRun == Up /\ thread = "running" /\ UNCHANGED <<main, thread, quitting>>

RunSteps == InRun /\ (Bind \/ Accept \/ AcceptFails \/ Spawn)

PoolSteps(w) == Up /\ Thread(w) /\ UNCHANGED <<main, thread, quitting>>

Outside ==
    /\ Up
    /\ \/ Directory /\ UNCHANGED srvVars
       \/ \E c \in Clients : Connect(c) \/ HangUp(c)
    /\ UNCHANGED <<main, thread, quitting>>

-----------------------------------------------------------------------------

ServiceInit == Init /\ main = "starting" /\ thread = "none" /\ quitting = FALSE

MainThread ==
    \/ LoadConfiguration \/ StartThread \/ ManagerSteps
    \/ LeaveLoop \/ DeleteApplication \/ DropThread \/ DropServer

ServiceNext ==
    \/ MainThread \/ Stop \/ DeleteLater
    \/ RunReturns \/ ThreadFinishes \/ RunSteps
    \/ \E w \in Workers : PoolSteps(w)
    \/ Outside

ServiceSpec == ServiceInit /\ [][ServiceNext]_serviceVars

\* What soapServerThread_ does of its own accord.
SoapThread ==
    \/ InRun /\ (Bind \/ Accept \/ Spawn)
    \/ RunReturns \/ ThreadFinishes

\* The pool's threads and the two others get processor time, and the plugins'
\* createEdl terminates.  Whether clients come, an accept fails or somebody stops
\* the service is open.
ServiceFairSpec ==
    /\ ServiceSpec
    /\ WF_serviceVars(MainThread)
    /\ WF_serviceVars(SoapThread)
    /\ \A w \in Workers : WF_serviceVars(PoolSteps(w))

-----------------------------------------------------------------------------
(* Properties                                                                 *)

\* How far the thread is: it serves from its start until run returns, and
\* finishes only when it was told to.
ThreadInStep ==
    /\ main \in MainStates /\ thread \in ThreadStates /\ quitting \in BOOLEAN
    /\ thread = "none" => loop = "down"
    /\ thread \in {"events", "finished", "deleted"} => Returned
    /\ thread \in {"finished", "deleted"} => quitting

\* Types, of the server too, with the states the thread can be in.
ServiceTypeOK == ServerTypeOK /\ ThreadInStep

\* The service only runs the server: what holds of any behaviour of EdlServer
\* holds of it, while it starts, serves and stops.
RunsServer == Spec

\* Nobody is in run when soapServer_ is destroyed.  Nothing interrupts accept: a
\* service that is serving ends by an abort.
ServerOutlivesRun ==
    main \in {"dropServer", "ended"} => Returned /\ thread # "running"

\* Once stopped, the process ends, in one way or another, unless a silent client
\* keeps the pool (of the clients there are: an endless stream of them would keep
\* it too).
StopEnds ==
    main = "stopping" ~>
        ~Up \/ \E w \in Workers : task[w] \in Silent

\* Every client that sends its request is answered, whatever happens to the
\* plugins and even while the service stops, unless the process comes down, run
\* has given up before it was accepted, or it hangs up.  As many clients as
\* there are threads may not be silent: recv and send have no timeout.
Served ==
    \A c \in Clients \ Silent :
        request[c] # None ~>
            \/ reply[c] # <<>> \/ c \in gone \/ ~Up
            \/ loop = "stopped" /\ c \in Range(backlog)

=============================================================================
