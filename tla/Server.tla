------------------------------- MODULE Server ------------------------------
(***************************************************************************)
(* The server from main() to its end (otserv.cpp, signals.cpp, server.cpp, *)
(* setGameState and shutdown of game.cpp): the loader that runs as the     *)
(* dispatcher's first task while main waits for its signal, a port that    *)
(* accepts connections and is opened again after an error, and the         *)
(* shutdown, in which every thread must end: main joins the threads        *)
(* themselves, whose end comes after that of their state.                  *)
(*                                                                         *)
(* One step of the dispatcher is a task, but for the loader, which has     *)
(* several.  Within the steps the threads are as in Dispatcher, Scheduler  *)
(* and DatabaseTasks.                                                      *)
(***************************************************************************)
EXTENDS Naturals, Sequences, FiniteSets

CONSTANTS MaxErrors,        \* bound: failures to listen or to accept
          MaxConnections    \* bound: connections that hold the port

ASSUME ServerAssumption == MaxErrors \in Nat /\ MaxConnections \in Nat

ThreadStates == {"running", "closing", "terminated"}
ServerTasks == {"mainLoader", "sigterm", "login", "openAcceptor",
                "shutdown", "end"}

VARIABLES
    main,           \* where main() is
    loader,         \* how far mainLoader has come
    handover,       \* history: how main took the loader's signal
    gameState,
    queue,          \* the dispatcher's tasks
    dispatcher, scheduler, database,    \* the states of their threads
    schedulerThread, databaseThread,    \* the threads themselves
    port,           \* the ServicePort
    reopenings,     \* events of openAcceptor the scheduler holds
    io,             \* the io_service: handlers posted, timer, stopped
    connections,    \* Connection objects, which hold the port
    errors

ServerVars ==
    <<main, loader, handover, gameState, queue, dispatcher, scheduler,
      database, schedulerThread, databaseThread, port, reopenings, io,
      connections, errors>>
liveThreads == <<schedulerThread, databaseThread>>
threads == <<dispatcher, scheduler, database, liveThreads>>
network == <<port, io, connections, errors>>

PortRecords ==
    [acceptor : {"none", "open", "closed"}, accepting : BOOLEAN,
     pendingStart : BOOLEAN, registered : BOOLEAN]

IoRecords ==
    [onStopServer : BOOLEAN, deathTimer : BOOLEAN, stopped : BOOLEAN]

ServerTypeOK ==
    /\ main \in {"starting", "waiting", "woken", "serving", "joining",
                 "joined", "exited"}
    /\ loader \in {"queued", "loading", "connected", "listening",
                   "loaded", "failed"}
    /\ handover \in {"none", "heard", "unheard", "early"}
    /\ gameState \in {"startup", "init", "normal", "shutdown"}
    /\ queue \in Seq(ServerTasks)
    /\ dispatcher \in ThreadStates /\ scheduler \in ThreadStates
    /\ database \in ThreadStates
    /\ schedulerThread \in {"running", "ended"}
    /\ databaseThread \in {"absent", "running", "parked", "ended"}
    /\ port \in PortRecords
    /\ reopenings \in 0 .. 1
    /\ io \in IoRecords
    /\ connections \in 0 .. MaxConnections
    /\ errors \in 0 .. MaxErrors

ServerInit ==
    /\ main = "starting"
    /\ loader = "queued"
    /\ handover = "none"
    /\ gameState = "startup"
    /\ queue = <<"mainLoader">>
    /\ dispatcher = "running" /\ scheduler = "running"
    /\ database = "terminated"
    /\ schedulerThread = "running" /\ databaseThread = "absent"
    /\ port = [acceptor |-> "none", accepting |-> FALSE,
               pendingStart |-> FALSE, registered |-> FALSE]
    /\ reopenings = 0
    /\ io = [onStopServer |-> FALSE, deathTimer |-> FALSE,
             stopped |-> FALSE]
    /\ connections = 0
    /\ errors = 0

-----------------------------------------------------------------------------
(* Dispatcher::addTask *)
Added(t) == IF dispatcher = "running" THEN Append(queue, t) ELSE queue

RunsTask(t) ==
    dispatcher # "terminated" /\ queue # <<>> /\ Head(queue) = t

Serves == main = "serving" /\ ~io.stopped

(* ServicePort::close: a pending async_accept is aborted. *)
Closed(p) == [p EXCEPT !.acceptor = IF @ = "open" THEN "closed" ELSE @]

(* Scheduler::addEvent, with the event that is to open the port again *)
AddReopening ==
    reopenings' = IF scheduler = "terminated" THEN reopenings
                  ELSE reopenings + 1

(* ServicePort::open: it listens and accepts, or will be tried again. *)
OpenPort(registered) ==
    \/ /\ port' = [port EXCEPT !.acceptor = "open", !.accepting = TRUE,
                               !.pendingStart = FALSE,
                               !.registered = registered]
       /\ UNCHANGED <<reopenings, errors>>
    \/ /\ errors < MaxErrors
       /\ errors' = errors + 1
       /\ port' = [Closed(port) EXCEPT !.pendingStart = TRUE,
                                       !.registered = registered]
       /\ AddReopening

-----------------------------------------------------------------------------
(* main *)
WaitForLoader ==
    /\ main = "starting"
    /\ main' = "waiting"
    /\ UNCHANGED <<loader, handover, gameState, queue, threads, reopenings,
                   network>>

(* The wait returns without a signal: it has no predicate. *)
WakeSpuriously ==
    /\ main = "waiting"
    /\ main' = "woken"
    /\ handover' = "early"
    /\ UNCHANGED <<loader, gameState, queue, threads, reopenings,
                   network>>

(* g_loaderSignal.notify_all *)
Notify ==
    /\ main' = IF main = "waiting" THEN "woken" ELSE main
    /\ handover' =
        CASE main = "starting" -> "unheard"
          [] main = "waiting" -> "heard"
          [] OTHER -> handover

(* serviceManager.run(), which returns when the io_service is stopped *)
Serve ==
    /\ main = "woken" /\ port.registered
    /\ main' = "serving"
    /\ UNCHANGED <<loader, handover, gameState, queue, threads, reopenings,
                   network>>

(* The three shutdown functions: they post the end of each thread.  The    *)
(* scheduler drops what it holds.                                          *)
EndThreads ==
    /\ scheduler' = "terminated"
    /\ database' = "terminated"
    /\ queue' = Append(queue, "end")

GiveUp ==
    /\ main = "woken" /\ ~port.registered
    /\ main' = "joining"
    /\ EndThreads
    /\ reopenings' = 0
    /\ UNCHANGED <<loader, handover, gameState, dispatcher, liveThreads,
                   network>>

ServiceEnds ==
    /\ main = "serving" /\ io.stopped
    /\ main' = "joining"
    /\ UNCHANGED <<loader, handover, gameState, queue, threads, reopenings,
                   network>>

(* The scheduler's thread and that of the queries.  One that was not       *)
(* started is not joinable; one that waits for ever keeps main waiting.    *)
JoinThreads ==
    /\ main = "joining"
    /\ schedulerThread = "ended" /\ databaseThread \in {"absent", "ended"}
    /\ main' = "joined"
    /\ UNCHANGED <<loader, handover, gameState, queue, threads, reopenings,
                   network>>

JoinDispatcher ==
    /\ main = "joined"
    /\ dispatcher = "terminated"
    /\ main' = "exited"
    /\ UNCHANGED <<loader, handover, gameState, queue, threads, reopenings,
                   network>>

-----------------------------------------------------------------------------
(* mainLoader, on the dispatcher's thread *)
LoadConfig ==
    /\ RunsTask("mainLoader") /\ loader = "queued"
    /\ loader' = "loading"
    /\ UNCHANGED <<main, handover, gameState, queue, threads, reopenings,
                   network>>

StartDatabase ==
    /\ loader = "loading"
    /\ loader' = "connected"
    /\ database' = "running" /\ databaseThread' = "running"
    /\ UNCHANGED <<main, handover, gameState, queue, dispatcher, scheduler,
                   schedulerThread, reopenings, network>>

LoadFails ==
    /\ loader \in {"loading", "connected"}
    /\ loader' = "failed"
    /\ queue' = Tail(queue)
    /\ Notify
    /\ UNCHANGED <<gameState, threads, reopenings, network>>

AddServices ==
    /\ loader = "connected"
    /\ loader' = "listening"
    /\ gameState' = "init"
    /\ OpenPort(TRUE)
    /\ UNCHANGED <<main, handover, queue, threads, io, connections>>

FinishLoading ==
    /\ loader = "listening"
    /\ loader' = "loaded"
    /\ gameState' = "normal"
    /\ queue' = Tail(queue)
    /\ Notify
    /\ UNCHANGED <<threads, reopenings, network>>

-----------------------------------------------------------------------------
(* The io_service, run by main *)
Signal ==
    /\ Serves
    /\ "sigterm" \notin {queue[i] : i \in DOMAIN queue}     \* bound
    /\ queue' = Added("sigterm")
    /\ UNCHANGED <<main, loader, handover, gameState, threads, reopenings,
                   network>>

AcceptConnection ==
    /\ Serves
    /\ port.acceptor = "open" /\ port.accepting
    /\ connections < MaxConnections
    /\ connections' = connections + 1
    /\ UNCHANGED <<main, loader, handover, gameState, queue, threads, port,
                   reopenings, io, errors>>

FailWithoutRetryMutant == UNCHANGED reopenings

RetryAfterError == AddReopening

AcceptFails ==
    /\ Serves
    /\ port.acceptor = "open" /\ port.accepting
    /\ errors < MaxErrors
    /\ errors' = errors + 1
    /\ IF port.pendingStart
       THEN /\ port' = [port EXCEPT !.accepting = FALSE]
            /\ UNCHANGED reopenings
       ELSE /\ port' = [Closed(port) EXCEPT !.accepting = FALSE,
                                            !.pendingStart = TRUE]
            /\ RetryAfterError
    /\ UNCHANGED <<main, loader, handover, gameState, queue, threads, io,
                   connections>>

AcceptAborted ==
    /\ Serves
    /\ port.acceptor = "closed" /\ port.accepting
    /\ port' = [port EXCEPT !.accepting = FALSE]
    /\ UNCHANGED <<main, loader, handover, gameState, queue, threads,
                   reopenings, io, connections, errors>>

OnStopServer ==
    /\ Serves /\ io.onStopServer
    /\ port' = Closed(port)
    /\ io' = [io EXCEPT !.onStopServer = FALSE]
    /\ UNCHANGED <<main, loader, handover, gameState, queue, threads,
                   reopenings, connections, errors>>

ServiceDies ==
    /\ Serves /\ io.deathTimer
    /\ io' = [io EXCEPT !.stopped = TRUE]
    /\ UNCHANGED <<main, loader, handover, gameState, queue, threads, port,
                   reopenings, connections, errors>>

ConnectionDestroyed ==
    /\ connections > 0
    /\ connections' = connections - 1
    /\ UNCHANGED <<main, loader, handover, gameState, queue, threads, port,
                   reopenings, io, errors>>

(* onRecvFirstMessage refuses clients from the shutdown on. *)
LoginRequested ==
    /\ Serves /\ connections > 0 /\ gameState # "shutdown"
    /\ "login" \notin {queue[i] : i \in DOMAIN queue}       \* bound
    /\ queue' = Added("login")
    /\ UNCHANGED <<main, loader, handover, gameState, threads, reopenings,
                   network>>

-----------------------------------------------------------------------------
(* The thread of the queries, once it was shut down.  It has read its      *)
(* state without the lock: when that was before, it waits for a            *)
(* notification that has been given (threadMain in DatabaseTasks).         *)
DatabaseThreadEnds ==
    /\ databaseThread = "running" /\ database = "terminated"
    /\ databaseThread' = "ended"
    /\ UNCHANGED <<main, loader, handover, gameState, queue, dispatcher,
                   scheduler, database, schedulerThread, reopenings, network>>

DatabaseThreadParks ==
    /\ databaseThread = "running" /\ database = "terminated"
    /\ databaseThread' = "parked"
    /\ UNCHANGED <<main, loader, handover, gameState, queue, dispatcher,
                   scheduler, database, schedulerThread, reopenings, network>>

DatabaseWakesSpuriously ==
    /\ databaseThread = "parked" /\ database = "terminated"
    /\ databaseThread' = "ended"
    /\ UNCHANGED <<main, loader, handover, gameState, queue, dispatcher,
                   scheduler, database, schedulerThread, reopenings, network>>

-----------------------------------------------------------------------------
(* The scheduler's thread, whose io_context is stopped by its shutdown     *)
SchedulerThreadEnds ==
    /\ schedulerThread = "running" /\ scheduler = "terminated"
    /\ schedulerThread' = "ended"
    /\ UNCHANGED <<main, loader, handover, gameState, queue, dispatcher,
                   scheduler, database, databaseThread, reopenings, network>>

ReopeningDue ==
    /\ scheduler # "terminated" /\ reopenings > 0
    /\ reopenings' = reopenings - 1
    /\ queue' = Added("openAcceptor")
    /\ UNCHANGED <<main, loader, handover, gameState, threads, network>>

-----------------------------------------------------------------------------
(* Tasks of the dispatcher *)
(* setGameState(GAME_STATE_SHUTDOWN): only the first has an effect. *)
QueueShutdown == Added("shutdown")

RunSigterm ==
    /\ RunsTask("sigterm")
    /\ IF gameState = "shutdown"
       THEN /\ queue' = Tail(queue)
            /\ UNCHANGED <<gameState, threads>>
       ELSE /\ queue' = Tail(QueueShutdown)
            /\ gameState' = "shutdown"
            /\ scheduler' = "closing" /\ database' = "closing"
            /\ dispatcher' = "closing" /\ UNCHANGED liveThreads
    /\ UNCHANGED <<main, loader, handover, reopenings, network>>

RunLogin ==
    /\ RunsTask("login")
    /\ queue' = Tail(queue)
    /\ UNCHANGED <<main, loader, handover, gameState, threads, reopenings,
                   network>>

(* The port object exists as long as somebody holds it; openAcceptor has   *)
(* only a weak pointer.                                                    *)
PortHeld ==
    \/ port.registered \/ port.accepting
    \/ io.onStopServer \/ connections > 0

RunOpenAcceptor ==
    /\ RunsTask("openAcceptor")
    /\ queue' = Tail(queue)
    /\ IF PortHeld THEN OpenPort(port.registered)
       ELSE UNCHANGED <<port, reopenings, errors>>
    /\ UNCHANGED <<main, loader, handover, gameState, threads, io,
                   connections>>

(* ServiceManager::stop *)
StopServicesLaterMutant ==
    /\ io' = [io EXCEPT !.onStopServer = TRUE]
    /\ port' = [port EXCEPT !.registered = FALSE]

StopServices ==
    /\ io' = [io EXCEPT !.onStopServer = TRUE, !.deathTimer = TRUE]
    /\ port' = [port EXCEPT !.registered = FALSE]

(* Game::shutdown *)
RunShutdown ==
    /\ RunsTask("shutdown")
    /\ scheduler' = "terminated" /\ database' = "terminated"
    /\ queue' = Append(Tail(queue), "end")
    /\ reopenings' = 0
    /\ StopServices
    /\ UNCHANGED <<main, loader, handover, gameState, dispatcher, liveThreads,
                   connections, errors>>

(* The task of Dispatcher::shutdown *)
RunEnd ==
    /\ RunsTask("end")
    /\ queue' = Tail(queue)
    /\ dispatcher' = "terminated"
    /\ UNCHANGED <<main, loader, handover, gameState, scheduler, database,
                   liveThreads, reopenings, network>>

-----------------------------------------------------------------------------
RunMain ==
    WaitForLoader \/ Serve \/ GiveUp \/ ServiceEnds \/ JoinThreads
    \/ JoinDispatcher

Load ==
    LoadConfig \/ StartDatabase \/ LoadFails \/ AddServices \/ FinishLoading

RunTaskOfServer ==
    RunSigterm \/ RunLogin \/ RunOpenAcceptor \/ RunShutdown \/ RunEnd

ThreadGoesOn ==
    DatabaseThreadEnds \/ DatabaseThreadParks \/ SchedulerThreadEnds

Handle == AcceptAborted \/ OnStopServer \/ ServiceDies

ServerNext ==
    \/ RunMain \/ WakeSpuriously
    \/ Load
    \/ Signal \/ AcceptConnection \/ AcceptFails \/ ConnectionDestroyed
    \/ LoginRequested
    \/ Handle
    \/ ReopeningDue
    \/ ThreadGoesOn \/ DatabaseWakesSpuriously
    \/ RunTaskOfServer

(* Every thread goes on, and timers expire; no wait ends by itself. *)
ServerSpec ==
    /\ ServerInit /\ [][ServerNext]_ServerVars
    /\ WF_ServerVars(RunMain) /\ WF_ServerVars(Load)
    /\ WF_ServerVars(Handle) /\ WF_ServerVars(ReopeningDue)
    /\ WF_ServerVars(RunTaskOfServer)
    /\ WF_ServerVars(DatabaseThreadEnds \/ DatabaseThreadParks)
    /\ WF_ServerVars(SchedulerThreadEnds)

-----------------------------------------------------------------------------
(* As long as the scheduler and the dispatcher serve, a registered port    *)
(* accepts, or the one attempt to open it again is on its way, and only    *)
(* then is it marked as pending.                                           *)
PortAcceptsOrWaits ==
    LET tasks == Cardinality({i \in DOMAIN queue :
                                queue[i] = "openAcceptor"}) IN
    port.registered /\ scheduler = "running" /\ dispatcher = "running" =>
        /\ reopenings + tasks = IF port.pendingStart THEN 1 ELSE 0
        /\ ~port.pendingStart => port.acceptor = "open" /\ port.accepting

(* Ports are sound: every variable has its type, and no port is lost.      *)
ServerSound == ServerTypeOK /\ PortAcceptsOrWaits

(* A port that was closed by an error listens again, once the errors end,  *)
(* unless the server is shut down or main gives up.                        *)
PortComesBack ==
    port.pendingStart /\ gameState = "normal" ~>
        \/ port.acceptor = "open"
        \/ gameState = "shutdown" \/ main \in {"joining", "joined", "exited"}

(* Once the shutdown has closed the port, no openAcceptor that was under   *)
(* way opens it again.                                                     *)
StaysClosed ==
    [][io.deathTimer /\ ~io.onStopServer
        => port'.acceptor # "open"]_ServerVars

(* Main waits for the thread of the queries, which waits for a             *)
(* notification that was given before (the run database_tasks_join).       *)
JoinHangs == main = "joining" /\ databaseThread = "parked"

(* When the loader has ended, main serves or ends too, unless the signal   *)
(* came before main waited for it, or the wait had ended without it, or    *)
(* it ends in vain, with a thread it cannot join.                          *)
StartupIsDecided ==
    loader \in {"loaded", "failed"} ~>
        \/ main \in {"serving", "exited"} \/ JoinHangs
        \/ handover \in {"unheard", "early"}

(* A shutdown comes to its end, whatever is queued and wherever the port   *)
(* is: the io_service stops, the dispatcher and the scheduler end, and so  *)
(* does main, unless it cannot join the thread of the queries.  That one   *)
(* is all that may keep it.                                                *)
ShutdownCompletes ==
    gameState = "shutdown" ~>
        /\ io.stopped /\ dispatcher = "terminated"
        /\ schedulerThread = "ended"
        /\ main = "exited" \/ JoinHangs

(* The server gets on: a start is decided, a port that failed is opened    *)
(* again, a shutdown completes as far as the threads allow, and what it    *)
(* closed stays closed.                                                    *)
ServerGoesOn ==
    /\ PortComesBack /\ StaysClosed
    /\ StartupIsDecided /\ ShutdownCompletes
=============================================================================
