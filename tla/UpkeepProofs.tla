---------------------------- MODULE UpkeepProofs ----------------------------
(***************************************************************************)
(* Theorems about Upkeep and four of the components it puts side by side:  *)
(* the server and its port, the thread of queries, the items that decay    *)
(* and the monsters of a spawn.                                            *)
(***************************************************************************)
EXTENDS Upkeep, SequenceTheorems, FiniteSetTheorems, TLAPS

-----------------------------------------------------------------------------
(* The port of the server (Server).                                        *)

-----------------------------------------------------------------------------
(* A task that opens the port again is queued at most once.                *)
NoneQueued(q) == \A j \in DOMAIN q : q[j] # "openAcceptor"

OnceQueued(q) ==
    \A j, k \in DOMAIN q :
        q[j] = "openAcceptor" /\ q[k] = "openAcceptor" => j = k

\* The one attempt to open the port is an event, a task or not needed.
ReopeningInv ==
    /\ OnceQueued(queue)
    /\ reopenings = 1 => NoneQueued(queue)
    /\ ~port.pendingStart => reopenings = 0 /\ NoneQueued(queue)

\* While both threads serve, a registered port accepts or has an attempt.
ServedPortInv ==
    port.registered /\ scheduler = "running" /\ dispatcher = "running" =>
        /\ port.pendingStart => reopenings = 1 \/ ~NoneQueued(queue)
        /\ ~port.pendingStart => port.acceptor = "open" /\ port.accepting

Preparing == loader \in {"queued", "loading", "connected"}

\* The loader is the first task until it ends, and nothing stops the port
\* before: a task that would has to wait.
LoaderInv ==
    /\ Preparing \/ loader = "listening" =>
        queue # <<>> /\ Head(queue) = "mainLoader" /\ ~io.onStopServer
    /\ Preparing =>
        /\ reopenings = 0 /\ NoneQueued(queue)
        /\ port.acceptor = "none" /\ ~port.registered
    /\ io.onStopServer => ~port.registered

(* The types, but for those of the threads themselves. *)
ServerFits ==
    /\ main \in {"starting", "waiting", "woken", "serving", "joining",
                 "joined", "exited"}
    /\ loader \in {"queued", "loading", "connected", "listening",
                   "loaded", "failed"}
    /\ handover \in {"none", "heard", "unheard", "early"}
    /\ gameState \in {"startup", "init", "normal", "shutdown"}
    /\ queue \in Seq(ServerTasks)
    /\ dispatcher \in ThreadStates /\ scheduler \in ThreadStates
    /\ database \in ThreadStates
    /\ port \in PortRecords
    /\ reopenings \in 0 .. 1
    /\ io \in IoRecords
    /\ connections \in 0 .. MaxConnections
    /\ errors \in 0 .. MaxErrors

ThreadsFit ==
    /\ schedulerThread \in {"running", "ended"}
    /\ databaseThread \in {"absent", "running", "parked", "ended"}

ServerInv == ServerFits /\ ReopeningInv /\ ServedPortInv /\ LoaderInv

\* What a task added to the queue, and one taken from it, do to the tasks
\* that open the port again.
LEMMA TaskAdded ==
    ASSUME NEW q \in Seq(ServerTasks), NEW t \in ServerTasks
    PROVE  /\ Append(q, t) \in Seq(ServerTasks) /\ Append(q, t) # <<>>
           /\ q # <<>> => Head(Append(q, t)) = Head(q)
           /\ t # "openAcceptor" =>
                /\ NoneQueued(Append(q, t)) <=> NoneQueued(q)
                /\ OnceQueued(q) => OnceQueued(Append(q, t))
           /\ NoneQueued(q) => OnceQueued(Append(q, t))
           /\ ~NoneQueued(Append(q, "openAcceptor"))
<1>1. /\ Append(q, t) \in Seq(ServerTasks) /\ Append(q, t) # <<>>
      /\ DOMAIN q = 1 .. Len(q) /\ Len(q) \in Nat
      /\ DOMAIN Append(q, t) = 1 .. Len(q) + 1
      /\ \A i \in 1 .. Len(q) : Append(q, t)[i] = q[i]
      /\ Append(q, t)[Len(q) + 1] = t
  BY AppendProperties, LenProperties
<1>2. q # <<>> => Head(Append(q, t)) = Head(q)
  BY HeadTailAppend
<1>3. \A i \in 1 .. Len(q) + 1 : i \in 1 .. Len(q) \/ i = Len(q) + 1
  BY <1>1
<1>4. \A i \in 1 .. Len(q) : i \in 1 .. Len(q) + 1
  BY <1>1
<1>5. t # "openAcceptor" => (NoneQueued(Append(q, t)) <=> NoneQueued(q))
  BY <1>1, <1>3, <1>4 DEF NoneQueued
<1>6. t # "openAcceptor" /\ OnceQueued(q) => OnceQueued(Append(q, t))
  BY <1>1, <1>3 DEF OnceQueued
<1>7. NoneQueued(q) => OnceQueued(Append(q, t))
  BY <1>1, <1>3 DEF OnceQueued, NoneQueued
<1>8. ~NoneQueued(Append(q, "openAcceptor"))
  <2>1. /\ DOMAIN Append(q, "openAcceptor") = 1 .. Len(q) + 1
        /\ Append(q, "openAcceptor")[Len(q) + 1] = "openAcceptor"
    BY AppendProperties, LenProperties DEF ServerTasks
  <2>2. Len(q) + 1 \in 1 .. Len(q) + 1
    BY <1>1
  <2> QED
    BY <2>1, <2>2 DEF NoneQueued
<1> QED
  BY <1>1, <1>2, <1>5, <1>6, <1>7, <1>8

LEMMA TaskTaken ==
    ASSUME NEW q \in Seq(ServerTasks), q # <<>>
    PROVE  /\ Tail(q) \in Seq(ServerTasks)
           /\ NoneQueued(q) => NoneQueued(Tail(q))
           /\ OnceQueued(q) => OnceQueued(Tail(q))
           /\ Head(q) = "openAcceptor" /\ OnceQueued(q) =>
                NoneQueued(Tail(q)) /\ ~NoneQueued(q)
           /\ Head(q) # "openAcceptor" /\ ~NoneQueued(q) =>
                ~NoneQueued(Tail(q))
<1>1. /\ Tail(q) \in Seq(ServerTasks)
      /\ DOMAIN q = 1 .. Len(q) /\ Len(q) \in Nat \ {0}
      /\ DOMAIN Tail(q) = 1 .. Len(q) - 1
      /\ \A i \in 1 .. Len(q) - 1 : Tail(q)[i] = q[i + 1]
      /\ Head(q) = q[1]
  BY HeadTailProperties, LenProperties, EmptySeq
<1>2. \A i \in 1 .. Len(q) - 1 : i + 1 \in 1 .. Len(q) /\ i + 1 # 1
  BY <1>1
<1>3. \A i \in 1 .. Len(q) :
        i = 1 \/ (i - 1 \in 1 .. Len(q) - 1 /\ Tail(q)[i - 1] = q[i])
  BY <1>1
<1>4. 1 \in 1 .. Len(q)
  BY <1>1
<1>5. NoneQueued(q) => NoneQueued(Tail(q))
  BY <1>1, <1>2 DEF NoneQueued
<1>6. OnceQueued(q) => OnceQueued(Tail(q))
  <2> SUFFICES ASSUME OnceQueued(q),
                      NEW j \in 1 .. Len(q) - 1, NEW k \in 1 .. Len(q) - 1,
                      Tail(q)[j] = "openAcceptor", Tail(q)[k] = "openAcceptor"
               PROVE  j = k
    BY <1>1 DEF OnceQueued
  <2>1. j + 1 = k + 1
    BY <1>1, <1>2 DEF OnceQueued
  <2> QED
    BY <2>1
<1>7. Head(q) = "openAcceptor" /\ OnceQueued(q) =>
        NoneQueued(Tail(q)) /\ ~NoneQueued(q)
  BY <1>1, <1>2, <1>4 DEF NoneQueued, OnceQueued
<1>8. Head(q) # "openAcceptor" /\ ~NoneQueued(q) => ~NoneQueued(Tail(q))
  BY <1>1, <1>3 DEF NoneQueued
<1> QED
  BY <1>1, <1>5, <1>6, <1>7, <1>8

\* At the start the loader is the only task and there is no port.
LEMMA ServerBegins == ServerAssumption /\ ServerInit => ServerInv
<1> SUFFICES ASSUME ServerAssumption, ServerInit PROVE ServerInv
  OBVIOUS
<1>1. /\ queue = <<"mainLoader">> /\ queue \in Seq(ServerTasks)
      /\ DOMAIN queue = 1 .. 1 /\ queue[1] = "mainLoader"
      /\ queue # <<>> /\ Head(queue) = "mainLoader"
  <2>1. queue = <<"mainLoader">>
    BY DEF ServerInit
  <2>2. queue \in Seq(ServerTasks)
    BY <2>1 DEF ServerTasks
  <2>3. Len(queue) = 1 /\ DOMAIN queue = 1 .. 1
    BY <2>1, <2>2, LenProperties
  <2> QED
    BY <2>1, <2>2, <2>3
<1>2. NoneQueued(queue) /\ OnceQueued(queue)
  BY <1>1 DEF NoneQueued, OnceQueued
<1>3. ServerFits
  <2>1. /\ port = [acceptor |-> "none", accepting |-> FALSE,
                   pendingStart |-> FALSE, registered |-> FALSE]
        /\ io = [onStopServer |-> FALSE, deathTimer |-> FALSE,
                 stopped |-> FALSE]
    BY DEF ServerInit
  <2>2. port \in PortRecords
    BY <2>1 DEF PortRecords
  <2>3. io \in IoRecords
    BY <2>1 DEF IoRecords
  <2>4. connections \in 0 .. MaxConnections /\ errors \in 0 .. MaxErrors
    <3>1. connections = 0 /\ errors = 0
      BY DEF ServerInit
    <3> QED
      BY <3>1 DEF ServerAssumption
  <2>5. /\ dispatcher \in ThreadStates /\ scheduler \in ThreadStates
        /\ database \in ThreadStates
    BY DEF ServerInit, ThreadStates
  <2>6. /\ main = "starting" /\ loader = "queued" /\ handover = "none"
        /\ gameState = "startup" /\ reopenings = 0
    BY DEF ServerInit
  <2>7. queue \in Seq(ServerTasks) /\ reopenings \in 0 .. 1
    BY <1>1, <2>6
  <2> QED
    BY <2>2, <2>3, <2>4, <2>5, <2>6, <2>7 DEF ServerFits
<1>4. ReopeningInv /\ ServedPortInv /\ LoaderInv
  BY <1>1, <1>2 DEF ServerInit, ReopeningInv, ServedPortInv, LoaderInv,
                    Preparing
<1> QED
  BY <1>3, <1>4 DEF ServerInv

\* Steps that leave the queue, the port and what opens it alone.
LEMMA PortUntouched ==
    ASSUME ReopeningInv, ServedPortInv, LoaderInv,
           UNCHANGED <<queue, scheduler, dispatcher, reopenings, port>>,
           io'.onStopServer = io.onStopServer,
           loader' = loader \/ (Preparing /\ Preparing')
    PROVE  ReopeningInv' /\ ServedPortInv' /\ LoaderInv'
BY DEF ReopeningInv, ServedPortInv, LoaderInv, NoneQueued, OnceQueued,
       Preparing

\* Steps that add or take a task of another kind; the loader may end.
LEMMA OtherTask ==
    ASSUME ReopeningInv, ServedPortInv, LoaderInv,
           NoneQueued(queue') <=> NoneQueued(queue), OnceQueued(queue'),
           loader' = loader /\ (Preparing \/ loader = "listening")
                => queue' # <<>> /\ Head(queue') = "mainLoader",
           loader' = loader \/ loader' \in {"loaded", "failed"},
           UNCHANGED <<reopenings, port>>,
           scheduler' = "running" => scheduler = "running",
           dispatcher' = "running" => dispatcher = "running",
           io'.onStopServer = io.onStopServer
    PROVE  ReopeningInv' /\ ServedPortInv' /\ LoaderInv'
<1>1. ReopeningInv'
  BY DEF ReopeningInv, NoneQueued, OnceQueued
<1>2. ServedPortInv'
  BY DEF ServedPortInv, NoneQueued
<1>3. LoaderInv'
  BY DEF LoaderInv, Preparing, NoneQueued
<1> QED
  BY <1>1, <1>2, <1>3

\* The port listens, or another attempt is asked of the scheduler.
PortTried ==
    /\ port' \in PortRecords /\ errors' \in 0 .. MaxErrors
    /\ \/ /\ port'.acceptor = "open" /\ port'.accepting
          /\ ~port'.pendingStart /\ reopenings' = reopenings
       \/ /\ port'.pendingStart
          /\ reopenings' = IF scheduler = "terminated" THEN reopenings
                           ELSE reopenings + 1

\* openAcceptor tries to open the port, and says whether it is registered.
LEMMA PortOpened ==
    ASSUME ServerFits, ServerAssumption,
           NEW STATE r, r \in BOOLEAN, OpenPort(r)
    PROVE  PortTried /\ port'.registered = r
<1>1. port \in PortRecords /\ errors \in 0 .. MaxErrors /\ MaxErrors \in Nat
  BY DEF ServerFits, PortRecords, ServerAssumption
<1>2. CASE port' = [port EXCEPT !.acceptor = "open", !.accepting = TRUE,
                                !.pendingStart = FALSE, !.registered = r]
           /\ UNCHANGED <<reopenings, errors>>
  <2>1. /\ port' \in PortRecords /\ port'.acceptor = "open"
        /\ port'.accepting = TRUE /\ port'.pendingStart = FALSE
        /\ port'.registered = r
    BY <1>1, <1>2 DEF PortRecords
  <2> QED
    BY <1>1, <1>2, <2>1 DEF PortTried
<1>3. CASE /\ errors < MaxErrors /\ errors' = errors + 1
           /\ port' = [Closed(port) EXCEPT !.pendingStart = TRUE,
                                           !.registered = r]
           /\ AddReopening
  <2>1. Closed(port) \in PortRecords
    BY <1>1 DEF PortRecords, Closed
  <2>2. /\ port' \in PortRecords /\ port'.pendingStart = TRUE
        /\ port'.registered = r
    BY <1>3, <2>1 DEF PortRecords
  <2> QED
    BY <1>1, <1>3, <2>2 DEF PortTried, AddReopening
<1> QED
  BY <1>2, <1>3 DEF OpenPort

\* The steps that leave the queue and the port as they are.
LEMMA QuietSteps ==
    ASSUME ServerInv, ServerAssumption,
           \/ WaitForLoader \/ WakeSpuriously \/ Serve \/ ServiceEnds
           \/ JoinThreads \/ JoinDispatcher \/ LoadConfig \/ StartDatabase
           \/ AcceptConnection \/ ServiceDies \/ ConnectionDestroyed
           \/ ThreadGoesOn \/ DatabaseWakesSpuriously
           \/ UNCHANGED ServerVars
    PROVE  ServerInv'
<1> USE DEF ServerInv, threads, network
<1>1. CASE WaitForLoader \/ Serve \/ ServiceEnds \/ JoinThreads
           \/ JoinDispatcher \/ WakeSpuriously
  <2>1. /\ UNCHANGED <<loader, gameState, queue, dispatcher, scheduler,
                       database, port, reopenings, io, connections, errors>>
        /\ main' \in {"waiting", "woken", "serving", "joining", "joined",
                      "exited"}
        /\ handover' \in {handover, "early"}
    BY <1>1 DEF WaitForLoader, Serve, ServiceEnds, JoinThreads,
                JoinDispatcher, WakeSpuriously
  <2>2. ServerFits'
    BY <2>1 DEF ServerFits
  <2> QED
    BY <2>1, <2>2, PortUntouched
<1>2. CASE LoadConfig
  <2>1. /\ UNCHANGED <<main, handover, gameState, queue, dispatcher,
                       scheduler, database, port, reopenings, io,
                       connections, errors>>
        /\ loader = "queued" /\ loader' = "loading"
    BY <1>2 DEF LoadConfig
  <2>2. ServerFits'
    BY <2>1 DEF ServerFits
  <2> QED
    BY <2>1, <2>2, PortUntouched DEF Preparing
<1>3. CASE StartDatabase
  <2>1. /\ UNCHANGED <<main, handover, gameState, queue, dispatcher,
                       scheduler, port, reopenings, io, connections,
                       errors>>
        /\ loader = "loading" /\ loader' = "connected"
        /\ database' = "running"
    BY <1>3 DEF StartDatabase
  <2>2. ServerFits'
    BY <2>1 DEF ServerFits, ThreadStates
  <2> QED
    BY <2>1, <2>2, PortUntouched DEF Preparing
<1>4. CASE AcceptConnection \/ ConnectionDestroyed
  <2>1. /\ UNCHANGED <<main, loader, handover, gameState, queue, dispatcher,
                       scheduler, database, port, reopenings, io, errors>>
        /\ \/ connections < MaxConnections /\ connections' = connections + 1
           \/ connections > 0 /\ connections' = connections - 1
    BY <1>4 DEF AcceptConnection, ConnectionDestroyed
  <2>3. connections' \in 0 .. MaxConnections
    <3>1. connections \in 0 .. MaxConnections
      BY DEF ServerFits
    <3> QED
      BY <2>1, <3>1 DEF ServerAssumption
  <2>2. ServerFits'
    BY <2>1, <2>3 DEF ServerFits
  <2> QED
    BY <2>1, <2>2, PortUntouched
<1>5. CASE ServiceDies
  <2>1. /\ UNCHANGED <<main, loader, handover, gameState, queue, dispatcher,
                       scheduler, database, port, reopenings, connections,
                       errors>>
        /\ io' = [io EXCEPT !.stopped = TRUE]
    BY <1>5 DEF ServiceDies
  <2>2. io \in IoRecords
    BY DEF ServerFits
  <2>3. io' \in IoRecords /\ io'.onStopServer = io.onStopServer
    BY <2>1, <2>2 DEF IoRecords
  <2>4. ServerFits'
    BY <2>1, <2>3 DEF ServerFits
  <2> QED
    BY <2>1, <2>3, <2>4, PortUntouched
<1>6. CASE ThreadGoesOn \/ DatabaseWakesSpuriously \/ UNCHANGED ServerVars
  <2>1. UNCHANGED <<main, loader, handover, gameState, queue, dispatcher,
                    scheduler, database, port, reopenings, io, connections,
                    errors>>
    BY <1>6 DEF ServerVars, ThreadGoesOn, DatabaseThreadEnds,
                DatabaseThreadParks, SchedulerThreadEnds,
                DatabaseWakesSpuriously
  <2>2. ServerFits'
    BY <2>1 DEF ServerFits
  <2> QED
    BY <2>1, <2>2, PortUntouched
<1> QED
  BY <1>1, <1>2, <1>3, <1>4, <1>5, <1>6

\* mainLoader ends: it fails, or the server is to be started.
LEMMA LoaderEnds ==
    ASSUME ServerInv, ServerAssumption, LoadFails \/ FinishLoading
    PROVE  ServerInv'
<1> USE DEF ServerInv
<1>1. /\ UNCHANGED <<dispatcher, scheduler, database, port, reopenings, io,
                     connections, errors>>
      /\ queue' = Tail(queue) /\ loader' \in {"loaded", "failed"}
      /\ gameState' \in {gameState, "normal"}
      /\ Preparing \/ loader = "listening"
  BY DEF LoadFails, FinishLoading, threads, network, Preparing
<1>2. main' \in {main, "woken"} /\ handover' \in {handover, "heard", "unheard"}
  BY DEF LoadFails, FinishLoading, Notify
<1>3. queue # <<>> /\ Head(queue) = "mainLoader"
  BY <1>1 DEF LoaderInv
<1>4. /\ queue' \in Seq(ServerTasks)
      /\ NoneQueued(queue') <=> NoneQueued(queue)
      /\ OnceQueued(queue')
  BY <1>1, <1>3, TaskTaken DEF ServerFits, ReopeningInv
<1>5. ServerFits'
  BY <1>1, <1>2, <1>4 DEF ServerFits
<1> QED
  BY <1>1, <1>4, <1>5, OtherTask DEF Preparing

\* The tasks of r are those of q, but for some that do not open the port.
OthersQueued(q, r) ==
    /\ r \in Seq(ServerTasks)
    /\ q # <<>> => r # <<>> /\ Head(r) = Head(q)
    /\ NoneQueued(r) <=> NoneQueued(q)
    /\ OnceQueued(r)

\* Tasks that come from elsewhere, and the ends of the threads.
LEMMA TaskQueued ==
    ASSUME ServerInv, ServerAssumption, Signal \/ LoginRequested \/ GiveUp
    PROVE  ServerInv'
<1> USE DEF ServerInv
<1>1. /\ UNCHANGED <<loader, handover, gameState, dispatcher, port, io,
                     connections, errors>>
      /\ main' \in {main, "joining"}
  BY DEF Signal, LoginRequested, GiveUp, threads, network
<1>2. /\ queue' \in {queue, Append(queue, "sigterm"), Append(queue, "login"),
                     Append(queue, "end")}
  BY DEF Signal, LoginRequested, GiveUp, EndThreads, Added
<1>3. OthersQueued(queue, queue')
  <2>1. queue \in Seq(ServerTasks) /\ OnceQueued(queue)
    BY DEF ServerFits, ReopeningInv
  <2>2. CASE queue' = queue
    BY <2>1, <2>2 DEF OthersQueued
  <2>3. ASSUME NEW t \in {"sigterm", "login", "end"},
               queue' = Append(queue, t)
        PROVE  OthersQueued(queue, queue')
    <3>1. t \in ServerTasks /\ t # "openAcceptor"
      BY <2>3 DEF ServerTasks
    <3> QED
      BY <2>1, <2>3, <3>1, TaskAdded DEF OthersQueued
  <2> QED
    BY <1>2, <2>2, <2>3
<1>4. CASE GiveUp
  <2>1. /\ scheduler' = "terminated" /\ database' = "terminated"
        /\ reopenings' = 0 /\ ~port.registered
    BY <1>4 DEF GiveUp, EndThreads
  <2>2. ServerFits'
    <3>1. /\ scheduler' \in ThreadStates /\ reopenings' \in 0 .. 1
          /\ database' \in ThreadStates
      BY <2>1 DEF ThreadStates
    <3> QED
      BY <1>1, <1>3, <3>1 DEF ServerFits, OthersQueued, GiveUp
  <2>3. ReopeningInv' /\ ServedPortInv' /\ LoaderInv'
    BY <1>1, <1>3, <2>1
       DEF ReopeningInv, ServedPortInv, LoaderInv, Preparing, NoneQueued,
           OnceQueued, OthersQueued
  <2> QED
    BY <2>2, <2>3
<1>5. CASE Signal \/ LoginRequested
  <2>1. UNCHANGED <<scheduler, database, reopenings>>
    BY <1>5 DEF Signal, LoginRequested, threads
  <2>2. ServerFits'
    BY <1>1, <1>3, <2>1 DEF ServerFits, OthersQueued
  <2>3. ReopeningInv' /\ ServedPortInv' /\ LoaderInv'
    BY <1>1, <1>3, <2>1, OtherTask DEF LoaderInv, OthersQueued
  <2> QED
    BY <2>2, <2>3
<1> QED
  BY <1>4, <1>5

\* The services are added and their port is opened the first time.
LEMMA AddServicesKeeps ==
    ASSUME ServerInv, ServerAssumption, AddServices
    PROVE  ServerInv'
<1> USE DEF ServerInv
<1>1. /\ UNCHANGED <<main, handover, queue, dispatcher, scheduler, database,
                     io, connections>>
      /\ loader = "connected" /\ loader' = "listening" /\ gameState' = "init"
      /\ OpenPort(TRUE)
  BY DEF AddServices, threads
<1>2. PortTried /\ port'.registered = TRUE
  BY <1>1, PortOpened
<1>3. /\ reopenings = 0 /\ NoneQueued(queue) /\ OnceQueued(queue)
      /\ queue # <<>> /\ Head(queue) = "mainLoader" /\ ~io.onStopServer
  BY <1>1 DEF LoaderInv, Preparing, ReopeningInv
<1>4. reopenings' \in 0 .. 1
  BY <1>2, <1>3 DEF PortTried
<1>5. ServerFits'
  BY <1>1, <1>2, <1>4 DEF ServerFits, PortTried
<1>6. ReopeningInv'
  BY <1>1, <1>2, <1>3 DEF ReopeningInv, PortTried, NoneQueued, OnceQueued
<1>7. ServedPortInv'
  BY <1>1, <1>2, <1>3 DEF ServedPortInv, PortTried
<1>8. LoaderInv'
  BY <1>1, <1>3 DEF LoaderInv, Preparing
<1> QED
  BY <1>5, <1>6, <1>7, <1>8

\* An error of accept closes the acceptor, and an event opens it later.
LEMMA AcceptFailsKeeps ==
    ASSUME ServerInv, ServerAssumption, AcceptFails
    PROVE  ServerInv'
<1> USE DEF ServerInv
<1>1. /\ UNCHANGED <<main, loader, handover, gameState, queue, dispatcher,
                     scheduler, database, io, connections>>
      /\ port.acceptor = "open" /\ port.accepting
      /\ errors < MaxErrors /\ errors' = errors + 1
  BY DEF AcceptFails, threads
<1>2. ~Preparing
  BY <1>1 DEF LoaderInv
<1>3. errors' \in 0 .. MaxErrors
  <2>1. errors \in 0 .. MaxErrors
    BY DEF ServerFits
  <2> QED
    BY <1>1, <2>1 DEF ServerAssumption
<1>4. port \in PortRecords /\ reopenings \in 0 .. 1
  BY DEF ServerFits
<1>5. CASE port.pendingStart
  <2>1. port' = [port EXCEPT !.accepting = FALSE] /\ reopenings' = reopenings
    BY <1>5 DEF AcceptFails
  <2>2. /\ port' \in PortRecords /\ port'.pendingStart
        /\ port'.registered = port.registered
    BY <1>4, <1>5, <2>1 DEF PortRecords
  <2>3. ServerFits'
    BY <1>1, <1>3, <2>1, <2>2 DEF ServerFits
  <2>4. ReopeningInv' /\ ServedPortInv' /\ LoaderInv'
    BY <1>1, <1>2, <1>5, <2>1, <2>2
       DEF ReopeningInv, ServedPortInv, LoaderInv, Preparing, NoneQueued,
           OnceQueued
  <2> QED
    BY <2>3, <2>4
<1>6. CASE ~port.pendingStart
  <2>1. /\ port' = [Closed(port) EXCEPT !.accepting = FALSE,
                                        !.pendingStart = TRUE]
        /\ AddReopening
    BY <1>6 DEF AcceptFails, RetryAfterError
  <2>2. /\ Closed(port) \in PortRecords
        /\ Closed(port).registered = port.registered
    BY <1>4 DEF PortRecords, Closed
  <2>3. /\ port' \in PortRecords /\ port'.pendingStart
        /\ port'.registered = port.registered
    BY <2>1, <2>2 DEF PortRecords
  <2>4. reopenings = 0 /\ NoneQueued(queue)
    BY <1>6 DEF ReopeningInv
  <2>5. /\ reopenings' \in 0 .. 1
        /\ scheduler = "running" => reopenings' = 1
    BY <2>1, <2>4 DEF AddReopening
  <2>6. ServerFits'
    BY <1>1, <1>3, <2>3, <2>5 DEF ServerFits
  <2>7. ReopeningInv' /\ ServedPortInv' /\ LoaderInv'
    BY <1>1, <1>2, <2>3, <2>4, <2>5
       DEF ReopeningInv, ServedPortInv, LoaderInv, Preparing, NoneQueued,
           OnceQueued
  <2> QED
    BY <2>6, <2>7
<1> QED
  BY <1>5, <1>6

\* What is aborted because the acceptor was closed, and the end of a port.
LEMMA HandlersKeep ==
    ASSUME ServerInv, ServerAssumption, AcceptAborted \/ OnStopServer
    PROVE  ServerInv'
<1> USE DEF ServerInv
<1>1. /\ UNCHANGED <<main, loader, handover, gameState, queue, dispatcher,
                     scheduler, database, reopenings, connections, errors>>
  BY DEF AcceptAborted, OnStopServer, threads
<1>2. port \in PortRecords /\ io \in IoRecords
  BY DEF ServerFits
<1>3. CASE AcceptAborted
  <2>1. /\ port' = [port EXCEPT !.accepting = FALSE] /\ io' = io
        /\ port.acceptor = "closed"
    BY <1>3 DEF AcceptAborted
  <2>2. /\ port' \in PortRecords /\ port'.pendingStart = port.pendingStart
        /\ port'.registered = port.registered
    BY <1>2, <2>1 DEF PortRecords
  <2>3. ServerFits'
    BY <1>1, <2>1, <2>2 DEF ServerFits
  <2>4. ReopeningInv' /\ ServedPortInv' /\ LoaderInv'
    BY <1>1, <2>1, <2>2
       DEF ReopeningInv, ServedPortInv, LoaderInv, Preparing, NoneQueued,
           OnceQueued
  <2> QED
    BY <2>3, <2>4
<1>4. CASE OnStopServer
  <2>1. /\ port' = Closed(port) /\ io' = [io EXCEPT !.onStopServer = FALSE]
        /\ io.onStopServer
    BY <1>4 DEF OnStopServer
  <2>2. /\ port' \in PortRecords /\ port'.pendingStart = port.pendingStart
        /\ port'.registered = port.registered
    BY <1>2, <2>1 DEF PortRecords, Closed
  <2>3. io' \in IoRecords /\ io'.onStopServer = FALSE
    BY <1>2, <2>1 DEF IoRecords
  <2>4. ServerFits'
    BY <1>1, <2>2, <2>3 DEF ServerFits
  <2>5. ~port.registered /\ ~Preparing /\ loader # "listening"
    BY <2>1 DEF LoaderInv
  <2>6. ReopeningInv' /\ ServedPortInv' /\ LoaderInv'
    BY <1>1, <2>2, <2>3, <2>5
       DEF ReopeningInv, ServedPortInv, LoaderInv, Preparing, NoneQueued,
           OnceQueued
  <2> QED
    BY <2>4, <2>6
<1> QED
  BY <1>3, <1>4

\* The event adds the task that opens the port again, ...
LEMMA ReopeningDueKeeps ==
    ASSUME ServerInv, ServerAssumption, ReopeningDue
    PROVE  ServerInv'
<1> USE DEF ServerInv
<1>1. /\ UNCHANGED <<main, loader, handover, gameState, dispatcher,
                     scheduler, database, port, io, connections, errors>>
      /\ queue' = IF dispatcher = "running"
                  THEN Append(queue, "openAcceptor") ELSE queue
  BY DEF ReopeningDue, threads, network, Added
<1>2. reopenings = 1 /\ reopenings' = 0
  <2>1. reopenings > 0 /\ reopenings' = reopenings - 1
    BY DEF ReopeningDue
  <2>2. reopenings \in 0 .. 1
    BY DEF ServerFits
  <2> QED
    BY <2>1, <2>2
<1>3. NoneQueued(queue) /\ port.pendingStart /\ ~Preparing
  BY <1>2 DEF ReopeningInv, LoaderInv
<1>4. queue \in Seq(ServerTasks) /\ OnceQueued(queue)
  BY DEF ServerFits, ReopeningInv
<1>5. /\ queue' \in Seq(ServerTasks) /\ OnceQueued(queue')
      /\ dispatcher = "running" => ~NoneQueued(queue')
      /\ queue # <<>> => queue' # <<>> /\ Head(queue') = Head(queue)
  <2>1. "openAcceptor" \in ServerTasks
    BY DEF ServerTasks
  <2> QED
    BY <1>1, <1>3, <1>4, <2>1, TaskAdded
<1>6. ServerFits'
  <2>1. reopenings' \in 0 .. 1
    BY <1>2
  <2> QED
    BY <1>1, <1>5, <2>1 DEF ServerFits
<1>7. ReopeningInv'
  BY <1>1, <1>2, <1>3, <1>5 DEF ReopeningInv
<1>8. ServedPortInv'
  BY <1>1, <1>3, <1>5 DEF ServedPortInv
<1>9. LoaderInv'
  BY <1>1, <1>3, <1>5 DEF LoaderInv, Preparing
<1> QED
  BY <1>6, <1>7, <1>8, <1>9

\* ... and that task opens it or leaves another event.
LEMMA OpenAcceptorKeeps ==
    ASSUME ServerInv, ServerAssumption, RunOpenAcceptor
    PROVE  ServerInv'
<1> USE DEF ServerInv
<1>1. /\ UNCHANGED <<main, loader, handover, gameState, dispatcher,
                     scheduler, database, io, connections>>
      /\ queue # <<>> /\ Head(queue) = "openAcceptor" /\ queue' = Tail(queue)
  BY DEF RunOpenAcceptor, RunsTask, threads
<1>2. /\ queue' \in Seq(ServerTasks) /\ OnceQueued(queue')
      /\ NoneQueued(queue') /\ ~NoneQueued(queue)
  BY <1>1, TaskTaken DEF ServerFits, ReopeningInv
<1>3. reopenings = 0 /\ port.pendingStart /\ ~Preparing
  <2>1. reopenings \in 0 .. 1
    BY DEF ServerFits
  <2> QED
    BY <1>2, <2>1 DEF ReopeningInv, LoaderInv
<1>4. loader # "listening"
  BY <1>1 DEF LoaderInv
<1>5. port \in PortRecords
  BY DEF ServerFits
<1>6. CASE PortHeld
  <2>1. OpenPort(port.registered)
    BY <1>6 DEF RunOpenAcceptor
  <2>2. port.registered \in BOOLEAN
    BY <1>5 DEF PortRecords
  <2>3. PortTried /\ port'.registered = port.registered
    BY <2>1, <2>2, PortOpened
  <2>4. reopenings' \in 0 .. 1
    BY <1>3, <2>3 DEF PortTried
  <2>5. ServerFits'
    BY <1>1, <1>2, <2>3, <2>4 DEF ServerFits, PortTried
  <2>6. ReopeningInv' /\ ServedPortInv'
    BY <1>1, <1>2, <1>3, <2>3
       DEF ReopeningInv, ServedPortInv, PortTried
  <2>7. LoaderInv'
    BY <1>1, <1>3, <1>4, <2>3 DEF LoaderInv, Preparing
  <2> QED
    BY <2>5, <2>6, <2>7
<1>7. CASE ~PortHeld
  <2>1. UNCHANGED <<port, reopenings, errors>> /\ ~port.registered
    BY <1>7 DEF RunOpenAcceptor, PortHeld
  <2>2. ServerFits'
    BY <1>1, <1>2, <2>1 DEF ServerFits
  <2>3. ReopeningInv' /\ ServedPortInv' /\ LoaderInv'
    BY <1>1, <1>2, <1>3, <1>4, <2>1
       DEF ReopeningInv, ServedPortInv, LoaderInv, Preparing
  <2> QED
    BY <2>2, <2>3
<1> QED
  BY <1>6, <1>7

\* The other tasks of the dispatcher.
LEMMA OtherTasksKeep ==
    ASSUME ServerInv, ServerAssumption, RunLogin \/ RunSigterm \/ RunEnd
    PROVE  ServerInv'
<1> USE DEF ServerInv
<1>1. /\ UNCHANGED <<main, loader, handover, port, reopenings, io,
                     connections, errors>>
      /\ queue # <<>> /\ Head(queue) \in {"login", "sigterm", "end"}
  BY DEF RunLogin, RunSigterm, RunEnd, RunsTask, network
<1>2. /\ queue \in Seq(ServerTasks) /\ OnceQueued(queue)
      /\ ~Preparing /\ loader # "listening"
  BY <1>1 DEF ServerFits, ReopeningInv, LoaderInv
<1>3. queue' \in {Tail(queue), Tail(Append(queue, "shutdown"))}
  BY DEF RunLogin, RunSigterm, RunEnd, QueueShutdown, Added
<1>4. /\ queue' \in Seq(ServerTasks) /\ OnceQueued(queue')
      /\ NoneQueued(queue') <=> NoneQueued(queue)
  <2>1. /\ Append(queue, "shutdown") \in Seq(ServerTasks)
        /\ Append(queue, "shutdown") # <<>>
        /\ Head(Append(queue, "shutdown")) = Head(queue)
        /\ NoneQueued(Append(queue, "shutdown")) <=> NoneQueued(queue)
        /\ OnceQueued(Append(queue, "shutdown"))
    <3>1. "shutdown" \in ServerTasks /\ "shutdown" # "openAcceptor"
      BY DEF ServerTasks
    <3> QED
      BY <1>1, <1>2, <3>1, TaskAdded
  <2> QED
    BY ZenonT(30), <1>1, <1>2, <1>3, <2>1, TaskTaken
<1>5. /\ gameState' \in {gameState, "shutdown"}
      /\ dispatcher' \in {dispatcher, "closing", "terminated"}
      /\ scheduler' \in {scheduler, "closing"}
      /\ database' \in {database, "closing"}
  BY DEF RunLogin, RunSigterm, RunEnd, threads
<1>6. ServerFits'
  <2>1. /\ dispatcher' \in ThreadStates /\ scheduler' \in ThreadStates
        /\ database' \in ThreadStates
        /\ gameState' \in {"startup", "init", "normal", "shutdown"}
    BY <1>5 DEF ServerFits, ThreadStates
  <2> QED
    BY <1>1, <1>4, <2>1 DEF ServerFits
<1>7. ReopeningInv' /\ ServedPortInv' /\ LoaderInv'
  BY <1>1, <1>2, <1>4, <1>5, OtherTask DEF Preparing
<1> QED
  BY <1>6, <1>7

\* shutdown stops both threads, after which nothing opens the port.
LEMMA RunShutdownKeeps ==
    ASSUME ServerInv, ServerAssumption, RunShutdown
    PROVE  ServerInv'
<1> USE DEF ServerInv
<1>1. /\ UNCHANGED <<main, loader, handover, gameState, dispatcher,
                     connections, errors>>
      /\ queue # <<>> /\ Head(queue) = "shutdown"
      /\ queue' = Append(Tail(queue), "end")
      /\ scheduler' = "terminated" /\ database' = "terminated"
      /\ reopenings' = 0
      /\ io' = [io EXCEPT !.onStopServer = TRUE, !.deathTimer = TRUE]
      /\ port' = [port EXCEPT !.registered = FALSE]
  BY DEF RunShutdown, RunsTask, StopServices
<1>2. /\ queue \in Seq(ServerTasks) /\ OnceQueued(queue)
      /\ ~Preparing /\ loader # "listening"
      /\ port \in PortRecords /\ io \in IoRecords
  BY <1>1 DEF ServerFits, ReopeningInv, LoaderInv
<1>3. /\ queue' \in Seq(ServerTasks) /\ OnceQueued(queue')
      /\ NoneQueued(queue) => NoneQueued(queue')
  <2>1. /\ Tail(queue) \in Seq(ServerTasks) /\ OnceQueued(Tail(queue))
        /\ NoneQueued(queue) => NoneQueued(Tail(queue))
    BY <1>1, <1>2, TaskTaken
  <2>2. "end" \in ServerTasks /\ "end" # "openAcceptor"
    BY DEF ServerTasks
  <2> QED
    BY <1>1, <2>1, <2>2, TaskAdded
<1>4. /\ port' \in PortRecords /\ port'.pendingStart = port.pendingStart
      /\ port'.registered = FALSE
  BY <1>1, <1>2 DEF PortRecords
<1>5. io' \in IoRecords
  BY <1>1, <1>2 DEF IoRecords
<1>6. ServerFits'
  <2>1. /\ scheduler' \in ThreadStates /\ reopenings' \in 0 .. 1
        /\ database' \in ThreadStates
    BY <1>1 DEF ThreadStates
  <2> QED
    BY <1>1, <1>3, <1>4, <1>5, <2>1 DEF ServerFits
<1>7. ReopeningInv' /\ ServedPortInv' /\ LoaderInv'
  BY <1>1, <1>2, <1>3, <1>4
     DEF ReopeningInv, ServedPortInv, LoaderInv, Preparing
<1> QED
  BY <1>6, <1>7

\* Every step keeps the invariant of the server ...
LEMMA ServerInvKept ==
    ASSUME ServerInv, ServerAssumption, [ServerNext]_ServerVars
    PROVE  ServerInv'
BY QuietSteps, LoaderEnds, TaskQueued, AddServicesKeeps, AcceptFailsKeeps,
   HandlersKeep, ReopeningDueKeeps, OpenAcceptorKeeps, OtherTasksKeep,
   RunShutdownKeeps
   DEF ServerNext, RunMain, Load, Handle, RunTaskOfServer

\* ... and a thread is started, parked or ended, ...
LEMMA ThreadsFitKept ==
    ASSUME ThreadsFit, [ServerNext]_ServerVars PROVE ThreadsFit'
<1>1. CASE StartDatabase
  BY <1>1 DEF ThreadsFit, StartDatabase
<1>2. CASE ThreadGoesOn \/ DatabaseWakesSpuriously
  BY <1>2 DEF ThreadsFit, ThreadGoesOn, DatabaseThreadEnds,
              DatabaseThreadParks, SchedulerThreadEnds,
              DatabaseWakesSpuriously
<1>3. CASE RunMain \/ WakeSpuriously
  <2>1. UNCHANGED <<schedulerThread, databaseThread>>
    BY <1>3 DEF RunMain, WaitForLoader, Serve, GiveUp, ServiceEnds,
                JoinThreads, JoinDispatcher, WakeSpuriously, threads,
                liveThreads
  <2> QED
    BY <2>1 DEF ThreadsFit
<1>4. CASE LoadConfig \/ LoadFails \/ AddServices \/ FinishLoading
  <2>1. UNCHANGED <<schedulerThread, databaseThread>>
    BY <1>4 DEF LoadConfig, LoadFails, AddServices, FinishLoading, threads,
                liveThreads
  <2> QED
    BY <2>1 DEF ThreadsFit
<1>5. CASE \/ Signal \/ AcceptConnection \/ AcceptFails
           \/ ConnectionDestroyed \/ LoginRequested \/ Handle
           \/ ReopeningDue
  <2>1. UNCHANGED <<schedulerThread, databaseThread>>
    BY <1>5 DEF Signal, AcceptConnection, AcceptFails, ConnectionDestroyed,
                LoginRequested, Handle, AcceptAborted, OnStopServer,
                ServiceDies, ReopeningDue, threads, liveThreads
  <2> QED
    BY <2>1 DEF ThreadsFit
<1>6. CASE RunTaskOfServer
  <2>1. UNCHANGED <<schedulerThread, databaseThread>>
    BY <1>6 DEF RunTaskOfServer, RunSigterm, RunLogin, RunOpenAcceptor,
                RunShutdown, RunEnd, threads, liveThreads
  <2> QED
    BY <2>1 DEF ThreadsFit
<1>7. CASE UNCHANGED ServerVars
  BY <1>7 DEF ServerVars, ThreadsFit
<1> QED
  BY <1>1, <1>2, <1>3, <1>4, <1>5, <1>6, <1>7 DEF ServerNext, Load

\* ... which says that a port of a running server accepts or has exactly one
\* attempt to come.
LEMMA ServerInvIsEnough == ServerInv /\ ThreadsFit => ServerSound
<1> SUFFICES ASSUME ServerInv, ThreadsFit
             PROVE  PortAcceptsOrWaits
  BY DEF ServerInv, ServerSound, ServerFits, ThreadsFit, ServerTypeOK
<1> SUFFICES ASSUME port.registered, scheduler = "running",
                    dispatcher = "running"
             PROVE  /\ reopenings
                        + Cardinality({i \in DOMAIN queue :
                                            queue[i] = "openAcceptor"})
                        = IF port.pendingStart THEN 1 ELSE 0
                    /\ ~port.pendingStart =>
                            port.acceptor = "open" /\ port.accepting
  BY DEF PortAcceptsOrWaits
<1> DEFINE attempts == {i \in DOMAIN queue : queue[i] = "openAcceptor"}
<1>1. NoneQueued(queue) => Cardinality(attempts) = 0
  <2>1. NoneQueued(queue) => attempts = {}
    BY DEF NoneQueued
  <2> QED
    BY <2>1, FS_EmptySet
<1>2. ~NoneQueued(queue) => Cardinality(attempts) = 1
  <2> SUFFICES ASSUME NEW j \in DOMAIN queue, queue[j] = "openAcceptor"
               PROVE  Cardinality(attempts) = 1
    BY DEF NoneQueued
  <2>1. attempts = {j}
    BY DEF ServerInv, ReopeningInv, OnceQueued
  <2> QED
    BY <2>1, FS_Singleton
<1>3. reopenings \in 0 .. 1
  BY DEF ServerInv, ServerFits
<1> QED
  BY <1>1, <1>2, <1>3 DEF ServerInv, ReopeningInv, ServedPortInv

-----------------------------------------------------------------------------
(* The thread of queries (DatabaseTasks).                                  *)

\* What the shutdown has reached decides what is left in the list.
ShutInv ==
    /\ shut = "no" <=> threadState # "terminated"
    /\ shut \in {"notify", "done"} => queries = <<>>

Busy(r) == IF running[r] = NoQuery THEN 0 ELSE 1

Taken == {running[r] : r \in Runners} \ {NoQuery}

\* What was accepted was executed, is being run or waits in the list.
CountInv ==
    Len(accepted) =
        Len(executed) + Len(queries) + Busy("thread") + Busy("flush")

MembersInv == Members(accepted) = Members(executed) \cup Members(queries)
                                    \cup Taken

QueueInv ==
    /\ DatabaseTypeOK /\ ShutInv /\ CountInv /\ MembersInv
    /\ ServedInOrder /\ NoLostWakeup

\* What a query added to a list, and one taken from it, do to its members.
LEMMA MembersOfAppend ==
    ASSUME NEW S, NEW seq \in Seq(S), NEW x \in S
    PROVE  Members(Append(seq, x)) = Members(seq) \cup {x}
<1>1. Len(seq) \in Nat /\ DOMAIN seq = 1 .. Len(seq)
  BY LenProperties
<1>2. DOMAIN Append(seq, x) = 1 .. Len(seq) + 1
  BY AppendProperties, LenProperties
<1>3. \A i \in 1 .. Len(seq) : Append(seq, x)[i] = seq[i]
  BY AppendProperties
<1>4. Append(seq, x)[Len(seq) + 1] = x
  BY AppendProperties
<1> QED
  BY <1>1, <1>2, <1>3, <1>4 DEF Members

LEMMA MembersOfTail ==
    ASSUME NEW S, NEW seq \in Seq(S), seq # <<>>
    PROVE  Members(seq) = Members(Tail(seq)) \cup {Head(seq)}
<1>1. /\ Len(seq) \in Nat \ {0} /\ DOMAIN seq = 1 .. Len(seq)
      /\ Head(seq) = seq[1]
  BY LenProperties, EmptySeq
<1>2. /\ DOMAIN Tail(seq) = 1 .. Len(seq) - 1
      /\ \A i \in 1 .. Len(seq) - 1 : Tail(seq)[i] = seq[i + 1]
  BY <1>1, HeadTailProperties, LenProperties
<1>3. ASSUME NEW i \in 1 .. Len(seq), i # 1
      PROVE  seq[i] \in Members(Tail(seq))
  <2>1. i - 1 \in 1 .. Len(seq) - 1 /\ Tail(seq)[i - 1] = seq[i]
    BY <1>1, <1>2, <1>3
  <2> QED
    BY <1>2, <2>1 DEF Members
<1>4. Members(seq) \subseteq Members(Tail(seq)) \cup {Head(seq)}
  BY <1>1, <1>3 DEF Members
<1>5. Members(Tail(seq)) \subseteq Members(seq)
  <2>1. \A i \in 1 .. Len(seq) - 1 : i + 1 \in 1 .. Len(seq)
    BY <1>1
  <2> QED
    BY <1>1, <1>2, <2>1 DEF Members
<1>6. Head(seq) \in Members(seq)
  <2>1. 1 \in DOMAIN seq
    BY <1>1
  <2> QED
    BY <1>1, <2>1 DEF Members
<1> QED
  BY <1>4, <1>5, <1>6

\* A list that is not empty is its first query and the rest.
LEMMA HeadAndTail ==
    ASSUME NEW S, NEW seq \in Seq(S), seq # <<>>
    PROVE  /\ Head(seq) \in S /\ Tail(seq) \in Seq(S)
           /\ Len(seq) \in Nat \ {0} /\ Len(Tail(seq)) = Len(seq) - 1
           /\ seq = <<Head(seq)>> \o Tail(seq)
<1>1. /\ Head(seq) \in S /\ Tail(seq) \in Seq(S)
      /\ Len(Tail(seq)) = Len(seq) - 1
      /\ \A i \in 1 .. Len(Tail(seq)) : Tail(seq)[i] = seq[i + 1]
      /\ Len(seq) \in Nat \ {0} /\ Head(seq) = seq[1]
  BY HeadTailProperties, EmptySeq
<1>2. <<Head(seq)>> \in Seq(S) /\ Len(<<Head(seq)>>) = 1
  BY <1>1
<1>3. /\ <<Head(seq)>> \o Tail(seq) \in Seq(S)
      /\ Len(<<Head(seq)>> \o Tail(seq)) = Len(seq)
      /\ \A i \in 1 .. Len(seq) : (<<Head(seq)>> \o Tail(seq))[i] =
            IF i <= 1 THEN <<Head(seq)>>[i] ELSE Tail(seq)[i - 1]
  BY <1>1, <1>2, ConcatProperties
<1>4. \A i \in 1 .. Len(seq) : (<<Head(seq)>> \o Tail(seq))[i] = seq[i]
  BY <1>1, <1>3
<1> QED
  BY <1>1, <1>3, <1>4, SeqEqual

\* Who takes a query out of the list has it at hand: none is lost.
LEMMA TakeKeeps ==
    ASSUME DatabaseTypeOK, CountInv, MembersInv, QueriesAssumption,
           NEW r \in Runners, running[r] = NoQuery, queries # <<>>, Take(r),
           UNCHANGED <<accepted, executed>>
    PROVE  /\ queries' \in Seq(Queries)
           /\ running' \in [Runners -> Queries \cup {NoQuery}]
           /\ running'[r] = Head(queries) /\ running'[r] # NoQuery
           /\ \A o \in Runners \ {r} : running'[o] = running[o]
           /\ CountInv' /\ MembersInv'
<1>1. /\ Head(queries) \in Queries /\ Tail(queries) \in Seq(Queries)
      /\ Len(queries) \in Nat \ {0} /\ Len(Tail(queries)) = Len(queries) - 1
  BY HeadAndTail DEF DatabaseTypeOK
<1>2. /\ running' = [running EXCEPT ![r] = Head(queries)]
      /\ queries' = Tail(queries)
      /\ running' \in [Runners -> Queries \cup {NoQuery}]
      /\ running'[r] = Head(queries) /\ running'[r] # NoQuery
      /\ \A o \in Runners \ {r} : running'[o] = running[o]
  BY <1>1, QueriesAssumption DEF Take, DatabaseTypeOK
<1>3. CountInv'
  <2>1. /\ Len(queries') = Len(queries) - 1
        /\ Len(accepted) \in Nat /\ Len(executed) \in Nat
    BY <1>1, <1>2, LenProperties DEF DatabaseTypeOK
  <2>2. /\ r \in {"thread", "flush"}
        /\ "thread" \in Runners /\ "flush" \in Runners
    BY DEF Runners
  <2>3. CASE r = "thread"
    <3>1. Busy("thread") = 0 /\ Busy("thread")' = 1
          /\ Busy("flush")' = Busy("flush") /\ Busy("flush") \in {0, 1}
      BY <1>2, <2>2, <2>3 DEF Busy
    <3> QED
      BY <1>1, <2>1, <3>1 DEF CountInv
  <2>4. CASE r = "flush"
    <3>1. Busy("flush") = 0 /\ Busy("flush")' = 1
          /\ Busy("thread")' = Busy("thread") /\ Busy("thread") \in {0, 1}
      BY <1>2, <2>2, <2>4 DEF Busy
    <3> QED
      BY <1>1, <2>1, <3>1 DEF CountInv
  <2> QED
    BY <2>2, <2>3, <2>4
<1>4. MembersInv'
  <2>1. Members(queries) = Members(queries') \cup {Head(queries)}
    BY <1>2, MembersOfTail DEF DatabaseTypeOK
  <2>2. Taken' = Taken \cup {Head(queries)}
    BY <1>1, <1>2 DEF Taken, DatabaseTypeOK
  <2>3. Members(accepted)' = Members(accepted)
        /\ Members(executed)' = Members(executed)
        /\ Members(queries)' = Members(queries')
    BY DEF Members
  <2> QED
    BY <2>1, <2>2, <2>3 DEF MembersInv
<1> QED
  BY <1>1, <1>2, <1>3, <1>4

\* Who runs the query it has at hand adds it to those executed.
LEMMA RunKeeps ==
    ASSUME DatabaseTypeOK, CountInv, MembersInv, QueriesAssumption,
           NEW r \in Runners, RunQuery(r)
    PROVE  /\ executed' \in Seq(Queries) /\ handed' \in Seq(Callbacks)
           /\ running' \in [Runners -> Queries \cup {NoQuery}]
           /\ running[r] \in Queries /\ running'[r] = NoQuery
           /\ executed' = Append(executed, running[r])
           /\ \A o \in Runners \ {r} : running'[o] = running[o]
           /\ CountInv' /\ MembersInv'
<1>1. /\ running[r] \in Queries
      /\ executed' = Append(executed, running[r])
      /\ running' = [running EXCEPT ![r] = NoQuery]
      /\ UNCHANGED <<threadState, queries, signaled, notifying, accepted>>
  BY DEF RunQuery, DatabaseTypeOK
<1>2. handed' \in Seq(Callbacks)
  BY AppendProperties DEF RunQuery, DatabaseTypeOK
<1>3. /\ executed' \in Seq(Queries) /\ Len(executed') = Len(executed) + 1
  BY <1>1, AppendProperties DEF DatabaseTypeOK
<1>4. /\ running' \in [Runners -> Queries \cup {NoQuery}]
      /\ running'[r] = NoQuery
      /\ \A o \in Runners \ {r} : running'[o] = running[o]
  BY <1>1 DEF DatabaseTypeOK
<1>5. CountInv'
  <2>1. /\ Len(queries) \in Nat
        /\ Len(accepted) \in Nat /\ Len(executed) \in Nat
    BY LenProperties DEF DatabaseTypeOK
  <2>2. /\ r \in {"thread", "flush"} /\ running[r] # NoQuery
        /\ "thread" \in Runners /\ "flush" \in Runners
    BY <1>1, QueriesAssumption DEF Runners
  <2>3. CASE r = "thread"
    <3>1. Busy("thread") = 1 /\ Busy("thread")' = 0
          /\ Busy("flush")' = Busy("flush") /\ Busy("flush") \in {0, 1}
      BY <1>4, <2>2, <2>3 DEF Busy
    <3> QED
      BY <1>1, <1>3, <2>1, <3>1 DEF CountInv
  <2>4. CASE r = "flush"
    <3>1. Busy("flush") = 1 /\ Busy("flush")' = 0
          /\ Busy("thread")' = Busy("thread") /\ Busy("thread") \in {0, 1}
      BY <1>4, <2>2, <2>4 DEF Busy
    <3> QED
      BY <1>1, <1>3, <2>1, <3>1 DEF CountInv
  <2> QED
    BY <2>2, <2>3, <2>4
<1>6. MembersInv'
  <2>1. Members(executed)' = Members(executed) \cup {running[r]}
    BY <1>1, MembersOfAppend DEF DatabaseTypeOK
  <2>2. Taken \subseteq Taken' \cup {running[r]}
    BY <1>4 DEF Taken
  <2>3. /\ Taken' \subseteq Taken /\ running[r] \in Taken
    BY <1>1, <1>4, QueriesAssumption DEF Taken
  <2>4. Members(accepted)' = Members(accepted)
        /\ Members(queries)' = Members(queries)
    BY <1>1 DEF Members
  <2> QED
    BY <2>1, <2>2, <2>3, <2>4 DEF MembersInv
<1> QED
  BY <1>1, <1>2, <1>3, <1>4, <1>5, <1>6

\* At the start nothing was accepted and nothing waits.
LEMMA QueueBegins == DatabaseInit => QueueInv
<1> SUFFICES ASSUME DatabaseInit PROVE QueueInv
  OBVIOUS
<1>1. "thread" \in Runners /\ "flush" \in Runners
  BY DEF Runners
<1>2. /\ running["thread"] = NoQuery /\ running["flush"] = NoQuery
      /\ running \in [Runners -> Queries \cup {NoQuery}]
  BY <1>1 DEF DatabaseInit
<1>3. DatabaseTypeOK
  <2>1. <<>> \in Seq(Queries) /\ <<>> \in Seq(Callbacks)
    BY EmptySeq
  <2> QED
    BY <1>2, <2>1 DEF DatabaseInit, DatabaseTypeOK
<1>4. ShutInv /\ NoLostWakeup
  BY DEF DatabaseInit, ShutInv, NoLostWakeup
<1>5. CountInv
  BY <1>2 DEF DatabaseInit, CountInv, Busy
<1>6. MembersInv
  BY DEF DatabaseInit, MembersInv, Members, Taken
<1>7. ServedInOrder
  <2>1. (<<>> \o <<>>) \o <<>> = <<>>
    BY ConcatEmptySeq, EmptySeq
  <2> QED
    BY <2>1 DEF DatabaseInit, ServedInOrder
<1> QED
  BY <1>3, <1>4, <1>5, <1>6, <1>7 DEF QueueInv

\* What waits in the list, and what the thread is at.
AtHand == IF pc = "query" THEN <<running["thread"]>> ELSE <<>>

\* addTask: the query waits, or the thread was told to end and none is.
LEMMA AddTaskKeeps ==
    ASSUME QueueInv, QueriesAssumption,
           NEW s \in Submitters, NEW q \in Queries, AddTask(s, q)
    PROVE  QueueInv'
<1> USE DEF QueueInv
<1>1. /\ queries' = Append(queries, q) /\ accepted' = Append(accepted, q)
      /\ queries' \in Seq(Queries) /\ accepted' \in Seq(Queries)
      /\ queries' # <<>>
      /\ Len(queries') = Len(queries) + 1
      /\ Len(accepted') = Len(accepted) + 1
  BY AppendProperties DEF AddTask, DatabaseTypeOK
<1>2. /\ UNCHANGED <<threadState, pc, signaled, shut, running, outcomes>>
      /\ threadState = "running"
      /\ notifying' = IF queries = <<>> THEN notifying \cup {s}
                                        ELSE notifying
  BY DEF AddTask
<1>3. DatabaseTypeOK'
  BY <1>1, <1>2 DEF DatabaseTypeOK, outcomes
<1>4. ShutInv'
  BY <1>2 DEF ShutInv
<1>5. CountInv'
  <2>1. Len(queries) \in Nat /\ Len(executed) \in Nat
        /\ Len(accepted) \in Nat
    BY LenProperties DEF DatabaseTypeOK
  <2>2. \A r \in Runners : Busy(r) \in {0, 1} /\ Busy(r)' = Busy(r)
    BY <1>2 DEF Busy
  <2> QED
    BY <1>1, <1>2, <2>1, <2>2 DEF CountInv, Runners, outcomes
<1>6. MembersInv'
  <2>1. Members(accepted)' = Members(accepted) \cup {q}
        /\ Members(queries)' = Members(queries) \cup {q}
    BY <1>1, MembersOfAppend DEF DatabaseTypeOK
  <2>2. Members(executed)' = Members(executed) /\ Taken' = Taken
    BY <1>2 DEF Members, Taken, outcomes
  <2> QED
    BY <2>1, <2>2 DEF MembersInv
<1>7. ServedInOrder'
  <2>1. AtHand \in Seq(Queries) /\ AtHand' = AtHand
    BY <1>2 DEF AtHand, DatabaseTypeOK, Runners
  <2>2. accepted = (executed \o AtHand) \o queries
    BY <1>2 DEF ServedInOrder, AtHand
  <2>3. executed \o AtHand \in Seq(Queries) /\ <<q>> \in Seq(Queries)
    BY <2>1, ConcatProperties DEF DatabaseTypeOK
  <2>4. ((executed \o AtHand) \o queries) \o <<q>>
            = (executed \o AtHand) \o (queries \o <<q>>)
    <3>1. queries \in Seq(Queries)
      BY DEF DatabaseTypeOK
    <3> HIDE DEF QueueInv
    <3> QED
      BY SMTT(20), <2>3, <3>1, ConcatAssociative
  <2>5. accepted' = accepted \o <<q>> /\ queries' = queries \o <<q>>
    BY <1>1, AppendIsConcat DEF DatabaseTypeOK
  <2> QED
    BY <1>2, <2>1, <2>2, <2>4, <2>5 DEF ServedInOrder, AtHand, outcomes
<1>8. NoLostWakeup'
  BY <1>2 DEF NoLostWakeup
<1> QED
  BY <1>3, <1>4, <1>5, <1>6, <1>7, <1>8

\* A step that leaves the queries where they are keeps what relates them.
LEMMA NothingMoves ==
    ASSUME QueueInv,
           UNCHANGED <<queries, running, accepted, executed, handed>>,
           threadState' # "terminated" => threadState # "terminated",
           pc' = "query" <=> pc = "query"
    PROVE  CountInv' /\ MembersInv' /\ ServedInOrder'
<1> USE DEF QueueInv
<1>1. CountInv'
  BY DEF CountInv, Busy
<1>2. MembersInv'
  BY DEF MembersInv, Members, Taken
<1>3. ServedInOrder'
  BY DEF ServedInOrder
<1> QED
  BY <1>1, <1>2, <1>3

\* The thread takes the first query, out of the lock or out of the wait.
LEMMA ThreadTakes ==
    ASSUME QueueInv, QueriesAssumption, pc \in {"lock", "wait"}, TakeIfAny,
           signaled' = FALSE
    PROVE  QueueInv'
<1> USE DEF QueueInv
<1>1. UNCHANGED <<threadState, notifying, shut, accepted, executed, handed>>
  BY DEF TakeIfAny, outcomes
<1>2. running["thread"] = NoQuery /\ "thread" \in Runners
  BY DEF DatabaseTypeOK, Runners
<1>3. CASE queries # <<>>
  <2>1. Take("thread") /\ pc' = "query"
    BY <1>3 DEF TakeIfAny
  <2>2. /\ queries' \in Seq(Queries)
        /\ running' \in [Runners -> Queries \cup {NoQuery}]
        /\ running'["thread"] = Head(queries) /\ running'["thread"] # NoQuery
        /\ \A o \in Runners \ {"thread"} : running'[o] = running[o]
        /\ CountInv' /\ MembersInv'
    BY <1>1, <1>2, <1>3, <2>1, TakeKeeps
  <2>3. running'["flush"] = running["flush"]
    BY <2>2 DEF Runners
  <2>4. DatabaseTypeOK'
    BY <1>1, <2>1, <2>2, <2>3 DEF DatabaseTypeOK
  <2>5. ShutInv'
    BY <1>1, <1>3 DEF ShutInv
  <2>6. NoLostWakeup'
    BY <2>1 DEF NoLostWakeup
  <2>7. ServedInOrder'
    <3> SUFFICES ASSUME threadState # "terminated"
                 PROVE  accepted = (executed \o <<Head(queries)>>) \o queries'
      BY <1>1, <2>1, <2>2 DEF ServedInOrder
    <3>1. accepted = (executed \o <<>>) \o queries
      BY DEF ServedInOrder
    <3>2. executed \o <<>> = executed
      BY ConcatEmptySeq DEF DatabaseTypeOK
    <3>3. /\ queries = <<Head(queries)>> \o Tail(queries)
          /\ Tail(queries) \in Seq(Queries) /\ Head(queries) \in Queries
      BY <1>3, HeadAndTail DEF DatabaseTypeOK
    <3>4. executed \o (<<Head(queries)>> \o Tail(queries))
            = (executed \o <<Head(queries)>>) \o Tail(queries)
      BY SMTT(20), <3>3, ConcatAssociative DEF DatabaseTypeOK
    <3>5. queries' = Tail(queries)
      BY <2>1 DEF Take
    <3> QED
      BY <3>1, <3>2, <3>3, <3>4, <3>5
  <2> QED
    BY <2>2, <2>4, <2>5, <2>6, <2>7
<1>4. CASE queries = <<>>
  <2>1. pc' = "test" /\ UNCHANGED <<queries, running>>
    BY <1>4 DEF TakeIfAny
  <2>2. DatabaseTypeOK' /\ ShutInv' /\ NoLostWakeup'
    BY <1>1, <2>1 DEF DatabaseTypeOK, ShutInv, NoLostWakeup
  <2>3. CountInv' /\ MembersInv' /\ ServedInOrder'
    BY <1>1, <2>1, NothingMoves
  <2> QED
    BY <2>2, <2>3
<1> QED
  BY <1>3, <1>4

\* ... runs it, and looks for the next or ends, ...
LEMMA ThreadRunsKeeps ==
    ASSUME QueueInv, QueriesAssumption, ThreadRuns
    PROVE  QueueInv'
<1> USE DEF QueueInv
<1>1. /\ pc = "query" /\ pc' = "test" /\ RunQuery("thread")
      /\ UNCHANGED <<shut, threadState, queries, signaled, notifying,
                     accepted>>
  BY DEF ThreadRuns, RunQuery
<1>2. /\ executed' \in Seq(Queries) /\ handed' \in Seq(Callbacks)
      /\ running' \in [Runners -> Queries \cup {NoQuery}]
      /\ running["thread"] \in Queries /\ running'["thread"] = NoQuery
      /\ executed' = Append(executed, running["thread"])
      /\ \A o \in Runners \ {"thread"} : running'[o] = running[o]
      /\ CountInv' /\ MembersInv'
  <2>1. "thread" \in Runners
    BY DEF Runners
  <2> QED
    BY <1>1, <2>1, RunKeeps
<1>3. running'["flush"] = running["flush"]
  BY <1>2 DEF Runners
<1>4. DatabaseTypeOK'
  BY <1>1, <1>2, <1>3 DEF DatabaseTypeOK
<1>5. ShutInv' /\ NoLostWakeup'
  BY <1>1 DEF ShutInv, NoLostWakeup
<1>6. ServedInOrder'
  <2>1. executed' = executed \o <<running["thread"]>>
    BY <1>2, AppendIsConcat DEF DatabaseTypeOK
  <2>2. executed' \o <<>> = executed'
    BY <1>2, ConcatEmptySeq
  <2> QED
    BY <1>1, <2>1, <2>2 DEF ServedInOrder
<1> QED
  BY <1>2, <1>4, <1>5, <1>6

\* ... and flush does the same for whoever shuts the thread down.
LEMMA FlushKeeps ==
    ASSUME QueueInv, QueriesAssumption, FlushTakes \/ FlushRuns
    PROVE  QueueInv'
<1> USE DEF QueueInv
<1>1. "flush" \in Runners /\ "thread" \in Runners
  BY DEF Runners
<1>2. CASE FlushTakes
  <2>1. /\ shut = "flush" /\ running["flush"] = NoQuery /\ queries # <<>>
        /\ Take("flush")
        /\ UNCHANGED <<threadState, pc, signaled, notifying, shut, accepted,
                       executed, handed>>
    BY <1>2 DEF FlushTakes, outcomes
  <2>2. /\ queries' \in Seq(Queries)
        /\ running' \in [Runners -> Queries \cup {NoQuery}]
        /\ running'["thread"] = running["thread"]
        /\ CountInv' /\ MembersInv'
    BY <1>1, <2>1, TakeKeeps
  <2>3. DatabaseTypeOK'
    BY <2>1, <2>2 DEF DatabaseTypeOK
  <2> QED
    BY <2>1, <2>2, <2>3 DEF ShutInv, ServedInOrder, NoLostWakeup
<1>3. CASE FlushRuns
  <2>1. /\ RunQuery("flush") /\ running["flush"] # NoQuery
        /\ UNCHANGED <<threadState, queries, pc, signaled, notifying, shut,
                       accepted>>
    BY <1>3 DEF FlushRuns, RunQuery
  <2>2. /\ executed' \in Seq(Queries) /\ handed' \in Seq(Callbacks)
        /\ running' \in [Runners -> Queries \cup {NoQuery}]
        /\ running'["thread"] = running["thread"]
        /\ running'["flush"] = NoQuery
        /\ CountInv' /\ MembersInv'
    BY <1>1, <2>1, RunKeeps
  <2>3. shut = "flush"
    BY <2>1 DEF DatabaseTypeOK
  <2>4. DatabaseTypeOK'
    BY <2>1, <2>2 DEF DatabaseTypeOK
  <2> QED
    BY <2>1, <2>2, <2>3, <2>4 DEF ShutInv, ServedInOrder, NoLostWakeup
<1> QED
  BY <1>2, <1>3


\* Every step keeps the invariant of the queue ...
LEMMA QueueInvKept ==
    ASSUME QueueInv, QueriesAssumption, [DatabaseNext]_DatabaseVars
    PROVE  QueueInv'
<1> USE DEF QueueInv
<1>1. ASSUME NEW s \in Submitters, NotifyThread(s)
      PROVE  QueueInv'
  <2>1. /\ s \in notifying /\ notifying' = notifying \ {s}
        /\ signaled' = (signaled \/ pc = "wait")
        /\ UNCHANGED <<threadState, queries, pc, shut, running, accepted,
                       executed, handed>>
    BY <1>1 DEF NotifyThread, NotifyOne, outcomes
  <2>2. DatabaseTypeOK'
    BY <2>1 DEF DatabaseTypeOK
  <2>3. CountInv' /\ MembersInv' /\ ServedInOrder'
    BY <2>1, NothingMoves
  <2>4. ShutInv' /\ NoLostWakeup'
    BY <2>1 DEF ShutInv, NoLostWakeup
  <2> QED
    BY <2>2, <2>3, <2>4
<1>2. CASE TestState
  <2>1. /\ pc = "test" /\ pc' \in {"lock", "done"}
        /\ UNCHANGED <<threadState, queries, signaled, notifying, shut,
                       running, accepted, executed, handed>>
    BY <1>2 DEF TestState, outcomes
  <2>2. DatabaseTypeOK' /\ ShutInv' /\ NoLostWakeup'
    BY <2>1 DEF DatabaseTypeOK, ShutInv, NoLostWakeup
  <2>3. CountInv' /\ MembersInv' /\ ServedInOrder'
    BY <2>1, NothingMoves
  <2> QED
    BY <2>2, <2>3
<1>3. CASE LockAndWait
  <2>1. /\ pc = "lock" /\ pc' = "wait" /\ queries = <<>>
        /\ UNCHANGED <<threadState, queries, signaled, notifying, shut,
                       running, accepted, executed, handed>>
    BY <1>3 DEF LockAndWait, outcomes
  <2>2. DatabaseTypeOK' /\ ShutInv' /\ NoLostWakeup'
    BY <2>1 DEF DatabaseTypeOK, ShutInv, NoLostWakeup
  <2>3. CountInv' /\ MembersInv' /\ ServedInOrder'
    BY <2>1, NothingMoves
  <2> QED
    BY <2>2, <2>3
<1>4. CASE LockAndTake \/ Wake \/ SpuriousWake
  <2>1. pc \in {"lock", "wait"} /\ TakeIfAny
    BY <1>4 DEF LockAndTake, Wake, SpuriousWake
  <2>2. signaled \in BOOLEAN /\ (signaled => pc = "wait")
    BY DEF DatabaseTypeOK
  <2>3. signaled' = FALSE \/ (signaled' = signaled /\ ~signaled)
    <3>1. CASE LockAndTake
      BY <2>2, <3>1, Zenon DEF LockAndTake
    <3>2. CASE Wake
      BY <3>2 DEF Wake
    <3>3. CASE SpuriousWake
      BY <3>3 DEF SpuriousWake
    <3> QED
      BY <1>4, <3>1, <3>2, <3>3
  <2>4. signaled' = FALSE
    BY <2>2, <2>3
  <2> QED
    BY <2>1, <2>4, ThreadTakes
<1>5. CASE Stop
  <2>1. /\ threadState = "running" /\ threadState' = "closing"
        /\ UNCHANGED <<queries, pc, signaled, notifying, shut, running,
                       accepted, executed, handed>>
    BY <1>5 DEF Stop, outcomes
  <2>2. DatabaseTypeOK' /\ ShutInv' /\ NoLostWakeup'
    BY <2>1 DEF DatabaseTypeOK, ShutInv, NoLostWakeup
  <2>3. CountInv' /\ MembersInv' /\ ServedInOrder'
    BY <2>1, NothingMoves
  <2> QED
    BY <2>2, <2>3
<1>6. CASE BeginShutdown
  <2>1. /\ threadState' = "terminated" /\ shut = "no" /\ shut' = "flush"
        /\ UNCHANGED <<queries, pc, signaled, notifying, running, accepted,
                       executed, handed>>
    BY <1>6 DEF BeginShutdown, outcomes
  <2>2. DatabaseTypeOK' /\ ShutInv' /\ NoLostWakeup'
    BY <2>1 DEF DatabaseTypeOK, ShutInv, NoLostWakeup
  <2>3. CountInv' /\ MembersInv' /\ ServedInOrder'
    BY <2>1, NothingMoves
  <2> QED
    BY <2>2, <2>3
<1>7. CASE FlushEnds
  <2>1. /\ shut = "flush" /\ queries = <<>> /\ running["flush"] = NoQuery
        /\ shut' = "notify"
        /\ UNCHANGED <<threadState, queries, pc, signaled, notifying, running,
                       accepted, executed, handed>>
    BY <1>7 DEF FlushEnds, outcomes
  <2>2. DatabaseTypeOK' /\ ShutInv' /\ NoLostWakeup'
    BY <2>1 DEF DatabaseTypeOK, ShutInv, NoLostWakeup
  <2>3. CountInv' /\ MembersInv' /\ ServedInOrder'
    BY <2>1, NothingMoves
  <2> QED
    BY <2>2, <2>3
<1>8. CASE ShutdownNotifies
  <2>1. /\ shut = "notify" /\ shut' = "done"
        /\ signaled' = (signaled \/ pc = "wait")
        /\ UNCHANGED <<threadState, queries, pc, notifying, running,
                       accepted, executed, handed>>
    BY <1>8 DEF ShutdownNotifies, NotifyOne, outcomes
  <2>2. DatabaseTypeOK' /\ ShutInv' /\ NoLostWakeup'
    BY <2>1 DEF DatabaseTypeOK, ShutInv, NoLostWakeup
  <2>3. CountInv' /\ MembersInv' /\ ServedInOrder'
    BY <2>1, NothingMoves
  <2> QED
    BY <2>2, <2>3
<1>9. CASE UNCHANGED DatabaseVars
  <2>1. UNCHANGED <<threadState, queries, pc, signaled, notifying, shut,
                    running, accepted, executed, handed>>
    BY <1>9 DEF DatabaseVars
  <2>2. DatabaseTypeOK' /\ ShutInv' /\ NoLostWakeup'
    BY <2>1 DEF DatabaseTypeOK, ShutInv, NoLostWakeup
  <2>3. CountInv' /\ MembersInv' /\ ServedInOrder'
    BY <2>1, NothingMoves
  <2> QED
    BY <2>2, <2>3
<1> QED
  BY <1>1, <1>2, <1>3, <1>4, <1>5, <1>6, <1>7, <1>8, <1>9, AddTaskKeeps,
     ThreadRunsKeeps, FlushKeeps
     DEF DatabaseNext, DatabaseThread, DatabaseShutdown

\* ... which says that none of the accepted queries is lost at the end.
LEMMA QueueInvIsEnough == QueueInv => QueueSound
<1> SUFFICES ASSUME QueueInv, shut = "done", pc # "query"
             PROVE  /\ Len(executed) = Len(accepted)
                    /\ Members(executed) = Members(accepted)
  BY DEF QueueInv, QueueSound, NoneLost
<1>1. /\ queries = <<>> /\ running["thread"] = NoQuery
      /\ running["flush"] = NoQuery
  BY DEF QueueInv, DatabaseTypeOK, ShutInv
<1>2. Len(queries) = 0 /\ Len(executed) \in Nat
  BY <1>1, LenProperties DEF QueueInv, DatabaseTypeOK
<1>3. Taken = {} /\ Members(queries) = {}
  BY <1>1 DEF Taken, Runners, Members
<1> QED
  BY <1>1, <1>2, <1>3 DEF QueueInv, CountInv, Busy, MembersInv

-----------------------------------------------------------------------------
(* The lists of items that decay (Decay).                                  *)

Owned(r) == IF r.kind \in {"lit", "out"} THEN 1 ELSE 0

\* The record of an item: its entries are counted, and it has one while it
\* decays; one only, if nobody touched it.
Sane(r) ==
    /\ r \in ItemRecords
    /\ Entries(r) <= MaxEntries
    /\ r.references = Entries(r) + r.toRelease + Owned(r)
    /\ r.kind = "none" => Entries(r) = 0 /\ r.toRelease = 0
    /\ r.kind = "lit" => r.decaying
    /\ r.kind \in {"lit", "out"} /\ r.decaying => Entries(r) > 0
    /\ ~r.touched => Entries(r) <= 1
    /\ ~r.touched /\ r.kind = "out" => r.duration = 0
    /\ r.touched /\ r.kind = "lit" => r.left >= 0

\* The numbers of the buckets and their time.
LEMMA Numbers ==
    /\ BucketIds = {0, 1, 2, 3}
    /\ Round = 8 /\ EVENT_DECAY_BUCKETS = 4 /\ EVENT_DECAYINTERVAL = 2
BY DEF BucketIds, Round, EVENT_DECAY_BUCKETS, EVENT_DECAYINTERVAL

\* The entries of an item are as many as its lists have.
LEMMA EntriesCounted ==
    ASSUME DecayAssumption, NEW r \in ItemRecords
    PROVE  /\ MaxEntries \in Nat /\ MaxEntries >= 1
           /\ Entries(r) \in Nat
           /\ r.toDecay \in Nat /\ r.toDecay <= Entries(r)
           /\ \A b \in BucketIds :
                /\ r.decayItems[b] \in Nat
                /\ r.toDecay + r.decayItems[b] <= Entries(r)
           /\ r.duration \in Nat /\ r.left \in Int /\ r.references \in Nat
           /\ r.toRelease \in Nat
<1>1. MaxEntries \in Nat /\ MaxEntries >= 1
  BY DEF DecayAssumption
<1>2. /\ r.toDecay \in 0 .. MaxEntries
      /\ r.decayItems \in [BucketIds -> 0 .. MaxEntries]
  BY DEF ItemRecords
<1>3. r.duration \in Nat /\ r.left \in Int /\ r.references \in Nat
      /\ r.toRelease \in Nat
  BY DEF ItemRecords
<1>4. /\ r.toDecay \in Nat
      /\ r.decayItems[0] \in Nat /\ r.decayItems[1] \in Nat
      /\ r.decayItems[2] \in Nat /\ r.decayItems[3] \in Nat
  BY <1>1, <1>2, Numbers
<1>5. /\ Entries(r) \in Nat
      /\ r.toDecay <= Entries(r)
      /\ r.toDecay + r.decayItems[0] <= Entries(r)
      /\ r.toDecay + r.decayItems[1] <= Entries(r)
      /\ r.toDecay + r.decayItems[2] <= Entries(r)
      /\ r.toDecay + r.decayItems[3] <= Entries(r)
  BY <1>4 DEF Entries
<1> QED
  BY <1>1, <1>3, <1>4, <1>5, Numbers

\* r and s have the same entries, ...
SameLists(r, s) == s.toDecay = r.toDecay /\ s.decayItems = r.decayItems

\* ... or s has one less in bucket b.
OneLess(r, s, b) ==
    /\ s.toDecay = r.toDecay
    /\ s.decayItems = [r.decayItems EXCEPT ![b] = @ - 1]

\* An entry less in bucket b.
LEMMA OneLessCounted ==
    ASSUME DecayAssumption, NEW r \in ItemRecords, NEW b \in BucketIds, NEW s,
           r.decayItems[b] >= 1, OneLess(r, s, b)
    PROVE  /\ Entries(s) = Entries(r) - 1
           /\ s.decayItems \in [BucketIds -> 0 .. MaxEntries]
           /\ s.decayItems[b] = r.decayItems[b] - 1
           /\ \A c \in BucketIds \ {b} : s.decayItems[c] = r.decayItems[c]
<1>1. /\ r.toDecay \in Nat /\ \A c \in BucketIds : r.decayItems[c] \in Nat
      /\ r.decayItems \in [BucketIds -> 0 .. MaxEntries]
      /\ MaxEntries \in Nat
  BY EntriesCounted DEF ItemRecords
<1>2. s.decayItems \in [BucketIds -> 0 .. MaxEntries]
  BY <1>1 DEF OneLess
<1>3. /\ s.decayItems[b] = r.decayItems[b] - 1
      /\ \A c \in BucketIds \ {b} : s.decayItems[c] = r.decayItems[c]
  BY <1>1 DEF OneLess
<1>4. Entries(s) = Entries(r) - 1
  <2>1. /\ r.decayItems[0] \in Nat /\ r.decayItems[1] \in Nat
        /\ r.decayItems[2] \in Nat /\ r.decayItems[3] \in Nat
    BY <1>1, Numbers
  <2>2. b \in {0, 1, 2, 3} /\ BucketIds = {0, 1, 2, 3}
    BY Numbers
  <2>3. s.toDecay = r.toDecay
    BY DEF OneLess
  <2>4. CASE b = 0
    <3>1. /\ s.decayItems[0] = r.decayItems[0] - 1
          /\ s.decayItems[1] = r.decayItems[1]
          /\ s.decayItems[2] = r.decayItems[2]
          /\ s.decayItems[3] = r.decayItems[3]
      BY <1>3, <2>2, <2>4
    <3> QED
      BY <1>1, <2>1, <2>3, <3>1 DEF Entries
  <2>5. CASE b = 1
    <3>1. /\ s.decayItems[0] = r.decayItems[0]
          /\ s.decayItems[1] = r.decayItems[1] - 1
          /\ s.decayItems[2] = r.decayItems[2]
          /\ s.decayItems[3] = r.decayItems[3]
      BY <1>3, <2>2, <2>5
    <3> QED
      BY <1>1, <2>1, <2>3, <3>1 DEF Entries
  <2>6. CASE b = 2
    <3>1. /\ s.decayItems[0] = r.decayItems[0]
          /\ s.decayItems[1] = r.decayItems[1]
          /\ s.decayItems[2] = r.decayItems[2] - 1
          /\ s.decayItems[3] = r.decayItems[3]
      BY <1>3, <2>2, <2>6
    <3> QED
      BY <1>1, <2>1, <2>3, <3>1 DEF Entries
  <2>7. CASE b = 3
    <3>1. /\ s.decayItems[0] = r.decayItems[0]
          /\ s.decayItems[1] = r.decayItems[1]
          /\ s.decayItems[2] = r.decayItems[2]
          /\ s.decayItems[3] = r.decayItems[3] - 1
      BY <1>3, <2>2, <2>7
    <3> QED
      BY <1>1, <2>1, <2>3, <3>1 DEF Entries
  <2> QED
    BY <2>2, <2>4, <2>5, <2>6, <2>7
<1> QED
  BY <1>2, <1>3, <1>4

\* What an operation leaves alone, ...
SameNature(r, s) ==
    s.stages = r.stages /\ s.burnsDown = r.burnsDown /\ s.stopTime = r.stopTime

SameTime(r, s) ==
    s.duration = r.duration /\ s.left = r.left /\ s.touched = r.touched

\* ... and what the outcome of each is.
LEMMA PushedRecord ==
    ASSUME DecayAssumption, NEW r \in ItemRecords, r.toDecay < MaxEntries
    PROVE  /\ Push(r) \in ItemRecords
           /\ Push(r).kind = r.kind /\ SameNature(r, Push(r))
           /\ SameTime(r, Push(r)) /\ Push(r).decaying = TRUE
           /\ Push(r).toDecay = r.toDecay + 1
           /\ Push(r).decayItems = r.decayItems
           /\ Push(r).references = r.references + 1
           /\ Push(r).toRelease = r.toRelease
           /\ Entries(Push(r)) = Entries(r) + 1
<1>1. /\ r.toDecay \in Nat /\ r.references \in Nat /\ MaxEntries \in Nat
      /\ r.decayItems[0] \in Nat /\ r.decayItems[1] \in Nat
      /\ r.decayItems[2] \in Nat /\ r.decayItems[3] \in Nat
  BY EntriesCounted, Numbers
<1>2. r.toDecay + 1 \in 0 .. MaxEntries /\ r.references + 1 \in Nat
  BY <1>1
<1>3. /\ Push(r) \in ItemRecords
      /\ Push(r).kind = r.kind /\ SameNature(r, Push(r))
      /\ SameTime(r, Push(r)) /\ Push(r).decaying = TRUE
      /\ Push(r).toDecay = r.toDecay + 1
      /\ Push(r).decayItems = r.decayItems
      /\ Push(r).references = r.references + 1
      /\ Push(r).toRelease = r.toRelease
  BY <1>2 DEF Push, ItemRecords, SameNature, SameTime
<1> QED
  BY <1>1, <1>3 DEF Entries

LEMMA WithoutRecord ==
    ASSUME DecayAssumption, NEW r \in ItemRecords, NEW b \in BucketIds,
           r.decayItems[b] >= 1
    PROVE  /\ Without(r, b) \in ItemRecords
           /\ Without(r, b).kind = r.kind /\ SameNature(r, Without(r, b))
           /\ SameTime(r, Without(r, b))
           /\ Without(r, b).decaying = r.decaying
           /\ OneLess(r, Without(r, b), b)
           /\ Without(r, b).references = r.references
           /\ Without(r, b).toRelease = r.toRelease
<1> DEFINE s == Without(r, b)
<1>1. s = [r EXCEPT !.decayItems = [r.decayItems EXCEPT ![b] = @ - 1]]
  BY DEF Without, ItemRecords
<1>2. [r.decayItems EXCEPT ![b] = @ - 1] \in [BucketIds -> 0 .. MaxEntries]
  <2>1. r.decayItems \in [BucketIds -> 0 .. MaxEntries]
    BY DEF ItemRecords
  <2>2. r.decayItems[b] \in Nat /\ MaxEntries \in Nat
    BY EntriesCounted
  <2>3. r.decayItems[b] - 1 \in 0 .. MaxEntries
    BY <2>1, <2>2
  <2> QED
    BY <2>1, <2>3
<1> QED
  BY <1>1, <1>2 DEF ItemRecords, SameNature, SameTime, OneLess

LEMMA ReleasedRecord ==
    ASSUME NEW r \in ItemRecords
    PROVE  /\ ReleaseItem(r) \in ItemRecords
           /\ ReleaseItem(r).kind = r.kind /\ SameNature(r, ReleaseItem(r))
           /\ SameTime(r, ReleaseItem(r)) /\ SameLists(r, ReleaseItem(r))
           /\ ReleaseItem(r).decaying = r.decaying
           /\ ReleaseItem(r).references = r.references
           /\ ReleaseItem(r).toRelease = r.toRelease + 1
<1>1. r.toRelease + 1 \in Nat
  BY DEF ItemRecords
<1> QED
  BY <1>1 DEF ReleaseItem, ItemRecords, SameNature, SameTime, SameLists

LEMMA SameListsCounted ==
    ASSUME NEW r, NEW s, SameLists(r, s)
    PROVE  Entries(s) = Entries(r)
BY DEF SameLists, Entries

LEMMA StoppedRecord ==
    ASSUME NEW r \in ItemRecords
    PROVE  /\ StopsDecaying(r) \in ItemRecords
           /\ StopsDecaying(r).kind = r.kind /\ SameNature(r, StopsDecaying(r))
           /\ SameTime(r, StopsDecaying(r)) /\ SameLists(r, StopsDecaying(r))
           /\ StopsDecaying(r).decaying = FALSE
           /\ StopsDecaying(r).references = r.references
           /\ StopsDecaying(r).toRelease = r.toRelease
BY DEF StopsDecaying, ItemRecords, SameNature, SameTime, SameLists

\* The three ways an item ends its time.
LEMMA DecayedRecord ==
    ASSUME DecayAssumption, NEW r \in ItemRecords, NEW d \in Durations,
           r.toDecay < MaxEntries
    PROVE  /\ Decayed(r, d) \in ItemRecords
           /\ Decayed(r, d).decayItems = r.decayItems
           /\ Decayed(r, d).touched = r.touched
           /\ \/ /\ r.stages > 0 /\ Decayed(r, d).kind = r.kind
                 /\ Decayed(r, d).duration = d /\ Decayed(r, d).left = d
                 /\ Decayed(r, d).decaying = TRUE
                 /\ Decayed(r, d).toDecay = r.toDecay + 1
                 /\ Decayed(r, d).references = r.references + 1
                 /\ Decayed(r, d).toRelease = r.toRelease
                 /\ Entries(Decayed(r, d)) = Entries(r) + 1
              \/ /\ Decayed(r, d).kind = "out" /\ Decayed(r, d).duration = 0
                 /\ Decayed(r, d).decaying = FALSE
                 /\ Decayed(r, d).toDecay = r.toDecay
                 /\ Decayed(r, d).references = r.references
                 /\ Decayed(r, d).toRelease = r.toRelease
                 /\ Entries(Decayed(r, d)) = Entries(r)
              \/ /\ Decayed(r, d).kind = "removed"
                 /\ Decayed(r, d).toDecay = r.toDecay
                 /\ Decayed(r, d).references = r.references
                 /\ Decayed(r, d).toRelease = r.toRelease + 1
                 /\ Entries(Decayed(r, d)) = Entries(r)
<1>1. /\ d \in Nat /\ d \in Int /\ 0 \in Nat /\ r.stages \in 0 .. 1
      /\ r.toRelease + 1 \in Nat
  BY DEF DecayAssumption, ItemRecords
<1>2. CASE r.stages > 0
  <2> DEFINE q == [r EXCEPT !.duration = d, !.left = d, !.stages = @ - 1]
  <2>1. r.stages - 1 \in 0 .. 1
    BY <1>1, <1>2
  <2>2. q \in ItemRecords
    BY <1>1, <2>1, Zenon DEF ItemRecords
  <2>3. /\ q \in ItemRecords /\ q.kind = r.kind /\ q.duration = d
        /\ q.left = d /\ q.toDecay = r.toDecay
        /\ q.decayItems = r.decayItems /\ q.references = r.references
        /\ q.toRelease = r.toRelease /\ q.touched = r.touched
    BY <2>2 DEF ItemRecords
  <2>4. Entries(q) = Entries(r)
    BY <2>3, SameListsCounted DEF SameLists
  <2>5. Decayed(r, d) = Push(q)
    BY <1>2 DEF Decayed
  <2> HIDE DEF q
  <2>6. q.toDecay < MaxEntries
    BY <2>3
  <2>7. /\ Push(q) \in ItemRecords /\ Push(q).kind = q.kind
        /\ SameTime(q, Push(q)) /\ Push(q).decaying = TRUE
        /\ Push(q).toDecay = q.toDecay + 1
        /\ Push(q).decayItems = q.decayItems
        /\ Push(q).references = q.references + 1
        /\ Push(q).toRelease = q.toRelease
        /\ Entries(Push(q)) = Entries(q) + 1
    BY <2>3, <2>6, PushedRecord
  <2> QED
    BY <1>2, <2>3, <2>4, <2>5, <2>7 DEF SameTime
<1>3. CASE ~(r.stages > 0) /\ r.burnsDown
  <2>1. Decayed(r, d) =
            [r EXCEPT !.kind = "out", !.duration = 0, !.decaying = FALSE]
    BY <1>3 DEF Decayed
  <2>2. Decayed(r, d) \in ItemRecords
    BY <1>1, <2>1, Zenon DEF ItemRecords
  <2>3. /\ Decayed(r, d) \in ItemRecords
        /\ Decayed(r, d).decayItems = r.decayItems
        /\ Decayed(r, d).touched = r.touched
        /\ Decayed(r, d).kind = "out" /\ Decayed(r, d).duration = 0
        /\ Decayed(r, d).decaying = FALSE
        /\ Decayed(r, d).toDecay = r.toDecay
        /\ Decayed(r, d).references = r.references
        /\ Decayed(r, d).toRelease = r.toRelease
    BY <2>1, <2>2 DEF ItemRecords
  <2>4. Entries(Decayed(r, d)) = Entries(r)
    BY <2>3, SameListsCounted DEF SameLists
  <2> QED
    BY <2>3, <2>4
<1>4. CASE ~(r.stages > 0) /\ ~r.burnsDown
  <2>1. Decayed(r, d) = [r EXCEPT !.kind = "removed", !.toRelease = @ + 1]
    BY <1>4 DEF Decayed
  <2>2. Decayed(r, d) \in ItemRecords
    BY <1>1, <2>1, Zenon DEF ItemRecords
  <2>3. /\ Decayed(r, d) \in ItemRecords
        /\ Decayed(r, d).decayItems = r.decayItems
        /\ Decayed(r, d).touched = r.touched
        /\ Decayed(r, d).kind = "removed"
        /\ Decayed(r, d).toDecay = r.toDecay
        /\ Decayed(r, d).references = r.references
        /\ Decayed(r, d).toRelease = r.toRelease + 1
    BY <2>1, <2>2 DEF ItemRecords
  <2>4. Entries(Decayed(r, d)) = Entries(r)
    BY <2>3, SameListsCounted DEF SameLists
  <2> QED
    BY <2>3, <2>4
<1> QED
  BY <1>2, <1>3, <1>4

\* n more entries in bucket b.
Fits(r, n) == Entries(r) - r.toDecay + n <= MaxEntries

More(r, s, b, n) == s.decayItems = [r.decayItems EXCEPT ![b] = @ + n]

\* Those of an item with more in bucket b are counted.
LEMMA MoreCounted ==
    ASSUME DecayAssumption, NEW r \in ItemRecords, NEW b \in BucketIds,
           NEW n \in Nat, Fits(r, n),
           NEW s, More(r, s, b, n),
           s.toDecay \in Nat
    PROVE  /\ Entries(s) - s.toDecay = Entries(r) - r.toDecay + n
           /\ Entries(s) \in Nat
           /\ s.decayItems \in [BucketIds -> 0 .. MaxEntries]
           /\ s.decayItems[b] = r.decayItems[b] + n
           /\ \A c \in BucketIds \ {b} : s.decayItems[c] = r.decayItems[c]
<1>1. /\ r.toDecay \in Nat /\ \A c \in BucketIds : r.decayItems[c] \in Nat
      /\ r.decayItems \in [BucketIds -> 0 .. MaxEntries]
      /\ MaxEntries \in Nat /\ Entries(r) \in Nat
      /\ r.toDecay + r.decayItems[b] <= Entries(r)
  BY EntriesCounted DEF ItemRecords
<1>2. r.decayItems[b] + n \in 0 .. MaxEntries
  BY <1>1 DEF Fits
<1>3. s.decayItems \in [BucketIds -> 0 .. MaxEntries]
  BY <1>1, <1>2 DEF More
<1>4. /\ s.decayItems[b] = r.decayItems[b] + n
      /\ \A c \in BucketIds \ {b} : s.decayItems[c] = r.decayItems[c]
  BY <1>1 DEF More
<1>5. Entries(s) - s.toDecay = Entries(r) - r.toDecay + n /\ Entries(s) \in Nat
  <2>1. /\ r.decayItems[0] \in Nat /\ r.decayItems[1] \in Nat
        /\ r.decayItems[2] \in Nat /\ r.decayItems[3] \in Nat
    BY <1>1, Numbers
  <2>0. /\ n \in Nat /\ s.toDecay \in Nat /\ r.toDecay \in Nat
        /\ Entries(r) = r.toDecay + r.decayItems[0] + r.decayItems[1]
                        + r.decayItems[2] + r.decayItems[3]
        /\ Entries(s) = s.toDecay + s.decayItems[0] + s.decayItems[1]
                        + s.decayItems[2] + s.decayItems[3]
    BY <1>1 DEF Entries
  <2>2. b \in {0, 1, 2, 3} /\ BucketIds = {0, 1, 2, 3}
    BY Numbers
  <2>3. CASE b = 0
    <3>1. /\ s.decayItems[0] = r.decayItems[0] + n
          /\ s.decayItems[1] = r.decayItems[1]
          /\ s.decayItems[2] = r.decayItems[2]
          /\ s.decayItems[3] = r.decayItems[3]
      BY <1>4, <2>2, <2>3
    <3> QED
      BY <2>0, <2>1, <3>1
  <2>4. CASE b = 1
    <3>1. /\ s.decayItems[0] = r.decayItems[0]
          /\ s.decayItems[1] = r.decayItems[1] + n
          /\ s.decayItems[2] = r.decayItems[2]
          /\ s.decayItems[3] = r.decayItems[3]
      BY <1>4, <2>2, <2>4
    <3> QED
      BY <2>0, <2>1, <3>1
  <2>5. CASE b = 2
    <3>1. /\ s.decayItems[0] = r.decayItems[0]
          /\ s.decayItems[1] = r.decayItems[1]
          /\ s.decayItems[2] = r.decayItems[2] + n
          /\ s.decayItems[3] = r.decayItems[3]
      BY <1>4, <2>2, <2>5
    <3> QED
      BY <2>0, <2>1, <3>1
  <2>6. CASE b = 3
    <3>1. /\ s.decayItems[0] = r.decayItems[0]
          /\ s.decayItems[1] = r.decayItems[1]
          /\ s.decayItems[2] = r.decayItems[2]
          /\ s.decayItems[3] = r.decayItems[3] + n
      BY <1>4, <2>2, <2>6
    <3> QED
      BY <2>0, <2>1, <3>1
  <2> QED
    BY <2>2, <2>3, <2>4, <2>5, <2>6
<1> QED
  BY <1>3, <1>4, <1>5

Burned(r) == [r EXCEPT !.duration = r.duration - DecreaseTime(r)]

\* What a visit takes of the time an item has left.
LEMMA BurnedRecord ==
    ASSUME NEW r \in ItemRecords
    PROVE  /\ Burned(r) \in ItemRecords
           /\ Burned(r).duration = IF r.duration < 8 THEN 0 ELSE r.duration - 8
           /\ Burned(r).kind = r.kind /\ SameNature(r, Burned(r))
           /\ Burned(r).left = r.left /\ Burned(r).touched = r.touched
           /\ SameLists(r, Burned(r)) /\ Burned(r).decaying = r.decaying
           /\ Burned(r).references = r.references
           /\ Burned(r).toRelease = r.toRelease
<1>1. r.duration \in Nat
  BY DEF ItemRecords
<1>2. /\ r.duration - DecreaseTime(r) \in Nat
      /\ r.duration - DecreaseTime(r) =
            IF r.duration < 8 THEN 0 ELSE r.duration - 8
  BY <1>1, Numbers DEF DecreaseTime
<1> QED
  BY <1>2 DEF Burned, ItemRecords, SameNature, SameLists

\* The bucket of what is left: another one for nearly a round only.
LEMMA NewBucketNumber ==
    ASSUME NEW b \in BucketIds, NEW d \in Nat
    PROVE  /\ NewBucket(b, d) \in BucketIds
           /\ d < 7 => NewBucket(b, d) = b
           /\ d = 7 => NewBucket(b, d) = (b + 1) % 4 /\ NewBucket(b, d) # b
<1>1. b \in {0, 1, 2, 3}
  BY Numbers
<1>2. NewBucket(b, d) = (b + (d + 1) \div 8) % 4
  BY Numbers DEF NewBucket
<1>3. (d + 1) \div 8 \in Nat
  OBVIOUS
<1>4. (b + (d + 1) \div 8) % 4 \in 0 .. 3
  BY <1>1, <1>3
<1>5. d < 7 => (d + 1) \div 8 = 0
  OBVIOUS
<1>6. d = 7 => (d + 1) \div 8 = 1
  OBVIOUS
<1>7. b % 4 = b /\ (b + 1) % 4 # b
  BY <1>1
<1> QED
  BY <1>1, <1>2, <1>4, <1>5, <1>6, <1>7, Numbers

-----------------------------------------------------------------------------
\* An entry of an item that does not decay (any more) is dropped.
LEMMA VisitedOut ==
    ASSUME DecayAssumption, NEW r, Sane(r), NEW b \in BucketIds,
           r.decayItems[b] >= 1, NEW d \in Durations, r.kind # "lit"
    PROVE  /\ Sane(Visited(r, b, d))
           /\ Visited(r, b, d).kind = r.kind
           /\ Visited(r, b, d).stages = r.stages
           /\ Visited(r, b, d).touched = r.touched
           /\ Visited(r, b, d).decayItems[b] = r.decayItems[b] - 1
<1> DEFINE p == StopsDecaying(r)
           q == ReleaseItem(p)
           s == Without(q, b)
<1>1. Visited(r, b, d) = s
  BY DEF Visited, CanDecay
<1>2. r \in ItemRecords
  BY DEF Sane
<1>3. /\ p \in ItemRecords /\ p.kind = r.kind /\ SameNature(r, p)
      /\ SameTime(r, p) /\ SameLists(r, p) /\ p.decaying = FALSE
      /\ p.references = r.references /\ p.toRelease = r.toRelease
  BY <1>2, StoppedRecord
<1> HIDE DEF p
<1>4. /\ q \in ItemRecords /\ q.kind = p.kind /\ SameNature(p, q)
      /\ SameTime(p, q) /\ SameLists(p, q) /\ q.decaying = p.decaying
      /\ q.references = p.references /\ q.toRelease = p.toRelease + 1
  BY <1>3, ReleasedRecord
<1> HIDE DEF q
<1>5. /\ q.kind = r.kind /\ q.duration = r.duration /\ q.left = r.left
      /\ q.touched = r.touched /\ q.stages = r.stages /\ q.decaying = FALSE
      /\ q.references = r.references /\ q.toRelease = r.toRelease + 1
      /\ q.decayItems[b] = r.decayItems[b] /\ SameLists(r, q)
  BY <1>3, <1>4 DEF SameNature, SameTime, SameLists
<1>6. Entries(q) = Entries(r)
  BY <1>5, SameListsCounted
<1>7. q.decayItems[b] >= 1
  BY <1>5
<1>8. /\ s \in ItemRecords /\ s.kind = q.kind /\ SameNature(q, s)
      /\ SameTime(q, s) /\ s.decaying = q.decaying /\ OneLess(q, s, b)
      /\ s.references = q.references /\ s.toRelease = q.toRelease
  BY <1>4, <1>7, WithoutRecord
<1> HIDE DEF s
<1>9. Entries(s) = Entries(q) - 1 /\ s.decayItems[b] = q.decayItems[b] - 1
  BY <1>4, <1>7, <1>8, OneLessCounted
<1>10. /\ s.kind = r.kind /\ s.duration = r.duration /\ s.left = r.left
       /\ s.touched = r.touched /\ s.stages = r.stages /\ s.decaying = FALSE
       /\ s.references = r.references /\ s.toRelease = r.toRelease + 1
       /\ Entries(s) = Entries(r) - 1
       /\ s.decayItems[b] = r.decayItems[b] - 1
  BY <1>5, <1>6, <1>8, <1>9 DEF SameNature, SameTime
<1>11. /\ Entries(r) \in Nat /\ r.references \in Nat /\ r.toRelease \in Nat
       /\ r.decayItems[b] \in Nat /\ r.decayItems[b] <= Entries(r)
       /\ MaxEntries \in Nat
  BY <1>2, EntriesCounted
<1>12. r.kind # "none"
  BY <1>11 DEF Sane
<1>13. s.references = Entries(s) + s.toRelease + Owned(s)
  <2>1. Owned(s) = Owned(r) /\ Owned(r) \in {0, 1}
    BY <1>10 DEF Owned
  <2>2. r.references = Entries(r) + r.toRelease + Owned(r)
    BY DEF Sane
  <2> QED
    BY <1>10, <1>11, <2>1, <2>2
<1>14. Entries(s) <= MaxEntries /\ (~r.touched => Entries(s) <= 1)
  BY <1>10, <1>11 DEF Sane
<1>15. Sane(s)
  BY <1>8, <1>10, <1>12, <1>13, <1>14 DEF Sane
<1> QED
  BY <1>1, <1>10, <1>15

\* The time of an entry is up.
Ends(r, b) ==
    LET duration == r.duration - DecreaseTime(r) IN
    duration <= 0 \/ (duration < Round /\ NewBucket(b, duration) = b)

\* Its entry is dropped, and the item becomes what follows or is removed.
LEMMA VisitedEnds ==
    ASSUME DecayAssumption, NEW r, Sane(r), NEW b \in BucketIds,
           r.decayItems[b] >= 1, NEW d \in Durations, r.kind = "lit",
           Ends(r, b)
    PROVE  /\ Sane(Visited(r, b, d))
           /\ Visited(r, b, d).touched = r.touched
           /\ Visited(r, b, d).decayItems[b] = r.decayItems[b] - 1
           /\ \A c \in BucketIds \ {b} :
                Visited(r, b, d).decayItems[c] = r.decayItems[c]
           /\ Visited(r, b, d).kind = "lit" =>
                /\ Visited(r, b, d).duration = d
                /\ Visited(r, b, d).left = d
<1> DEFINE o == Burned(r)
           p == Without(o, b)
           q == Decayed(p, d)
           s == ReleaseItem(q)
<1>1. Visited(r, b, d) = s
  BY DEF Visited, CanDecay, Ends, Burned
<1>2. r \in ItemRecords
  BY DEF Sane
<1>3. /\ o \in ItemRecords /\ o.kind = r.kind /\ o.touched = r.touched
      /\ SameLists(r, o) /\ o.decaying = r.decaying
      /\ o.references = r.references /\ o.toRelease = r.toRelease
  BY <1>2, BurnedRecord
<1>4. Entries(o) = Entries(r) /\ o.decayItems = r.decayItems
      /\ o.toDecay = r.toDecay
  BY <1>3, SameListsCounted DEF SameLists
<1> HIDE DEF o
<1>5. o.decayItems[b] >= 1
  BY <1>4
<1>6. /\ p \in ItemRecords /\ p.kind = o.kind /\ SameTime(o, p)
      /\ p.decaying = o.decaying /\ OneLess(o, p, b)
      /\ p.references = o.references /\ p.toRelease = o.toRelease
  BY <1>3, <1>5, WithoutRecord
<1> HIDE DEF p
<1>7. /\ Entries(p) = Entries(o) - 1
      /\ p.decayItems[b] = o.decayItems[b] - 1
      /\ \A c \in BucketIds \ {b} : p.decayItems[c] = o.decayItems[c]
      /\ p.toDecay = o.toDecay
  BY <1>3, <1>5, <1>6, OneLessCounted DEF OneLess
<1>8. /\ p.kind = "lit" /\ p.touched = r.touched /\ p.decaying = TRUE
      /\ p.references = r.references /\ p.toRelease = r.toRelease
      /\ Entries(p) = Entries(r) - 1 /\ p.toDecay = r.toDecay
      /\ p.decayItems[b] = r.decayItems[b] - 1
      /\ \A c \in BucketIds \ {b} : p.decayItems[c] = r.decayItems[c]
  BY <1>3, <1>4, <1>6, <1>7 DEF SameTime, Sane
<1>9. /\ Entries(r) \in Nat /\ r.references \in Nat /\ r.toRelease \in Nat
      /\ r.decayItems[b] \in Nat /\ r.toDecay \in Nat
      /\ r.toDecay + r.decayItems[b] <= Entries(r)
      /\ MaxEntries \in Nat /\ Entries(r) <= MaxEntries
  BY <1>2, EntriesCounted DEF Sane
<1>10. p.toDecay < MaxEntries
  BY <1>8, <1>9
<1>11. /\ q \in ItemRecords
       /\ q.decayItems = p.decayItems
       /\ q.touched = p.touched
       /\ \/ /\ q.kind = p.kind
             /\ q.duration = d /\ q.left = d
             /\ q.decaying = TRUE
             /\ q.references = p.references + 1
             /\ q.toRelease = p.toRelease
             /\ Entries(q) = Entries(p) + 1
          \/ /\ q.kind = "out" /\ q.duration = 0
             /\ q.decaying = FALSE
             /\ q.references = p.references
             /\ q.toRelease = p.toRelease
             /\ Entries(q) = Entries(p)
          \/ /\ q.kind = "removed"
             /\ q.references = p.references
             /\ q.toRelease = p.toRelease + 1
             /\ Entries(q) = Entries(p)
  BY ZenonT(30), <1>6, <1>10, DecayedRecord
<1> HIDE DEF q
<1>12. /\ s \in ItemRecords /\ s.kind = q.kind
       /\ SameTime(q, s) /\ SameLists(q, s) /\ s.decaying = q.decaying
       /\ s.references = q.references /\ s.toRelease = q.toRelease + 1
  BY <1>11, ReleasedRecord
<1> HIDE DEF s
<1>13. /\ Entries(s) = Entries(q) /\ s.duration = q.duration
       /\ s.left = q.left /\ s.touched = q.touched
       /\ s.decayItems = q.decayItems
  BY <1>12, SameListsCounted DEF SameLists, SameTime
<1>14. r.references = Entries(r) + r.toRelease + 1
  BY DEF Sane, Owned
<1>15. r.touched = FALSE => Entries(r) <= 1
  BY DEF Sane
<1>16. d \in Nat /\ d >= 1
  BY DEF DecayAssumption
<1>17. s.touched = r.touched
  BY <1>8, <1>11, <1>13
<1>24. s.touched \in BOOLEAN /\ r.touched \in BOOLEAN /\ s.decaying \in BOOLEAN
  BY <1>2, <1>12 DEF ItemRecords
<1>18. ASSUME s.kind = "lit" PROVE Sane(s)
  <2>1. /\ s.duration = d /\ s.left = d /\ s.decaying = TRUE
        /\ s.references = r.references + 1
        /\ s.toRelease = r.toRelease + 1
        /\ Entries(s) = Entries(r)
    BY <1>8, <1>9, <1>11, <1>12, <1>13, <1>18
  <2>2. s.references = Entries(s) + s.toRelease + Owned(s)
    BY <1>9, <1>14, <1>18, <2>1 DEF Owned
  <2>3. Entries(s) > 0 /\ Entries(s) <= MaxEntries /\ s.left >= 0
    BY <1>9, <1>16, <2>1
  <2>4. ~s.touched => Entries(s) <= 1
    BY <1>15, <1>17, <1>24, <2>1
  <2> QED
    BY <1>12, <1>18, <1>24, <2>1, <2>2, <2>3, <2>4 DEF Sane
<1>19. ASSUME s.kind = "out" PROVE Sane(s)
  <2>1. /\ s.duration = 0 /\ s.decaying = FALSE
        /\ s.references = r.references
        /\ s.toRelease = r.toRelease + 1
        /\ Entries(s) = Entries(r) - 1
    BY <1>8, <1>9, <1>11, <1>12, <1>13, <1>19
  <2>2. s.references = Entries(s) + s.toRelease + Owned(s)
    BY <1>9, <1>14, <1>19, <2>1 DEF Owned
  <2>3. Entries(s) <= MaxEntries /\ (r.touched = FALSE => Entries(s) <= 1)
    BY <1>9, <1>15, <2>1
  <2>4. ~s.touched => Entries(s) <= 1
    BY <1>17, <1>24, <2>3
  <2> QED
    BY <1>12, <1>19, <1>24, <2>1, <2>2, <2>3, <2>4 DEF Sane
<1>20. ASSUME s.kind = "removed" PROVE Sane(s)
  <2>1. /\ s.references = r.references
        /\ s.toRelease = r.toRelease + 2
        /\ Entries(s) = Entries(r) - 1
    BY <1>8, <1>9, <1>11, <1>12, <1>13, <1>20
  <2>2. s.references = Entries(s) + s.toRelease + Owned(s)
    BY <1>9, <1>14, <1>20, <2>1 DEF Owned
  <2>3. Entries(s) <= MaxEntries /\ (r.touched = FALSE => Entries(s) <= 1)
    BY <1>9, <1>15, <2>1
  <2>4. ~s.touched => Entries(s) <= 1
    BY <1>17, <1>24, <2>3
  <2> QED
    BY <1>12, <1>20, <1>24, <2>1, <2>2, <2>3, <2>4 DEF Sane
<1>21. Sane(s)
  BY <1>8, <1>11, <1>12, <1>18, <1>19, <1>20
<1>22. s.kind = "lit" => s.duration = d /\ s.left = d
  BY <1>11, <1>12, <1>13
<1>23. /\ s.decayItems[b] = r.decayItems[b] - 1
       /\ \A c \in BucketIds \ {b} : s.decayItems[c] = r.decayItems[c]
  BY <1>8, <1>11, <1>13
<1> QED
  BY <1>1, <1>17, <1>21, <1>22, <1>23

\* What is left of the time is not up to this bucket.
LEMMA VisitedStays ==
    ASSUME DecayAssumption, NEW r, Sane(r), NEW b \in BucketIds,
           r.decayItems[b] >= 1, NEW d \in Durations, r.kind = "lit",
           ~Ends(r, b), r.duration - DecreaseTime(r) >= Round
    PROVE  /\ Sane(Visited(r, b, d))
           /\ r.duration >= 16
           /\ Visited(r, b, d).kind = r.kind
           /\ Visited(r, b, d).stages = r.stages
           /\ Visited(r, b, d).touched = r.touched
           /\ Visited(r, b, d).decayItems = r.decayItems
           /\ Visited(r, b, d).toDecay = r.toDecay
           /\ Visited(r, b, d).duration = r.duration - 8
           /\ Visited(r, b, d).left = r.left
<1> DEFINE o == Burned(r)
<1>0. r.duration \in Nat /\ r \in ItemRecords
  BY EntriesCounted DEF Sane
<1>1. r.duration - DecreaseTime(r) \in Int
  BY <1>0, Numbers DEF DecreaseTime
<1>2. Visited(r, b, d) = o
  BY <1>1, Numbers DEF Visited, CanDecay, Ends, Burned
<1>3. /\ o \in ItemRecords /\ o.kind = r.kind /\ o.touched = r.touched
      /\ o.duration = (IF r.duration < 8 THEN 0 ELSE r.duration - 8)
      /\ SameLists(r, o) /\ o.decaying = r.decaying /\ o.left = r.left
      /\ o.references = r.references /\ o.toRelease = r.toRelease
      /\ o.stages = r.stages
  BY <1>0, BurnedRecord DEF SameNature
<1>4. r.duration >= 16
  BY <1>0, Numbers DEF DecreaseTime
<1> HIDE DEF o
<1>5. o.duration = r.duration - 8
  BY <1>0, <1>3, <1>4
<1>6. Entries(o) = Entries(r) /\ o.decayItems = r.decayItems
      /\ o.toDecay = r.toDecay
  BY <1>3, SameListsCounted DEF SameLists
<1>7. Sane(o)
  BY <1>3, <1>6 DEF Sane, Owned
<1> QED
  BY <1>2, <1>3, <1>4, <1>5, <1>6, <1>7

\* What is left is nearly a round: one more bucket.
LEMMA VisitedMoves ==
    ASSUME DecayAssumption, NEW r, Sane(r), NEW b \in BucketIds,
           r.decayItems[b] >= 1, NEW d \in Durations, r.kind = "lit",
           ~Ends(r, b), ~(r.duration - DecreaseTime(r) >= Round)
    PROVE  /\ Sane(Visited(r, b, d))
           /\ r.duration = 15
           /\ Visited(r, b, d).kind = r.kind
           /\ Visited(r, b, d).stages = r.stages
           /\ Visited(r, b, d).touched = r.touched
           /\ (b + 1) % 4 \in BucketIds \ {b}
           /\ Visited(r, b, d).decayItems[b] = r.decayItems[b] - 1
           /\ Visited(r, b, d).decayItems[(b + 1) % 4]
                = r.decayItems[(b + 1) % 4] + 1
           /\ \A c \in BucketIds \ {b, (b + 1) % 4} :
                Visited(r, b, d).decayItems[c] = r.decayItems[c]
           /\ Visited(r, b, d).toDecay = r.toDecay
           /\ Visited(r, b, d).duration = 7
           /\ Visited(r, b, d).left = r.left
<1> DEFINE o == Burned(r)
           p == Without(o, b)
           n == NewBucket(b, r.duration - DecreaseTime(r))
           s == [p EXCEPT !.decayItems[n] = @ + 1]
<1>0. r.duration \in Nat /\ r \in ItemRecords
  BY EntriesCounted DEF Sane
<1>1. r.duration - DecreaseTime(r) \in Nat
      /\ r.duration - DecreaseTime(r) =
            (IF r.duration < 8 THEN 0 ELSE r.duration - 8)
  BY <1>0, Numbers DEF DecreaseTime
<1>2. /\ r.duration - DecreaseTime(r) < 8 /\ r.duration - DecreaseTime(r) > 0
      /\ n # b
  BY <1>1, Numbers DEF Ends
<1>3. r.duration - DecreaseTime(r) = 7 /\ r.duration = 15
      /\ n \in BucketIds /\ n = (b + 1) % 4
  BY <1>0, <1>1, <1>2, NewBucketNumber
<1>4. Visited(r, b, d) = s
  BY <1>1, <1>2, Numbers DEF Visited, CanDecay, Burned
<1>5. /\ o \in ItemRecords /\ o.kind = r.kind /\ o.touched = r.touched
      /\ o.duration = 7
      /\ SameLists(r, o) /\ o.decaying = r.decaying /\ o.left = r.left
      /\ o.references = r.references /\ o.toRelease = r.toRelease
      /\ o.stages = r.stages
  BY <1>0, <1>1, <1>3, BurnedRecord DEF SameNature
<1>6. Entries(o) = Entries(r) /\ o.decayItems = r.decayItems
      /\ o.toDecay = r.toDecay
  BY <1>5, SameListsCounted DEF SameLists
<1> HIDE DEF o
<1>7. o.decayItems[b] >= 1
  BY <1>6
<1>8. /\ p \in ItemRecords /\ p.kind = o.kind /\ SameTime(o, p)
      /\ SameNature(o, p)
      /\ p.decaying = o.decaying /\ OneLess(o, p, b)
      /\ p.references = o.references /\ p.toRelease = o.toRelease
  BY <1>5, <1>7, WithoutRecord
<1> HIDE DEF p
<1>9. /\ Entries(p) = Entries(o) - 1
      /\ p.decayItems[b] = o.decayItems[b] - 1
      /\ \A c \in BucketIds \ {b} : p.decayItems[c] = o.decayItems[c]
      /\ p.toDecay = o.toDecay
  <2>1. DecayAssumption /\ o \in ItemRecords /\ b \in BucketIds
        /\ o.decayItems[b] >= 1 /\ OneLess(o, p, b)
    BY <1>5, <1>7, <1>8
  <2> HIDE DEF n, s
  <2>2. /\ Entries(p) = Entries(o) - 1
        /\ p.decayItems[b] = o.decayItems[b] - 1
        /\ \A c \in BucketIds \ {b} : p.decayItems[c] = o.decayItems[c]
    BY <2>1, OneLessCounted
  <2>3. p.toDecay = o.toDecay
    BY <2>1 DEF OneLess
  <2> QED
    BY <2>2, <2>3
<1>10. /\ p.kind = "lit" /\ p.touched = r.touched /\ p.decaying = r.decaying
       /\ p.duration = 7 /\ p.left = r.left /\ p.stages = r.stages
       /\ p.references = r.references /\ p.toRelease = r.toRelease
       /\ Entries(p) = Entries(r) - 1 /\ p.toDecay = r.toDecay
       /\ p.decayItems[b] = r.decayItems[b] - 1
       /\ \A c \in BucketIds \ {b} : p.decayItems[c] = r.decayItems[c]
  <2>1. p.kind = "lit" /\ p.touched = r.touched /\ p.decaying = r.decaying
    BY <1>5, <1>8, Zenon DEF SameTime
  <2>2. /\ p.duration = 7 /\ p.left = r.left /\ p.stages = r.stages
        /\ p.references = r.references /\ p.toRelease = r.toRelease
    BY <1>5, <1>8 DEF SameTime, SameNature
  <2> QED
    BY <1>6, <1>9, <2>1, <2>2
<1>11. /\ Entries(r) \in Nat /\ r.toDecay \in Nat /\ Entries(r) <= MaxEntries
       /\ MaxEntries \in Nat
  BY <1>0, EntriesCounted DEF Sane
<1>12. s = [p EXCEPT !.decayItems = [p.decayItems EXCEPT ![n] = @ + 1]]
  BY <1>8 DEF ItemRecords
<1>13. /\ s.decayItems = [p.decayItems EXCEPT ![n] = @ + 1]
       /\ s.toDecay = p.toDecay
  BY <1>8, <1>12 DEF ItemRecords
<1> HIDE DEF n
<1>14. Entries(p) - p.toDecay + 1 <= MaxEntries
  BY <1>10, <1>11
<1>15. 1 \in Nat /\ s.toDecay \in Nat
  BY <1>10, <1>11, <1>13
<1> HIDE DEF s
<1>16. /\ Entries(s) - s.toDecay = Entries(p) - p.toDecay + 1
       /\ Entries(s) \in Nat
       /\ s.decayItems \in [BucketIds -> 0 .. MaxEntries]
       /\ s.decayItems[n] = p.decayItems[n] + 1
       /\ \A c \in BucketIds \ {n} : s.decayItems[c] = p.decayItems[c]
  <2>1. /\ DecayAssumption /\ p \in ItemRecords /\ n \in BucketIds
        /\ 1 \in Nat /\ Entries(p) - p.toDecay + 1 <= MaxEntries
        /\ s.decayItems = [p.decayItems EXCEPT ![n] = @ + 1]
        /\ s.toDecay \in Nat
    BY <1>3, <1>8, <1>13, <1>14, <1>15
  <2> DEFINE one == 1
  <2>2. /\ one \in Nat /\ Fits(p, one) /\ More(p, s, n, one)
    BY <2>1 DEF Fits, More
  <2>3. one = 1
    OBVIOUS
  <2> HIDE DEF one
  <2>4. Entries(s) \in Nat
    BY <2>1, <2>2, MoreCounted
  <2>5. s.decayItems[n] = p.decayItems[n] + one
    BY <2>1, <2>2, MoreCounted
  <2>6. Entries(s) - s.toDecay = Entries(p) - p.toDecay + one
    BY <2>1, <2>2, MoreCounted
  <2>7. \A c \in BucketIds \ {n} : s.decayItems[c] = p.decayItems[c]
    BY <2>1, <2>2, MoreCounted
  <2>8. s.decayItems \in [BucketIds -> 0 .. MaxEntries]
    BY <2>1, <2>2, MoreCounted
  <2> QED
    BY <2>3, <2>4, <2>5, <2>6, <2>7, <2>8
<1>17. [p.decayItems EXCEPT ![n] = @ + 1] \in [BucketIds -> 0 .. MaxEntries]
  BY <1>13, <1>16
<1>18. s \in ItemRecords
  BY <1>8, <1>17, <1>12, Zenon DEF ItemRecords
<1>19. /\ s.kind = p.kind /\ s.touched = p.touched /\ s.decaying = p.decaying
       /\ s.duration = p.duration /\ s.left = p.left /\ s.stages = p.stages
       /\ s.references = p.references /\ s.toRelease = p.toRelease
  BY <1>8, <1>12 DEF ItemRecords
<1>20. Entries(s) = Entries(r)
  BY <1>10, <1>11, <1>13, <1>16
<1>21. Sane(s)
  BY <1>10, <1>18, <1>19, <1>20 DEF Sane, Owned
<1>22. s.decayItems[b] = r.decayItems[b] - 1
  BY <1>2, <1>10, <1>16
<1>23. s.decayItems[n] = r.decayItems[n] + 1
  BY <1>2, <1>3, <1>10, <1>16
<1>24. \A c \in BucketIds \ {b, n} : s.decayItems[c] = r.decayItems[c]
  BY <1>10, <1>16
<1>25. n \in BucketIds \ {b}
  BY <1>2, <1>3
<1>26. s.kind = r.kind /\ s.stages = r.stages /\ s.touched = r.touched
       /\ s.toDecay = r.toDecay /\ s.duration = 7 /\ s.left = r.left
  BY <1>10, <1>13, <1>19
<1> QED
  BY <1>3, <1>4, <1>21, <1>22, <1>23, <1>24, <1>25, <1>26

\* Every visit of an entry leaves a sane record, ...
LEMMA VisitedSane ==
    ASSUME DecayAssumption, NEW r, Sane(r), NEW b \in BucketIds,
           r.decayItems[b] >= 1, NEW d \in Durations
    PROVE  /\ Sane(Visited(r, b, d))
           /\ Visited(r, b, d).touched = r.touched
           /\ Visited(r, b, d).decayItems[b] >= r.decayItems[b] - 1
<1>1. r.decayItems[b] \in Nat
  BY EntriesCounted DEF Sane
<1>2. CASE r.kind # "lit"
  BY <1>1, <1>2, VisitedOut
<1>3. CASE r.kind = "lit" /\ Ends(r, b)
  BY <1>1, <1>3, VisitedEnds
<1>4. CASE r.kind = "lit" /\ ~Ends(r, b)
           /\ r.duration - DecreaseTime(r) >= Round
  BY <1>1, <1>4, VisitedStays
<1>5. CASE r.kind = "lit" /\ ~Ends(r, b)
           /\ ~(r.duration - DecreaseTime(r) >= Round)
  BY <1>1, <1>5, VisitedMoves
<1> QED
  BY <1>2, <1>3, <1>4, <1>5

\* ... and so do the visits of all entries of a bucket.
LEMMA VisitedAllSane ==
    ASSUME DecayAssumption, NEW r, Sane(r), NEW b \in BucketIds,
           NEW d \in Durations
    PROVE  /\ Sane(VisitedAll(r, b, d))
           /\ VisitedAll(r, b, d).touched = r.touched
<1>1. r.decayItems[b] \in Nat
  BY EntriesCounted DEF Sane
<1>2. CASE r.decayItems[b] = 0
  BY <1>2 DEF VisitedAll
<1>3. CASE r.decayItems[b] = 1
  <2>1. VisitedAll(r, b, d) = Visited(r, b, d)
    BY <1>3 DEF VisitedAll
  <2>2. r.decayItems[b] >= 1
    BY <1>3
  <2>3. Sane(Visited(r, b, d)) /\ Visited(r, b, d).touched = r.touched
    BY <2>2, VisitedSane
  <2> QED
    BY <2>1, <2>3
<1>4. CASE r.decayItems[b] >= 2
  <2> DEFINE s == Visited(r, b, d)
  <2>1. VisitedAll(r, b, d) = Visited(s, b, d)
    BY <1>4 DEF VisitedAll
  <2>2. Sane(s) /\ s.touched = r.touched
        /\ s.decayItems[b] >= r.decayItems[b] - 1
    <3>1. r.decayItems[b] >= 1
      BY <1>1, <1>4
    <3> QED
      BY <3>1, VisitedSane
  <2> HIDE DEF s
  <2>3. s.decayItems[b] \in Nat
    BY <2>2, EntriesCounted DEF Sane
  <2>4. s.decayItems[b] >= 1
    BY <1>1, <1>4, <2>2, <2>3
  <2> QED
    BY <2>1, <2>2, <2>4, VisitedSane
<1> QED
  BY <1>1, <1>2, <1>3, <1>4

\* Time passes.
LEMMA ElapsedRecord ==
    ASSUME NEW r, Sane(r)
    PROVE  /\ Sane(Elapsed(r))
           /\ SameLists(r, Elapsed(r)) /\ Elapsed(r).kind = r.kind
           /\ Elapsed(r).stages = r.stages
           /\ Elapsed(r).duration = r.duration
           /\ Elapsed(r).touched = r.touched
           /\ r.kind = "lit" /\ ~r.touched /\ r.left > -2 =>
                Elapsed(r).left = r.left - 2
<1>1. r \in ItemRecords /\ r.left \in Int
  BY DEF Sane, ItemRecords
<1>2. CASE r.kind = "lit" /\ ~r.touched /\ r.left > -2
  <2> DEFINE s == [r EXCEPT !.left = @ - 2]
  <2>1. Elapsed(r) = s
    BY <1>2, Numbers DEF Elapsed, CanDecay
  <2>2. s \in ItemRecords
    BY <1>1 DEF ItemRecords
  <2>3. /\ s.kind = r.kind /\ s.stages = r.stages /\ s.duration = r.duration
        /\ s.touched = r.touched /\ s.decaying = r.decaying
        /\ s.references = r.references /\ s.toRelease = r.toRelease
        /\ s.left = r.left - 2 /\ SameLists(r, s)
    BY <1>1 DEF ItemRecords, SameLists
  <2> HIDE DEF s
  <2>4. Entries(s) = Entries(r)
    BY <2>3, SameListsCounted
  <2>5. Sane(s)
    BY <1>2, <2>2, <2>3, <2>4 DEF Sane, Owned
  <2> QED
    BY <2>1, <2>3, <2>5
<1>3. CASE ~(r.kind = "lit" /\ ~r.touched /\ r.left > -2)
  <2>1. Elapsed(r) = r
    BY <1>3, Numbers DEF Elapsed, CanDecay
  <2> QED
    BY <1>3, <2>1 DEF SameLists
<1> QED
  BY <1>2, <1>3

\* cleanup puts an entry in the bucket just visited or in the next.
LEMMA BucketOfNumber ==
    ASSUME NEW r \in ItemRecords, NEW b \in BucketIds
    PROVE  /\ BucketOf(r, b) \in BucketIds
           /\ r.duration >= 8 => BucketOf(r, b) = b
           /\ ~(r.duration >= 8) => BucketOf(r, b) = (b + 1) % 4
<1>1. r.duration \in Nat /\ b \in {0, 1, 2, 3}
  BY Numbers DEF ItemRecords
<1>2. r.duration < 8 => r.duration \div 8 = 0
  BY <1>1
<1>3. (b + 1) % 4 \in {0, 1, 2, 3}
  BY <1>1
<1> QED
  BY <1>1, <1>2, <1>3, Numbers DEF BucketOf

\* What is released is, and each new entry is put in a bucket.
LEMMA CleanedUpSane ==
    ASSUME DecayAssumption, NEW r, Sane(r), NEW b \in BucketIds
    PROVE  /\ Sane(CleanedUp(r, b))
           /\ CleanedUp(r, b).kind = r.kind
           /\ CleanedUp(r, b).stages = r.stages
           /\ CleanedUp(r, b).duration = r.duration
           /\ CleanedUp(r, b).left = r.left
           /\ CleanedUp(r, b).touched = r.touched
           /\ CleanedUp(r, b).toDecay = 0
           /\ CleanedUp(r, b).decayItems[BucketOf(r, b)]
                = r.decayItems[BucketOf(r, b)] + r.toDecay
           /\ \A c \in BucketIds \ {BucketOf(r, b)} :
                CleanedUp(r, b).decayItems[c] = r.decayItems[c]
<1> DEFINE n == BucketOf(r, b)
           k == r.toDecay
           lists == [r.decayItems EXCEPT ![n] = @ + k]
           s == [r EXCEPT !.references = @ - r.toRelease, !.toRelease = 0,
                          !.decayItems = lists, !.toDecay = 0]
<1>1. /\ r \in ItemRecords /\ n \in BucketIds /\ k \in Nat
      /\ r.toRelease \in Nat /\ r.references \in Nat /\ Entries(r) \in Nat
      /\ MaxEntries \in Nat
  BY EntriesCounted, BucketOfNumber DEF Sane
<1>2. CleanedUp(r, b) = s
  BY <1>1 DEF CleanedUp, ItemRecords
<1>3. s.decayItems = lists /\ s.toDecay = 0
  BY <1>1 DEF ItemRecords
<1> HIDE DEF n, lists
<1>4. /\ Fits(r, k) /\ s.toDecay \in Nat
  BY <1>1, <1>3 DEF Sane, Fits
<1>5. More(r, s, n, k)
  BY <1>3 DEF More, lists
<1>6. r.references - r.toRelease \in Nat
      /\ r.references - r.toRelease = Entries(r) + Owned(r)
  <2>1. r.references = Entries(r) + r.toRelease + Owned(r)
    BY DEF Sane
  <2>2. Owned(r) \in {0, 1}
    BY DEF Owned
  <2> QED
    BY <1>1, <2>1, <2>2
<1> HIDE DEF k
<1>7. DecayAssumption /\ r \in ItemRecords /\ n \in BucketIds /\ k \in Nat
  BY <1>1
<1> DEFINE q == [r EXCEPT !.references = @ - r.toRelease, !.toRelease = 0]
<1>20. q \in ItemRecords
  <2>1. 0 \in Nat
    OBVIOUS
  <2> QED
    BY <1>6, <1>7, <2>1, Zenon DEF ItemRecords
<1>21. /\ q.kind = r.kind /\ q.stages = r.stages /\ q.duration = r.duration
       /\ q.left = r.left /\ q.toRelease = 0
       /\ q.references = r.references - r.toRelease
       /\ q.touched = r.touched /\ q.decaying = r.decaying
  BY <1>7 DEF ItemRecords
<1>22. s = [q EXCEPT !.decayItems = lists, !.toDecay = 0]
  BY <1>7 DEF ItemRecords
<1> HIDE DEF q, s
<1>8. Entries(s) - s.toDecay = Entries(r) - r.toDecay + k
  BY <1>4, <1>5, <1>7, MoreCounted
<1>9. Entries(s) \in Nat
  BY <1>4, <1>5, <1>7, MoreCounted
<1>10. s.decayItems \in [BucketIds -> 0 .. MaxEntries]
  BY <1>4, <1>5, <1>7, MoreCounted
<1>11. s.decayItems[n] = r.decayItems[n] + k
  BY <1>4, <1>5, <1>7, MoreCounted
<1>12. \A c \in BucketIds \ {n} : s.decayItems[c] = r.decayItems[c]
  BY <1>4, <1>5, <1>7, MoreCounted
<1>13. /\ 0 \in Nat /\ 0 \in 0 .. MaxEntries
       /\ lists \in [BucketIds -> 0 .. MaxEntries]
  BY <1>1, <1>3, <1>10
<1>14. s \in ItemRecords
  BY <1>13, <1>20, <1>22, Zenon DEF ItemRecords
<1>15. /\ s.kind = r.kind /\ s.stages = r.stages /\ s.duration = r.duration
       /\ s.left = r.left /\ s.toRelease = 0 /\ s.toDecay = 0
       /\ s.references = r.references - r.toRelease
       /\ s.touched = r.touched /\ s.decaying = r.decaying
  BY <1>20, <1>21, <1>22 DEF ItemRecords
<1>17. Entries(s) = Entries(r)
  BY <1>1, <1>8, <1>9, <1>15 DEF k
<1>18. s.references = Entries(s) + s.toRelease + Owned(s)
  <2>1. Owned(s) = Owned(r) /\ Owned(r) \in {0, 1}
    BY <1>15 DEF Owned
  <2> QED
    BY <1>1, <1>6, <1>15, <1>17, <2>1
<1>19. Sane(s)
  BY <1>14, <1>15, <1>17, <1>18 DEF Sane
<1> QED
  BY <1>2, <1>11, <1>12, <1>15, <1>19 DEF n, k

-----------------------------------------------------------------------------
\* Each operation keeps the record of its item sane.
LEMMA PushedSane ==
    ASSUME DecayAssumption, NEW r \in ItemRecords, Entries(r) < MaxEntries,
           r.references = Entries(r) + r.toRelease + 1,
           r.kind \in {"lit", "out"},
           r.touched \/ Entries(r) = 0,
           ~r.touched /\ r.kind = "out" => r.duration = 0,
           r.touched /\ r.kind = "lit" => r.left >= 0
    PROVE  Sane(Push(r))
<1>1. /\ r.toDecay \in Nat /\ Entries(r) \in Nat /\ r.toDecay <= Entries(r)
      /\ MaxEntries \in Nat /\ r.references \in Nat /\ r.toRelease \in Nat
  BY EntriesCounted
<1>2. r.toDecay < MaxEntries
  BY <1>1
<1> DEFINE s == Push(r)
<1>3. /\ s \in ItemRecords
      /\ s.kind = r.kind /\ SameNature(r, s)
      /\ SameTime(r, s) /\ s.decaying = TRUE
      /\ s.references = r.references + 1
      /\ s.toRelease = r.toRelease
      /\ Entries(s) = Entries(r) + 1
  BY <1>2, PushedRecord
<1> HIDE DEF s
<1>4. s.touched = r.touched /\ s.left = r.left /\ s.duration = r.duration
  BY <1>3 DEF SameTime
<1>5. s.references = Entries(s) + s.toRelease + Owned(s)
  BY <1>1, <1>3 DEF Owned
<1>6. Entries(s) <= MaxEntries /\ Entries(s) > 0
  BY <1>1, <1>3
<1>7. ~s.touched => Entries(s) <= 1
  <2>1. CASE Entries(r) = 0
    BY <1>1, <1>3, <2>1
  <2>2. CASE r.touched
    BY <1>4, <2>2
  <2> QED
    BY <2>1, <2>2
<1>8. s.decaying /\ s.kind # "none"
  BY <1>3
<1>9. /\ ~s.touched /\ s.kind = "out" => s.duration = 0
      /\ s.touched /\ s.kind = "lit" => s.left >= 0
  BY <1>3, <1>4
<1> QED
  BY <1>3, <1>5, <1>6, <1>7, <1>8, <1>9 DEF Sane, s

\* A new item, whatever its type, ...
LEMMA AddedSane ==
    ASSUME DecayAssumption, NEW r, Sane(r), r.kind = "none",
           NEW kind \in {"lit", "out"}, NEW d \in Durations
    PROVE  /\ Sane(NewItem(r, kind, d))
           /\ NewItem(r, kind, d).kind = kind
           /\ NewItem(r, kind, d).duration = d
           /\ NewItem(r, kind, d).left = d
           /\ NewItem(r, kind, d).toDecay = 1
           /\ \A b \in BucketIds : NewItem(r, kind, d).decayItems[b] = 0
<1> DEFINE t == (kind = "out")
           o == [r EXCEPT !.kind = kind, !.duration = d]
           p == [o EXCEPT !.left = d, !.references = 1]
           q == [p EXCEPT !.touched = t]
           s == Push(q)
<1>1. r \in ItemRecords /\ Entries(r) = 0 /\ r.toRelease = 0
  BY DEF Sane
<1>2. d \in Nat /\ d \in Int /\ 1 \in Nat /\ t \in BOOLEAN
      /\ kind \in {"none", "lit", "out", "removed"}
  BY DEF DecayAssumption
<1>3. s = NewItem(r, kind, d)
  BY DEF NewItem
<1>4. /\ r.toDecay \in Nat /\ r.toDecay <= 0 /\ MaxEntries >= 1
      /\ MaxEntries \in Nat
      /\ \A b \in BucketIds : r.decayItems[b] \in Nat
                              /\ r.toDecay + r.decayItems[b] <= 0
  BY <1>1, EntriesCounted
<1>5. r.toDecay = 0 /\ \A b \in BucketIds : r.decayItems[b] = 0
  BY <1>4
<1> HIDE DEF t
<1>6. o \in ItemRecords
  BY <1>1, <1>2, Zenon DEF ItemRecords
<1>7. o.toRelease = 0 /\ o.kind = kind /\ o.duration = d /\ SameLists(r, o)
  BY <1>1 DEF ItemRecords, SameLists
<1> HIDE DEF o
<1>8. p \in ItemRecords
  BY <1>2, <1>6, Zenon DEF ItemRecords
<1>9. p.toRelease = 0 /\ p.kind = kind /\ p.duration = d /\ p.left = d
      /\ p.references = 1 /\ SameLists(r, p)
  BY <1>6, <1>7 DEF ItemRecords, SameLists
<1> HIDE DEF p
<1>10. q \in ItemRecords
  BY <1>2, <1>8, Zenon DEF ItemRecords
<1>11. q.toRelease = 0 /\ q.kind = kind /\ q.duration = d /\ q.left = d
      /\ q.references = 1 /\ SameLists(r, q)
  BY <1>8, <1>9 DEF ItemRecords, SameLists
<1>12. q.touched = t
  BY <1>8, Zenon DEF ItemRecords
<1> HIDE DEF q
<1>13. Entries(q) = 0 /\ q.toDecay = 0 /\ q.decayItems = r.decayItems
  BY <1>1, <1>5, <1>11, SameListsCounted DEF SameLists
<1>14. /\ Entries(q) < MaxEntries
       /\ q.references = Entries(q) + q.toRelease + 1
       /\ q.kind \in {"lit", "out"}
       /\ q.touched \/ Entries(q) = 0
       /\ q.touched /\ q.kind = "lit" => q.left >= 0
       /\ q.toDecay < MaxEntries
  BY <1>2, <1>4, <1>11, <1>13
<1>15. ~q.touched /\ q.kind = "out" => q.duration = 0
  BY <1>11, <1>12 DEF t
<1>16. Sane(s)
  BY <1>10, <1>14, <1>15, PushedSane
<1>17. SameTime(q, s) /\ s.kind = q.kind /\ s.toDecay = q.toDecay + 1
       /\ s.decayItems = q.decayItems
  BY <1>10, <1>14, PushedRecord
<1>18. /\ s.kind = kind /\ s.duration = d /\ s.left = d /\ s.toDecay = 1
       /\ \A b \in BucketIds : s.decayItems[b] = 0
  BY <1>5, <1>11, <1>13, <1>17 DEF SameTime
<1> QED
  BY <1>3, <1>16, <1>18

\* ... an item that is moved without decaying, which was put out before, ...
LEMMA MovedSane ==
    ASSUME DecayAssumption, NEW r, Sane(r), r.kind \in {"lit", "out"},
           r.duration > 0, ~r.decaying, Entries(r) < MaxEntries
    PROVE  Sane(Push(r)) /\ r.touched /\ Push(r).touched
<1>1. /\ r \in ItemRecords
      /\ r.references = Entries(r) + r.toRelease + 1
      /\ r.touched /\ r.kind = "lit" => r.left >= 0
      /\ Entries(r) <= MaxEntries
  BY DEF Sane, Owned
<1>2. r.kind = "out" /\ r.duration # 0
  BY EntriesCounted DEF Sane
<1>3. r.touched
  BY <1>2 DEF Sane
<1>4. Sane(Push(r))
  BY <1>1, <1>2, <1>3, PushedSane
<1>5. r.toDecay < MaxEntries
  BY <1>1, EntriesCounted
<1>6. Push(r).touched = r.touched
  BY <1>1, <1>5, PushedRecord DEF SameTime
<1> QED
  BY <1>3, <1>4, <1>6

\* ... one that is put out, ...
LEMMA PutOutSane ==
    ASSUME NEW r, Sane(r), r.kind = "lit"
    PROVE  /\ Sane(TurnedOff(r))
           /\ TurnedOff(r).kind = "out" /\ TurnedOff(r).touched
<1> DEFINE p == [r EXCEPT !.kind = "out", !.touched = TRUE, !.left = 0]
           q == [p EXCEPT !.duration = 0, !.decaying = FALSE]
<1>1. /\ r \in ItemRecords /\ Entries(r) <= MaxEntries
      /\ r.references = Entries(r) + r.toRelease + 1
      /\ r.decaying /\ Entries(r) > 0
  BY DEF Sane, Owned
<1>2. 0 \in Nat /\ 0 \in Int
  OBVIOUS
<1>3. TurnedOff(r) = IF r.stopTime THEN p ELSE q
  BY DEF TurnedOff
<1>4. p \in ItemRecords
  BY <1>1, <1>2, Zenon DEF ItemRecords
<1>5. /\ p.kind = "out" /\ p.references = r.references
      /\ p.toRelease = r.toRelease /\ SameLists(r, p)
  BY <1>1 DEF ItemRecords, SameLists
<1>6. p.touched
  BY <1>1, Zenon DEF ItemRecords
<1> HIDE DEF p
<1>7. Entries(p) = Entries(r)
  BY <1>5, SameListsCounted
<1>8. Sane(p)
  BY <1>1, <1>4, <1>5, <1>6, <1>7 DEF Sane, Owned
<1>9. q \in ItemRecords
  BY <1>2, <1>4, Zenon DEF ItemRecords
<1>10. /\ q.kind = "out" /\ q.references = r.references
       /\ q.toRelease = r.toRelease /\ SameLists(p, q)
  BY <1>4, <1>5 DEF ItemRecords, SameLists
<1>11. q.touched
  BY <1>4, <1>6, Zenon DEF ItemRecords
<1>12. ~q.decaying
  BY <1>4, Zenon DEF ItemRecords
<1> HIDE DEF q
<1>13. Entries(q) = Entries(r)
  BY <1>7, <1>10, SameListsCounted
<1>14. Sane(q)
  BY <1>1, <1>9, <1>10, <1>11, <1>12, <1>13 DEF Sane, Owned
<1> QED
  BY <1>3, <1>5, <1>6, <1>8, <1>10, <1>11, <1>14

\* ... lit again, ...
LEMMA LitSane ==
    ASSUME DecayAssumption, NEW r, Sane(r), r.kind = "out",
           Entries(r) < MaxEntries, NEW d \in Durations
    PROVE  /\ Sane(StartDecay(TurnedOn(r, d), d))
           /\ StartDecay(TurnedOn(r, d), d).touched
<1> DEFINE stays == r.stopTime /\ r.duration > 0
           time == IF stays THEN r.duration ELSE d
           p == [r EXCEPT !.kind = "lit", !.touched = TRUE, !.left = 0]
           q == TurnedOn(r, d)
           s == StartDecay(q, d)
<1>1. /\ r \in ItemRecords /\ Entries(r) <= MaxEntries
      /\ r.references = Entries(r) + r.toRelease + 1
      /\ r.decaying => Entries(r) > 0
  BY DEF Sane, Owned
<1>2. 0 \in Nat /\ 0 \in Int /\ d \in Nat /\ d > 0 /\ r.duration \in Nat
  BY <1>1 DEF DecayAssumption, ItemRecords
<1>3. time \in Nat /\ time > 0
  BY <1>2
<1>4. q = IF stays THEN p ELSE [p EXCEPT !.duration = d, !.decaying = FALSE]
  BY DEF TurnedOn
<1> HIDE DEF stays
<1>7. p \in ItemRecords
  BY <1>1, <1>2, Zenon DEF ItemRecords
<1>8. /\ p.kind = "lit" /\ p.references = r.references /\ p.left = 0
      /\ p.toRelease = r.toRelease /\ SameLists(r, p)
  BY <1>1 DEF ItemRecords, SameLists
<1>9. p.touched
  BY <1>1, Zenon DEF ItemRecords
<1>5. p.duration = r.duration
  BY <1>1 DEF ItemRecords
<1>6. p.decaying = r.decaying
  BY <1>1, Zenon DEF ItemRecords
<1> HIDE DEF p, q
<1>10. /\ q \in ItemRecords
       /\ q.kind = "lit" /\ q.references = r.references /\ q.left = 0
       /\ q.toRelease = r.toRelease /\ q.duration = time
       /\ SameLists(p, q) /\ q.touched /\ (q.decaying => r.decaying)
  <2>1. CASE stays
    <3>1. q = p
      BY <1>4, <2>1
    <3> QED
      BY <1>5, <1>6, <1>7, <1>8, <1>9, <2>1, <3>1 DEF SameLists
  <2>2. CASE ~stays
    <3>1. q = [p EXCEPT !.duration = d, !.decaying = FALSE]
      BY <1>4, <2>2
    <3>2. q \in ItemRecords
      BY <1>2, <1>7, <3>1, Zenon DEF ItemRecords
    <3>3. /\ q.kind = "lit" /\ q.references = r.references /\ q.left = 0
          /\ q.toRelease = r.toRelease /\ q.duration = d
          /\ SameLists(p, q)
      BY <1>7, <1>8, <3>1 DEF ItemRecords, SameLists
    <3>4. q.touched /\ ~q.decaying
      BY <1>7, <1>9, <3>1, Zenon DEF ItemRecords
    <3> QED
      BY <2>2, <3>2, <3>3, <3>4
  <2> QED
    BY <2>1, <2>2
<1> HIDE DEF time
<1>14. Entries(q) = Entries(r) /\ q.references = Entries(q) + q.toRelease + 1
  BY <1>1, <1>8, <1>10, SameListsCounted
<1>15. CASE q.decaying
  <2>1. s = q
    BY <1>15 DEF StartDecay
  <2>2. Entries(q) > 0
    BY <1>1, <1>10, <1>14, <1>15
  <2>3. Sane(q)
    BY <1>1, <1>10, <1>14, <1>15, <2>2 DEF Sane, Owned
  <2> QED
    BY <1>10, <2>1, <2>3 DEF q
<1>16. CASE ~q.decaying
  <2>1. s = Push(q)
    BY <1>3, <1>10, <1>16 DEF StartDecay, CanDecay
  <2>2. Entries(q) < MaxEntries
    BY <1>14
  <2>3. Sane(Push(q))
    BY <1>10, <1>14, <2>2, PushedSane
  <2>4. q.toDecay < MaxEntries
    BY <1>1, <1>10, <2>2, EntriesCounted
  <2>5. Push(q).touched = q.touched
    BY <1>10, <2>4, PushedRecord DEF SameTime
  <2> QED
    BY <1>10, <2>1, <2>3, <2>5 DEF q
<1> QED
  BY <1>15, <1>16

\* ... or removed.
LEMMA RemovedSane ==
    ASSUME NEW r, Sane(r), r.kind \in {"lit", "out"}
    PROVE  /\ Sane(ReleaseItem([r EXCEPT !.kind = "removed"]))
           /\ ReleaseItem([r EXCEPT !.kind = "removed"]).kind = "removed"
<1> DEFINE q == [r EXCEPT !.kind = "removed"]
           s == ReleaseItem(q)
<1>1. /\ r \in ItemRecords /\ Entries(r) <= MaxEntries
      /\ r.references = Entries(r) + r.toRelease + 1
      /\ ~r.touched => Entries(r) <= 1
  BY DEF Sane, Owned
<1>2. q \in ItemRecords
  BY <1>1, Zenon DEF ItemRecords
<1>3. /\ q.kind = "removed" /\ q.references = r.references
      /\ q.toRelease = r.toRelease /\ SameLists(r, q)
  BY <1>1 DEF ItemRecords, SameLists
<1>4. q.touched = r.touched
  BY <1>1, Zenon DEF ItemRecords
<1> HIDE DEF q
<1>5. /\ s \in ItemRecords /\ s.kind = q.kind
      /\ SameTime(q, s) /\ SameLists(q, s)
      /\ s.references = q.references /\ s.toRelease = q.toRelease + 1
  BY <1>2, ReleasedRecord
<1> HIDE DEF s
<1>6. Entries(s) = Entries(r)
  BY <1>3, <1>5, SameListsCounted
<1>7. s.touched = r.touched
  BY <1>4, <1>5 DEF SameTime
<1>8. Entries(s) \in Int /\ r.toRelease \in Nat /\ r.references \in Nat
  <2>1. r.references \in Nat /\ r.toRelease \in Nat
    BY <1>1 DEF ItemRecords
  <2>2. r.toDecay \in Int /\ r.decayItems[0] \in Int /\ r.decayItems[1] \in Int
        /\ r.decayItems[2] \in Int /\ r.decayItems[3] \in Int
    BY <1>1, Numbers DEF ItemRecords
  <2>3. Entries(r) \in Int
    BY <2>2 DEF Entries
  <2> QED
    BY <1>6, <2>1, <2>3
<1>9. s.references = Entries(s) + s.toRelease + Owned(s)
  BY <1>1, <1>3, <1>5, <1>6, <1>8 DEF Owned
<1>10. Entries(s) <= MaxEntries /\ (~s.touched => Entries(s) <= 1)
  BY <1>1, <1>6, <1>7
<1> QED
  BY <1>3, <1>5, <1>9, <1>10 DEF Sane, s, q

-----------------------------------------------------------------------------
\* The number of visits until the one of bucket c, if last was the last one.
Wait(c, last) == IF c > last THEN c - last ELSE c - last + 4

\* With each visit of a bucket the others wait for one less.
LEMMA NextVisit ==
    ASSUME NEW last \in BucketIds
    PROVE  LET b == (last + 1) % 4 IN
           /\ b \in BucketIds
           /\ Wait(b, last) = 1
           /\ Wait(b, b) = 4
           /\ \A c \in BucketIds \ {b} : Wait(c, last) = Wait(c, b) + 1
           /\ \A c \in BucketIds :
                Wait(c, last) \in Int /\ Wait(c, last) >= 1
                /\ Wait(c, last) <= 4
           /\ \A c \in BucketIds :
                Wait(c, b) \in Int /\ Wait(c, b) >= 1 /\ Wait(c, b) <= 4
<1>1. last \in {0, 1, 2, 3} /\ BucketIds = {0, 1, 2, 3}
  BY Numbers
<1>2. CASE last = 0
  <2>1. (last + 1) % 4 = 1
    BY <1>2
  <2> QED
    BY <1>1, <1>2, <2>1 DEF Wait
<1>3. CASE last = 1
  <2>1. (last + 1) % 4 = 2
    BY <1>3
  <2> QED
    BY <1>1, <1>3, <2>1 DEF Wait
<1>4. CASE last = 2
  <2>1. (last + 1) % 4 = 3
    BY <1>4
  <2> QED
    BY <1>1, <1>4, <2>1 DEF Wait
<1>5. CASE last = 3
  <2>1. (last + 1) % 4 = 0
    BY <1>5
  <2> QED
    BY <1>1, <1>5, <2>1 DEF Wait
<1> QED
  BY <1>1, <1>2, <1>3, <1>4, <1>5

\* An item nobody touched: what its record says it has left is what it has
\* left, less the visits its bucket still waits for; what is less than a
\* round is for the next visit.
InTime(r, last, late) ==
    ~r.touched /\ r.kind = "lit" =>
        /\ r.toDecay >= 1 =>
            /\ r.duration >= 1
            /\ r.left <= r.duration /\ r.left >= r.duration - late
        /\ \A c \in BucketIds : r.decayItems[c] >= 1 =>
            IF r.duration >= 8
            THEN /\ r.left <= r.duration - 2 * (4 - Wait(c, last))
                 /\ r.left >= r.duration - 2 * (4 - Wait(c, last)) - 2
            ELSE /\ Wait(c, last) = 1 /\ r.duration >= 1
                 /\ r.left <= r.duration /\ r.left >= r.duration - 2

\* The same when bucket b is visited.
AtVisit(r, b) ==
    ~r.touched /\ r.kind = "lit" =>
        /\ r.toDecay >= 1 =>
            /\ r.duration >= 1
            /\ r.left <= r.duration /\ r.left >= r.duration - 2
        /\ \A c \in BucketIds \ {b} : r.decayItems[c] >= 1 =>
            /\ r.duration >= 8
            /\ r.left <= r.duration - 2 * (4 - Wait(c, b))
            /\ r.left >= r.duration - 2 * (4 - Wait(c, b)) - 2
        /\ r.decayItems[b] >= 1 =>
            /\ r.duration >= 1
            /\ r.duration >= 8 =>
                /\ r.left <= r.duration - 8
                /\ r.left >= r.duration - 10

\* Who has an entry has it in one of the lists, ...
LEMMA AnEntry ==
    ASSUME DecayAssumption, NEW r \in ItemRecords, Entries(r) > 0
    PROVE  r.toDecay >= 1 \/ \E c \in BucketIds : r.decayItems[c] >= 1
<1>1. /\ r.toDecay \in Nat
      /\ r.decayItems[0] \in Nat /\ r.decayItems[1] \in Nat
      /\ r.decayItems[2] \in Nat /\ r.decayItems[3] \in Nat
  BY EntriesCounted, Numbers
<1>2. \/ r.toDecay >= 1 \/ r.decayItems[0] >= 1 \/ r.decayItems[1] >= 1
      \/ r.decayItems[2] >= 1 \/ r.decayItems[3] >= 1
  BY <1>1 DEF Entries
<1> QED
  BY <1>2, Numbers

\* ... and with one in a bucket and one at most has no other.
LEMMA OneEntry ==
    ASSUME DecayAssumption, NEW r \in ItemRecords, Entries(r) <= 1,
           NEW b \in BucketIds, r.decayItems[b] >= 1
    PROVE  /\ r.toDecay = 0
           /\ r.decayItems[b] = 1
           /\ \A c \in BucketIds \ {b} : r.decayItems[c] = 0
<1>1. /\ r.toDecay \in Nat
      /\ r.decayItems[0] \in Nat /\ r.decayItems[1] \in Nat
      /\ r.decayItems[2] \in Nat /\ r.decayItems[3] \in Nat
  BY EntriesCounted, Numbers
<1>2. r.toDecay + r.decayItems[0] + r.decayItems[1] + r.decayItems[2]
      + r.decayItems[3] <= 1
  BY DEF Entries
<1>3. b \in {0, 1, 2, 3} /\ BucketIds = {0, 1, 2, 3}
  BY Numbers
<1>4. CASE b = 0
  <2>1. r.decayItems[0] >= 1
    BY <1>4
  <2> QED
    BY <1>1, <1>2, <1>3, <1>4, <2>1
<1>5. CASE b = 1
  <2>1. r.decayItems[1] >= 1
    BY <1>5
  <2> QED
    BY <1>1, <1>2, <1>3, <1>5, <2>1
<1>6. CASE b = 2
  <2>1. r.decayItems[2] >= 1
    BY <1>6
  <2> QED
    BY <1>1, <1>2, <1>3, <1>6, <2>1
<1>7. CASE b = 3
  <2>1. r.decayItems[3] >= 1
    BY <1>7
  <2>2. /\ r.toDecay = 0 /\ r.decayItems[3] = 1 /\ r.decayItems[0] = 0
        /\ r.decayItems[1] = 0 /\ r.decayItems[2] = 0
    BY <1>1, <1>2, <2>1
  <2> QED
    BY <1>3, <1>7, <2>2
<1> QED
  BY <1>3, <1>4, <1>5, <1>6, <1>7

\* An item in time has not come to its end by more than an interval.
LEMMA NotLate ==
    ASSUME DecayAssumption, NEW r, Sane(r), NEW last \in BucketIds,
           InTime(r, last, 0), r.kind = "lit"
    PROVE  r.left > -2
<1>1. r \in ItemRecords /\ r.duration \in Nat /\ r.left \in Int
  BY EntriesCounted DEF Sane
<1>2. CASE r.touched
  BY <1>1, <1>2 DEF Sane
<1>3. CASE ~r.touched
  <2>1. r.toDecay >= 1 \/ \E c \in BucketIds : r.decayItems[c] >= 1
    BY <1>1, AnEntry DEF Sane
  <2>2. CASE r.toDecay >= 1
    BY <1>1, <1>3, <2>2 DEF InTime
  <2>3. ASSUME NEW c \in BucketIds, r.decayItems[c] >= 1
        PROVE  r.left > -2
    <3>1. Wait(c, last) \in Int /\ Wait(c, last) >= 1 /\ Wait(c, last) <= 4
      BY NextVisit
    <3>2. IF r.duration >= 8
          THEN r.left >= r.duration - 2 * (4 - Wait(c, last)) - 2
          ELSE r.duration >= 1 /\ r.left >= r.duration - 2
      BY <1>3, <2>3 DEF InTime
    <3> HIDE DEF Wait
    <3> QED
      BY <1>1, <3>1, <3>2
  <2> QED
    BY <2>1, <2>2, <2>3
<1> QED
  BY <1>2, <1>3

\* What was in time is so when the next bucket is visited, ...
LEMMA ElapsedInTime ==
    ASSUME DecayAssumption, NEW r, Sane(r), NEW last \in BucketIds,
           InTime(r, last, 0)
    PROVE  AtVisit(Elapsed(r), (last + 1) % 4)
<1> DEFINE b == (last + 1) % 4
           s == Elapsed(r)
<1>1. CASE r.kind = "lit" /\ ~r.touched
  <2>1. r.left > -2
    BY <1>1, NotLate
  <2>2. /\ s.toDecay = r.toDecay /\ s.decayItems = r.decayItems
        /\ s.left = r.left - 2 /\ s.duration = r.duration
        /\ ~s.touched /\ s.kind = "lit"
    BY <1>1, <2>1, ElapsedRecord DEF SameLists
  <2>3. r.duration \in Nat /\ r.left \in Int
    BY EntriesCounted DEF Sane
  <2> HIDE DEF s
  <2>4. s.toDecay >= 1 =>
            /\ s.duration >= 1
            /\ s.left <= s.duration /\ s.left >= s.duration - 2
    BY <1>1, <2>2, <2>3 DEF InTime
  <2>5. /\ b \in BucketIds
        /\ Wait(b, last) = 1
        /\ \A c \in BucketIds \ {b} : Wait(c, last) = Wait(c, b) + 1
        /\ \A c \in BucketIds :
                Wait(c, last) \in Int /\ Wait(c, last) >= 1
                /\ Wait(c, last) <= 4
        /\ \A c \in BucketIds :
                Wait(c, b) \in Int /\ Wait(c, b) >= 1 /\ Wait(c, b) <= 4
    BY NextVisit
  <2> HIDE DEF b
  <2>6. ASSUME NEW c \in BucketIds \ {b}, s.decayItems[c] >= 1
        PROVE  /\ s.duration >= 8
               /\ s.left <= s.duration - 2 * (4 - Wait(c, b))
               /\ s.left >= s.duration - 2 * (4 - Wait(c, b)) - 2
    <3>1. IF r.duration >= 8
          THEN /\ r.left <= r.duration - 2 * (4 - Wait(c, last))
               /\ r.left >= r.duration - 2 * (4 - Wait(c, last)) - 2
          ELSE Wait(c, last) = 1
      BY <1>1, <2>2, <2>6 DEF InTime
    <3> QED
      BY <2>2, <2>3, <2>5, <3>1
  <2>7. s.decayItems[b] >= 1 =>
            /\ s.duration >= 1
            /\ s.duration >= 8 =>
                /\ s.left <= s.duration - 8
                /\ s.left >= s.duration - 10
    <3> SUFFICES ASSUME s.decayItems[b] >= 1
                 PROVE  /\ s.duration >= 1
                        /\ s.duration >= 8 =>
                            /\ s.left <= s.duration - 8
                            /\ s.left >= s.duration - 10
      OBVIOUS
    <3>1. IF r.duration >= 8
          THEN /\ r.left <= r.duration - 2 * (4 - Wait(b, last))
               /\ r.left >= r.duration - 2 * (4 - Wait(b, last)) - 2
          ELSE r.duration >= 1
      BY <1>1, <2>2, <2>5 DEF InTime
    <3> QED
      BY <2>2, <2>3, <2>5, <3>1
  <2>8. AtVisit(s, b)
    BY <2>4, <2>6, <2>7 DEF AtVisit
  <2> QED
    BY <2>8 DEF s, b
<1>2. CASE ~(r.kind = "lit" /\ ~r.touched)
  BY <1>2, ElapsedRecord DEF AtVisit
<1> QED
  BY <1>1, <1>2

\* ... after the visit, ...
LEMMA VisitedInTime ==
    ASSUME DecayAssumption, NEW r, Sane(r), NEW b \in BucketIds,
           AtVisit(r, b), NEW d \in Durations
    PROVE  InTime(VisitedAll(r, b, d), b, 2)
<1> DEFINE s == VisitedAll(r, b, d)
<1>1. Sane(s) /\ s.touched = r.touched
  BY VisitedAllSane
<1>2. /\ r \in ItemRecords /\ r.decayItems[b] \in Nat /\ r.duration \in Nat
      /\ r.left \in Int /\ Entries(r) \in Nat
  BY EntriesCounted DEF Sane
<1>3. CASE r.touched
  BY <1>1, <1>3 DEF InTime
<1>4. CASE ~r.touched /\ r.decayItems[b] = 0
  <2>1. s = r
    BY <1>4 DEF VisitedAll
  <2> HIDE DEF s
  <2>2. \A c \in BucketIds : r.decayItems[c] >= 1 => c \in BucketIds \ {b}
    BY <1>4
  <2>3. InTime(r, b, 2)
    BY <1>2, <2>2 DEF InTime, AtVisit
  <2> QED
    BY <2>1, <2>3 DEF s
<1>5. CASE ~r.touched /\ r.decayItems[b] >= 1
  <2>1. Entries(r) <= 1
    BY <1>5 DEF Sane
  <2>2. /\ r.toDecay = 0 /\ r.decayItems[b] = 1
        /\ \A c \in BucketIds \ {b} : r.decayItems[c] = 0
    <3> HIDE DEF s
    <3>1. r.toDecay = 0
      BY <1>2, <1>5, <2>1, OneEntry
    <3>2. r.decayItems[b] = 1
      BY <1>2, <1>5, <2>1, OneEntry
    <3>3. \A c \in BucketIds \ {b} : r.decayItems[c] = 0
      BY <1>2, <1>5, <2>1, OneEntry
    <3> QED
      BY <3>1, <3>2, <3>3
  <2>3. s = Visited(r, b, d)
    BY <2>2 DEF VisitedAll
  <2>4. CASE r.kind # "lit"
    <3>1. r.decayItems[b] >= 1
      BY <1>5
    <3>2. Visited(r, b, d).kind = r.kind
      BY <2>4, <3>1, VisitedOut
    <3>3. s.kind # "lit"
      BY <2>3, <2>4, <3>2
    <3> QED
      BY <3>3 DEF InTime
  <2>5. CASE r.kind = "lit" /\ Ends(r, b)
    <3>1. /\ s.decayItems[b] = 0
          /\ \A c \in BucketIds \ {b} : s.decayItems[c] = 0
          /\ s.kind = "lit" => s.duration = d /\ s.left = d
      <4>1. /\ Visited(r, b, d).decayItems[b] = r.decayItems[b] - 1
            /\ \A c \in BucketIds \ {b} :
                 Visited(r, b, d).decayItems[c] = r.decayItems[c]
            /\ Visited(r, b, d).kind = "lit" =>
                 /\ Visited(r, b, d).duration = d
                 /\ Visited(r, b, d).left = d
        BY <1>5, <2>5, VisitedEnds
      <4> QED
        BY <2>2, <2>3, <4>1
    <3> HIDE DEF s
    <3>2. \A c \in BucketIds : s.decayItems[c] = 0
      BY <3>1
    <3>3. d \in Nat /\ d >= 1
      BY DEF DecayAssumption
    <3>4. InTime(s, b, 2)
      BY <3>1, <3>2, <3>3 DEF InTime
    <3> QED
      BY <3>4 DEF s
  <2>6. CASE r.kind = "lit" /\ ~Ends(r, b)
             /\ r.duration - DecreaseTime(r) >= Round
    <3>1. /\ r.duration >= 16
          /\ s.decayItems = r.decayItems /\ s.toDecay = r.toDecay
          /\ s.duration = r.duration - 8 /\ s.left = r.left
      BY <1>5, <2>3, <2>6, VisitedStays
    <3>2. Wait(b, b) = 4
      BY Numbers DEF Wait
    <3>3. r.left <= r.duration - 8 /\ r.left >= r.duration - 10
      BY <1>2, <1>5, <2>6, <3>1 DEF AtVisit
    <3> HIDE DEF s
    <3>4. s.duration >= 8 /\ s.left <= s.duration /\ s.left >= s.duration - 2
          /\ s.duration \in Int /\ s.left \in Int
      BY <1>2, <3>1, <3>3
    <3>5. \A c \in BucketIds : s.decayItems[c] >= 1 => Wait(c, b) = 4
      BY <2>2, <3>1, <3>2
    <3>6. InTime(s, b, 2)
      BY <2>2, <3>1, <3>4, <3>5 DEF InTime
    <3> QED
      BY <3>6 DEF s
  <2>7. CASE r.kind = "lit" /\ ~Ends(r, b)
             /\ ~(r.duration - DecreaseTime(r) >= Round)
    <3> DEFINE n == (b + 1) % 4
    <3>1. /\ r.duration = 15
          /\ n \in BucketIds \ {b}
          /\ s.decayItems[b] = r.decayItems[b] - 1
          /\ \A c \in BucketIds \ {b, n} : s.decayItems[c] = r.decayItems[c]
          /\ s.toDecay = r.toDecay
          /\ s.duration = 7 /\ s.left = r.left
      BY <1>5, <2>3, <2>7, VisitedMoves
    <3>2. Wait(n, b) = 1
      BY NextVisit
    <3>3. r.left <= r.duration - 8 /\ r.left >= r.duration - 10
      BY <1>2, <1>5, <2>7, <3>1 DEF AtVisit
    <3> HIDE DEF s, n
    <3>4. s.duration = 7 /\ s.left <= 7 /\ s.left >= 5
      BY <1>2, <3>1, <3>3
    <3>5. \A c \in BucketIds : s.decayItems[c] >= 1 => c = n
      BY <2>2, <3>1
    <3>6. InTime(s, b, 2)
      BY <2>2, <3>1, <3>2, <3>4, <3>5 DEF InTime
    <3> QED
      BY <3>6 DEF s
  <2> QED
    BY <2>4, <2>5, <2>6, <2>7
<1> QED
  BY <1>2, <1>3, <1>4, <1>5

\* ... and after cleanup has put new entries into buckets.
LEMMA CleanedUpInTime ==
    ASSUME DecayAssumption, NEW r, Sane(r), NEW b \in BucketIds,
           InTime(r, b, 2)
    PROVE  InTime(CleanedUp(r, b), b, 0)
<1> DEFINE n == BucketOf(r, b)
           s == CleanedUp(r, b)
<1>1. /\ s.kind = r.kind /\ s.duration = r.duration /\ s.left = r.left
      /\ s.touched = r.touched /\ s.toDecay = 0
      /\ s.decayItems[n] = r.decayItems[n] + r.toDecay
      /\ \A c \in BucketIds \ {n} : s.decayItems[c] = r.decayItems[c]
  BY CleanedUpSane
<1>2. /\ r \in ItemRecords /\ r.duration \in Nat /\ r.left \in Int
      /\ r.toDecay \in Nat
      /\ \A c \in BucketIds : r.decayItems[c] \in Nat
  BY EntriesCounted DEF Sane
<1>3. n \in BucketIds /\ (r.duration >= 8 => Wait(n, b) = 4)
      /\ (~(r.duration >= 8) => Wait(n, b) = 1)
  <2>1. Wait(b, b) = 4
    BY Numbers DEF Wait
  <2>2. Wait((b + 1) % 4, b) = 1
    BY NextVisit
  <2> QED
    BY <1>2, <2>1, <2>2, BucketOfNumber
<1> HIDE DEF n, s
<1>4. CASE r.touched \/ r.kind # "lit"
  BY <1>1, <1>4 DEF InTime, s
<1>5. CASE ~r.touched /\ r.kind = "lit"
  <2>1. ASSUME NEW c \in BucketIds, s.decayItems[c] >= 1
        PROVE  IF r.duration >= 8
               THEN /\ r.left <= r.duration - 2 * (4 - Wait(c, b))
                    /\ r.left >= r.duration - 2 * (4 - Wait(c, b)) - 2
               ELSE /\ Wait(c, b) = 1 /\ r.duration >= 1
                    /\ r.left <= r.duration /\ r.left >= r.duration - 2
    <3>1. CASE r.decayItems[c] >= 1
      BY <1>5, <3>1 DEF InTime
    <3>2. CASE c = n /\ r.toDecay >= 1
      <4>1. /\ r.duration >= 1
            /\ r.left <= r.duration /\ r.left >= r.duration - 2
        BY <1>5, <3>2 DEF InTime
      <4>2. CASE r.duration >= 8
        <5>1. Wait(c, b) = 4
          BY <1>3, <3>2, <4>2
        <5> QED
          BY <1>2, <4>1, <4>2, <5>1
      <4>3. CASE ~(r.duration >= 8)
        BY <1>3, <3>2, <4>1, <4>3
      <4> QED
        BY <4>2, <4>3
    <3> QED
      BY <1>1, <1>2, <1>3, <2>1, <3>1, <3>2
  <2>2. InTime(s, b, 0)
    BY <1>1, <2>1 DEF InTime
  <2> QED
    BY <2>2 DEF s
<1> QED
  BY <1>4, <1>5

-----------------------------------------------------------------------------
\* Every record is sane, and every item nobody touched is in time.
DecayInv ==
    /\ DecayTypeOK
    /\ \A i \in Decaying : Sane(item[i]) /\ InTime(item[i], lastBucket, 0)

\* At the start there are no items.
LEMMA DecayBegins ==
    ASSUME DecayAssumption, DecayInit
    PROVE  DecayInv
<1>1. PICK burnsDown, stopTime \in BOOLEAN, stages \in 0 .. 1 :
        item = [i \in Decaying |->
            [kind |-> "none", duration |-> 0, decaying |-> FALSE,
             stages |-> stages, burnsDown |-> burnsDown, stopTime |-> stopTime,
             references |-> 0,
             toDecay |-> 0, decayItems |-> [b \in BucketIds |-> 0],
             toRelease |-> 0, left |-> 0, touched |-> FALSE]]
  BY DEF DecayInit
<1>2. lastBucket \in BucketIds
  BY Numbers DEF DecayInit
<1>3. 0 \in 0 .. MaxEntries
  BY DEF DecayAssumption
<1>4. [b \in BucketIds |-> 0] \in [BucketIds -> 0 .. MaxEntries]
  BY <1>3
<1>5. ASSUME NEW i \in Decaying
      PROVE  /\ item[i] \in ItemRecords /\ item[i].kind = "none"
             /\ item[i].toRelease = 0 /\ item[i].references = 0
             /\ item[i].toDecay = 0
             /\ item[i].decayItems = [b \in BucketIds |-> 0]
  BY <1>1, <1>3, <1>4 DEF ItemRecords
<1>6. ASSUME NEW i \in Decaying
      PROVE  Sane(item[i]) /\ InTime(item[i], lastBucket, 0)
  <2>1. Entries(item[i]) = 0
    BY <1>5, Numbers DEF Entries
  <2>2. 0 <= MaxEntries
    BY DEF DecayAssumption
  <2> QED
    BY <1>5, <2>1, <2>2 DEF Sane, InTime, Owned
<1>7. item \in [Decaying -> ItemRecords]
  BY <1>1, <1>5
<1> QED
  BY <1>2, <1>6, <1>7 DEF DecayInv, DecayTypeOK

\* One item becomes s.
LEMMA OneItemChanges ==
    ASSUME DecayAssumption, DecayInv, NEW i \in Decaying, NEW s,
           Sane(s), InTime(s, lastBucket, 0),
           item' = [item EXCEPT ![i] = s], lastBucket' = lastBucket
    PROVE  DecayInv'
<1>1. /\ item \in [Decaying -> ItemRecords] /\ lastBucket \in BucketIds
      /\ \A j \in Decaying :
            Sane(item[j]) /\ InTime(item[j], lastBucket, 0)
  BY DEF DecayInv, DecayTypeOK
<1>2. item' \in [Decaying -> ItemRecords]
  BY <1>1 DEF Sane
<1>3. ASSUME NEW j \in Decaying
      PROVE  Sane(item'[j]) /\ InTime(item'[j], lastBucket', 0)
  <2>1. item'[j] = IF j = i THEN s ELSE item[j]
    BY <1>1
  <2> QED
    BY <1>1, <2>1
<1> QED
  BY <1>1, <1>2, <1>3 DEF DecayInv, DecayTypeOK

\* Every step keeps the invariant of the lists ...
LEMMA DecayInvKept ==
    ASSUME DecayAssumption, DecayInv, [DecayNext]_DecayVars
    PROVE  DecayInv'
<1>1. /\ item \in [Decaying -> ItemRecords] /\ lastBucket \in BucketIds
      /\ \A i \in Decaying :
            Sane(item[i]) /\ InTime(item[i], lastBucket, 0)
  BY DEF DecayInv, DecayTypeOK
<1>2. ASSUME NEW i \in Decaying, NEW d \in Durations,
             NEW kind \in {"lit", "out"}, AddItem(i, kind, d)
      PROVE  DecayInv'
  <2> DEFINE r == item[i]
             s == NewItem(r, kind, d)
  <2>1. r.kind = "none" /\ item' = [item EXCEPT ![i] = s]
        /\ lastBucket' = lastBucket
    BY <1>2 DEF AddItem
  <2>2. Sane(r)
    BY <1>1
  <2>3. /\ Sane(s)
        /\ s.kind = kind /\ s.duration = d /\ s.left = d
        /\ s.toDecay = 1 /\ \A b \in BucketIds : s.decayItems[b] = 0
    <3> HIDE DEF r
    <3> QED
      BY <2>1, <2>2, AddedSane
  <2> HIDE DEF s
  <2>4. d \in Nat /\ d >= 1
    BY DEF DecayAssumption
  <2>5. InTime(s, lastBucket, 0)
    BY <2>3, <2>4 DEF InTime
  <2> QED
    BY <2>1, <2>3, <2>5, OneItemChanges
<1>3. ASSUME NEW i \in Decaying, MoveItem(i)
      PROVE  DecayInv'
  <2>1. /\ item[i].kind \in {"lit", "out"} /\ item[i].duration > 0
        /\ ~item[i].decaying /\ Entries(item[i]) < MaxEntries
        /\ item' = [item EXCEPT ![i] = Push(item[i])]
        /\ lastBucket' = lastBucket
    BY <1>3 DEF MoveItem
  <2>2. Sane(Push(item[i])) /\ Push(item[i]).touched
    BY <1>1, <2>1, MovedSane
  <2>3. InTime(Push(item[i]), lastBucket, 0)
    BY <2>2 DEF InTime
  <2> QED
    BY <2>1, <2>2, <2>3, OneItemChanges
<1>4. ASSUME NEW i \in Decaying, PutOut(i)
      PROVE  DecayInv'
  <2> DEFINE r == item[i]
             s == TurnedOff(r)
  <2>1. r.kind = "lit" /\ item' = [item EXCEPT ![i] = s]
        /\ lastBucket' = lastBucket
    BY <1>4 DEF PutOut
  <2>2. Sane(r)
    BY <1>1
  <2>3. Sane(s) /\ s.kind = "out"
    BY <2>1, <2>2, PutOutSane
  <2> HIDE DEF s
  <2>4. InTime(s, lastBucket, 0)
    BY <2>3 DEF InTime
  <2> QED
    BY <2>1, <2>3, <2>4, OneItemChanges
<1>5. ASSUME NEW i \in Decaying, NEW d \in Durations, Light(i, d)
      PROVE  DecayInv'
  <2> DEFINE r == item[i]
             s == StartDecay(TurnedOn(r, d), d)
  <2>1. r.kind = "out" /\ Entries(r) < MaxEntries
        /\ item' = [item EXCEPT ![i] = s] /\ lastBucket' = lastBucket
    BY <1>5 DEF Light
  <2>2. Sane(r)
    BY <1>1
  <2>3. Sane(s) /\ s.touched
    BY <2>1, <2>2, LitSane
  <2> HIDE DEF s
  <2>4. InTime(s, lastBucket, 0)
    BY <2>3 DEF InTime
  <2> QED
    BY <2>1, <2>3, <2>4, OneItemChanges
<1>6. ASSUME NEW i \in Decaying, RemoveItem(i)
      PROVE  DecayInv'
  <2> DEFINE s == ReleaseItem([item[i] EXCEPT !.kind = "removed"])
  <2>1. item[i].kind \in {"lit", "out"} /\ item' = [item EXCEPT ![i] = s]
        /\ lastBucket' = lastBucket
    BY <1>6 DEF RemoveItem
  <2>2. Sane(s) /\ s.kind = "removed"
    BY <1>1, <2>1, RemovedSane
  <2> HIDE DEF s
  <2>3. InTime(s, lastBucket, 0)
    BY <2>2 DEF InTime
  <2> QED
    BY <2>1, <2>2, <2>3, OneItemChanges
<1>7. ASSUME NEW d \in Durations, CheckDecay(d)
      PROVE  DecayInv'
  <2> DEFINE bucket == (lastBucket + 1) % 4
  <2>1. /\ lastBucket' = bucket
        /\ item' = [i \in Decaying |->
             CleanedUp(VisitedAll(Elapsed(item[i]), bucket, d), bucket)]
    BY <1>7, Numbers DEF CheckDecay
  <2>2. bucket \in BucketIds
    BY <1>1, NextVisit
  <2>3. ASSUME NEW i \in Decaying
        PROVE  Sane(item'[i]) /\ InTime(item'[i], lastBucket', 0)
    <3> DEFINE e == Elapsed(item[i])
               v == VisitedAll(e, bucket, d)
    <3>1. Sane(e)
      BY <1>1, ElapsedRecord
    <3>2. AtVisit(e, bucket)
      BY <1>1, ElapsedInTime
    <3> HIDE DEF e, bucket
    <3>3. Sane(v)
      BY <2>2, <3>1, VisitedAllSane
    <3>4. InTime(v, bucket, 2)
      BY <2>2, <3>1, <3>2, VisitedInTime
    <3> HIDE DEF v
    <3>5. Sane(CleanedUp(v, bucket))
      BY <2>2, <3>3, CleanedUpSane
    <3>6. InTime(CleanedUp(v, bucket), bucket, 0)
      BY <2>2, <3>3, <3>4, CleanedUpInTime
    <3>7. item'[i] = CleanedUp(v, bucket)
      BY <2>1 DEF v, e
    <3> QED
      BY <2>1, <3>5, <3>6, <3>7
  <2>4. item' \in [Decaying -> ItemRecords]
    <3>1. \A i \in Decaying : item'[i] \in ItemRecords
      BY <2>3 DEF Sane
    <3> QED
      BY <2>1, <3>1
  <2> QED
    BY <2>1, <2>2, <2>3, <2>4 DEF DecayInv, DecayTypeOK
<1>8. CASE CleanupItems
  <2>1. /\ lastBucket' = lastBucket
        /\ item' = [i \in Decaying |-> CleanedUp(item[i], lastBucket)]
    BY <1>8 DEF CleanupItems
  <2>2. ASSUME NEW i \in Decaying
        PROVE  Sane(item'[i]) /\ InTime(item'[i], lastBucket', 0)
    <3>1. item'[i] = CleanedUp(item[i], lastBucket)
      BY <2>1
    <3>2. Sane(item[i]) /\ InTime(item[i], lastBucket, 0)
      BY <1>1
    <3>3. item[i].duration \in Nat /\ item[i].left \in Int
      BY <3>2, EntriesCounted DEF Sane
    <3>4. InTime(item[i], lastBucket, 2)
      BY <3>2, <3>3 DEF InTime
    <3> QED
      BY <1>1, <2>1, <3>1, <3>2, <3>4, CleanedUpSane, CleanedUpInTime
  <2>3. item' \in [Decaying -> ItemRecords]
    <3>1. \A i \in Decaying : item'[i] \in ItemRecords
      BY <2>2 DEF Sane
    <3> QED
      BY <2>1, <3>1
  <2> QED
    BY <1>1, <2>1, <2>2, <2>3 DEF DecayInv, DecayTypeOK
<1>9. CASE UNCHANGED DecayVars
  BY <1>1, <1>9 DEF DecayInv, DecayTypeOK, DecayVars
<1> QED
  BY <1>2, <1>3, <1>4, <1>5, <1>6, <1>7, <1>8, <1>9 DEF DecayNext

\* ... which says that no item is freed, forgotten, counted twice or late.
LEMMA DecayInvIsEnough ==
    ASSUME DecayAssumption, DecayInv
    PROVE  DecaySound
<1>1. /\ lastBucket \in BucketIds
      /\ \A i \in Decaying :
            Sane(item[i]) /\ InTime(item[i], lastBucket, 0)
  BY DEF DecayInv, DecayTypeOK
<1>2. ReferencesMatchEntries
  BY <1>1 DEF ReferencesMatchEntries, Sane, Owned
<1>3. ListedWhileLit
  BY <1>1 DEF ListedWhileLit, Sane
<1>4. ListedOnce
  BY <1>1 DEF ListedOnce, Sane
<1>5. NeverLate
  BY <1>1, NotLate, Numbers DEF NeverLate
<1> QED
  BY <1>2, <1>3, <1>4, <1>5 DEF DecaySound, DecayInv

\* A visit that ends what an item has left comes in the round before.
LEMMA VisitEndsInTime ==
    ASSUME DecayAssumption, NEW r, Sane(r), NEW last \in BucketIds,
           InTime(r, last, 0), r.kind = "lit", ~r.touched,
           NEW d \in Durations,
           LET s == VisitedAll(Elapsed(r), (last + 1) % 4, d)
           IN s.stages < r.stages \/ s.kind = "out"
    PROVE  r.left - 2 < 8
<1> DEFINE b == (last + 1) % 4
           e == Elapsed(r)
<1>1. b \in BucketIds /\ Wait(b, last) = 1
  BY NextVisit
<1>2. r.left > -2
  BY NotLate
<1>3. /\ Sane(e) /\ e.kind = "lit" /\ e.stages = r.stages
      /\ e.duration = r.duration /\ ~e.touched
      /\ e.decayItems = r.decayItems
  BY <1>2, ElapsedRecord DEF SameLists
<1>4. /\ r.duration \in Nat /\ r.left \in Int /\ r.stages \in Int
      /\ e.decayItems[b] \in Nat /\ e \in ItemRecords
  BY <1>1, <1>3, EntriesCounted DEF Sane, ItemRecords
<1>5. VisitedAll(e, b, d).stages < e.stages \/ VisitedAll(e, b, d).kind = "out"
  BY <1>3
<1> HIDE DEF b, e
<1>6. e.decayItems[b] >= 1
  <2> SUFFICES ASSUME e.decayItems[b] = 0 PROVE FALSE
    BY <1>4
  <2>1. VisitedAll(e, b, d) = e
    BY DEF VisitedAll
  <2> QED
    BY <1>3, <1>4, <1>5, <2>1
<1>7. e.decayItems[b] = 1
  <2>1. Entries(e) <= 1
    BY <1>3 DEF Sane
  <2> QED
    BY <1>1, <1>4, <1>6, <2>1, OneEntry
<1>8. VisitedAll(e, b, d) = Visited(e, b, d)
  BY <1>7 DEF VisitedAll
<1>9. Ends(e, b)
  <2> SUFFICES ASSUME ~Ends(e, b) PROVE FALSE
    OBVIOUS
  <2>1. Visited(e, b, d).kind = "lit" /\ Visited(e, b, d).stages = e.stages
    BY <1>1, <1>3, <1>6, VisitedStays, VisitedMoves
  <2> QED
    BY <1>3, <1>4, <1>5, <1>8, <2>1
<1>10. r.duration < 16
  BY <1>3, <1>4, <1>9, Numbers DEF Ends, DecreaseTime
<1>11. IF r.duration >= 8
       THEN r.left <= r.duration - 2 * (4 - Wait(b, last))
       ELSE r.left <= r.duration
  BY <1>1, <1>3, <1>6 DEF InTime
<1> QED
  BY <1>1, <1>4, <1>10, <1>11

\* No step ends what an item has left more than a round before.
LEMMA EachEndsInTime ==
    ASSUME DecayAssumption, DecayInv, [DecayNext]_DecayVars
    PROVE  [EndsInTime]_DecayVars
<1> SUFFICES ASSUME NEW i \in Decaying, DecayNext,
                    item[i].kind = "lit", ~item'[i].touched,
                    item'[i].stages < item[i].stages \/ item'[i].kind = "out"
             PROVE  item[i].left - 2 < 8
  BY Numbers DEF EndsInTime
<1>1. /\ item \in [Decaying -> ItemRecords] /\ lastBucket \in BucketIds
      /\ \A j \in Decaying :
            Sane(item[j]) /\ InTime(item[j], lastBucket, 0)
  BY DEF DecayInv, DecayTypeOK
<1>2. item[i].stages \in Int
  BY <1>1 DEF ItemRecords
<1>3. item'[i] # item[i]
  BY <1>2
<1>4. ASSUME NEW j \in Decaying, NEW s, item' = [item EXCEPT ![j] = s]
      PROVE  j = i /\ item'[i] = s
  BY <1>1, <1>3, <1>4
<1>5. ASSUME NEW j \in Decaying, NEW d \in Durations,
             NEW kind \in {"lit", "out"}, AddItem(j, kind, d)
      PROVE  FALSE
  BY <1>4, <1>5 DEF AddItem
<1>6. ASSUME NEW j \in Decaying, MoveItem(j) PROVE FALSE
  <2>1. /\ j = i /\ ~item[i].decaying
    BY <1>4, <1>6 DEF MoveItem
  <2> QED
    BY <1>1, <2>1 DEF Sane
<1>7. ASSUME NEW j \in Decaying, PutOut(j) PROVE FALSE
  <2>1. j = i /\ item'[i] = TurnedOff(item[i])
    BY <1>4, <1>7 DEF PutOut
  <2> QED
    BY <1>1, <2>1, PutOutSane
<1>8. ASSUME NEW j \in Decaying, NEW d \in Durations, Light(j, d) PROVE FALSE
  BY <1>4, <1>8 DEF Light
<1>9. ASSUME NEW j \in Decaying, RemoveItem(j) PROVE FALSE
  <2> DEFINE q == [item[i] EXCEPT !.kind = "removed"]
  <2>1. j = i /\ item'[i] = ReleaseItem(q)
    BY <1>4, <1>9 DEF RemoveItem
  <2>2. item[i] \in ItemRecords
    BY <1>1
  <2>3. q \in ItemRecords
    BY <2>2, Zenon DEF ItemRecords
  <2>4. q.stages = item[i].stages /\ q.kind = "removed"
    BY <2>2 DEF ItemRecords
  <2> HIDE DEF q
  <2>5. ReleaseItem(q).kind = q.kind /\ ReleaseItem(q).stages = q.stages
    BY <2>3, ReleasedRecord DEF SameNature
  <2> QED
    BY <1>2, <2>1, <2>4, <2>5
<1>10. CASE CleanupItems
  <2>1. item'[i] = CleanedUp(item[i], lastBucket)
    BY <1>10 DEF CleanupItems
  <2>2. item'[i].kind = "lit" /\ item'[i].stages = item[i].stages
    BY <1>1, <2>1, CleanedUpSane
  <2> QED
    BY <1>2, <2>2
<1>11. ASSUME NEW d \in Durations, CheckDecay(d)
       PROVE  item[i].left - 2 < 8
  <2> DEFINE b == (lastBucket + 1) % 4
             e == Elapsed(item[i])
             v == VisitedAll(e, b, d)
  <2>1. item'[i] = CleanedUp(v, b)
    BY <1>11, Numbers DEF CheckDecay
  <2>2. b \in BucketIds
    BY <1>1, NextVisit
  <2>3. Sane(e) /\ e.touched = item[i].touched
    BY <1>1, ElapsedRecord
  <2>4. Sane(v) /\ v.touched = e.touched
    <3> HIDE DEF e, b
    <3> QED
      BY <2>2, <2>3, VisitedAllSane
  <2>5. /\ CleanedUp(v, b).kind = v.kind /\ CleanedUp(v, b).stages = v.stages
        /\ CleanedUp(v, b).touched = v.touched
    <3> HIDE DEF v, b
    <3> QED
      BY <2>2, <2>4, CleanedUpSane
  <2>6. ~item[i].touched /\ (v.stages < item[i].stages \/ v.kind = "out")
    BY <2>1, <2>3, <2>4, <2>5
  <2> QED
    BY <1>1, <2>6, VisitEndsInTime
<1> QED
  BY <1>5, <1>6, <1>7, <1>8, <1>9, <1>10, <1>11 DEF DecayNext

-----------------------------------------------------------------------------
(* The monsters of a spawn (Spawn).                                        *)

\* There are bodies enough for those who come.
LEMMA BodiesOfTheirOwn ==
    ASSUME NEW filled, NEW free, IsFiniteSet(filled), IsFiniteSet(free),
           Cardinality(filled) <= Cardinality(free)
    PROVE  /\ Inhabitants(filled, free) \in [filled -> free]
           /\ \A b, c \in filled : b # c =>
                Inhabitants(filled, free)[b] # Inhabitants(filled, free)[c]
<1> DEFINE n == Cardinality(filled)
           k == Cardinality(free)
<1>1. n \in Nat /\ k \in Nat /\ n <= k
  BY FS_CardinalityType
<1>2. PICK h : h \in Injection(1 .. k, free)
  <2>1. ExistsBijection(1 .. k, free)
    BY FS_CardinalityType
  <2> QED
    BY <2>1 DEF ExistsBijection, Bijection
<1>3. PICK g : g \in Injection(filled, 1 .. n)
  <2>1. IsFiniteSet(1 .. n) /\ Cardinality(1 .. n) = n
    <3>1. n # 0 => n - 1 + 1 = n
      BY <1>1
    <3> QED
      BY <1>1, <3>1, FS_Interval
  <2>2. ExistsBijection(filled, 1 .. n)
    BY <2>1, FS_SameCardinalityBij
  <2> QED
    BY <2>2 DEF ExistsBijection, Bijection
<1>4. /\ h \in [1 .. k -> free] /\ g \in [filled -> 1 .. n]
      /\ \A i, j \in 1 .. k : h[i] = h[j] => i = j
      /\ \A b, c \in filled : g[b] = g[c] => b = c
  BY <1>2, <1>3 DEF Injection, IsInjective
<1>5. \A b \in filled : g[b] \in 1 .. k
  BY <1>1, <1>4
<1> DEFINE f == [b \in filled |-> h[g[b]]]
<1>6. f \in [filled -> free]
  BY <1>4, <1>5
<1>7. \A b, c \in filled : b # c => f[b] # f[c]
  BY <1>4, <1>5
<1> HIDE DEF f
<1>8. \E e \in [filled -> free] : \A b, c \in filled : b # c => e[b] # e[c]
  BY <1>6, <1>7
<1> QED
  BY <1>8 DEF Inhabitants

OnePerBlock(key) ==
    \A m, n \in Bodies : m # n /\ key[m] \in Blocks => key[m] # key[n]

\* Each of the blocks that are filled gets a body of its own.
LEMMA MonstersAdded ==
    ASSUME SpawnAssumption,
           NEW key \in [Bodies -> Blocks \cup {0, Unlisted}],
           OnePerBlock(key),
           NEW filled, filled \subseteq Unfilled(key),
           NEW f \in [filled -> Bodies],
           \A b, c \in filled : b # c => f[b] # f[c],
           NEW m \in Bodies
    PROVE  /\ WithMonsters(key, f) \in [Bodies -> Blocks \cup {0, Unlisted}]
           /\ OnePerBlock(WithMonsters(key, f))
           /\ (\E b \in filled : f[b] = m)
                => WithMonsters(key, f)[m] \in Blocks
           /\ (\A b \in filled : f[b] # m)
                => WithMonsters(key, f)[m] = key[m]
<1> DEFINE after == WithMonsters(key, f)
           In(x) == \E b \in filled : f[b] = x
<1>1. filled \subseteq Blocks /\ DOMAIN f = filled
  BY DEF Unfilled
<1>2. \A x \in Bodies : In(x) =>
        after[x] \in filled /\ f[after[x]] = x
  BY <1>1 DEF WithMonsters
<1>3. \A x \in Bodies : ~In(x) => after[x] = key[x]
  BY <1>1 DEF WithMonsters
<1>4. after \in [Bodies -> Blocks \cup {0, Unlisted}]
  <2>1. \A x \in Bodies : after[x] \in Blocks \cup {0, Unlisted}
    BY <1>1, <1>2, <1>3
  <2> QED
    BY <2>1 DEF WithMonsters
<1>5. OnePerBlock(after)
  <2> SUFFICES ASSUME NEW x \in Bodies, NEW y \in Bodies, x # y,
                      after[x] \in Blocks, after[x] = after[y]
               PROVE  FALSE
    BY DEF OnePerBlock
  <2> HIDE DEF after, In
  <2>1. CASE In(x) /\ In(y)
    BY <1>2, <2>1
  <2>2. CASE In(x) /\ ~In(y)
    BY <1>2, <1>3, <2>2 DEF Unfilled
  <2>3. CASE ~In(x) /\ In(y)
    BY <1>2, <1>3, <2>3 DEF Unfilled
  <2>4. CASE ~In(x) /\ ~In(y)
    BY <1>3, <2>4 DEF OnePerBlock
  <2> QED
    BY <2>1, <2>2, <2>3, <2>4
<1>6. In(m) => after[m] \in Blocks
  BY <1>1, <1>2
<1> QED
  BY <1>3, <1>4, <1>5, <1>6

\* The startup leaves each block empty or with one monster.
LEMMA SpawnBegins == SpawnAssumption /\ SpawnInit => SpawnSound
<1> SUFFICES ASSUME SpawnAssumption, SpawnInit PROVE SpawnSound
  OBVIOUS
<1> DEFINE none == [m \in Bodies |-> Unlisted]
<1>1. PICK filled \in SUBSET Blocks :
        /\ spawnedAs = WithMonsters(none, Inhabitants(filled, Bodies))
        /\ rested = Blocks \ filled
  BY DEF SpawnInit
<1> DEFINE f == Inhabitants(filled, Bodies)
<1>2. f \in [filled -> Bodies] /\ \A b, c \in filled : b # c => f[b] # f[c]
  <2>1. /\ IsFiniteSet(filled) /\ IsFiniteSet(Bodies)
        /\ Cardinality(filled) <= Cardinality(Blocks)
        /\ Cardinality(Blocks) <= Cardinality(Bodies)
        /\ Cardinality(filled) \in Nat /\ Cardinality(Blocks) \in Nat
        /\ Cardinality(Bodies) \in Nat
    BY FS_Subset, FS_CardinalityType DEF SpawnAssumption
  <2>2. Cardinality(filled) <= Cardinality(Bodies)
    BY <2>1
  <2> QED
    BY <2>1, <2>2, BodiesOfTheirOwn
<1>3. /\ none \in [Bodies -> Blocks \cup {0, Unlisted}]
      /\ filled \subseteq Unfilled(none) /\ OnePerBlock(none)
  <2>1. \A b \in Blocks : b # Unlisted
    BY DEF SpawnAssumption, Unlisted
  <2> QED
    BY <2>1 DEF Unfilled, OnePerBlock
<1> HIDE DEF f, none
<1>4. spawnedAs = WithMonsters(none, f)
  BY <1>1 DEF f
<1>5. \A m \in Bodies :
        /\ spawnedAs \in [Bodies -> Blocks \cup {0, Unlisted}]
        /\ OnePerBlock(spawnedAs)
  BY <1>2, <1>3, <1>4, MonstersAdded
<1>6. spawnedAs \in [Bodies -> Blocks \cup {0, Unlisted}]
      /\ OnePerBlock(spawnedAs)
  <2>1. CASE Bodies = {}
    <3>1. spawnedAs = [m \in Bodies |-> spawnedAs[m]]
      BY <1>4 DEF WithMonsters
    <3> QED
      BY <2>1, <3>1 DEF OnePerBlock
  <2> QED
    BY <1>5, <2>1
<1>7. /\ stands \in [Bodies -> {"nowhere", "home", "away", "removed"}]
      /\ \A m \in Bodies :
            (spawnedAs[m] = Unlisted) <=> (stands[m] = "nowhere")
      /\ \A m \in Bodies : stands[m] # "removed"
      /\ checkEvent = FALSE /\ everChecked = FALSE
  BY DEF SpawnInit
<1> QED
  BY <1>1, <1>6, <1>7
     DEF SpawnSound, SpawnTypeOK, OneMonsterPerBlock, OnePerBlock,
         RemovedAwaitCheck, RestsOnlyWhenFull

\* What cleanup leaves in the map is what stands somewhere.
LEMMA CleanedUpKeys ==
    ASSUME SpawnAssumption, SpawnSound
    PROVE  /\ CleanedUpSpawn(spawnedAs)
                \in [Bodies -> Blocks \cup {0, Unlisted}]
           /\ OnePerBlock(CleanedUpSpawn(spawnedAs))
           /\ \A m \in Bodies : CleanedUpSpawn(spawnedAs)[m] # Unlisted =>
                stands[m] \in {"home", "away"}
<1> DEFINE key == CleanedUpSpawn(spawnedAs)
<1>1. /\ stands \in [Bodies -> {"nowhere", "home", "away", "removed"}]
      /\ spawnedAs \in [Bodies -> Blocks \cup {0, Unlisted}]
      /\ \A m \in Bodies :
            (spawnedAs[m] = Unlisted) <=> (stands[m] = "nowhere")
      /\ OnePerBlock(spawnedAs)
  BY DEF SpawnSound, SpawnTypeOK, OneMonsterPerBlock, OnePerBlock
<1>2. \A m \in Bodies : key[m] \in {Unlisted, 0, spawnedAs[m]}
  BY DEF CleanedUpSpawn
<1>3. key \in [Bodies -> Blocks \cup {0, Unlisted}]
  BY <1>1 DEF CleanedUpSpawn
<1>4. Unlisted # 0 /\ \A b \in Blocks : b # Unlisted /\ b # 0
  BY DEF SpawnAssumption, Unlisted
<1>5. \A m \in Bodies : key[m] \in Blocks => key[m] = spawnedAs[m]
  BY <1>2, <1>4
<1>6. OnePerBlock(key)
  BY <1>1, <1>5 DEF OnePerBlock
<1>7. \A m \in Bodies : key[m] # Unlisted => stands[m] \in {"home", "away"}
  BY <1>1 DEF CleanedUpSpawn
<1> QED
  BY <1>3, <1>6, <1>7

\* A check fills blocks that have no monster and looks at no other.
LEMMA CheckSpawnKeeps ==
    ASSUME SpawnAssumption, SpawnSound, NEW willing \in SUBSET Blocks,
           CheckSpawn(willing)
    PROVE  SpawnSound'
<1> DEFINE key == CleanedUpSpawn(spawnedAs)
           free == Bodies \ Listed(key)
           filled == Filled(Wanting(key), willing)
           f == Inhabitants(filled, free)
           after == WithMonsters(key, f)
<1>1. /\ Cardinality(filled) <= Cardinality(free)
      /\ spawnedAs' = after /\ stands' = Standing(key, f)
      /\ checkEvent' = Missing(after) /\ checkEvent
      /\ rested' \subseteq rested /\ everChecked' = everChecked
  BY DEF CheckSpawn
<1>2. /\ key \in [Bodies -> Blocks \cup {0, Unlisted}] /\ OnePerBlock(key)
      /\ \A m \in Bodies : key[m] # Unlisted => stands[m] \in {"home", "away"}
  BY CleanedUpKeys
<1>3. filled \subseteq Unfilled(key) /\ filled \subseteq Blocks
  BY DEF Filled, Wanting, Unfilled
<1>4. IsFiniteSet(filled) /\ IsFiniteSet(free) /\ free \subseteq Bodies
  BY <1>3, FS_Subset DEF SpawnAssumption
<1>5. f \in [filled -> free] /\ \A b, c \in filled : b # c => f[b] # f[c]
  BY <1>1, <1>4, BodiesOfTheirOwn
<1>6. f \in [filled -> Bodies] /\ DOMAIN f = filled
  BY <1>4, <1>5
<1>7. stands' = [m \in Bodies |-> IF \E b \in filled : f[b] = m THEN "home"
                                  ELSE IF key[m] = Unlisted THEN "nowhere"
                                  ELSE stands[m]]
  BY <1>1, <1>6 DEF Standing
<1> HIDE DEF key, free, filled, f
<1>8. after = WithMonsters(key, f)
  OBVIOUS
<1> HIDE DEF after
<1>9. \A m \in Bodies :
        /\ after \in [Bodies -> Blocks \cup {0, Unlisted}]
        /\ OnePerBlock(after)
        /\ (\E b \in filled : f[b] = m) => after[m] \in Blocks
        /\ (\A b \in filled : f[b] # m) => after[m] = key[m]
  <2>1. /\ key \in [Bodies -> Blocks \cup {0, Unlisted}]
        /\ OnePerBlock(key)
        /\ filled \subseteq Unfilled(key)
        /\ f \in [filled -> Bodies]
        /\ \A b, c \in filled : b # c => f[b] # f[c]
    BY <1>2, <1>3, <1>5, <1>6
  <2> QED
    BY <1>8, <2>1, MonstersAdded
<1>10. /\ after \in [Bodies -> Blocks \cup {0, Unlisted}]
      /\ OnePerBlock(after)
  <2>1. CASE Bodies = {}
    <3>1. after = [m \in Bodies |-> after[m]]
      BY DEF after, WithMonsters
    <3> QED
      BY <2>1, <3>1 DEF OnePerBlock
  <2> QED
    BY <1>9, <2>1
<1>11. \A b \in Blocks : b # Unlisted
  BY DEF SpawnAssumption, Unlisted
<1>12. /\ stands' \in [Bodies -> {"nowhere", "home", "away", "removed"}]
       /\ \A m \in Bodies :
            /\ (after[m] = Unlisted) <=> (stands'[m] = "nowhere")
            /\ stands'[m] # "removed"
  <2>1. ASSUME NEW m \in Bodies
        PROVE  /\ stands'[m] \in {"nowhere", "home", "away"}
               /\ (after[m] = Unlisted) <=> (stands'[m] = "nowhere")
    <3>1. CASE \E b \in filled : f[b] = m
      BY <1>7, <1>9, <1>11, <3>1
    <3>2. CASE \A b \in filled : f[b] # m
      BY <1>2, <1>7, <1>9, <3>2
    <3> QED
      BY <3>1, <3>2
  <2> QED
    BY <1>7, <2>1
<1>13. Cardinality(Listed(after)) \in Nat /\ Cardinality(Blocks) \in Nat
  <2>1. Listed(after) \subseteq Bodies
    BY DEF Listed
  <2> QED
    BY <2>1, FS_Subset, FS_CardinalityType DEF SpawnAssumption
<1>14. checkEvent' \in BOOLEAN /\
       (~checkEvent' => Cardinality(Listed(after)) >= Cardinality(Blocks))
  <2> DEFINE few == Cardinality(Listed(after)) < Cardinality(Blocks)
  <2>1. checkEvent' = few
    BY <1>1 DEF Missing, after
  <2>2. few \in BOOLEAN /\ (~few => Cardinality(Listed(after)) >=
                                      Cardinality(Blocks))
    BY <1>13
  <2> HIDE DEF few
  <2> QED
    BY <2>1, <2>2
<1>15. SpawnTypeOK'
  BY <1>1, <1>10, <1>12, <1>14 DEF SpawnSound, SpawnTypeOK
<1>16. OneMonsterPerBlock' /\ RemovedAwaitCheck'
  BY <1>1, <1>10, <1>12 DEF OneMonsterPerBlock, OnePerBlock, RemovedAwaitCheck
<1>17. RestsOnlyWhenFull'
  BY <1>1, <1>14 DEF RestsOnlyWhenFull
<1> QED
  BY <1>15, <1>16, <1>17 DEF SpawnSound

\* The soundness of a spawn is inductive as it stands.
LEMMA SpawnSoundKept ==
    ASSUME SpawnAssumption, SpawnSound, [SpawnNext]_SpawnVars
    PROVE  SpawnSound'
<1> USE DEF SpawnSound
<1>1. ASSUME NEW m \in Bodies, RemoveSpawned(m)
      PROVE  SpawnSound'
  BY <1>1 DEF RemoveSpawned, StartSpawnCheck, SpawnTypeOK,
              OneMonsterPerBlock, RemovedAwaitCheck, RestsOnlyWhenFull
<1>2. ASSUME NEW m \in Bodies, NEW place \in {"away", "home"},
             Wander(m, place)
      PROVE  SpawnSound'
  <2>1. UNCHANGED <<spawnedAs, rested, checkEvent, everChecked>>
    BY <1>2 DEF Wander
  <2>2. \A n \in Bodies : /\ stands'[n] = "removed" <=> stands[n] = "removed"
                          /\ stands'[n] = "nowhere" <=> stands[n] = "nowhere"
    BY <1>2 DEF Wander, SpawnTypeOK
  <2>3. SpawnTypeOK'
    BY <1>2, <2>1, <2>2 DEF Wander, SpawnTypeOK
  <2> QED
    BY <2>1, <2>2, <2>3
       DEF OneMonsterPerBlock, RemovedAwaitCheck, RestsOnlyWhenFull, Listed
<1>3. ASSUME NEW b \in Blocks, Rest(b)
      PROVE  SpawnSound'
  BY <1>3 DEF Rest, SpawnTypeOK, OneMonsterPerBlock, RemovedAwaitCheck,
              RestsOnlyWhenFull, Listed
<1>4. CASE UNCHANGED SpawnVars
  BY <1>4 DEF SpawnVars, SpawnTypeOK, OneMonsterPerBlock, RemovedAwaitCheck,
              RestsOnlyWhenFull, Listed
<1> QED
  BY <1>1, <1>2, <1>3, <1>4, CheckSpawnKeeps DEF SpawnNext

-----------------------------------------------------------------------------
(* Upkeep: in a behaviour of one component the others stay as they begin.  *)

LEMMA EachKeepsItsOwn ==
    ASSUME [Next]_Vars
    PROVE  /\ [ServerNext]_ServerVars /\ [DatabaseNext]_DatabaseVars
           /\ [DecayNext]_DecayVars /\ [SpawnNext]_SpawnVars
<1>1. CASE UNCHANGED Vars
  BY <1>1 DEF Vars, ItemVars, MonsterVars
<1>2. CASE ServerStep
  BY <1>2 DEF ServerStep, ItemVars, MonsterVars
<1>3. CASE DatabaseStep
  BY <1>3 DEF DatabaseStep, ItemVars, MonsterVars
<1>4. CASE LoginStep
  BY <1>4 DEF LoginStep, ItemVars, MonsterVars
<1>5. CASE MarketStep
  BY <1>5 DEF MarketStep, MonsterVars
<1>6. CASE DecayStep
  BY <1>6 DEF DecayStep, MonsterVars
<1>7. CASE SpawnStep
  BY <1>7 DEF SpawnStep, ItemVars
<1>8. CASE RaidsStep
  BY <1>8 DEF RaidsStep, ItemVars
<1>9. CASE WalkingStep
  BY <1>9 DEF WalkingStep, ItemVars, MonsterVars
<1> QED
  BY <1>1, <1>2, <1>3, <1>4, <1>5, <1>6, <1>7, <1>8, <1>9 DEF Next

\* Every accepted query is run before the shutdown of the thread is done, in
\* the order in which they came, and none waits while the thread sleeps
\* (databasetasks.cpp); for any queries and any number of threads that add
\* them.
THEOREM QueriesAreServed == Spec => []QueueSound
<1>1. Init => QueueInv
  BY QueueBegins DEF Init
<1>2. QueueInv /\ [Next]_Vars => QueueInv'
  BY EachKeepsItsOwn, QueueInvKept, QueriesAssumption
<1>3. QueueInv => QueueSound
  BY QueueInvIsEnough
<1> QED
  BY <1>1, <1>2, <1>3, PTL DEF Spec

\* A port of a running server accepts clients or is about to be opened again,
\* by one attempt and not by two (server.cpp); for any number of errors and
\* connections.
THEOREM ServerIsSound == Spec => []ServerSound
<1>1. Init => ServerInv /\ ThreadsFit
  BY ServerBegins, ServerAssumption DEF Init, ServerInit, ThreadsFit
<1>2. ServerInv /\ ThreadsFit /\ [Next]_Vars => (ServerInv /\ ThreadsFit)'
  BY EachKeepsItsOwn, ServerInvKept, ThreadsFitKept, ServerAssumption
<1>3. ServerInv /\ ThreadsFit => ServerSound
  BY ServerInvIsEnough
<1> QED
  BY <1>1, <1>2, <1>3, PTL DEF Spec

\* A block has one monster at most, what was removed is looked for by a check,
\* and a spawn rests only when it is full (spawn.cpp); for any spawn, and any
\* rate.
THEOREM SpawnIsSound == Spec => []SpawnSound
<1>1. Init => SpawnSound
  BY SpawnBegins, SpawnAssumption DEF Init
<1>2. SpawnSound /\ [Next]_Vars => SpawnSound'
  BY EachKeepsItsOwn, SpawnSoundKept, SpawnAssumption
<1> QED
  BY <1>1, <1>2, PTL DEF Spec

LEMMA DecayInvHolds == Spec => []DecayInv
<1>1. Init => DecayInv
  BY DecayBegins, DecayAssumption DEF Init
<1>2. DecayInv /\ [Next]_Vars => DecayInv'
  BY EachKeepsItsOwn, DecayInvKept, DecayAssumption
<1> QED
  BY <1>1, <1>2, PTL DEF Spec

\* The references of an item are those of its owner and its entries, what
\* should decay is in a list, once unless it was put out and lit, and is at
\* most an interval late (game.cpp, checkDecay); for any items and durations.
THEOREM DecayIsSound == Spec => []DecaySound
<1>1. DecayInv => DecaySound
  BY DecayInvIsEnough, DecayAssumption
<1> QED
  BY <1>1, DecayInvHolds, PTL

\* Nothing that is left alone ends more than a round before its time.
THEOREM NoneDecaysTooEarly == Spec => NotTooEarly
<1>1. DecayInv /\ [Next]_Vars => [EndsInTime]_DecayVars
  BY EachKeepsItsOwn, EachEndsInTime, DecayAssumption
<1> QED
  BY <1>1, DecayInvHolds, PTL DEF Spec, NotTooEarly
=============================================================================
