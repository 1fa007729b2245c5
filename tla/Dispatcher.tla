----------------------------- MODULE Dispatcher -----------------------------
(***************************************************************************)
(* The Dispatcher of src/sources/src/tasks.{h,cpp} and the two ways its    *)
(* thread is brought down: Game::setGameState(GAME_STATE_SHUTDOWN), run by *)
(* a task on the dispatcher thread itself, and main() when no service      *)
(* could be started.                                                       *)
(*                                                                         *)
(* A critical section of taskLock is one step: nothing blocks inside one,  *)
(* except taskSignal.wait, which releases the lock and is a program        *)
(* location of its own.  notify_one() of addTask runs AFTER the lock was   *)
(* released and is a step of its own; those of shutdown() run under it.    *)
(***************************************************************************)
EXTENDS Naturals, Sequences

CONSTANTS
    Producers,      \* threads that call addTask: network, scheduler, database
    Tasks,          \* ordinary tasks
    Timed,          \* those created with an expiration (addGameTaskTimed)
    CloseTasks,     \* those whose body calls setGameState(GAME_STATE_SHUTDOWN)
    ShutdownTask,   \* the task bound to Game::shutdown
    TerminateTask   \* the task Dispatcher::shutdown pushes

ASSUME TasksAssumption ==
    /\ Timed \subseteq Tasks
    /\ CloseTasks \subseteq Tasks \ Timed
    /\ ShutdownTask \notin Tasks
    /\ TerminateTask \notin Tasks
    /\ ShutdownTask # TerminateTask

AllTasks == Tasks \cup {ShutdownTask, TerminateTask}

VARIABLES
    threadState,    \* ThreadHolder::threadState
    taskList,       \* Dispatcher::taskList
    batch,          \* the tasks of tmpTaskList the loop has not reached yet
    pc,             \* where threadMain is
    signaled,       \* threadMain is in taskSignal.wait and was notified
    notifying,      \* producers between taskLock.unlock() and notify_one()
    late,           \* tasks whose expiration time has passed
    services,       \* what main() finds: "running" (is_running()) or "none"
    gameState,      \* Game::gameState: "up" or "shutdown"
    fresh,          \* history: tasks nobody has created yet
    submitted,      \* history: every task ever put in taskList, in order
    log,            \* history: every task the loop has reached, in order
    ran             \* history: every task whose body was called

vars == <<threadState, taskList, batch, pc, signaled, notifying, late,
          services, gameState, fresh, submitted, log, ran>>

\* main() goes on with serviceManager.run().
Online == services = "running"

queue == <<taskList, submitted, fresh>>
loop  == <<batch, log, ran>>
condvar == <<signaled, notifying>>
env == <<late, services>>

-----------------------------------------------------------------------------
Init ==
    /\ threadState = "running"
    /\ taskList = <<>>
    /\ batch = <<>>
    /\ pc = "test"
    /\ signaled = FALSE
    /\ notifying = {}
    /\ late = {}
    /\ services \in {"running", "none"}
    /\ gameState = "up"
    /\ fresh = AllTasks
    /\ submitted = <<>>
    /\ log = <<>>
    /\ ran = {}

\* taskList.push_back(task)
PushFrontMutant(t) ==
    /\ taskList' = <<t>> \o taskList
    /\ submitted' = Append(submitted, t)
    /\ fresh' = fresh \ {t}

Push(t) ==
    /\ taskList' = Append(taskList, t)
    /\ submitted' = Append(submitted, t)
    /\ fresh' = fresh \ {t}

\* The other branch of addTask: delete task.
Reject(t) ==
    /\ fresh' = fresh \ {t}
    /\ UNCHANGED <<taskList, submitted>>

\* The critical section of addTask: whoever calls it learns nothing.
PushIfRunning(t) ==
    IF threadState = "running" THEN Push(t) ELSE Reject(t)

-----------------------------------------------------------------------------
(* The producer threads.                                                   *)

AddTaskSignalNonEmptyMutant(p, t) ==
    /\ p \notin notifying
    /\ t \in fresh
    /\ t \in CloseTasks => Online
    /\ PushIfRunning(t)
    /\ notifying' = IF threadState = "running" /\ taskList # <<>>
                      THEN notifying \cup {p}
                      ELSE notifying
    /\ UNCHANGED <<threadState, loop, pc, signaled, env, gameState>>

\* do_signal remembers, across the unlock, that the list was empty.  The
\* signals that shut the server down are served by serviceManager.run(),
\* hence only when the server is online.
AddTask(p, t) ==
    /\ p \notin notifying
    /\ t \in fresh
    /\ t \in CloseTasks => Online
    /\ PushIfRunning(t)
    /\ notifying' = IF threadState = "running" /\ taskList = <<>>
                      THEN notifying \cup {p}
                      ELSE notifying
    /\ UNCHANGED <<threadState, loop, pc, signaled, env, gameState>>

\* taskSignal.notify_one(): it wakes the dispatcher only if it is waiting now.
NotifyOne == signaled' = (signaled \/ pc = "wait")

Notify(p) ==
    /\ p \in notifying
    /\ notifying' = notifying \ {p}
    /\ NotifyOne
    /\ UNCHANGED <<threadState, queue, loop, pc, env, gameState>>

\* The clock passes the expiration of a task.
Expire(t) ==
    /\ t \in Timed \ late
    /\ late' = late \cup {t}
    /\ UNCHANGED <<threadState, queue, loop, pc, condvar, services, gameState>>

-----------------------------------------------------------------------------
(* threadMain.                                                             *)

TestState ==
    /\ pc = "test"
    /\ pc' = IF threadState = "terminated" THEN "done" ELSE "lock"
    /\ UNCHANGED <<threadState, queue, loop, condvar, env, gameState>>

\* tmpTaskList.swap(taskList)
SwapLists ==
    /\ batch' = taskList
    /\ taskList' = <<>>
    /\ pc' = "run"

LockAndSwap ==
    /\ pc = "lock"
    /\ taskList # <<>>
    /\ SwapLists
    /\ UNCHANGED <<threadState, submitted, fresh, log, ran, condvar, env,
                   gameState>>

LockAndWait ==
    /\ pc = "lock"
    /\ taskList = <<>>
    /\ pc' = "wait"
    /\ UNCHANGED <<threadState, queue, loop, condvar, env, gameState>>

WakeKeepsSignalMutant ==
    /\ pc = "wait"
    /\ signaled
    /\ SwapLists
    /\ UNCHANGED <<threadState, submitted, fresh, log, ran, condvar, env,
                   gameState>>

\* wait() returns with the lock held, and the list is taken at once, whatever
\* it holds by then.
Wake ==
    /\ pc = "wait"
    /\ signaled
    /\ signaled' = FALSE
    /\ SwapLists
    /\ UNCHANGED <<threadState, submitted, fresh, log, ran, notifying, env,
                   gameState>>

\* A condition variable may also wake its waiter for no reason: the code does
\* not test a predicate and goes on with what may be an empty list.
SpuriousWake ==
    /\ pc = "wait"
    /\ ~signaled
    /\ SwapLists
    /\ UNCHANGED <<threadState, submitted, fresh, log, ran, condvar, env,
                   gameState>>

HasExpiredNoZeroTestMutant(t) == t \notin Timed \/ t \in late

\* Task::hasExpired(): the expiration of a task created without one is the
\* epoch, which means never.
HasExpired(t) == t \in Timed /\ t \in late

\* The loop reaches a task that has not expired and calls it ...
RunTask ==
    /\ pc = "run"
    /\ batch # <<>>
    /\ ~HasExpired(Head(batch))
    /\ log' = Append(log, Head(batch))
    /\ ran' = ran \cup {Head(batch)}
    /\ batch' = Tail(batch)
    /\ pc' = "exec"
    /\ UNCHANGED <<threadState, queue, condvar, env, gameState>>

\* ... or one that has, and deletes it.
DropTask ==
    /\ pc = "run"
    /\ batch # <<>>
    /\ HasExpired(Head(batch))
    /\ log' = Append(log, Head(batch))
    /\ batch' = Tail(batch)
    /\ UNCHANGED <<threadState, queue, ran, pc, condvar, env, gameState>>

EndBatch ==
    /\ pc = "run"
    /\ batch = <<>>
    /\ pc' = "test"
    /\ UNCHANGED <<threadState, queue, loop, condvar, env, gameState>>

\* The task whose body is being run.
Current == log[Len(log)]

-----------------------------------------------------------------------------
(* The bodies of the tasks, as far as they act on the dispatcher.          *)

\* Any body may add tasks: game logic, Protocol::release of kicked players,
\* callbacks.  The dispatcher thread is not waiting, so that its own
\* notify_one() wakes nobody.
BodyAddsTask(t) ==
    /\ pc = "exec"
    /\ Current \in Tasks
    /\ t \in fresh \cap Tasks
    /\ t \in CloseTasks => Online
    /\ PushIfRunning(t)
    /\ UNCHANGED <<threadState, loop, pc, condvar, env, gameState>>

\* The body returns: delete task, next iteration.
EndTask ==
    /\ pc = "exec"
    /\ \/ Current \in Tasks \ CloseTasks
       \/ Current \in CloseTasks /\ gameState = "shutdown"
    /\ pc' = "run"
    /\ UNCHANGED <<threadState, queue, loop, condvar, env, gameState>>

\* Game::setGameState(GAME_STATE_SHUTDOWN), up to and including the addTask of
\* Game::shutdown.  A second call returns early: that is EndTask.
SetShutdown ==
    /\ pc = "exec"
    /\ Current \in CloseTasks
    /\ gameState = "up"
    /\ gameState' = "shutdown"
    /\ PushIfRunning(ShutdownTask)
    /\ pc' = "stop"
    /\ UNCHANGED <<threadState, loop, condvar, env>>

StopMissingMutant ==
    /\ pc = "stop"
    /\ pc' = "run"
    /\ UNCHANGED <<threadState, queue, loop, condvar, env, gameState>>

\* ... and its end: g_dispatcher.stop().
Stop ==
    /\ pc = "stop"
    /\ threadState' = "closing"
    /\ pc' = "run"
    /\ UNCHANGED <<queue, loop, condvar, env, gameState>>

GameShutdownKeepsDispatcherMutant ==
    /\ pc = "exec"
    /\ Current = ShutdownTask
    /\ pc' = "run"
    /\ UNCHANGED <<threadState, queue, loop, condvar, env, gameState>>

\* Game::shutdown calls g_dispatcher.shutdown(), which pushes whatever the
\* state is.
GameShutdown ==
    /\ pc = "exec"
    /\ Current = ShutdownTask
    /\ Push(TerminateTask)
    /\ pc' = "run"
    /\ UNCHANGED <<threadState, loop, condvar, env, gameState>>

\* The lambda of Dispatcher::shutdown().
Terminate ==
    /\ pc = "exec"
    /\ Current = TerminateTask
    /\ threadState' = "terminated"
    /\ pc' = "run"
    /\ UNCHANGED <<queue, loop, condvar, env, gameState>>

-----------------------------------------------------------------------------
(* main() when no service is running.                                      *)

MainShutdown ==
    /\ ~Online
    /\ TerminateTask \in fresh
    /\ Push(TerminateTask)
    /\ NotifyOne
    /\ UNCHANGED <<threadState, loop, pc, notifying, env, gameState>>

-----------------------------------------------------------------------------
ThreadMain ==
    \/ TestState
    \/ LockAndSwap
    \/ LockAndWait
    \/ Wake
    \/ RunTask
    \/ DropTask
    \/ EndBatch
    \/ EndTask
    \/ SetShutdown
    \/ Stop
    \/ GameShutdown
    \/ Terminate

Next ==
    \/ \E p \in Producers, t \in Tasks : AddTask(p, t)
    \/ \E p \in Producers : Notify(p)
    \/ \E t \in Tasks : Expire(t)
    \/ ThreadMain
    \/ SpuriousWake
    \/ \E t \in Tasks : BodyAddsTask(t)
    \/ MainShutdown

\* The threads are scheduled and the bodies of tasks end; nobody has to add a
\* task, no deadline has to pass, and no wake-up has to be spurious.
Fairness ==
    /\ WF_vars(ThreadMain)
    /\ \A p \in Producers : WF_vars(Notify(p))
    /\ WF_vars(MainShutdown)

Spec == Init /\ [][Next]_vars /\ Fairness

-----------------------------------------------------------------------------
(* Properties.                                                             *)

\* Every variable has its type; a wake-up is pending only while threadMain
\* waits, and there is a current task whenever a body runs.
TypeOK ==
    /\ threadState \in {"running", "closing", "terminated"}
    /\ taskList \in Seq(AllTasks)
    /\ batch \in Seq(AllTasks)
    /\ pc \in {"test", "lock", "wait", "run", "exec", "stop", "done"}
    /\ signaled \in BOOLEAN
    /\ signaled => pc = "wait"
    /\ notifying \subseteq Producers
    /\ late \subseteq Timed
    /\ services \in {"running", "none"}
    /\ gameState \in {"up", "shutdown"}
    /\ fresh \subseteq AllTasks
    /\ submitted \in Seq(AllTasks)
    /\ log \in Seq(AllTasks)
    /\ ran \subseteq AllTasks
    /\ pc \in {"exec", "stop"} => log # <<>>

\* Tasks are reached in the order addTask accepted them, whichever thread
\* added them and however they were cut into batches: what was accepted is
\* what was reached, then the rest of the batch, then the list (the game logic
\* relies on it: a packet's task runs before the task of the next packet).
DispatchOrder ==
    /\ Len(submitted) = Len(log) + Len(batch) + Len(taskList)
    /\ \A i \in 1 .. Len(log) : log[i] = submitted[i]
    /\ \A i \in 1 .. Len(batch) : batch[i] = submitted[Len(log) + i]
    /\ \A i \in 1 .. Len(taskList) :
          taskList[i] = submitted[Len(log) + Len(batch) + i]

\* addTask notifies only when it finds the list empty, after it released the
\* lock, and threadMain waits without a predicate: still, whenever threadMain
\* waits while the list holds a task, it was notified or is about to be.
NoLostWakeup ==
    pc = "wait" /\ taskList # <<>> => signaled \/ notifying # {}

\* When an online server's dispatcher thread ends, it has reached every task
\* that addTask ever accepted: what was accepted while the server was closing
\* is not abandoned in the list.
DrainedAtExit ==
    pc = "done" /\ Online => Len(log) = Len(submitted)

\* Once setGameState(GAME_STATE_SHUTDOWN) ran, or main() found no service
\* running, the dispatcher thread ends, so that g_dispatcher.join() returns.
Exits == (gameState = "shutdown" \/ ~Online) ~> (pc = "done")

\* The dispatcher implements the queue the rest of the server relies on.
phase ==
    CASE threadState = "running"    -> "open"
      [] threadState = "closing"    -> "closed"
      [] threadState = "terminated" -> "halted"

Queue == INSTANCE TaskQueue WITH Tasks <- AllTasks, HaltTask <- TerminateTask

\* Every accepted task is handled, in order and at most once, and only a task
\* with a deadline may be skipped; see TaskQueue.
Implements == Queue!QueueSpec
=============================================================================
