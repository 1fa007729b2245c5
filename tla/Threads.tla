------------------------------- MODULE Threads -------------------------------
(***************************************************************************)
(* The scheduler's thread and the dispatcher's, together: an event whose   *)
(* wait has ended is a task, which the scheduler's thread gives to         *)
(* addTask, and both threads are brought down by the same one, which is    *)
(* the dispatcher's own (Game::shutdown) or main.                          *)
(*                                                                         *)
(* The same run checks each of the two by itself with more tasks, in       *)
(* behaviours of their own, in which the other one stays as it begins.     *)
(***************************************************************************)
EXTENDS Dispatcher, Scheduler

CONSTANTS
    TimerThread,    \* the producer that is the scheduler's thread
    Shared,         \* the tasks of the behaviours of both
    Alone           \* those of the dispatcher's behaviours

ASSUME ThreadsAssumption ==
    /\ TimerThread \in Producers
    /\ Events \cap Shared # {} /\ Shared \cup Alone \subseteq Tasks
    /\ Events \cap (Timed \cup CloseTasks) = {}

VARIABLE part

ThreadsInit ==
    /\ part \in {"both", "dispatcher", "scheduler"}
    /\ Init /\ SchedulerInit
    /\ part = "scheduler" => Online

DispatcherAlone ==
    /\ part = "dispatcher" /\ Next
    /\ fresh \ fresh' \subseteq Alone \cup {ShutdownTask, TerminateTask}
    /\ UNCHANGED <<SchedulerVars, part>>

SchedulerAlone ==
    part = "scheduler" /\ SchedulerNext /\ UNCHANGED <<vars, part>>

-----------------------------------------------------------------------------
(* The scheduler's thread, which is in addTask until it has notified.      *)

\* What threads ask for, and the clock.
EventAsked ==
    /\ \/ \E t \in Events \cap Shared : AddEvent(t)
       \/ \E i \in Ids : StopEvent(i) \/ TimerExpires(i)
    /\ UNCHANGED vars

HandleEvent ==
    /\ TimerThread \notin notifying
    /\ RunAdd \/ RunStop \/ RunEndOfScheduler
    /\ UNCHANGED vars

NoReturnMutant ==
    TimerThread \notin notifying /\ RunWait /\ AddTask(TimerThread, Arg)

\* The wait handler: the task is deleted, or the dispatcher's.
EndWait ==
    /\ TimerThread \notin notifying
    /\ RunWait
    /\ IF fate'[Arg] = "dispatched"
         THEN AddTask(TimerThread, Arg)
         ELSE UNCHANGED vars

TimerThreadStep ==
    HandleEvent \/ EndWait \/ (Notify(TimerThread) /\ UNCHANGED SchedulerVars)

-----------------------------------------------------------------------------
(* The dispatcher's thread, main, and the rest.                            *)

\* Who ends the game, or finds no service, ends the scheduler first.
Ending == \/ pc = "exec" /\ Current = ShutdownTask
          \/ ~Online /\ TerminateTask \in fresh

EndScheduler == Ending /\ SchedulerShutdown /\ UNCHANGED vars

EndDispatcher ==
    /\ terminated
    /\ MainShutdown \/ GameShutdown
    /\ UNCHANGED SchedulerVars

\* All that threadMain does but for Game::shutdown
DispatcherThread ==
    /\ \/ TestState \/ LockAndSwap \/ LockAndWait \/ Wake
       \/ RunTask \/ DropTask \/ EndBatch \/ EndTask
       \/ SetShutdown \/ Stop \/ Terminate
    /\ UNCHANGED SchedulerVars

OtherThreads ==
    /\ \/ \E p \in Producers \ {TimerThread} :
            Notify(p) \/ \E t \in Shared \ Events : AddTask(p, t)
       \/ SpuriousWake
    /\ UNCHANGED SchedulerVars

Both ==
    /\ part = "both" /\ UNCHANGED part
    /\ \/ EventAsked \/ TimerThreadStep
       \/ DispatcherThread \/ EndScheduler \/ EndDispatcher \/ OtherThreads

BothVars == <<vars, SchedulerVars>>

\* Those of the two modules, and of what takes their place in both
ThreadsFairness ==
    /\ WF_BothVars(part = "both" /\ TimerThreadStep)
    /\ WF_BothVars(part = "both" /\ DispatcherThread)
    /\ WF_BothVars(part = "both" /\ (EndScheduler \/ EndDispatcher))
    /\ \A p \in Producers : WF_vars(Notify(p))
    /\ \A i \in Ids : WF_SchedulerVars(TimerExpires(i))
    /\ WF_vars(part = "dispatcher" /\ ThreadMain)
    /\ WF_vars(part = "dispatcher" /\ MainShutdown)
    /\ WF_SchedulerVars(part = "scheduler" /\ SchedulerThread)

ThreadsSpec ==
    /\ ThreadsInit
    /\ [][DispatcherAlone \/ SchedulerAlone \/ Both]_<<BothVars, part>>
    /\ ThreadsFairness

-----------------------------------------------------------------------------
(* Properties.                                                             *)

\* An event is the scheduler's or the dispatcher's, never of both: what the
\* scheduler holds or deleted was not given away, so that nothing deleted is
\* run, and what it gave away was accepted, unless the server was closing.
HandedOver ==
    part = "both" => \A t \in Events \cap Shared :
        /\ fate[t] # "dispatched" => t \in fresh
        /\ fate[t] = "dispatched" =>
              \/ \E n \in DOMAIN submitted : submitted[n] = t
              \/ threadState # "running"

\* The life of an event is sound in the scheduler and beyond it.
EventsSafe == EventsSound /\ HandedOver

\* An event nobody stops is run in the end, by a thread that was asleep or
\* busy when it came, unless the server goes down or its id comes round.
EventsRun ==
    \A t \in Events \cap Shared :
        part = "both" /\ fate[t] = "pending" ~>
            \/ t \in ran \/ eventId[t] \in asked \/ Reused(t)
            \/ terminated \/ threadState # "running"

\* Events are served, by the scheduler and then by the dispatcher.
EventsServed == EventsFire /\ EventsRun
=============================================================================
