----------------------------- MODULE Scheduler -----------------------------
(***************************************************************************)
(* The Scheduler (src/sources/src/scheduler.{h,cpp}).  Any thread adds and *)
(* stops events; both only post a handler to the io_context, whose single  *)
(* thread runs posted handlers and timer completions in the order they     *)
(* became ready.  An expired timer is a queued completion: cancelling it   *)
(* then changes nothing any more.                                          *)
(*                                                                         *)
(* Event ids are uint32_t and wrap around: IdLimit stands for 2^32.  With  *)
(* few tasks and a small limit the ids of live timers do get reused.       *)
(* stop() only sets the state CLOSING, which the scheduler never tests; it *)
(* is left out.                                                            *)
(***************************************************************************)
EXTENDS Naturals, Sequences, FiniteSets

CONSTANTS
    Events,     \* SchedulerTasks, each added once
    IdLimit,    \* event ids are 0 .. IdLimit - 1
    NoWait,     \* a timer of the map without a pending wait
    Absent      \* no timer in the map

ASSUME SchedulerAssumption ==
    /\ IdLimit \in Nat \ {0}
    /\ NoWait # Absent
    /\ {NoWait, Absent} \cap Events = {}

Ids == 0 .. IdLimit - 1

VARIABLES
    lastEventId,    \* Scheduler::lastEventId
    eventId,        \* SchedulerTask::eventId; 0 before addEvent
    ready,          \* the handlers the io_context will run, in order
    timer,          \* eventIdTimerMap: the task whose wait is pending
    terminated,     \* threadState = THREAD_STATE_TERMINATED
    stopped,        \* io_context.stop() was called
    fate,           \* history: what became of each task
    asked,          \* history: the ids stopEvent was called with
    cancelled       \* history: the tasks whose pending wait was cancelled

SchedulerVars ==
    <<lastEventId, eventId, ready, timer, terminated, stopped, fate, asked,
      cancelled>>

ids == <<lastEventId, eventId, asked>>

Op(kind, arg) == [kind |-> kind, arg |-> arg]

SchedulerInit ==
    /\ lastEventId = 0
    /\ eventId = [t \in Events |-> 0]
    /\ ready = <<>>
    /\ timer = [i \in Ids |-> Absent]
    /\ terminated = FALSE
    /\ stopped = FALSE
    /\ fate = [t \in Events |-> "new"]
    /\ asked = {}
    /\ cancelled = {}

-----------------------------------------------------------------------------
(* The callers.                                                            *)

\* ++lastEventId
NextId == (lastEventId + 1) % IdLimit

AddEvent(t) ==
    /\ fate[t] = "new"
    /\ lastEventId' = NextId
    /\ eventId' = [eventId EXCEPT ![t] = NextId]
    /\ ready' = Append(ready, Op("add", t))
    /\ fate' = [fate EXCEPT ![t] = "pending"]
    /\ UNCHANGED <<timer, terminated, stopped, asked, cancelled>>

\* A caller knows the ids addEvent returned; it stops each of them once here.
StopEvent(i) ==
    /\ i # 0
    /\ i \notin asked
    /\ \E t \in Events : fate[t] # "new" /\ eventId[t] = i
    /\ asked' = asked \cup {i}
    /\ ready' = Append(ready, Op("stop", i))
    /\ UNCHANGED <<lastEventId, eventId, timer, terminated, stopped, fate,
                   cancelled>>

SchedulerShutdown ==
    /\ ~terminated
    /\ terminated' = TRUE
    /\ ready' = Append(ready, Op("shutdown", 0))
    /\ UNCHANGED <<ids, timer, stopped, fate, cancelled>>

-----------------------------------------------------------------------------
(* The scheduler thread.                                                   *)

\* The reactor finds a timer expired and queues its completion.
TimerExpires(i) ==
    /\ ~stopped
    /\ timer[i] \in Events
    /\ timer' = [timer EXCEPT ![i] = NoWait]
    /\ ready' = Append(ready, Op("fire", timer[i]))
    /\ UNCHANGED <<ids, terminated, stopped, fate, cancelled>>

\* The next handler is run.
NextHandler(kind) ==
    /\ ~stopped
    /\ ready # <<>>
    /\ Head(ready).kind = kind

Arg == Head(ready).arg

\* timer.cancel(), expires_from_now() and ~steady_timer() queue the completion
\* of the pending wait, if there is one, with operation_aborted.
Cancel(i) == IF timer[i] \in Events THEN <<Op("abort", timer[i])>> ELSE <<>>

\* The handler addEvent posted.  emplace() finds the timer of an id in use.
RunAdd ==
    /\ NextHandler("add")
    /\ ready' = Tail(ready) \o Cancel(eventId[Arg])
    /\ timer' = [timer EXCEPT ![eventId[Arg]] = Arg]
    /\ UNCHANGED <<ids, terminated, stopped, fate, cancelled>>

\* The handler stopEvent posted.
RunStop ==
    /\ NextHandler("stop")
    /\ ready' = Tail(ready) \o Cancel(Arg)
    /\ IF timer[Arg] \in Events
         THEN /\ cancelled' = cancelled \cup {timer[Arg]}
              /\ timer' = [timer EXCEPT ![Arg] = NoWait]
         ELSE UNCHANGED <<timer, cancelled>>
    /\ UNCHANGED <<ids, terminated, stopped, fate>>

\* eventIdTimerMap.erase(id): whatever waits on that timer is aborted.
Erase(i) ==
    /\ ready' = Tail(ready) \o Cancel(i)
    /\ timer' = [timer EXCEPT ![i] = Absent]

\* The condition of the wait handler: delete task, or g_dispatcher.addTask.
Outcome(kind) ==
    IF kind = "abort" \/ terminated THEN "deleted" ELSE "dispatched"

\* The wait handler.
RunWait ==
    \E kind \in {"fire", "abort"} :
        /\ NextHandler(kind)
        /\ Erase(eventId[Arg])
        /\ fate' = [fate EXCEPT ![Arg] = Outcome(kind)]
        /\ UNCHANGED <<ids, terminated, stopped, cancelled>>

\* The handler shutdown() posted: cancel every timer, io_context.stop().  The
\* order of the map is not specified; the aborted waits will not run anyway.
RunEndOfScheduler ==
    /\ NextHandler("shutdown")
    /\ timer' = [i \in Ids |-> IF timer[i] = Absent THEN Absent ELSE NoWait]
    /\ LET waiting == {timer[i] : i \in Ids} \cap Events
       IN  \E order \in [1 .. Cardinality(waiting) -> waiting] :
              /\ {order[k] : k \in DOMAIN order} = waiting
              /\ ready' = Tail(ready) \o [k \in DOMAIN order |->
                                             Op("abort", order[k])]
    /\ stopped' = TRUE
    /\ UNCHANGED <<ids, terminated, fate, cancelled>>

SchedulerThread == RunAdd \/ RunStop \/ RunWait \/ RunEndOfScheduler

SchedulerNext ==
    \/ \E t \in Events : AddEvent(t)
    \/ \E i \in Ids : StopEvent(i)
    \/ SchedulerShutdown
    \/ \E i \in Ids : TimerExpires(i)
    \/ SchedulerThread

\* The thread runs what is ready, and time passes.
SchedulerFairness ==
    /\ WF_SchedulerVars(SchedulerThread)
    /\ \A i \in Ids : WF_SchedulerVars(TimerExpires(i))

SchedulerSpec ==
    SchedulerInit /\ [][SchedulerNext]_SchedulerVars /\ SchedulerFairness

-----------------------------------------------------------------------------
(* Properties.                                                             *)

Ops == [kind : {"add", "fire", "abort"}, arg : Events]
       \cup [kind : {"stop"}, arg : Ids]
       \cup [kind : {"shutdown"}, arg : {0}]

\* Every variable has its type.
SchedulerTypeOK ==
    /\ lastEventId \in Ids
    /\ eventId \in [Events -> Ids]
    /\ ready \in Seq(Ops)
    /\ timer \in [Ids -> Events \cup {NoWait, Absent}]
    /\ terminated \in BOOLEAN
    /\ stopped \in BOOLEAN
    /\ fate \in [Events -> {"new", "pending", "dispatched", "deleted"}]
    /\ asked \subseteq Ids
    /\ cancelled \subseteq Events

\* The places that own a task: a queued handler or a pending wait.
Owns(op, t) == op.kind \in {"add", "fire", "abort"} /\ op.arg = t

Owners(t) ==
    {k \in DOMAIN ready : Owns(ready[k], t)}
    \cup {i + Len(ready) + 1 : i \in {j \in Ids : timer[j] = t}}

\* As a raw pointer, a task is owned by exactly one handler or one wait from
\* addEvent until it is dispatched or deleted, and by none afterwards: it is
\* never run twice, never freed twice, and not leaked while the scheduler
\* runs, even when a wrapped-around id meets a timer that is still alive.
OneOwner ==
    \A t \in Events :
        Cardinality(Owners(t)) = IF fate[t] = "pending" THEN 1 ELSE 0

\* eventIdTimerMap does not grow: a timer stays in it only while it has a
\* pending wait or a queued completion that will erase it.
KeysAreLive ==
    \A i \in Ids : timer[i] = NoWait =>
        \E k \in DOMAIN ready : /\ ready[k].kind \in {"fire", "abort"}
                                /\ eventId[ready[k].arg] = i

\* A task whose pending wait stopEvent cancelled is not dispatched, whatever
\* else happens to its id.
CancelledNotDispatched ==
    \A t \in cancelled : fate[t] # "dispatched"

\* Events are sound: whatever happens to the ids, a task has one owner until
\* its end, is not dispatched after a stop, and leaves no timer in the map.
EventsSound ==
    SchedulerTypeOK /\ OneOwner /\ KeysAreLive /\ CancelledNotDispatched

Reused(t) == \E u \in Events \ {t} : fate[u] # "new" /\ eventId[u] = eventId[t]

\* An event nobody stops reaches the dispatcher, whatever happens to others,
\* unless the scheduler shuts down or the id came round to another event.
EventsFire ==
    \A t \in Events :
        (fate[t] = "pending") ~>
            \/ fate[t] = "dispatched"
            \/ eventId[t] \in asked
            \/ terminated
            \/ Reused(t)
=============================================================================
