----------------------------- MODULE TaskQueue -----------------------------
(***************************************************************************)
(* What the Dispatcher (src/sources/src/tasks.cpp) promises the rest of    *)
(* the server, with its lock, its condition variable and its batches left  *)
(* out: tasks that were accepted are handled one at a time, in the order   *)
(* they were accepted; handling a task runs it, unless it is a task with a *)
(* deadline; nothing is accepted once the queue is closed, except the task *)
(* that halts it; every accepted task is handled until the queue halts.    *)
(***************************************************************************)
EXTENDS Naturals, Sequences

CONSTANTS
    Tasks,          \* the tasks that are submitted to the queue
    Timed,          \* those that carry a deadline
    HaltTask        \* the task that halts the queue

VARIABLES
    phase,          \* "open", "closed" or "halted"
    submitted,      \* the tasks accepted so far, in order
    log,            \* the tasks handled so far, in order
    ran             \* the tasks whose body has been run

queueVars == <<phase, submitted, log, ran>>

AcceptedTasks == {submitted[i] : i \in DOMAIN submitted}

QueueInit ==
    /\ phase = "open"
    /\ submitted = <<>>
    /\ log = <<>>
    /\ ran = {}

Accept(t) ==
    /\ phase = "open" \/ t = HaltTask
    /\ t \notin AcceptedTasks
    /\ submitted' = Append(submitted, t)
    /\ UNCHANGED <<phase, log, ran>>

\* The oldest task that was not handled yet is handled.
Handle ==
    /\ Len(log) < Len(submitted)
    /\ LET t == submitted[Len(log) + 1]
       IN  /\ log' = Append(log, t)
           /\ \/ ran' = ran \cup {t}
              \/ t \in Timed /\ ran' = ran
    /\ UNCHANGED <<phase, submitted>>

Close ==
    /\ phase = "open"
    /\ phase' = "closed"
    /\ UNCHANGED <<submitted, log, ran>>

Halt ==
    /\ phase # "halted"
    /\ HaltTask \in ran
    /\ phase' = "halted"
    /\ UNCHANGED <<submitted, log, ran>>

QueueNext ==
    \/ \E t \in Tasks : Accept(t)
    \/ Handle
    \/ Close
    \/ Halt

\* What is in the queue is handled, and the halting task halts it; nobody
\* has to submit or to close.
QueueSpec ==
    /\ QueueInit
    /\ [][QueueNext]_queueVars
    /\ WF_queueVars(phase # "halted" /\ Handle)
    /\ WF_queueVars(Halt)
=============================================================================
