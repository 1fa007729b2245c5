---------------------------- MODULE DatabaseTasks ----------------------------
(***************************************************************************)
(* The queue of queries nobody waits for (databasetasks.cpp):              *)
(* its own thread, and the thread that shuts it down and then empties the  *)
(* queue itself (Game::shutdown on the dispatcher thread, or main() when   *)
(* no service could be started).                                           *)
(*                                                                         *)
(* As in Dispatcher, a critical section of taskLock is one step.  What the *)
(* thread does OUTSIDE the lock is a step of its own: the test of the      *)
(* state, the query, the notify_one() of addTask and of shutdown().        *)
(***************************************************************************)
EXTENDS Naturals, Sequences

CONSTANTS
    Submitters,     \* threads that call addTask
    Queries,        \* the queries they submit, each one once
    Callbacks,      \* those submitted with a callback
    NoQuery         \* no query is being run

ASSUME QueriesAssumption ==
    Callbacks \subseteq Queries /\ NoQuery \notin Queries

\* Who runs queries: threadMain, and flush() called by shutdown().
Runners == {"thread", "flush"}

VARIABLES
    threadState,    \* ThreadHolder::threadState
    queries,        \* DatabaseTasks::tasks
    pc,             \* where threadMain is
    signaled,       \* threadMain is in wait() and was notified
    notifying,      \* submitters between unlock() and notify_one()
    shut,           \* where shutdown() is
    running,        \* the query each runner has taken out of the list
    accepted,       \* history: the queries put in the list, in order
    executed,       \* history: the queries run to their end, in order
    handed          \* history: the callbacks given to g_dispatcher.addTask

DatabaseVars ==
    <<threadState, queries, pc, signaled, notifying, shut, running, accepted,
      executed, handed>>

outcomes == <<executed, handed>>

Members(seq) == {seq[i] : i \in DOMAIN seq}

DatabaseInit ==
    /\ threadState = "running"
    /\ queries = <<>>
    /\ pc = "test"
    /\ signaled = FALSE
    /\ notifying = {}
    /\ shut = "no"
    /\ running = [r \in Runners |-> NoQuery]
    /\ accepted = <<>>
    /\ executed = <<>>
    /\ handed = <<>>

-----------------------------------------------------------------------------
(* The submitters.                                                         *)

AddTaskSignalAfterPushMutant(s, q) ==
    /\ s \notin notifying
    /\ q \notin Members(accepted)
    /\ threadState = "running"
    /\ queries' = Append(queries, q)
    /\ accepted' = Append(accepted, q)
    /\ notifying' = IF queries' = <<>> THEN notifying \cup {s} ELSE notifying
    /\ UNCHANGED <<threadState, pc, signaled, shut, running, outcomes>>

\* A query submitted in any other state is dropped: nothing changes.
AddTask(s, q) ==
    /\ s \notin notifying
    /\ q \notin Members(accepted)
    /\ threadState = "running"
    /\ queries' = Append(queries, q)
    /\ accepted' = Append(accepted, q)
    /\ notifying' = IF queries = <<>> THEN notifying \cup {s} ELSE notifying
    /\ UNCHANGED <<threadState, pc, signaled, shut, running, outcomes>>

NotifyOne == signaled' = (signaled \/ pc = "wait")

NotifyThread(s) ==
    /\ s \in notifying
    /\ notifying' = notifying \ {s}
    /\ NotifyOne
    /\ UNCHANGED <<threadState, queries, pc, shut, running, accepted,
                   outcomes>>

-----------------------------------------------------------------------------
(* What both runners do.                                                   *)

\* std::move(queries.front()); queries.pop_front()
Take(r) ==
    /\ running' = [running EXCEPT ![r] = Head(queries)]
    /\ queries' = Tail(queries)

\* runTask ends: the query was run, and its callback goes to the dispatcher.
RunQuery(r) ==
    /\ running[r] # NoQuery
    /\ executed' = Append(executed, running[r])
    /\ handed' = IF running[r] \in Callbacks THEN Append(handed, running[r])
                                             ELSE handed
    /\ running' = [running EXCEPT ![r] = NoQuery]
    /\ UNCHANGED <<threadState, queries, signaled, notifying, accepted>>

-----------------------------------------------------------------------------
(* threadMain.                                                             *)

\* The state is read without the lock.
TestState ==
    /\ pc = "test"
    /\ pc' = IF threadState = "terminated" THEN "done" ELSE "lock"
    /\ UNCHANGED <<threadState, queries, signaled, notifying, shut, running,
                   accepted, outcomes>>

LockAndWait ==
    /\ pc = "lock"
    /\ queries = <<>>
    /\ pc' = "wait"
    /\ UNCHANGED <<threadState, queries, signaled, notifying, shut, running,
                   accepted, outcomes>>

\* The part of the critical section that follows the wait, if there was one.
TakeIfAny ==
    /\ \/ queries # <<>> /\ Take("thread") /\ pc' = "query"
       \/ queries = <<>> /\ pc' = "test" /\ UNCHANGED <<queries, running>>
    /\ UNCHANGED <<threadState, notifying, shut, accepted, outcomes>>

LockAndTake ==
    /\ pc = "lock"
    /\ queries # <<>>
    /\ TakeIfAny
    /\ UNCHANGED signaled

Wake ==
    /\ pc = "wait"
    /\ signaled
    /\ TakeIfAny
    /\ signaled' = FALSE

SpuriousWake ==
    /\ pc = "wait"
    /\ ~signaled
    /\ TakeIfAny
    /\ UNCHANGED signaled

ThreadRuns ==
    /\ pc = "query"
    /\ RunQuery("thread")
    /\ pc' = "test"
    /\ UNCHANGED shut

DatabaseThread ==
    \/ TestState
    \/ LockAndWait
    \/ LockAndTake
    \/ Wake
    \/ ThreadRuns

-----------------------------------------------------------------------------
(* Shutting down.                                                          *)

\* Game::setGameState(GAME_STATE_SHUTDOWN) calls stop(); main() does not.
Stop ==
    /\ threadState = "running"
    /\ threadState' = "closing"
    /\ UNCHANGED <<queries, pc, signaled, notifying, shut, running, accepted,
                   outcomes>>

BeginShutdownNoFlushMutant ==
    /\ shut = "no"
    /\ threadState' = "terminated"
    /\ shut' = "notify"
    /\ UNCHANGED <<queries, pc, signaled, notifying, running, accepted,
                   outcomes>>

\* shutdown(): the state is set under the lock, and flush() is entered.
BeginShutdown ==
    /\ shut = "no"
    /\ threadState' = "terminated"
    /\ shut' = "flush"
    /\ UNCHANGED <<queries, pc, signaled, notifying, running, accepted,
                   outcomes>>

FlushTakes ==
    /\ shut = "flush"
    /\ running["flush"] = NoQuery
    /\ queries # <<>>
    /\ Take("flush")
    /\ UNCHANGED <<threadState, pc, signaled, notifying, shut, accepted,
                   outcomes>>

FlushRuns ==
    /\ RunQuery("flush")
    /\ UNCHANGED <<pc, shut>>

FlushEnds ==
    /\ shut = "flush"
    /\ running["flush"] = NoQuery
    /\ queries = <<>>
    /\ shut' = "notify"
    /\ UNCHANGED <<threadState, queries, pc, signaled, notifying, running,
                   accepted, outcomes>>

ShutdownNotifies ==
    /\ shut = "notify"
    /\ NotifyOne
    /\ shut' = "done"
    /\ UNCHANGED <<threadState, queries, pc, notifying, running, accepted,
                   outcomes>>

DatabaseShutdown == FlushTakes \/ FlushRuns \/ FlushEnds \/ ShutdownNotifies

-----------------------------------------------------------------------------
DatabaseNext ==
    \/ \E s \in Submitters, q \in Queries : AddTask(s, q)
    \/ \E s \in Submitters : NotifyThread(s)
    \/ DatabaseThread
    \/ SpuriousWake
    \/ Stop
    \/ BeginShutdown
    \/ DatabaseShutdown

\* Every thread is scheduled and every query ends; nobody has to submit
\* queries or to shut down, and no wake-up has to be spurious.
DatabaseFairness ==
    /\ WF_DatabaseVars(DatabaseThread)
    /\ WF_DatabaseVars(DatabaseShutdown)
    /\ \A s \in Submitters : WF_DatabaseVars(NotifyThread(s))

DatabaseSpec ==
    DatabaseInit /\ [][DatabaseNext]_DatabaseVars /\ DatabaseFairness

-----------------------------------------------------------------------------
(* Properties.                                                             *)

\* Every variable has its type; a runner holds a query exactly while it is at
\* the location where it runs one.
DatabaseTypeOK ==
    /\ threadState \in {"running", "closing", "terminated"}
    /\ queries \in Seq(Queries)
    /\ pc \in {"test", "lock", "wait", "query", "done"}
    /\ signaled \in BOOLEAN
    /\ signaled => pc = "wait"
    /\ notifying \subseteq Submitters
    /\ shut \in {"no", "flush", "notify", "done"}
    /\ running \in [Runners -> Queries \cup {NoQuery}]
    /\ pc = "query" <=> running["thread"] # NoQuery
    /\ running["flush"] # NoQuery => shut = "flush"
    /\ accepted \in Seq(Queries)
    /\ executed \in Seq(Queries)
    /\ handed \in Seq(Callbacks)

\* Until shutdown() is entered, queries are executed in the order in which
\* addTask accepted them: what was executed, the query at hand, the list.
\* (Ban and market updates of the same row rely on it.)
ServedInOrder ==
    threadState # "terminated" =>
        accepted = executed
                   \o (IF pc = "query" THEN <<running["thread"]>> ELSE <<>>)
                   \o queries

\* When shutdown() returned and the thread is not in a query, every query that
\* addTask ever accepted was executed, and each of them once.
NoneLost ==
    shut = "done" /\ pc # "query" =>
        /\ Len(executed) = Len(accepted)
        /\ Members(executed) = Members(accepted)

\* A waiting thread with queries in the list has a wake-up to come, or the
\* thread in shutdown() is emptying the list in its place.
NoLostWakeup ==
    pc = "wait" /\ queries # <<>> =>
        signaled \/ notifying # {} \/ shut = "flush"

\* The queue is sound: every query that was accepted is executed once, in its
\* turn, by a thread that is awake, or to be woken, while there are any.
QueueSound == DatabaseTypeOK /\ ServedInOrder /\ NoneLost /\ NoLostWakeup

\* Every accepted query is executed in the end, by the thread or by flush().
EveryQueryRuns ==
    \A q \in Queries : (q \in Members(accepted)) ~> (q \in Members(executed))

\* What signals.cpp says of SIGINT, "Shuts the server down", needs the thread
\* to end: main() joins it after Game::shutdown called shutdown().
ThreadEnds == (shut = "done") ~> (pc = "done")
=============================================================================
