---------------------------- MODULE ThreadsProofs ----------------------------
(***************************************************************************)
(* Theorems about the dispatcher's thread, for any number of producers and *)
(* tasks, about the scheduler's thread, for any events and any limit of    *)
(* event ids, and about the two threads together.                          *)
(***************************************************************************)
EXTENDS Threads, FiniteSetTheorems, SequenceTheorems, TLAPS

-----------------------------------------------------------------------------
(* The dispatcher's thread (Dispatcher).                                   *)

\* What Spec says without its fairness: safety needs no more.
Steps == Init /\ [][Next]_vars

-----------------------------------------------------------------------------
(* What a step does to the queue and to the loop.                          *)

\* A step that adds t at the end of taskList.
PushStep == \E t \in AllTasks : Push(t) /\ UNCHANGED loop

\* A step that changes neither, but for tasks that addTask deletes.
KeepStep ==
    /\ fresh' \subseteq fresh
    /\ UNCHANGED <<taskList, submitted, loop>>

\* A step that takes the list.
SwapStep ==
    /\ batch = <<>>
    /\ SwapLists
    /\ UNCHANGED <<submitted, fresh, log, ran>>

\* A step that reaches the head of the batch.
ReachStep ==
    /\ batch # <<>>
    /\ log' = Append(log, Head(batch))
    /\ batch' = Tail(batch)
    /\ UNCHANGED queue

\* The batch is empty outside the loop over it.
BatchInv == pc \in {"test", "lock", "wait", "done"} => batch = <<>>

LEMMA Kinds ==
    /\ Tasks \subseteq AllTasks
    /\ ShutdownTask \in AllTasks
    /\ TerminateTask \in AllTasks
BY DEF AllTasks

LEMMA PushType ==
    ASSUME TypeOK, NEW t \in AllTasks, Push(t) \/ PushIfRunning(t)
    PROVE  /\ taskList' \in Seq(AllTasks)
           /\ submitted' \in Seq(AllTasks)
           /\ fresh' \subseteq AllTasks
<1>1. CASE Push(t)
  BY <1>1 DEF TypeOK, Push
<1>2. CASE Reject(t)
  BY <1>2 DEF TypeOK, Reject
<1> QED
  BY <1>1, <1>2 DEF PushIfRunning

\* The type invariant is inductive: nothing else is needed for it.
LEMMA Typing == Steps => []TypeOK
<1> USE Kinds
<1>1. Init => TypeOK
  BY EmptySeq DEF Init, TypeOK
<1>2. TypeOK /\ [Next]_vars => TypeOK'
  <2> SUFFICES ASSUME TypeOK, [Next]_vars
               PROVE  TypeOK'
    OBVIOUS
  <2> USE DEF TypeOK, queue, loop, condvar, env
  <2>1. ASSUME NEW p \in Producers, NEW t \in Tasks, AddTask(p, t)
        PROVE  TypeOK'
    BY <2>1, PushType DEF AddTask
  <2>2. ASSUME NEW p \in Producers, Notify(p)
        PROVE  TypeOK'
    BY <2>2 DEF Notify, NotifyOne
  <2>3. ASSUME NEW t \in Tasks, Expire(t)
        PROVE  TypeOK'
    BY <2>3 DEF Expire
  <2>4. CASE TestState
    BY <2>4 DEF TestState
  <2>5. CASE LockAndSwap
    BY <2>5 DEF LockAndSwap, SwapLists
  <2>6. CASE LockAndWait
    BY <2>6 DEF LockAndWait
  <2>7. CASE Wake
    BY <2>7, EmptySeq DEF Wake, SwapLists
  <2>8. CASE SpuriousWake
    BY <2>8 DEF SpuriousWake, SwapLists
  <2>9. CASE RunTask
    BY <2>9 DEF RunTask
  <2>10. CASE DropTask
    BY <2>10 DEF DropTask
  <2>11. CASE EndBatch
    BY <2>11 DEF EndBatch
  <2>12. CASE EndTask
    BY <2>12 DEF EndTask
  <2>13. CASE SetShutdown
    BY <2>13, PushType DEF SetShutdown
  <2>14. CASE Stop
    BY <2>14 DEF Stop
  <2>15. CASE GameShutdown
    BY <2>15, PushType DEF GameShutdown
  <2>16. CASE Terminate
    BY <2>16 DEF Terminate
  <2>17. ASSUME NEW t \in Tasks, BodyAddsTask(t)
         PROVE  TypeOK'
    BY <2>17, PushType DEF BodyAddsTask
  <2>18. CASE MainShutdown
    BY <2>18, PushType DEF MainShutdown, NotifyOne
  <2>19. CASE UNCHANGED vars
    BY <2>19 DEF vars
  <2> QED
    BY <2>1, <2>2, <2>3, <2>4, <2>5, <2>6, <2>7, <2>8, <2>9, <2>10, <2>11,
       <2>12, <2>13, <2>14, <2>15, <2>16, <2>17, <2>18, <2>19
       DEF Next, ThreadMain
<1> QED
  BY <1>1, <1>2, PTL DEF Steps

\* No wake-up is lost: threadMain never stays in wait() for a list that holds
\* a task unless a notification is pending.
LEMMA WakeupsKept == Steps => []NoLostWakeup
<1>1. Init => NoLostWakeup
  BY DEF Init, NoLostWakeup
<1>2. TypeOK /\ NoLostWakeup /\ [Next]_vars => NoLostWakeup'
  <2> SUFFICES ASSUME TypeOK, NoLostWakeup, [Next]_vars
               PROVE  NoLostWakeup'
    OBVIOUS
  <2> USE DEF NoLostWakeup, queue, loop, condvar, env
  <2>1. ASSUME NEW p \in Producers, NEW t \in Tasks, AddTask(p, t)
        PROVE  NoLostWakeup'
    BY <2>1 DEF AddTask, PushIfRunning, Push, Reject, TypeOK
  <2>2. ASSUME NEW p \in Producers, Notify(p)
        PROVE  NoLostWakeup'
    BY <2>2 DEF Notify, NotifyOne
  <2>3. ASSUME NEW t \in Tasks, Expire(t)
        PROVE  NoLostWakeup'
    BY <2>3 DEF Expire
  <2>4. CASE ThreadMain \/ SpuriousWake
    <3>1. CASE LockAndWait
      BY <3>1 DEF LockAndWait
    <3>2. CASE ~LockAndWait
      <4>1. pc' # "wait"
        BY <2>4, <3>2 DEF ThreadMain, TestState, LockAndSwap, Wake,
           SpuriousWake, SwapLists, RunTask, DropTask, EndBatch, EndTask,
           SetShutdown, Stop, GameShutdown, Terminate
      <4> QED
        BY <4>1
    <3> QED
      BY <3>1, <3>2
  <2>5. ASSUME NEW t \in Tasks, BodyAddsTask(t)
        PROVE  NoLostWakeup'
    BY <2>5 DEF BodyAddsTask
  <2>6. CASE MainShutdown
    BY <2>6 DEF MainShutdown, NotifyOne
  <2>7. CASE UNCHANGED vars
    BY <2>7 DEF vars
  <2> QED
    BY <2>1, <2>2, <2>3, <2>4, <2>5, <2>6, <2>7 DEF Next
<1> QED
  BY <1>1, <1>2, Typing, PTL DEF Steps

-----------------------------------------------------------------------------
(* The order in which tasks are reached.                                   *)

LEMMA BatchInvariant == Steps => []BatchInv
<1>1. Init => BatchInv
  BY DEF Init, BatchInv
<1>2. BatchInv /\ [Next]_vars => BatchInv'
  BY DEF BatchInv, Next, vars, loop, AddTask, Notify, Expire, ThreadMain,
     TestState, LockAndSwap, LockAndWait, Wake, SpuriousWake, SwapLists,
     RunTask, DropTask, EndBatch, EndTask, SetShutdown, Stop, GameShutdown,
     Terminate, BodyAddsTask, MainShutdown
<1> QED
  BY <1>1, <1>2, PTL DEF Steps

\* Every step is of one of the four kinds.
LEMMA StepKinds ==
    ASSUME BatchInv, [Next]_vars
    PROVE  PushStep \/ KeepStep \/ SwapStep \/ ReachStep
<1> USE Kinds DEF PushStep, KeepStep, SwapStep, ReachStep, queue, loop
<1>1. ASSUME NEW p \in Producers, NEW t \in Tasks, AddTask(p, t)
      PROVE  PushStep \/ KeepStep
  BY <1>1 DEF AddTask, PushIfRunning, Reject
<1>2. ASSUME NEW p \in Producers, Notify(p)
      PROVE  KeepStep
  BY <1>2 DEF Notify
<1>3. ASSUME NEW t \in Tasks, Expire(t)
      PROVE  KeepStep
  BY <1>3 DEF Expire
<1>4. CASE LockAndSwap \/ Wake \/ SpuriousWake
  BY <1>4 DEF LockAndSwap, Wake, SpuriousWake, BatchInv
<1>5. CASE RunTask \/ DropTask
  BY <1>5 DEF RunTask, DropTask
<1>6. CASE SetShutdown \/ GameShutdown \/ MainShutdown
  BY <1>6 DEF SetShutdown, GameShutdown, MainShutdown, PushIfRunning, Reject
<1>7. ASSUME NEW t \in Tasks, BodyAddsTask(t)
      PROVE  PushStep \/ KeepStep
  BY <1>7 DEF BodyAddsTask, PushIfRunning, Reject
<1>8. CASE TestState \/ LockAndWait \/ EndBatch \/ EndTask \/ Stop
           \/ Terminate \/ UNCHANGED vars
  BY <1>8 DEF TestState, LockAndWait, EndBatch, EndTask, Stop, Terminate, vars
<1> QED
  BY <1>1, <1>2, <1>3, <1>4, <1>5, <1>6, <1>7, <1>8 DEF Next, ThreadMain

\* new is seq with e added at its end.
AppendedTo(seq, new, e) ==
    /\ Len(new) = Len(seq) + 1
    /\ new[Len(seq) + 1] = e
    /\ \A i \in 1 .. Len(seq) : new[i] = seq[i]

LEMMA AppendFacts ==
    ASSUME NEW S, NEW seq \in Seq(S), NEW e \in S
    PROVE  AppendedTo(seq, Append(seq, e), e)
BY DEF AppendedTo

\* Tasks are reached in the order in which addTask accepted them.
LEMMA OrderKept == Steps => []DispatchOrder
<1>1. Init => DispatchOrder
  BY DEF Init, DispatchOrder
<1>2. TypeOK /\ BatchInv /\ DispatchOrder /\ [Next]_vars => DispatchOrder'
  <2> SUFFICES ASSUME TypeOK, BatchInv, DispatchOrder, [Next]_vars
               PROVE  DispatchOrder'
    OBVIOUS
  <2> DEFINE Lengths == /\ Len(submitted) \in Nat
                        /\ Len(log) \in Nat
                        /\ Len(batch) \in Nat
                        /\ Len(taskList) \in Nat
  <2>0. Lengths
    BY DEF TypeOK
  <2> HIDE DEF Lengths
  <2>1. CASE PushStep
    <3>1. PICK t \in AllTasks : Push(t) /\ UNCHANGED loop
      BY <2>1 DEF PushStep
    <3>2. /\ AppendedTo(submitted, submitted', t)
          /\ AppendedTo(taskList, taskList', t)
      BY <3>1, AppendFacts DEF Push, TypeOK
    <3>3. batch' = batch /\ log' = log
      BY <3>1 DEF loop
    <3>4. Len(submitted') = Len(log') + Len(batch') + Len(taskList')
      BY <2>0, <3>2, <3>3 DEF DispatchOrder, Lengths, AppendedTo
    <3>5. \A i \in 1 .. Len(submitted) : submitted'[i] = submitted[i]
      BY <3>2 DEF AppendedTo
    <3>6. ASSUME NEW i \in 1 .. Len(taskList')
          PROVE  taskList'[i] = submitted'[Len(log') + Len(batch') + i]
      <4>1. CASE i = Len(taskList) + 1
        BY <2>0, <3>2, <3>3, <4>1 DEF DispatchOrder, Lengths, AppendedTo
      <4>2. CASE i \in 1 .. Len(taskList)
        <5>1. Len(log) + Len(batch) + i \in 1 .. Len(submitted)
          BY <2>0, <4>2 DEF DispatchOrder, Lengths
        <5> QED
          BY <3>2, <3>3, <3>5, <4>2, <5>1 DEF DispatchOrder, AppendedTo
      <4> QED
        BY <2>0, <3>2, <4>1, <4>2 DEF Lengths, AppendedTo
    <3>7. \A i \in 1 .. Len(log') : log'[i] = submitted'[i]
      BY <2>0, <3>3, <3>5 DEF DispatchOrder, Lengths
    <3>8. \A i \in 1 .. Len(batch') : batch'[i] = submitted'[Len(log') + i]
      BY <2>0, <3>3, <3>5 DEF DispatchOrder, Lengths
    <3> QED
      BY <3>4, <3>6, <3>7, <3>8 DEF DispatchOrder
  <2>2. CASE KeepStep
    BY <2>2 DEF KeepStep, DispatchOrder, loop
  <2>3. CASE SwapStep
    BY <2>3 DEF SwapStep, SwapLists, DispatchOrder, TypeOK
  <2>4. CASE ReachStep
    <3>1. AppendedTo(log, log', batch[1])
      BY <2>4, AppendFacts DEF ReachStep, TypeOK
    <3>2. /\ Len(batch) > 0
          /\ Len(batch') = Len(batch) - 1
          /\ \A i \in 1 .. Len(batch') : batch'[i] = batch[i + 1]
      BY <2>4 DEF ReachStep, TypeOK
    <3>3. submitted' = submitted /\ taskList' = taskList
      BY <2>4 DEF ReachStep, queue
    <3>4. log'[Len(log) + 1] = submitted'[Len(log) + 1]
      BY <2>0, <3>1, <3>2, <3>3 DEF DispatchOrder, Lengths, AppendedTo
    <3>5. \A i \in 1 .. Len(batch') : batch'[i] = submitted'[Len(log') + i]
      <4> SUFFICES ASSUME NEW i \in 1 .. Len(batch')
                   PROVE  batch'[i] = submitted'[Len(log') + i]
        OBVIOUS
      <4>1. i + 1 \in 1 .. Len(batch) /\ Len(log) + (i + 1) = Len(log') + i
        BY <2>0, <3>1, <3>2 DEF Lengths, AppendedTo
      <4>2. batch[i + 1] = submitted[Len(log) + (i + 1)]
        BY <4>1 DEF DispatchOrder
      <4> QED
        BY <3>2, <3>3, <4>1, <4>2
    <3>6. Len(submitted') = Len(log') + Len(batch') + Len(taskList')
      <4>1. Len(log') = Len(log) + 1
        BY <3>1 DEF AppendedTo
      <4>2. Len(submitted) = Len(log) + Len(batch) + Len(taskList)
        BY DEF DispatchOrder
      <4> QED
        BY <2>0, <3>2, <3>3, <4>1, <4>2 DEF Lengths
    <3>7. \A i \in 1 .. Len(log') : log'[i] = submitted'[i]
      BY <2>0, <3>1, <3>3, <3>4 DEF DispatchOrder, Lengths, AppendedTo
    <3>8. \A i \in 1 .. Len(taskList') :
             taskList'[i] = submitted'[Len(log') + Len(batch') + i]
      <4>1. Len(log') + Len(batch') = Len(log) + Len(batch)
        BY <2>0, <3>1, <3>2 DEF Lengths, AppendedTo
      <4> QED
        BY <3>3, <4>1 DEF DispatchOrder
    <3> QED
      BY <3>5, <3>6, <3>7, <3>8 DEF DispatchOrder
  <2> QED
    BY <2>1, <2>2, <2>3, <2>4, StepKinds
<1> QED
  BY <1>1, <1>2, Typing, BatchInvariant, PTL DEF Steps

-----------------------------------------------------------------------------
(* Shutting down.                                                          *)

Reached(t) == \E i \in DOMAIN log : log[i] = t

\* A task is accepted once.
OnceInv ==
    /\ \A i, j \in DOMAIN submitted : submitted[i] = submitted[j] => i = j
    /\ \A i \in DOMAIN submitted : submitted[i] \notin fresh

\* Only an online server closes, and what runs is what was reached last.
OnlineInv ==
    /\ \A i \in DOMAIN submitted :
          submitted[i] \in CloseTasks \cup {ShutdownTask} => Online
    /\ gameState = "shutdown" => Online
    /\ pc = "stop" => gameState = "shutdown"
    /\ pc \in {"exec", "stop"} => Current \in ran

\* addTask accepts nothing from the moment setGameState returns; the task that
\* terminates an online dispatcher is created by Game::shutdown only, hence
\* after that moment, hence it is the last one.
ClosingInv ==
    /\ gameState = "up" => ShutdownTask \in fresh
    /\ Online /\ (gameState = "up" \/ pc = "stop") =>
          threadState = "running" /\ TerminateTask \in fresh
    /\ gameState = "shutdown" /\ pc # "stop" => threadState # "running"
    /\ Online /\ TerminateTask \notin fresh =>
          /\ Reached(ShutdownTask)
          /\ Len(submitted) > 0
          /\ submitted[Len(submitted)] = TerminateTask
    /\ pc = "exec" /\ Current = ShutdownTask => TerminateTask \in fresh

TerminatedInv ==
    /\ threadState = "terminated" => Reached(TerminateTask)
    /\ pc = "done" => threadState = "terminated"

ShutdownInv == OnceInv /\ OnlineInv /\ ClosingInv /\ TerminatedInv

\* A step that adds no task, reaches none and changes no state.
QuietStep ==
    /\ UNCHANGED <<threadState, submitted, fresh, log, ran, services,
                   gameState>>
    /\ \/ pc' = pc
       \/ pc # "stop" /\ pc' \in {"test", "lock", "wait", "run"}
       \/ pc # "stop" /\ pc' = "done" /\ threadState = "terminated"

\* A step in which addTask is called with an ordinary task.
AddStep ==
    /\ \E t \in fresh \cap Tasks : /\ t \in CloseTasks => Online
                                 /\ PushIfRunning(t)
    /\ UNCHANGED <<threadState, batch, log, ran, services, gameState, pc>>

LEMMA ShutdownSteps ==
    ASSUME [Next]_vars
    PROVE  \/ QuietStep \/ AddStep \/ RunTask \/ DropTask \/ SetShutdown
           \/ Stop \/ GameShutdown \/ Terminate \/ MainShutdown
<1> USE DEF queue, loop, condvar, env
<1>1. ASSUME NEW p \in Producers, NEW t \in Tasks, AddTask(p, t)
      PROVE  AddStep
  BY <1>1 DEF AddTask, AddStep
<1>2. ASSUME NEW t \in Tasks, BodyAddsTask(t)
      PROVE  AddStep
  BY <1>2 DEF BodyAddsTask, AddStep
<1>3. ASSUME NEW p \in Producers, Notify(p)
      PROVE  QuietStep
  BY <1>3 DEF Notify, QuietStep
<1>4. ASSUME NEW t \in Tasks, Expire(t)
      PROVE  QuietStep
  BY <1>4 DEF Expire, QuietStep
<1>5. CASE TestState \/ LockAndWait \/ EndBatch \/ EndTask \/ UNCHANGED vars
  BY <1>5 DEF TestState, LockAndWait, EndBatch, EndTask, vars, QuietStep
<1>6. CASE LockAndSwap \/ Wake \/ SpuriousWake
  BY <1>6 DEF LockAndSwap, Wake, SpuriousWake, SwapLists, QuietStep
<1> QED
  BY <1>1, <1>2, <1>3, <1>4, <1>5, <1>6 DEF Next, ThreadMain

\* Adding a task that was not created before keeps OnceInv.
LEMMA PushOnce ==
    ASSUME TypeOK, OnceInv, NEW t \in fresh, Push(t)
    PROVE  /\ OnceInv'
           /\ AppendedTo(submitted, submitted', t)
           /\ Len(submitted) \in Nat
           /\ DOMAIN submitted = 1 .. Len(submitted)
           /\ DOMAIN submitted' = 1 .. (Len(submitted) + 1)
<1>1. /\ submitted \in Seq(AllTasks)
      /\ t \in AllTasks
      /\ submitted' = Append(submitted, t)
      /\ fresh' = fresh \ {t}
  BY DEF TypeOK, Push
<1>2. AppendedTo(submitted, submitted', t)
  BY <1>1, AppendFacts
<1>3. /\ Len(submitted) \in Nat
      /\ DOMAIN submitted = 1 .. Len(submitted)
      /\ DOMAIN submitted' = 1 .. (Len(submitted) + 1)
  BY <1>1
<1>4. OnceInv'
  BY <1>1, <1>2, <1>3 DEF OnceInv, AppendedTo
<1> QED
  BY <1>2, <1>3, <1>4

\* Reaching a task does not forget the tasks reached before.
LEMMA ReachGrows ==
    ASSUME TypeOK, batch # <<>>, log' = Append(log, Head(batch))
    PROVE  /\ \A t : Reached(t) => Reached(t)'
           /\ Current' = Head(batch)
           /\ log' # <<>>
<1>1. log \in Seq(AllTasks) /\ Head(batch) \in AllTasks
  BY DEF TypeOK
<1>2. AppendedTo(log, log', Head(batch))
  BY <1>1, AppendFacts
<1>3. /\ Len(log) \in Nat
      /\ DOMAIN log = 1 .. Len(log)
      /\ DOMAIN log' = 1 .. (Len(log) + 1)
  BY <1>1
<1> QED
  BY <1>2, <1>3 DEF Reached, Current, AppendedTo

\* What was reached was accepted, at the same place, and is not fresh.
LEMMA ReachedAccepted ==
    ASSUME TypeOK, DispatchOrder, OnceInv
    PROVE  /\ \A i \in DOMAIN log : /\ i \in DOMAIN submitted
                                  /\ log[i] = submitted[i]
                                  /\ log[i] \notin fresh
           /\ log # <<>> => /\ Len(log) \in DOMAIN log
                            /\ Reached(Current)
<1>1. /\ Len(log) \in Nat /\ Len(batch) \in Nat /\ Len(taskList) \in Nat
      /\ Len(submitted) \in Nat
      /\ DOMAIN log = 1 .. Len(log)
      /\ DOMAIN submitted = 1 .. Len(submitted)
      /\ log # <<>> => Len(log) > 0
  BY DEF TypeOK
<1>2. Len(log) <= Len(submitted)
  BY <1>1 DEF DispatchOrder
<1> QED
  BY <1>1, <1>2 DEF DispatchOrder, OnceInv, Reached, Current

\* The next task of the batch was accepted, and was not reached yet.
LEMMA HeadAccepted ==
    ASSUME TypeOK, DispatchOrder, OnceInv, batch # <<>>
    PROVE  /\ Len(log) + 1 \in DOMAIN submitted
           /\ Head(batch) = submitted[Len(log) + 1]
           /\ Head(batch) \notin fresh
           /\ ~ Reached(Head(batch))
<1>1. /\ Len(log) \in Nat /\ Len(batch) \in Nat /\ Len(taskList) \in Nat
      /\ Len(submitted) \in Nat
      /\ DOMAIN log = 1 .. Len(log)
      /\ DOMAIN submitted = 1 .. Len(submitted)
      /\ Len(batch) > 0
      /\ Head(batch) = batch[1]
  BY DEF TypeOK
<1>2. /\ Len(log) + 1 \in DOMAIN submitted
      /\ Head(batch) = submitted[Len(log) + 1]
  BY <1>1 DEF DispatchOrder
<1>3. Head(batch) \notin fresh
  BY <1>2 DEF OnceInv
<1>4. ASSUME NEW i \in DOMAIN log, log[i] = Head(batch)
      PROVE  FALSE
  <2>1. i \in DOMAIN submitted /\ log[i] = submitted[i]
    BY ReachedAccepted
  <2> QED
    BY <1>1, <1>2, <1>4, <2>1 DEF OnceInv
<1> QED
  BY <1>2, <1>3, <1>4 DEF Reached

LEMMA ShutdownInvariant == Steps => []ShutdownInv
<1> USE TasksAssumption
<1>1. Init => ShutdownInv
  BY Kinds DEF Init, ShutdownInv, OnceInv, OnlineInv, ClosingInv,
     TerminatedInv, Online
<1>2. TypeOK /\ DispatchOrder /\ ShutdownInv /\ [Next]_vars => ShutdownInv'
  <2> SUFFICES ASSUME TypeOK, DispatchOrder, ShutdownInv, [Next]_vars
               PROVE  ShutdownInv'
    OBVIOUS
  <2>0. OnceInv /\ OnlineInv /\ ClosingInv /\ TerminatedInv
    BY DEF ShutdownInv
  <2> USE <2>0 DEF ShutdownInv
  <2>1. CASE QuietStep
    BY <2>1 DEF QuietStep, OnceInv, OnlineInv, ClosingInv, TerminatedInv,
       Online, Reached, Current
  <2>2. CASE AddStep
    <3>1. PICK t \in fresh \cap Tasks : /\ t \in CloseTasks => Online
                                      /\ PushIfRunning(t)
      BY <2>2 DEF AddStep
    <3>2. UNCHANGED <<threadState, log, ran, services, gameState, pc>>
      BY <2>2 DEF AddStep
    <3>3. t # ShutdownTask /\ t # TerminateTask /\ fresh' = fresh \ {t}
      BY <3>1 DEF PushIfRunning, Push, Reject
    <3>4. CASE Reject(t)
      BY <3>2, <3>3, <3>4 DEF Reject, OnceInv, OnlineInv, ClosingInv,
         TerminatedInv, Online, Reached, Current
    <3>5. CASE threadState = "running" /\ Push(t)
      <4>1. OnceInv'
        BY <3>5, PushOnce
      <4>2. OnlineInv'
        BY <3>1, <3>2, <3>3, <3>5, PushOnce
           DEF OnlineInv, Online, Current, AppendedTo
      <4>3. ClosingInv'
        <5>1. Online => TerminateTask \in fresh
          <6>1. gameState \in {"up", "shutdown"}
            BY DEF TypeOK
          <6> QED
            BY <3>5, <6>1 DEF ClosingInv
        <5> QED
          BY <3>2, <3>3, <5>1 DEF ClosingInv, Online, Current
      <4>4. TerminatedInv'
        BY <3>2 DEF TerminatedInv, Reached
      <4> QED
        BY <4>1, <4>2, <4>3, <4>4
    <3> QED
      BY <3>1, <3>4, <3>5 DEF PushIfRunning
  <2>3. CASE RunTask \/ DropTask
    <3>1. /\ batch # <<>>
          /\ log' = Append(log, Head(batch))
          /\ UNCHANGED <<threadState, submitted, fresh, services, gameState>>
          /\ pc = "run"
          /\ \/ pc' = "run" /\ ran' = ran
             \/ pc' = "exec" /\ ran' = ran \cup {Head(batch)}
      BY <2>3 DEF RunTask, DropTask, queue, condvar, env
    <3>2. OnceInv'
      BY <3>1 DEF OnceInv
    <3>3. OnlineInv'
      BY <3>1, ReachGrows DEF OnlineInv, Online
    <3>4. ClosingInv'
      <4>1. Head(batch) = ShutdownTask => TerminateTask \in fresh
        BY <3>1, HeadAccepted DEF ClosingInv, OnlineInv
      <4> QED
        BY <3>1, <4>1, ReachGrows DEF ClosingInv, Online
    <3>5. TerminatedInv'
      BY <3>1, ReachGrows DEF TerminatedInv
    <3> QED
      BY <3>2, <3>3, <3>4, <3>5
  <2>4. CASE SetShutdown
    <3>1. /\ pc = "exec" /\ pc' = "stop"
          /\ Current \in CloseTasks
          /\ gameState = "up" /\ gameState' = "shutdown"
          /\ PushIfRunning(ShutdownTask)
          /\ UNCHANGED <<threadState, log, ran, services>>
      BY <2>4 DEF SetShutdown, loop, condvar, env
    <3>2. Online
      BY <3>1, ReachedAccepted DEF OnlineInv, TypeOK, Current
    <3>3. /\ ShutdownTask \in fresh
          /\ TerminateTask \in fresh
          /\ threadState = "running"
      BY <3>1, <3>2 DEF ClosingInv
    <3>4. Push(ShutdownTask)
      BY <3>1, <3>3 DEF PushIfRunning
    <3>5. OnceInv'
      BY <3>3, <3>4, PushOnce
    <3>6. OnlineInv'
      BY <3>1, <3>2, <3>3, <3>4, PushOnce
         DEF OnlineInv, Online, Current, AppendedTo
    <3>7. ClosingInv'
      BY <3>1, <3>2, <3>3, <3>4 DEF ClosingInv, Online, Push
    <3>8. TerminatedInv'
      BY <3>1, <3>3 DEF TerminatedInv
    <3> QED
      BY <3>5, <3>6, <3>7, <3>8
  <2>5. CASE Stop
    BY <2>5 DEF Stop, queue, loop, condvar, env, OnceInv, OnlineInv,
       ClosingInv, TerminatedInv, Online, Reached, Current
  <2>6. CASE GameShutdown
    <3>1. /\ pc = "exec" /\ pc' = "run"
          /\ Current = ShutdownTask
          /\ Push(TerminateTask)
          /\ UNCHANGED <<threadState, log, ran, services, gameState>>
      BY <2>6 DEF GameShutdown, loop, condvar, env
    <3>2. /\ TerminateTask \in fresh
          /\ Reached(ShutdownTask)
          /\ ShutdownTask \notin fresh
          /\ Online
      BY <3>1, ReachedAccepted DEF ClosingInv, OnlineInv, TypeOK, Reached,
         Current
    <3>3. gameState = "shutdown"
      BY <3>2 DEF ClosingInv, TypeOK
    <3>4. OnceInv'
      BY <3>1, <3>2, PushOnce
    <3>5. OnlineInv'
      BY <3>1, <3>2, <3>3, PushOnce DEF OnlineInv, Online
    <3>6. ClosingInv'
      <4>1. /\ Len(submitted') > 0
            /\ submitted'[Len(submitted')] = TerminateTask
        BY <3>1, <3>2, PushOnce DEF AppendedTo
      <4>2. Reached(ShutdownTask)'
        BY <3>1, <3>2 DEF Reached
      <4> QED
        BY <3>1, <3>2, <3>3, <4>1, <4>2 DEF ClosingInv, Online
    <3>7. TerminatedInv'
      BY <3>1 DEF TerminatedInv, Reached
    <3> QED
      BY <3>4, <3>5, <3>6, <3>7
  <2>7. CASE Terminate
    <3>1. /\ pc = "exec" /\ pc' = "run"
          /\ Current = TerminateTask
          /\ threadState' = "terminated"
          /\ UNCHANGED <<submitted, fresh, log, ran, services, gameState>>
      BY <2>7 DEF Terminate, queue, loop, condvar, env
    <3>2. Reached(TerminateTask) /\ TerminateTask \notin fresh
      BY <3>1, ReachedAccepted DEF TypeOK, Current
    <3> QED
      BY <3>1, <3>2 DEF OnceInv, OnlineInv, ClosingInv, TerminatedInv, Online,
         Reached, Current
  <2>8. CASE MainShutdown
    <3>1. /\ ~Online
          /\ TerminateTask \in fresh
          /\ Push(TerminateTask)
          /\ UNCHANGED <<threadState, log, ran, services, gameState, pc>>
      BY <2>8 DEF MainShutdown, loop, env
    <3>2. OnceInv'
      BY <3>1, PushOnce
    <3>3. OnlineInv'
      BY <3>1, PushOnce DEF OnlineInv, Online, AppendedTo, Current
    <3>4. ClosingInv'
      <4>1. ~(pc = "exec" /\ Current = ShutdownTask)
        BY <3>1, ReachedAccepted DEF OnlineInv, TypeOK, Current
      <4> QED
        BY <3>1, <4>1 DEF ClosingInv, OnlineInv, Online, Push, Current
    <3>5. TerminatedInv'
      BY <3>1 DEF TerminatedInv, Reached
    <3> QED
      BY <3>2, <3>3, <3>4, <3>5
  <2> QED
    BY <2>1, <2>2, <2>3, <2>4, <2>5, <2>6, <2>7, <2>8, ShutdownSteps
<1> QED
  BY <1>1, <1>2, Typing, OrderKept, PTL DEF Steps

\* The thread of an online dispatcher ends with nothing left in its list:
\* whatever addTask accepted while the server was closing was reached.
LEMMA DrainedKept == Steps => []DrainedAtExit
<1>1. TypeOK /\ DispatchOrder /\ ShutdownInv => DrainedAtExit
  <2> SUFFICES ASSUME TypeOK, DispatchOrder, ShutdownInv, pc = "done", Online
               PROVE  Len(log) = Len(submitted)
    BY DEF DrainedAtExit
  <2>1. OnceInv /\ ClosingInv /\ TerminatedInv
    BY DEF ShutdownInv
  <2>2. PICK i \in DOMAIN log : log[i] = TerminateTask
    BY <2>1 DEF TerminatedInv, Reached
  <2>3. i \in DOMAIN submitted /\ submitted[i] = TerminateTask
        /\ TerminateTask \notin fresh
    BY <2>1, <2>2, ReachedAccepted
  <2>4. /\ Len(log) \in Nat /\ Len(batch) \in Nat /\ Len(taskList) \in Nat
        /\ Len(submitted) \in Nat
        /\ DOMAIN log = 1 .. Len(log)
        /\ DOMAIN submitted = 1 .. Len(submitted)
    BY DEF TypeOK
  <2>5. i = Len(submitted)
    BY <2>1, <2>3, <2>4 DEF ClosingInv, OnceInv
  <2>6. Len(submitted) = Len(log) + Len(batch) + Len(taskList)
    BY DEF DispatchOrder
  <2> QED
    <3>1. Len(submitted) <= Len(log)
      BY <2>2, <2>4, <2>5
    <3>2. /\ Len(log) \in Nat /\ Len(batch) \in Nat /\ Len(taskList) \in Nat
          /\ Len(submitted) \in Nat
      BY <2>4
    <3> QED
      BY <2>6, <3>1, <3>2
<1> QED
  BY <1>1, Typing, OrderKept, ShutdownInvariant, PTL

-----------------------------------------------------------------------------
(* The dispatcher implements TaskQueue, as far as safety goes: its initial *)
(* states are initial states of the queue, and every step is a step of the *)
(* queue or leaves it alone.                                               *)

LEMMA AcceptStep ==
    ASSUME TypeOK, OnceInv, NEW t \in fresh, Push(t), UNCHANGED loop,
           UNCHANGED threadState, threadState = "running" \/ t = TerminateTask
    PROVE  Queue!Accept(t)
<1>1. phase' = phase /\ (phase = "open" \/ t = TerminateTask)
  BY DEF phase
<1>2. t \notin Queue!AcceptedTasks
  BY DEF Queue!AcceptedTasks, OnceInv
<1> QED
  BY <1>1, <1>2 DEF Queue!Accept, Push, loop

\* Tasks are handled once, in the order they were accepted, and only a task
\* with a deadline may be handled without being run.
LEMMA QueueSteps ==
    Steps => Queue!QueueInit /\ [][Queue!QueueNext]_(Queue!queueVars)
<1> USE TasksAssumption
<1>1. Init => Queue!QueueInit
  BY DEF Init, Queue!QueueInit, phase
<1>2. TypeOK /\ BatchInv /\ DispatchOrder /\ ShutdownInv /\ [Next]_vars
        => [Queue!QueueNext]_(Queue!queueVars)
  <2> SUFFICES ASSUME TypeOK, BatchInv, DispatchOrder, ShutdownInv,
                      [Next]_vars
               PROVE  Queue!QueueNext \/ UNCHANGED Queue!queueVars
    OBVIOUS
  <2>0. OnceInv /\ OnlineInv /\ ClosingInv /\ TerminatedInv
    BY DEF ShutdownInv
  <2>1. CASE QuietStep
    BY <2>1 DEF QuietStep, Queue!queueVars, phase
  <2>2. CASE AddStep
    <3>1. PICK t \in fresh \cap Tasks : PushIfRunning(t)
      BY <2>2 DEF AddStep
    <3>2. CASE threadState = "running"
      <4>1. Push(t) /\ UNCHANGED loop /\ UNCHANGED threadState
        BY <2>2, <3>1, <3>2 DEF PushIfRunning, AddStep, loop
      <4> QED
        BY <2>0, <3>2, <4>1, AcceptStep, Kinds DEF Queue!QueueNext
    <3>3. CASE threadState # "running"
      BY <2>2, <3>1, <3>3
         DEF AddStep, PushIfRunning, Reject, Queue!queueVars, phase
    <3> QED
      BY <3>2, <3>3
  <2>3. CASE RunTask \/ DropTask
    <3> DEFINE t == Head(batch)
    <3>1. /\ batch # <<>>
          /\ log' = Append(log, t)
          /\ UNCHANGED <<threadState, submitted>>
          /\ ran' = ran \cup {t} \/ (t \in Timed /\ ran' = ran)
      BY <2>3 DEF RunTask, DropTask, HasExpired, queue, condvar, env
    <3>2. t = submitted[Len(log) + 1] /\ Len(log) + 1 \in DOMAIN submitted
      BY <2>0, <3>1, HeadAccepted
    <3>3. Len(log) < Len(submitted)
      BY <3>2 DEF TypeOK
    <3>4. phase' = phase
      BY <3>1 DEF phase
    <3> QED
      BY <3>1, <3>2, <3>3, <3>4 DEF Queue!QueueNext, Queue!Handle
  <2>4. CASE SetShutdown
    <3>1. /\ pc = "exec"
          /\ Current \in CloseTasks
          /\ gameState = "up"
          /\ PushIfRunning(ShutdownTask)
          /\ UNCHANGED <<threadState, loop>>
      BY <2>4 DEF SetShutdown, loop
    <3>2. Online
      BY <2>0, <3>1, ReachedAccepted DEF OnlineInv, TypeOK, Current
    <3>3. threadState = "running" /\ ShutdownTask \in fresh
      BY <2>0, <3>1, <3>2 DEF ClosingInv
    <3>4. Queue!Accept(ShutdownTask)
      BY <2>0, <3>1, <3>3, AcceptStep DEF PushIfRunning
    <3> QED
      BY <3>4, Kinds DEF Queue!QueueNext
  <2>5. CASE Stop
    <3>1. threadState = "running"
      BY <2>0, <2>5 DEF Stop, OnlineInv, ClosingInv
    <3>2. Queue!Close
      BY <2>5, <3>1 DEF Stop, queue, loop, Queue!Close, phase
    <3> QED
      BY <3>2 DEF Queue!QueueNext
  <2>6. CASE GameShutdown
    <3>1. /\ TerminateTask \in fresh
          /\ Push(TerminateTask)
          /\ UNCHANGED <<threadState, loop>>
      BY <2>0, <2>6 DEF GameShutdown, ClosingInv, loop
    <3>2. Queue!Accept(TerminateTask)
      BY <2>0, <3>1, AcceptStep
    <3> QED
      BY <3>2, Kinds DEF Queue!QueueNext
  <2>7. CASE Terminate
    <3>1. TerminateTask \in ran
      BY <2>0, <2>7 DEF Terminate, OnlineInv
    <3>2. /\ phase' = "halted"
          /\ UNCHANGED <<submitted, log, ran>>
      BY <2>7 DEF Terminate, queue, loop, phase
    <3> QED
      BY <3>1, <3>2 DEF Queue!QueueNext, Queue!Halt, Queue!queueVars
  <2>8. CASE MainShutdown
    <3>1. /\ TerminateTask \in fresh
          /\ Push(TerminateTask)
          /\ UNCHANGED <<threadState, loop>>
      BY <2>8 DEF MainShutdown, loop
    <3>2. Queue!Accept(TerminateTask)
      BY <2>0, <3>1, AcceptStep
    <3> QED
      BY <3>2, Kinds DEF Queue!QueueNext
  <2> QED
    BY <2>1, <2>2, <2>3, <2>4, <2>5, <2>6, <2>7, <2>8, ShutdownSteps
<1> QED
  BY <1>1, <1>2, Typing, BatchInvariant, OrderKept, ShutdownInvariant, PTL
     DEF Steps

-----------------------------------------------------------------------------
(* Theorems.                                                               *)

\* Every variable of the dispatcher keeps its type, whatever the numbers of
\* producers and tasks.
THEOREM TypeCorrect == Spec => []TypeOK
BY Typing, PTL DEF Spec, Steps

\* No wake-up is lost: threadMain never stays in wait() for a list that holds
\* a task unless a notification is pending.
THEOREM WakeupsNotLost == Spec => []NoLostWakeup
BY WakeupsKept, PTL DEF Spec, Steps

\* Tasks are reached in the order in which addTask accepted them.
THEOREM ReachedInOrder == Spec => []DispatchOrder
BY OrderKept, PTL DEF Spec, Steps

\* The thread of an online dispatcher ends with nothing left in its list:
\* whatever addTask accepted while the server was closing was reached.
THEOREM DrainedWhenDone == Spec => []DrainedAtExit
BY DrainedKept, PTL DEF Spec, Steps

\* Tasks are handled once, in the order they were accepted, and only a task
\* with a deadline may be handled without being run.
THEOREM ImplementsQueue ==
    Spec => Queue!QueueInit /\ [][Queue!QueueNext]_(Queue!queueVars)
BY QueueSteps DEF Spec, Steps

-----------------------------------------------------------------------------
(* Every event has one owner.                                              *)

\* The handlers in line and the pending waits, between them, own an event
\* once from addEvent to its end, and a wait is under the event's id.
OwnedOnce ==
    /\ \A t \in Events : fate[t] # "pending" =>
        /\ \A k \in DOMAIN ready : ~Owns(ready[k], t)
        /\ \A i \in Ids : timer[i] # t
    /\ \A t \in Events : fate[t] = "pending" =>
        \/ \E k \in DOMAIN ready : Owns(ready[k], t)
        \/ timer[eventId[t]] = t
    /\ \A t \in Events : \A j, k \in DOMAIN ready :
        Owns(ready[j], t) /\ Owns(ready[k], t) => j = k
    /\ \A t \in Events : \A k \in DOMAIN ready : \A i \in Ids :
        Owns(ready[k], t) => timer[i] # t
    /\ \A i \in Ids : timer[i] \in Events => eventId[timer[i]] = i

\* The completion of a wait that stopEvent cancelled says so.
CancelledAborts ==
    \A t \in cancelled :
        /\ fate[t] \in {"pending", "deleted"}
        /\ \A i \in Ids : timer[i] # t
        /\ \A k \in DOMAIN ready : Owns(ready[k], t) => ready[k].kind = "abort"

SchedulerInv ==
    SchedulerTypeOK /\ OwnedOnce /\ KeysAreLive /\ CancelledAborts

\* new is seq without its first d elements, and with those of u at its end.
Moved(seq, new, d, u) ==
    /\ Len(seq) \in Nat /\ Len(u) \in Nat /\ d <= Len(seq)
    /\ DOMAIN seq = 1 .. Len(seq) /\ DOMAIN u = 1 .. Len(u)
    /\ DOMAIN new = 1 .. (Len(seq) - d + Len(u))
    /\ \A k \in 1 .. (Len(seq) - d) : new[k] = seq[k + d]
    /\ \A k \in 1 .. Len(u) : new[Len(seq) - d + k] = u[k]

LEMMA AppendMoves ==
    ASSUME NEW S, NEW seq \in Seq(S), NEW e \in S
    PROVE  Moved(seq, Append(seq, e), 0, <<e>>) /\ Append(seq, e) \in Seq(S)
BY DEF Moved

LEMMA TailMoves ==
    ASSUME NEW S, NEW seq \in Seq(S), seq # <<>>, NEW u \in Seq(S)
    PROVE  Moved(seq, Tail(seq) \o u, 1, u) /\ Tail(seq) \o u \in Seq(S)
<1>1. /\ Tail(seq) \in Seq(S) /\ Len(seq) \in Nat \ {0}
      /\ Len(Tail(seq)) = Len(seq) - 1
      /\ \A k \in 1 .. (Len(seq) - 1) : Tail(seq)[k] = seq[k + 1]
  OBVIOUS
<1> DEFINE t == Tail(seq)
<1>2. t \in Seq(S) /\ Len(t) \in Nat /\ Len(u) \in Nat
  BY <1>1
<1> HIDE DEF t
<1>3. /\ t \o u \in Seq(S) /\ DOMAIN (t \o u) = 1 .. (Len(t) + Len(u))
      /\ \A k \in 1 .. Len(t) : (t \o u)[k] = t[k]
      /\ \A k \in 1 .. Len(u) : (t \o u)[Len(t) + k] = u[k]
  BY <1>2
<1>4. t = Tail(seq)
  BY DEF t
<1> QED
  BY <1>1, <1>2, <1>3, <1>4 DEF Moved

\* What a step has to show for OwnedOnce: the handlers it adds own what was
\* new or waited, the waits it begins are of what the head owned, and nothing
\* that is still pending loses its owner.
OwnersMove(d, u) ==
    /\ \A t \in Events : fate[t] # "new" => eventId'[t] = eventId[t]
    /\ \A t \in Events : \A k \in 1 .. Len(u) : Owns(u[k], t) =>
        /\ fate'[t] = "pending"
        /\ \A i \in Ids : timer'[i] # t
        /\ fate[t] # "pending" \/ timer[eventId[t]] = t
    /\ \A t \in Events : \A j, k \in 1 .. Len(u) :
        Owns(u[j], t) /\ Owns(u[k], t) => j = k
    /\ \A i \in Ids : timer'[i] \in Events =>
        /\ eventId'[timer'[i]] = i
        /\ fate'[timer'[i]] = "pending"
        /\ timer[i] = timer'[i] \/ (d = 1 /\ Owns(ready[1], timer'[i]))
    /\ \A t \in Events : fate'[t] = "pending" =>
        \/ \E k \in 1 .. Len(u) : Owns(u[k], t)
        \/ timer'[eventId'[t]] = t
        \/ \E k \in (1 + d) .. Len(ready) : Owns(ready[k], t)
    /\ \A t \in Events : fate'[t] # "pending" =>
        fate[t] # "pending" \/ (d = 1 /\ Owns(ready[1], t))
    /\ \A t \in Events : fate[t] = "pending" => fate'[t] # "new"

LEMMA OwnedOnceKept ==
    ASSUME SchedulerTypeOK, OwnedOnce, NEW d \in {0, 1}, NEW u,
           Moved(ready, ready', d, u), OwnersMove(d, u)
    PROVE  OwnedOnce'
<1> DEFINE L == Len(ready) - d
           M == Len(u)
<1>1. /\ L \in Nat /\ M \in Nat /\ Len(ready) = L + d
      /\ DOMAIN ready = 1 .. (L + d) /\ DOMAIN ready' = 1 .. (L + M)
      /\ \A k \in 1 .. L : ready'[k] = ready[k + d] /\ k + d \in DOMAIN ready
      /\ \A k \in 1 .. M : ready'[L + k] = u[k]
  BY DEF Moved
<1>2. \A k \in DOMAIN ready' :
         k \in 1 .. L \/ (k - L \in 1 .. M /\ ready'[k] = u[k - L])
  BY <1>1
<1> HIDE DEF L, M
<1>3. ASSUME NEW t \in Events, NEW k \in DOMAIN ready', Owns(ready'[k], t)
      PROVE  /\ \/ k \in 1 .. L /\ Owns(ready[k + d], t)
                \/ k - L \in 1 .. M /\ Owns(u[k - L], t)
             /\ fate'[t] = "pending"
             /\ \A i \in Ids : timer'[i] # t
  <2>1. CASE k \in 1 .. L
    <3>1. k + d \in DOMAIN ready /\ Owns(ready[k + d], t)
      BY <1>1, <1>3, <2>1
    <3>2. fate[t] = "pending" /\ \A i \in Ids : timer[i] # t
      BY <3>1 DEF OwnedOnce
    <3>3. ~(d = 1 /\ Owns(ready[1], t))
      <4>1. 1 \in DOMAIN ready /\ (d = 1 => k + d # 1)
        BY <1>1, <2>1
      <4> QED
        BY <3>1, <4>1 DEF OwnedOnce
    <3>4. fate'[t] = "pending" /\ \A i \in Ids : timer'[i] # t
      BY <3>2, <3>3 DEF OwnersMove
    <3> QED
      BY <2>1, <3>1, <3>4
  <2>2. CASE k - L \in 1 .. M /\ ready'[k] = u[k - L]
    BY <1>3, <2>2 DEF OwnersMove, M
  <2> QED
    BY <1>2, <2>1, <2>2
<1>4. \A t \in Events : fate'[t] # "pending" =>
        /\ \A k \in DOMAIN ready' : ~Owns(ready'[k], t)
        /\ \A i \in Ids : timer'[i] # t
  BY <1>3 DEF OwnersMove
<1>5. ASSUME NEW t \in Events, fate'[t] = "pending",
             timer'[eventId'[t]] # t
      PROVE  \E k \in DOMAIN ready' : Owns(ready'[k], t)
  <2>1. CASE \E k \in 1 .. Len(u) : Owns(u[k], t)
    <3>1. PICK k \in 1 .. M : Owns(u[k], t)
      BY <2>1 DEF M
    <3>2. L + k \in DOMAIN ready' /\ ready'[L + k] = u[k]
      BY <1>1, <3>1
    <3> QED
      BY <3>1, <3>2
  <2>2. CASE \E k \in (1 + d) .. Len(ready) : Owns(ready[k], t)
    <3>1. PICK k \in (1 + d) .. Len(ready) : Owns(ready[k], t)
      BY <2>2
    <3>2. k - d \in DOMAIN ready' /\ ready'[k - d] = ready[k]
      <4>1. k - d \in 1 .. L /\ (k - d) + d = k
        BY <1>1
      <4> QED
        BY <1>1, <4>1
    <3> QED
      BY <3>1, <3>2
  <2> QED
    BY <1>5, <2>1, <2>2 DEF OwnersMove
<1>6. ASSUME NEW t \in Events, NEW j \in DOMAIN ready',
             NEW k \in DOMAIN ready', Owns(ready'[j], t), Owns(ready'[k], t)
      PROVE  j = k
  <2>1. CASE j \in 1 .. L /\ k \in 1 .. L
    <3>1. /\ j + d \in DOMAIN ready /\ Owns(ready[j + d], t)
          /\ k + d \in DOMAIN ready /\ Owns(ready[k + d], t)
      BY <1>1, <1>6, <2>1
    <3>2. j + d = k + d
      BY <3>1 DEF OwnedOnce
    <3> QED
      BY <1>1, <3>2
  <2>2. ASSUME NEW a \in 1 .. L, NEW b \in 1 .. M, Owns(u[b], t),
               Owns(ready'[a], t)
        PROVE  FALSE
    <3>1. a + d \in DOMAIN ready /\ Owns(ready[a + d], t)
      BY <1>1, <2>2
    <3>2. fate[t] = "pending" /\ \A i \in Ids : timer[i] # t
      BY <3>1 DEF OwnedOnce
    <3>3. eventId[t] \in Ids
      BY DEF SchedulerTypeOK
    <3> QED
      BY <2>2, <3>2, <3>3 DEF OwnersMove, M
  <2>3. CASE /\ j - L \in 1 .. M /\ Owns(u[j - L], t)
             /\ k - L \in 1 .. M /\ Owns(u[k - L], t)
    <3>1. j - L = k - L
      BY <2>3 DEF OwnersMove, M
    <3> QED
      BY <1>1, <3>1
  <2> QED
    BY <1>2, <1>6, <2>1, <2>2, <2>3
<1>7. \A i \in Ids : timer'[i] \in Events => eventId'[timer'[i]] = i
  BY DEF OwnersMove
<1> QED
  BY <1>3, <1>4, <1>5, <1>6, <1>7 DEF OwnedOnce

\* The same for KeysAreLive and CancelledAborts.
Completes(op, i) == op.kind \in {"fire", "abort"} /\ eventId[op.arg] = i

WillComplete(op, i) == op.kind \in {"fire", "abort"} /\ eventId'[op.arg] = i

KeysMove(d, u) ==
    \A i \in Ids : timer'[i] = NoWait =>
        \/ \E k \in 1 .. Len(u) : WillComplete(u[k], i)
        \/ timer[i] = NoWait /\ (d = 1 => ~Completes(ready[1], i))

CancelledMove(u) ==
    \A t \in cancelled' :
        /\ t \in cancelled \/ \A k \in DOMAIN ready : ~Owns(ready[k], t)
        /\ fate'[t] \in {"pending", "deleted"}
        /\ \A i \in Ids : timer'[i] # t
        /\ \A k \in 1 .. Len(u) : Owns(u[k], t) => u[k].kind = "abort"

LEMMA OwnerTypes ==
    ASSUME SchedulerTypeOK, NEW k \in DOMAIN ready
    PROVE  /\ ready[k] \in Ops
           /\ ready[k].kind \in {"add", "fire", "abort"} =>
                 ready[k].arg \in Events /\ Owns(ready[k], ready[k].arg)
           /\ ready[k].kind = "stop" => ready[k].arg \in Ids
<1>1. ready[k] \in Ops
  BY DEF SchedulerTypeOK
<1> QED
  BY <1>1 DEF Ops, Owns

LEMMA SchedulerInvKept ==
    ASSUME SchedulerInv, SchedulerTypeOK', NEW d \in {0, 1}, NEW u,
           Moved(ready, ready', d, u), OwnersMove(d, u), KeysMove(d, u),
           CancelledMove(u)
    PROVE  SchedulerInv'
<1> USE DEF SchedulerInv
<1>1. OwnedOnce'
  BY OwnedOnceKept
<1> DEFINE L == Len(ready) - d
           M == Len(u)
<1>2. /\ L \in Nat /\ M \in Nat /\ Len(ready) = L + d
      /\ DOMAIN ready = 1 .. (L + d) /\ DOMAIN ready' = 1 .. (L + M)
      /\ \A k \in 1 .. L : ready'[k] = ready[k + d] /\ k + d \in DOMAIN ready
      /\ \A k \in 1 .. M : ready'[L + k] = u[k]
  BY DEF Moved
<1> HIDE DEF L, M
<1>3. \A k \in DOMAIN ready' :
         k \in 1 .. L \/ (k - L \in 1 .. M /\ ready'[k] = u[k - L])
  <2> SUFFICES ASSUME NEW k \in DOMAIN ready', k \notin 1 .. L
               PROVE  k - L \in 1 .. M /\ ready'[k] = u[k - L]
    OBVIOUS
  <2>1. k - L \in 1 .. M /\ L + (k - L) = k
    BY <1>2
  <2> QED
    BY <1>2, <2>1
<1>4. ASSUME NEW i \in Ids, timer'[i] = NoWait
      PROVE  \E k \in DOMAIN ready' : WillComplete(ready'[k], i)
  <2>1. CASE \E k \in 1 .. Len(u) : WillComplete(u[k], i)
    <3>1. PICK k \in 1 .. M : WillComplete(u[k], i)
      BY <2>1 DEF M
    <3>2. L + k \in DOMAIN ready' /\ ready'[L + k] = u[k]
      BY <1>2, <3>1
    <3> QED
      BY <3>1, <3>2
  <2>2. CASE timer[i] = NoWait /\ (d = 1 => ~Completes(ready[1], i))
    <3>1. PICK k \in DOMAIN ready : Completes(ready[k], i)
      BY <2>2 DEF KeysAreLive, Completes
    <3>2. k - d \in DOMAIN ready' /\ ready'[k - d] = ready[k]
      <4>1. k - d \in 1 .. L /\ (k - d) + d = k
        BY <1>2, <2>2, <3>1
      <4> QED
        BY <1>2, <4>1
    <3>3. ready[k].arg \in Events /\ Owns(ready[k], ready[k].arg)
      BY <3>1, OwnerTypes DEF Completes
    <3>4. fate[ready[k].arg] = "pending"
      BY <3>3 DEF OwnedOnce
    <3>5. eventId'[ready[k].arg] = eventId[ready[k].arg]
      BY <3>3, <3>4 DEF OwnersMove
    <3> QED
      BY <3>1, <3>2, <3>5 DEF Completes, WillComplete
  <2> QED
    BY <1>4, <2>1, <2>2 DEF KeysMove
<1>5. KeysAreLive'
  BY <1>4 DEF KeysAreLive, WillComplete
<1>6. ASSUME NEW t \in cancelled', NEW k \in DOMAIN ready',
             Owns(ready'[k], t)
      PROVE  ready'[k].kind = "abort"
  <2>1. CASE k \in 1 .. L
    <3>1. k + d \in DOMAIN ready /\ ready'[k] = ready[k + d]
      BY <1>2, <2>1
    <3> QED
      BY <1>6, <3>1 DEF CancelledMove, CancelledAborts
  <2>2. CASE k - L \in 1 .. M /\ ready'[k] = u[k - L]
    BY <1>6, <2>2 DEF CancelledMove, M
  <2> QED
    BY <1>3, <2>1, <2>2
<1>7. CancelledAborts'
  BY <1>6 DEF CancelledAborts, CancelledMove
<1> QED
  BY <1>1, <1>5, <1>7

-----------------------------------------------------------------------------
(* The steps of the callers.                                               *)

LEMMA OneOpFacts ==
    ASSUME NEW kind, NEW a
    PROVE  /\ Len(<<Op(kind, a)>>) = 1
           /\ \A k \in 1 .. Len(<<Op(kind, a)>>) :
                 <<Op(kind, a)>>[k] = [kind |-> kind, arg |-> a]
BY DEF Op

LEMMA AddEventKeeps ==
    ASSUME SchedulerInv, NEW t \in Events, AddEvent(t)
    PROVE  SchedulerInv'
<1> DEFINE u == <<Op("add", t)>>
<1>0. SchedulerTypeOK /\ OwnedOnce /\ KeysAreLive /\ CancelledAborts
  BY DEF SchedulerInv
<1>1. Len(u) = 1 /\ \A k \in 1 .. Len(u) : u[k] = [kind |-> "add", arg |-> t]
  BY OneOpFacts
<1>2. Moved(ready, ready', 0, u) /\ ready' \in Seq(Ops)
  BY <1>0, AppendMoves DEF AddEvent, SchedulerTypeOK, Op, Ops
<1> HIDE DEF u
<1>3. NextId \in Ids
  BY SchedulerAssumption, <1>0 DEF SchedulerTypeOK, NextId, Ids
<1>4. SchedulerTypeOK'
  BY <1>0, <1>2, <1>3 DEF AddEvent, SchedulerTypeOK
<1>5. /\ fate[t] = "new" /\ fate'[t] = "pending"
      /\ \A x \in Events \ {t} :
            fate'[x] = fate[x] /\ eventId'[x] = eventId[x]
      /\ timer' = timer /\ cancelled' = cancelled
  BY <1>0 DEF AddEvent, SchedulerTypeOK
<1>6. \A x \in Events : \A k \in 1 .. Len(u) : Owns(u[k], x) <=> x = t
  BY <1>1 DEF Owns
<1>7. /\ \A i \in Ids : timer[i] # t
      /\ \A i \in Ids : timer[i] \in Events =>
            timer[i] # t /\ fate[timer[i]] = "pending"
      /\ eventId[t] \in Ids
  BY <1>0, <1>5 DEF OwnedOnce, SchedulerTypeOK
<1>8. OwnersMove(0, u)
  <2>1. \A x \in Events : fate'[x] = "pending" =>
        \/ \E k \in 1 .. Len(u) : Owns(u[k], x)
        \/ timer'[eventId'[x]] = x
        \/ \E k \in (1 + 0) .. Len(ready) : Owns(ready[k], x)
    <3>1. DOMAIN ready = (1 + 0) .. Len(ready)
      BY <1>0 DEF SchedulerTypeOK
    <3>2. 1 \in 1 .. Len(u)
      BY <1>1
    <3> QED
      BY <1>0, <1>5, <1>6, <3>1, <3>2 DEF OwnedOnce
  <2>2. \A j, k \in 1 .. Len(u) : j = k
    BY <1>1
  <2> QED
    BY <1>0, <1>5, <1>6, <1>7, <2>1, <2>2 DEF OwnersMove, OwnedOnce
<1>9. KeysMove(0, u)
  BY <1>5 DEF KeysMove
<1>10. CancelledMove(u)
  BY <1>0, <1>5, <1>6, <1>7 DEF CancelledMove, CancelledAborts, OwnedOnce,
     SchedulerTypeOK
<1> QED
  BY <1>2, <1>4, <1>8, <1>9, <1>10, SchedulerInvKept

\* A step that adds one handler, which owns nothing, and moves no timer.
LEMMA PostKeeps ==
    ASSUME SchedulerInv, NEW kind \in {"stop", "shutdown"}, NEW a,
           Op(kind, a) \in Ops,
           ready' = Append(ready, Op(kind, a)), asked' \subseteq Ids,
           terminated' \in BOOLEAN,
           UNCHANGED <<lastEventId, eventId, timer, stopped, fate, cancelled>>
    PROVE  SchedulerInv'
<1> DEFINE u == <<Op(kind, a)>>
<1>0. SchedulerTypeOK /\ OwnedOnce /\ KeysAreLive /\ CancelledAborts
  BY DEF SchedulerInv
<1>1. Len(u) = 1 /\ \A k \in 1 .. Len(u) : u[k] = [kind |-> kind, arg |-> a]
  BY OneOpFacts
<1>2. Moved(ready, ready', 0, u) /\ ready' \in Seq(Ops)
  BY <1>0, AppendMoves DEF SchedulerTypeOK
<1> HIDE DEF u
<1>3. SchedulerTypeOK'
  BY <1>0, <1>2 DEF SchedulerTypeOK
<1>4. \A x \in Events : \A k \in 1 .. Len(u) : ~Owns(u[k], x)
  BY <1>1 DEF Owns
<1>5. DOMAIN ready = (1 + 0) .. Len(ready)
  BY <1>0 DEF SchedulerTypeOK
<1>6. OwnersMove(0, u)
  BY <1>0, <1>4, <1>5 DEF OwnersMove, OwnedOnce
<1>7. KeysMove(0, u)
  BY DEF KeysMove
<1>8. CancelledMove(u)
  BY <1>0, <1>4 DEF CancelledMove, CancelledAborts, SchedulerTypeOK
<1> QED
  BY <1>2, <1>3, <1>6, <1>7, <1>8, SchedulerInvKept

LEMMA CallersKeep ==
    ASSUME SchedulerInv, SchedulerShutdown \/ \E i \in Ids : StopEvent(i)
    PROVE  SchedulerInv'
<1>0. asked \subseteq Ids /\ terminated \in BOOLEAN
  BY DEF SchedulerInv, SchedulerTypeOK
<1>1. CASE SchedulerShutdown
  <2>1. Op("shutdown", 0) \in Ops
    BY DEF Op, Ops
  <2> QED
    BY <1>0, <1>1, <2>1, PostKeeps DEF SchedulerShutdown, ids
<1>2. ASSUME NEW i \in Ids, StopEvent(i)
      PROVE  SchedulerInv'
  <2>1. Op("stop", i) \in Ops
    BY DEF Op, Ops
  <2> QED
    BY <1>0, <1>2, <2>1, PostKeeps DEF StopEvent
<1> QED
  BY <1>1, <1>2

LEMMA TimerExpiresKeeps ==
    ASSUME SchedulerInv, NEW i \in Ids, TimerExpires(i)
    PROVE  SchedulerInv'
<1> DEFINE t == timer[i]
           u == <<Op("fire", t)>>
<1>0. SchedulerTypeOK /\ OwnedOnce /\ KeysAreLive /\ CancelledAborts
  BY DEF SchedulerInv
<1>1. Len(u) = 1 /\ \A k \in 1 .. Len(u) : u[k] = [kind |-> "fire", arg |-> t]
  BY OneOpFacts
<1>2. t \in Events
  BY DEF TimerExpires
<1>3. Moved(ready, ready', 0, u) /\ ready' \in Seq(Ops)
  BY <1>0, <1>2, AppendMoves DEF TimerExpires, SchedulerTypeOK, Op, Ops
<1>4. /\ eventId' = eventId /\ fate' = fate /\ cancelled' = cancelled
      /\ timer' = [timer EXCEPT ![i] = NoWait]
      /\ lastEventId' = lastEventId /\ asked' = asked
      /\ terminated' = terminated /\ stopped' = stopped
  BY DEF TimerExpires, ids
<1> HIDE DEF u
<1>5. SchedulerTypeOK'
  BY <1>0, <1>3, <1>4 DEF SchedulerTypeOK
<1>6. \A x \in Events : \A k \in 1 .. Len(u) : Owns(u[k], x) <=> x = t
  BY <1>1 DEF Owns
<1>7. /\ fate[t] = "pending" /\ eventId[t] = i
      /\ \A k \in DOMAIN ready : ~Owns(ready[k], t)
      /\ \A j \in Ids : timer[j] = t => j = i
  BY <1>0, <1>2 DEF OwnedOnce
<1>8. /\ timer'[i] = NoWait /\ \A j \in Ids \ {i} : timer'[j] = timer[j]
      /\ NoWait \notin Events
  BY <1>0, <1>4, SchedulerAssumption DEF SchedulerTypeOK
<1> HIDE DEF t
<1>9. DOMAIN ready = (1 + 0) .. Len(ready)
  BY <1>0 DEF SchedulerTypeOK
<1>10. OwnersMove(0, u)
  <2>1. \A j, k \in 1 .. Len(u) : j = k
    BY <1>1
  <2>2. \A j \in Ids : timer'[j] # t
    BY <1>2, <1>7, <1>8
  <2>3. \A j \in Ids : timer'[j] \in Events =>
            j # i /\ timer'[j] = timer[j] /\ eventId[timer[j]] = j
            /\ fate[timer[j]] = "pending"
    BY <1>0, <1>8 DEF OwnedOnce
  <2>4. \A x \in Events : fate[x] = "pending" =>
        \/ \E k \in 1 .. Len(u) : Owns(u[k], x)
        \/ timer'[eventId[x]] = x
        \/ \E k \in (1 + 0) .. Len(ready) : Owns(ready[k], x)
    <3>1. 1 \in 1 .. Len(u)
      BY <1>1
    <3>2. \A x \in Events : eventId[x] \in Ids
      BY <1>0 DEF SchedulerTypeOK
    <3> QED
      BY <1>0, <1>6, <1>7, <1>8, <1>9, <3>1, <3>2 DEF OwnedOnce, t
  <2> QED
    BY <1>4, <1>6, <1>7, <2>1, <2>2, <2>3, <2>4 DEF OwnersMove, t
<1>11. KeysMove(0, u)
  <2>1. 1 \in 1 .. Len(u) /\ WillComplete(u[1], i)
    BY <1>1, <1>4, <1>7 DEF WillComplete
  <2> QED
    BY <1>8, <2>1 DEF KeysMove
<1>12. CancelledMove(u)
  <2>1. t \notin cancelled
    BY <1>0 DEF CancelledAborts, t
  <2>2. cancelled \subseteq Events
    BY <1>0 DEF SchedulerTypeOK
  <2>3. \A x \in cancelled : \A j \in Ids : timer'[j] # x
    <3>1. \A x \in cancelled : \A j \in Ids : timer[j] # x
      BY <1>0 DEF CancelledAborts
    <3> QED
      BY <1>8, <2>2, <3>1
  <2> QED
    BY <1>0, <1>4, <1>6, <2>1, <2>2, <2>3 DEF CancelledMove, CancelledAborts
<1> QED
  BY <1>3, <1>5, <1>10, <1>11, <1>12, SchedulerInvKept

-----------------------------------------------------------------------------
(* The steps of the scheduler's thread.                                    *)

LEMMA CancelFacts ==
    ASSUME SchedulerTypeOK, NEW i \in Ids
    PROVE  /\ Cancel(i) \in Seq(Ops)
           /\ timer[i] \in Events =>
                 /\ Len(Cancel(i)) = 1
                 /\ Cancel(i)[1] = [kind |-> "abort", arg |-> timer[i]]
           /\ timer[i] \notin Events => Len(Cancel(i)) = 0
<1>1. CASE timer[i] \in Events
  BY <1>1 DEF Cancel, Op, Ops
<1>2. CASE timer[i] \notin Events
  BY <1>2, EmptySeq DEF Cancel
<1> QED
  BY <1>1, <1>2

LEMMA HeadFacts ==
    ASSUME SchedulerTypeOK, OwnedOnce, NEW kind, NextHandler(kind)
    PROVE  /\ ready # <<>> /\ ready[1].kind = kind /\ ready[1].arg = Arg
           /\ DOMAIN ready = 1 .. Len(ready) /\ 1 \in DOMAIN ready
           /\ \A x \in Events :
                 Owns(ready[1], x)
                    <=> x = Arg /\ kind \in {"add", "fire", "abort"}
           /\ kind \in {"add", "fire", "abort"} =>
                 /\ Arg \in Events /\ eventId[Arg] \in Ids
                 /\ fate[Arg] = "pending"
                 /\ \A j \in Ids : timer[j] # Arg
                 /\ \A k \in DOMAIN ready : Owns(ready[k], Arg) => k = 1
           /\ kind = "stop" => Arg \in Ids
<1>1. /\ ready # <<>> /\ ready[1].kind = kind /\ ready[1].arg = Arg
      /\ DOMAIN ready = 1 .. Len(ready) /\ 1 \in DOMAIN ready
  BY DEF SchedulerTypeOK, NextHandler, Arg
<1>2. \A x \in Events : Owns(ready[1], x)
                            <=> x = Arg /\ kind \in {"add", "fire", "abort"}
  BY <1>1 DEF Owns
<1>3. /\ kind \in {"add", "fire", "abort"} => Arg \in Events
      /\ kind = "stop" => Arg \in Ids
  BY <1>1, OwnerTypes
<1>4. kind \in {"add", "fire", "abort"} =>
          /\ fate[Arg] = "pending"
          /\ \A j \in Ids : timer[j] # Arg
          /\ \A k \in DOMAIN ready : Owns(ready[k], Arg) => k = 1
  BY <1>1, <1>2, <1>3 DEF OwnedOnce
<1> QED
  BY <1>1, <1>2, <1>3, <1>4 DEF SchedulerTypeOK

\* What the wait on timer i owns, when there is one.
LEMMA WaitFacts ==
    ASSUME SchedulerTypeOK, OwnedOnce, NEW i \in Ids, timer[i] \in Events
    PROVE  /\ fate[timer[i]] = "pending" /\ eventId[timer[i]] = i
           /\ \A j \in Ids \ {i} : timer[j] # timer[i]
           /\ \A k \in DOMAIN ready : ~Owns(ready[k], timer[i])
BY DEF OwnedOnce

\* What the handlers of the thread do to a timer and to the head, which is
\* over; the completion of a wait that is lost is queued.
TimerSet(i, value) ==
    /\ ready' = Tail(ready) \o Cancel(i)
    /\ timer' = [timer EXCEPT ![i] = value]
    /\ UNCHANGED <<ids, terminated, stopped>>

LEMMA TimerSetFacts ==
    ASSUME SchedulerTypeOK, ready # <<>>, NEW i \in Ids,
           NEW value \in Events \cup {NoWait, Absent}, TimerSet(i, value)
    PROVE  /\ Moved(ready, ready', 1, Cancel(i))
           /\ ready' \in Seq(Ops)
           /\ timer' \in [Ids -> Events \cup {NoWait, Absent}]
           /\ timer'[i] = value /\ \A j \in Ids \ {i} : timer'[j] = timer[j]
           /\ eventId' = eventId
<1>1. ready \in Seq(Ops) /\ Cancel(i) \in Seq(Ops)
  BY CancelFacts DEF SchedulerTypeOK
<1> QED
  BY <1>1, TailMoves DEF TimerSet, SchedulerTypeOK, ids

\* Nothing pending loses its owner when a wait's completion is queued, but
\* for what the head owned.
LEMMA OwnersStay ==
    ASSUME SchedulerTypeOK, OwnedOnce, NEW kind, NextHandler(kind),
           NEW i \in Ids, NEW value \in Events \cup {NoWait, Absent},
           TimerSet(i, value),
           NEW x \in Events, fate[x] = "pending",
           kind \in {"add", "fire", "abort"} => x # Arg
    PROVE  \/ \E k \in 1 .. Len(Cancel(i)) : Owns(Cancel(i)[k], x)
           \/ timer'[eventId'[x]] = x
           \/ \E k \in (1 + 1) .. Len(ready) : Owns(ready[k], x)
<1>1. CASE \E k \in DOMAIN ready : Owns(ready[k], x)
  <2>1. PICK k \in DOMAIN ready : Owns(ready[k], x)
    BY <1>1
  <2>2. k # 1
    BY <2>1, HeadFacts
  <2>3. k \in (1 + 1) .. Len(ready)
    BY <2>1, <2>2, HeadFacts
  <2> QED
    BY <2>1, <2>3
<1>2. CASE timer[eventId[x]] = x /\ eventId[x] # i
  <2>1. eventId[x] \in Ids /\ ready # <<>>
    BY HeadFacts DEF SchedulerTypeOK
  <2> QED
    BY <1>2, <2>1, TimerSetFacts
<1>3. CASE timer[eventId[x]] = x /\ eventId[x] = i
  <2>1. Len(Cancel(i)) = 1
        /\ Cancel(i)[1] = [kind |-> "abort", arg |-> timer[i]]
    BY <1>3, CancelFacts
  <2>2. 1 \in 1 .. Len(Cancel(i)) /\ Owns(Cancel(i)[1], x)
    BY <1>3, <2>1 DEF Owns
  <2> QED
    BY <2>2
<1> QED
  BY <1>1, <1>2, <1>3 DEF OwnedOnce

\* What the queued completion owns is no timer's any more.
LEMMA CancelOwns ==
    ASSUME SchedulerTypeOK, OwnedOnce, ready # <<>>, NEW i \in Ids,
           NEW value \in Events \cup {NoWait, Absent}, TimerSet(i, value)
    PROVE  /\ \A j, k \in 1 .. Len(Cancel(i)) : j = k
           /\ \A x \in Events : \A k \in 1 .. Len(Cancel(i)) :
                Owns(Cancel(i)[k], x) =>
                    /\ x = timer[i] /\ fate[x] = "pending"
                    /\ timer[eventId[x]] = x
                    /\ Cancel(i)[k].kind = "abort"
                    /\ \A j \in Ids : timer'[j] = x => j = i /\ value = x
<1>1. CASE timer[i] \notin Events
  <2>1. Len(Cancel(i)) = 0
    BY <1>1, CancelFacts
  <2> QED
    BY <2>1
<1>2. CASE timer[i] \in Events
  <2>1. Len(Cancel(i)) = 1
        /\ Cancel(i)[1] = [kind |-> "abort", arg |-> timer[i]]
    BY <1>2, CancelFacts
  <2>2. \A x \in Events : \A k \in 1 .. Len(Cancel(i)) :
            Owns(Cancel(i)[k], x) => k = 1 /\ x = timer[i]
    BY <2>1 DEF Owns
  <2>3. \A j \in Ids : timer'[j] = timer[i] => j = i /\ value = timer[i]
    BY <1>2, WaitFacts, TimerSetFacts
  <2>4. \A j, k \in 1 .. Len(Cancel(i)) : j = k
    BY <2>1
  <2> QED
    BY <1>2, <2>1, <2>2, <2>3, <2>4, WaitFacts
<1> QED
  BY <1>1, <1>2

LEMMA RunAddKeeps == ASSUME SchedulerInv, RunAdd PROVE SchedulerInv'
<1> DEFINE i == eventId[Arg]
           u == Cancel(i)
<1>0. SchedulerTypeOK /\ OwnedOnce /\ KeysAreLive /\ CancelledAborts
  BY DEF SchedulerInv
<1>1. NextHandler("add")
  BY DEF RunAdd
<1>2. /\ ready # <<>> /\ 1 \in DOMAIN ready /\ ready[1].kind = "add"
      /\ \A x \in Events : Owns(ready[1], x) <=> x = Arg
      /\ Arg \in Events /\ i \in Ids /\ fate[Arg] = "pending"
      /\ \A j \in Ids : timer[j] # Arg
  BY <1>0, <1>1, HeadFacts
<1>3. TimerSet(i, Arg) /\ fate' = fate /\ cancelled' = cancelled
  BY DEF RunAdd, TimerSet
<1>4. /\ Moved(ready, ready', 1, u) /\ ready' \in Seq(Ops)
      /\ timer' \in [Ids -> Events \cup {NoWait, Absent}]
      /\ timer'[i] = Arg /\ \A j \in Ids \ {i} : timer'[j] = timer[j]
      /\ eventId' = eventId
  BY <1>0, <1>2, <1>3, TimerSetFacts
<1>5. SchedulerTypeOK'
  BY <1>0, <1>3, <1>4 DEF SchedulerTypeOK, TimerSet, ids
<1>6. /\ \A j, k \in 1 .. Len(u) : j = k
      /\ \A x \in Events : \A k \in 1 .. Len(u) : Owns(u[k], x) =>
            /\ x = timer[i] /\ fate[x] = "pending" /\ timer[eventId[x]] = x
            /\ u[k].kind = "abort"
            /\ \A j \in Ids : timer'[j] = x => j = i /\ Arg = x
  BY <1>0, <1>2, <1>3, CancelOwns
<1>7. \A x \in Events : fate[x] = "pending" /\ x # Arg =>
        \/ \E k \in 1 .. Len(u) : Owns(u[k], x)
        \/ timer'[eventId'[x]] = x
        \/ \E k \in (1 + 1) .. Len(ready) : Owns(ready[k], x)
  BY <1>0, <1>1, <1>2, <1>3, OwnersStay
<1> HIDE DEF u
<1>8. OwnersMove(1, u)
  <2>1. \A x \in Events : \A k \in 1 .. Len(u) : Owns(u[k], x) => x # Arg
    BY <1>2, <1>6
  <2>2. \A j \in Ids : timer'[j] \in Events =>
            /\ eventId[timer'[j]] = j /\ fate[timer'[j]] = "pending"
            /\ timer[j] = timer'[j] \/ Owns(ready[1], timer'[j])
    <3>1. \A j \in Ids : timer[j] \in Events =>
            eventId[timer[j]] = j /\ fate[timer[j]] = "pending"
      BY <1>0 DEF OwnedOnce
    <3> QED
      BY <1>2, <1>4, <3>1
  <2> QED
    BY <1>2, <1>3, <1>4, <1>6, <1>7, <2>1, <2>2 DEF OwnersMove
<1>9. KeysMove(1, u)
  <2>1. Arg # NoWait
    BY <1>2, SchedulerAssumption
  <2> QED
    BY <1>2, <1>4, <2>1 DEF KeysMove, Completes
<1>10. CancelledMove(u)
  <2>1. Arg \notin cancelled /\ cancelled \subseteq Events
    BY <1>0, <1>2 DEF CancelledAborts, SchedulerTypeOK
  <2>2. \A x \in cancelled : \A j \in Ids : timer[j] # x
    BY <1>0 DEF CancelledAborts
  <2>3. \A x \in cancelled : \A j \in Ids : timer'[j] # x
    BY <1>4, <2>1, <2>2
  <2> QED
    BY <1>0, <1>3, <1>6, <2>1, <2>3 DEF CancelledMove, CancelledAborts
<1> QED
  BY <1>4, <1>5, <1>8, <1>9, <1>10, SchedulerInvKept

LEMMA RunStopKeeps == ASSUME SchedulerInv, RunStop PROVE SchedulerInv'
<1> DEFINE i == Arg
           u == Cancel(i)
           value == IF timer[i] \in Events THEN NoWait ELSE timer[i]
<1>0. SchedulerTypeOK /\ OwnedOnce /\ KeysAreLive /\ CancelledAborts
  BY DEF SchedulerInv
<1>1. NextHandler("stop")
  BY DEF RunStop
<1>2. /\ ready # <<>> /\ 1 \in DOMAIN ready /\ ready[1].kind = "stop"
      /\ \A x \in Events : ~Owns(ready[1], x)
      /\ i \in Ids
  BY <1>0, <1>1, HeadFacts
<1>3. TimerSet(i, value) /\ fate' = fate
  BY <1>0, <1>2 DEF RunStop, TimerSet, SchedulerTypeOK
<1>4. value \in Events \cup {NoWait, Absent} /\ value \notin Events
  BY <1>0, <1>2, SchedulerAssumption DEF SchedulerTypeOK
<1>5. /\ Moved(ready, ready', 1, u) /\ ready' \in Seq(Ops)
      /\ timer' \in [Ids -> Events \cup {NoWait, Absent}]
      /\ timer'[i] = value /\ \A j \in Ids \ {i} : timer'[j] = timer[j]
      /\ eventId' = eventId
  BY <1>0, <1>2, <1>3, <1>4, TimerSetFacts
<1>6. /\ timer[i] \in Events => cancelled' = cancelled \cup {timer[i]}
      /\ timer[i] \notin Events => cancelled' = cancelled
  BY DEF RunStop
<1>7. SchedulerTypeOK'
  BY <1>0, <1>3, <1>5, <1>6 DEF SchedulerTypeOK, TimerSet, ids
<1>8. /\ \A j, k \in 1 .. Len(u) : j = k
      /\ \A x \in Events : \A k \in 1 .. Len(u) : Owns(u[k], x) =>
            /\ x = timer[i] /\ fate[x] = "pending" /\ timer[eventId[x]] = x
            /\ u[k].kind = "abort"
            /\ \A j \in Ids : timer'[j] = x => j = i /\ value = x
  BY <1>0, <1>2, <1>3, <1>4, CancelOwns
<1>9. \A x \in Events : fate[x] = "pending" =>
        \/ \E k \in 1 .. Len(u) : Owns(u[k], x)
        \/ timer'[eventId'[x]] = x
        \/ \E k \in (1 + 1) .. Len(ready) : Owns(ready[k], x)
  BY <1>0, <1>1, <1>2, <1>3, <1>4, OwnersStay
<1>10. timer[i] \in Events =>
          /\ Len(u) = 1 /\ u[1] = [kind |-> "abort", arg |-> timer[i]]
          /\ fate[timer[i]] = "pending" /\ eventId[timer[i]] = i
          /\ \A j \in Ids \ {i} : timer[j] # timer[i]
          /\ \A k \in DOMAIN ready : ~Owns(ready[k], timer[i])
  BY <1>0, <1>2, CancelFacts, WaitFacts
<1>11. timer[i] \in Events => value = NoWait
  OBVIOUS
<1> HIDE DEF u, value
<1>12. OwnersMove(1, u)
  <2>1. \A j \in Ids : timer'[j] \in Events =>
            /\ eventId[timer'[j]] = j /\ fate[timer'[j]] = "pending"
            /\ timer[j] = timer'[j]
    <3>1. \A j \in Ids : timer[j] \in Events =>
            eventId[timer[j]] = j /\ fate[timer[j]] = "pending"
      BY <1>0 DEF OwnedOnce
    <3> QED
      BY <1>4, <1>5, <3>1
  <2> QED
    BY <1>3, <1>4, <1>5, <1>8, <1>9, <2>1 DEF OwnersMove
<1>13. KeysMove(1, u)
  <2>1. CASE timer[i] \in Events
    <3>1. 1 \in 1 .. Len(u) /\ WillComplete(u[1], i)
      BY <1>5, <1>10, <2>1 DEF WillComplete
    <3> QED
      BY <1>2, <1>5, <3>1 DEF KeysMove, Completes
  <2>2. CASE timer[i] \notin Events
    <3>1. timer'[i] = timer[i]
      BY <1>5, <2>2 DEF value
    <3> QED
      BY <1>2, <1>5, <3>1 DEF KeysMove, Completes
  <2> QED
    BY <2>1, <2>2
<1>14. CancelledMove(u)
  <2>1. \A x \in cancelled' :
            x \in cancelled \/ (timer[i] \in Events /\ x = timer[i])
    BY <1>6
  <2>2. ASSUME NEW x \in cancelled
        PROVE  /\ fate'[x] \in {"pending", "deleted"}
               /\ \A j \in Ids : timer'[j] # x
    <3>1. /\ fate[x] \in {"pending", "deleted"} /\ x \in Events
          /\ \A j \in Ids : timer[j] # x
      BY <1>0 DEF CancelledAborts, SchedulerTypeOK
    <3> QED
      BY <1>2, <1>3, <1>4, <1>5, <3>1
  <2>3. ASSUME timer[i] \in Events
        PROVE  /\ fate'[timer[i]] \in {"pending", "deleted"}
               /\ \A j \in Ids : timer'[j] # timer[i]
    BY <1>2, <1>3, <1>4, <1>5, <1>10, <2>3
  <2>4. cancelled' \subseteq Events
    BY <1>7 DEF SchedulerTypeOK
  <2> QED
    BY <1>8, <1>10, <2>1, <2>2, <2>3, <2>4 DEF CancelledMove
<1> QED
  BY <1>5, <1>7, <1>12, <1>13, <1>14, SchedulerInvKept

LEMMA RunWaitKeeps == ASSUME SchedulerInv, RunWait PROVE SchedulerInv'
<1>0. SchedulerTypeOK /\ OwnedOnce /\ KeysAreLive /\ CancelledAborts
  BY DEF SchedulerInv
<1>1. PICK kind \in {"fire", "abort"} :
         /\ NextHandler(kind)
         /\ Erase(eventId[Arg])
         /\ fate' = [fate EXCEPT ![Arg] = Outcome(kind)]
         /\ UNCHANGED <<ids, terminated, stopped, cancelled>>
  BY DEF RunWait
<1> DEFINE i == eventId[Arg]
           u == Cancel(i)
<1>2. /\ ready # <<>> /\ 1 \in DOMAIN ready /\ ready[1].kind = kind
      /\ ready[1].arg = Arg
      /\ \A x \in Events : Owns(ready[1], x) <=> x = Arg
      /\ Arg \in Events /\ i \in Ids /\ fate[Arg] = "pending"
      /\ \A j \in Ids : timer[j] # Arg
  BY <1>0, <1>1, HeadFacts
<1>3. TimerSet(i, Absent) /\ cancelled' = cancelled
  BY <1>1 DEF Erase, TimerSet
<1>4. /\ Moved(ready, ready', 1, u) /\ ready' \in Seq(Ops)
      /\ timer' \in [Ids -> Events \cup {NoWait, Absent}]
      /\ timer'[i] = Absent /\ \A j \in Ids \ {i} : timer'[j] = timer[j]
      /\ eventId' = eventId
  BY <1>0, <1>2, <1>3, TimerSetFacts
<1>5. /\ fate' \in [Events -> {"new", "pending", "dispatched", "deleted"}]
      /\ fate'[Arg] = Outcome(kind)
      /\ fate'[Arg] \in {"dispatched", "deleted"}
      /\ \A x \in Events \ {Arg} : fate'[x] = fate[x]
  BY <1>0, <1>1, <1>2 DEF SchedulerTypeOK, Outcome
<1>6. SchedulerTypeOK'
  BY <1>0, <1>3, <1>4, <1>5 DEF SchedulerTypeOK, TimerSet, ids
<1>7. Absent \notin Events /\ Absent # NoWait
  BY SchedulerAssumption
<1>8. /\ \A j, k \in 1 .. Len(u) : j = k
      /\ \A x \in Events : \A k \in 1 .. Len(u) : Owns(u[k], x) =>
            /\ x = timer[i] /\ fate[x] = "pending" /\ timer[eventId[x]] = x
            /\ u[k].kind = "abort"
            /\ \A j \in Ids : timer'[j] = x => j = i /\ Absent = x
  BY <1>0, <1>2, <1>3, CancelOwns
<1>9. \A x \in Events : fate[x] = "pending" /\ x # Arg =>
        \/ \E k \in 1 .. Len(u) : Owns(u[k], x)
        \/ timer'[eventId'[x]] = x
        \/ \E k \in (1 + 1) .. Len(ready) : Owns(ready[k], x)
  BY <1>0, <1>1, <1>2, <1>3, OwnersStay
<1> HIDE DEF u
<1>10. OwnersMove(1, u)
  <2>1. \A x \in Events : \A k \in 1 .. Len(u) : Owns(u[k], x) => x # Arg
    BY <1>2, <1>8
  <2>2. \A j \in Ids : timer'[j] \in Events =>
            /\ eventId[timer'[j]] = j /\ fate'[timer'[j]] = "pending"
            /\ timer[j] = timer'[j]
    <3>1. \A j \in Ids : timer[j] \in Events =>
            eventId[timer[j]] = j /\ fate[timer[j]] = "pending"
      BY <1>0 DEF OwnedOnce
    <3> QED
      BY <1>2, <1>4, <1>5, <1>7, <3>1
  <2>3. \A x \in Events : \A k \in 1 .. Len(u) : Owns(u[k], x) =>
            /\ fate'[x] = "pending" /\ \A j \in Ids : timer'[j] # x
    BY <1>5, <1>7, <1>8, <2>1
  <2> QED
    BY <1>2, <1>4, <1>5, <1>8, <1>9, <2>2, <2>3 DEF OwnersMove
<1>11. KeysMove(1, u)
  <2>1. \A j \in Ids \ {i} : ~Completes(ready[1], j)
    BY <1>2 DEF Completes
  <2> QED
    BY <1>2, <1>4, <1>7, <2>1 DEF KeysMove
<1>12. CancelledMove(u)
  <2>1. cancelled \subseteq Events
    BY <1>0 DEF SchedulerTypeOK
  <2>2. \A x \in cancelled : \A j \in Ids : timer[j] # x
    BY <1>0 DEF CancelledAborts
  <2>3. \A x \in cancelled : \A j \in Ids : timer'[j] # x
    BY <1>4, <1>7, <2>1, <2>2
  <2>4. Arg \in cancelled => kind = "abort"
    BY <1>0, <1>2 DEF CancelledAborts
  <2>5. \A x \in cancelled : fate'[x] \in {"pending", "deleted"}
    BY <1>0, <1>5, <2>1, <2>4 DEF CancelledAborts, Outcome
  <2> QED
    BY <1>3, <1>8, <2>1, <2>3, <2>5 DEF CancelledMove
<1> QED
  BY <1>4, <1>6, <1>10, <1>11, <1>12, SchedulerInvKept

\* However the map is gone through, each pending wait is cancelled once.
LEMMA OrderIsInjective ==
    ASSUME SchedulerTypeOK, NEW waiting,
           waiting = {timer[i] : i \in Ids} \cap Events,
           NEW order \in [1 .. Cardinality(waiting) -> waiting],
           {order[k] : k \in DOMAIN order} = waiting
    PROVE  /\ Cardinality(waiting) \in Nat
           /\ \A j, k \in 1 .. Cardinality(waiting) :
                 order[j] = order[k] => j = k
<1> DEFINE W == {i \in Ids : timer[i] \in Events}
           f == [i \in W |-> timer[i]]
           n == Cardinality(waiting)
<1>1. IsFiniteSet(W)
  <2>1. 0 \in Int /\ IdLimit - 1 \in Int
    BY SchedulerAssumption
  <2>2. IsFiniteSet(Ids)
    BY <2>1, FS_Interval DEF Ids
  <2> QED
    BY <2>2, FS_Subset
<1>2. f \in Surjection(W, waiting)
  BY DEF Surjection
<1>3. IsFiniteSet(waiting)
  BY <1>1, <1>2, FS_Surjection
<1>4. n \in Nat
  BY <1>3, FS_CardinalityType
<1>5. IsFiniteSet(1 .. n) /\ Cardinality(1 .. n) = n
  BY <1>4, FS_Interval
<1>6. order \in Surjection(1 .. n, waiting)
  BY DEF Surjection
<1>7. order \in Injection(1 .. n, waiting)
  BY <1>5, <1>6, FS_SurjSameCardinalityImpliesInj
<1> QED
  BY <1>4, <1>7 DEF Injection, IsInjective

LEMMA EndKeeps == ASSUME SchedulerInv, RunEndOfScheduler PROVE SchedulerInv'
<1>0. SchedulerTypeOK /\ OwnedOnce /\ KeysAreLive /\ CancelledAborts
  BY DEF SchedulerInv
<1> DEFINE waiting == {timer[i] : i \in Ids} \cap Events
           n == Cardinality(waiting)
<1>1. PICK order \in [1 .. n -> waiting] :
         /\ {order[k] : k \in DOMAIN order} = waiting
         /\ ready' = Tail(ready) \o [k \in DOMAIN order |->
                                        Op("abort", order[k])]
  BY DEF RunEndOfScheduler
<1> DEFINE u == [k \in DOMAIN order |-> Op("abort", order[k])]
<1>2. n \in Nat /\ \A j, k \in 1 .. n : order[j] = order[k] => j = k
  BY <1>0, <1>1, OrderIsInjective
<1>3. /\ NextHandler("shutdown") /\ stopped' = TRUE
      /\ timer' = [i \in Ids |-> IF timer[i] = Absent THEN Absent ELSE NoWait]
      /\ lastEventId' = lastEventId /\ eventId' = eventId /\ asked' = asked
      /\ terminated' = terminated /\ fate' = fate /\ cancelled' = cancelled
  BY DEF RunEndOfScheduler, ids
<1>4. /\ ready # <<>> /\ 1 \in DOMAIN ready /\ ready[1].kind = "shutdown"
      /\ DOMAIN ready = 1 .. Len(ready)
      /\ \A x \in Events : ~Owns(ready[1], x)
  BY <1>0, <1>3, HeadFacts
<1>5. /\ Len(u) = n
      /\ \A k \in 1 .. n :
            u[k] = [kind |-> "abort", arg |-> order[k]] /\ u[k] \in Ops
  BY <1>2 DEF Op, Ops
<1>6. u \in Seq(Ops)
  BY <1>2, <1>5
<1>7. \A x \in waiting : \E k \in 1 .. n : order[k] = x
  BY <1>1
<1>8. \A k \in 1 .. n : order[k] \in waiting
  BY <1>1
<1>9. \A x : x \in waiting <=> x \in Events /\ \E i \in Ids : timer[i] = x
  OBVIOUS
<1> HIDE DEF u, waiting, n
<1>10. Moved(ready, ready', 1, u) /\ ready' \in Seq(Ops)
  <2>1. ready' = Tail(ready) \o u /\ ready \in Seq(Ops)
    BY <1>0, <1>1 DEF SchedulerTypeOK, u
  <2> QED
    BY <1>4, <1>6, <2>1, TailMoves
<1>11. SchedulerTypeOK'
  BY <1>0, <1>3, <1>10 DEF SchedulerTypeOK
<1>12. \A x \in Events : \A k \in 1 .. Len(u) :
          Owns(u[k], x) <=> order[k] = x
  BY <1>5 DEF Owns
<1>13. \A i \in Ids : timer'[i] \in {Absent, NoWait} /\ timer'[i] \notin Events
  BY <1>3, SchedulerAssumption
<1>14. \A x \in waiting :
          x \in Events /\ fate[x] = "pending" /\ timer[eventId[x]] = x
  BY <1>0, <1>9 DEF OwnedOnce
<1>15. OwnersMove(1, u)
  <2>1. \A x \in Events : fate[x] = "pending" =>
          \/ \E k \in 1 .. Len(u) : Owns(u[k], x)
          \/ \E k \in (1 + 1) .. Len(ready) : Owns(ready[k], x)
    <3> SUFFICES ASSUME NEW x \in Events, fate[x] = "pending"
                 PROVE  \/ \E k \in 1 .. Len(u) : Owns(u[k], x)
                        \/ \E k \in (1 + 1) .. Len(ready) : Owns(ready[k], x)
      OBVIOUS
    <3>1. CASE \E k \in DOMAIN ready : Owns(ready[k], x)
      <4>1. PICK k \in DOMAIN ready : Owns(ready[k], x)
        BY <3>1
      <4>2. k # 1
        BY <1>4, <4>1
      <4>3. k \in (1 + 1) .. Len(ready)
        BY <1>4, <4>1, <4>2
      <4> QED
        BY <4>1, <4>3
    <3>2. CASE timer[eventId[x]] = x
      <4>1. eventId[x] \in Ids
        BY <1>0 DEF SchedulerTypeOK
      <4>2. x \in waiting
        BY <1>9, <3>2, <4>1
      <4> QED
        BY <1>5, <1>7, <1>12, <4>2
    <3> QED
      BY <1>0, <3>1, <3>2 DEF OwnedOnce
  <2>2. \A x \in Events : \A k \in 1 .. Len(u) : Owns(u[k], x) =>
          fate[x] = "pending" /\ timer[eventId[x]] = x
    BY <1>5, <1>8, <1>12, <1>14
  <2>3. \A x \in Events : \A j, k \in 1 .. Len(u) :
          Owns(u[j], x) /\ Owns(u[k], x) => j = k
    BY <1>2, <1>5, <1>12
  <2>4. \A x \in Events : \A i \in Ids : timer'[i] # x
    BY <1>13
  <2> QED
    BY <1>3, <1>13, <2>1, <2>2, <2>3, <2>4 DEF OwnersMove
<1>16. KeysMove(1, u)
  <2> SUFFICES ASSUME NEW i \in Ids, timer'[i] = NoWait
               PROVE  \/ \E k \in 1 .. Len(u) : WillComplete(u[k], i)
                      \/ timer[i] = NoWait /\ ~Completes(ready[1], i)
    BY DEF KeysMove
  <2>1. timer[i] = NoWait \/ timer[i] \in Events
    BY <1>0, <1>3, SchedulerAssumption DEF SchedulerTypeOK
  <2>2. CASE timer[i] \in Events
    <3>1. timer[i] \in waiting
      BY <1>9, <2>2
    <3>2. PICK k \in 1 .. n : order[k] = timer[i]
      BY <1>7, <3>1
    <3>3. eventId[timer[i]] = i
      BY <1>0, <2>2 DEF OwnedOnce
    <3> QED
      BY <1>3, <1>5, <3>2, <3>3 DEF WillComplete
  <2> QED
    BY <1>4, <2>1, <2>2 DEF Completes
<1>17. CancelledMove(u)
  <2>1. cancelled \subseteq Events
    BY <1>0 DEF SchedulerTypeOK
  <2> QED
    BY <1>0, <1>3, <1>5, <1>13, <2>1 DEF CancelledMove, CancelledAborts
<1> QED
  BY <1>10, <1>11, <1>15, <1>16, <1>17, SchedulerInvKept

LEMMA SchedulerBegins == SchedulerInit => SchedulerInv
<1> SUFFICES ASSUME SchedulerInit PROVE SchedulerInv
  OBVIOUS
<1>1. 0 \in Ids
  BY SchedulerAssumption DEF Ids
<1>2. DOMAIN ready = {} /\ ready \in Seq(Ops)
  BY EmptySeq DEF SchedulerInit
<1>3. \A i \in Ids : timer[i] = Absent
  BY DEF SchedulerInit
<1>4. SchedulerTypeOK
  BY <1>1, <1>2 DEF SchedulerInit, SchedulerTypeOK
<1>5. OwnedOnce
  BY <1>2, <1>3, SchedulerAssumption DEF SchedulerInit, OwnedOnce
<1>6. KeysAreLive /\ CancelledAborts
  BY <1>3, SchedulerAssumption DEF SchedulerInit, KeysAreLive, CancelledAborts
<1> QED
  BY <1>4, <1>5, <1>6 DEF SchedulerInv

LEMMA SchedulerSteps ==
    SchedulerInv /\ [SchedulerNext]_SchedulerVars => SchedulerInv'
<1> SUFFICES ASSUME SchedulerInv, [SchedulerNext]_SchedulerVars
             PROVE  SchedulerInv'
  OBVIOUS
<1>1. CASE UNCHANGED SchedulerVars
  BY <1>1 DEF SchedulerVars, SchedulerInv, SchedulerTypeOK, OwnedOnce,
     KeysAreLive, CancelledAborts
<1>2. CASE SchedulerThread
  BY <1>2, RunAddKeeps, RunStopKeeps, RunWaitKeeps, EndKeeps
     DEF SchedulerThread
<1> QED
  BY <1>1, <1>2, AddEventKeeps, CallersKeep, TimerExpiresKeeps
     DEF SchedulerNext

\* What the proofs say of the owners is what OneOwner counts.
LEMMA OwnersAreCounted == SchedulerInv => EventsSound
<1> SUFFICES ASSUME SchedulerInv PROVE EventsSound
  OBVIOUS
<1>0. SchedulerTypeOK /\ OwnedOnce /\ KeysAreLive /\ CancelledAborts
  BY DEF SchedulerInv
<1>1. ASSUME NEW t \in Events, fate[t] # "pending"
      PROVE  Cardinality(Owners(t)) = 0
  <2>1. Owners(t) = {}
    BY <1>0, <1>1 DEF Owners, OwnedOnce
  <2> QED
    BY <2>1, FS_EmptySet
<1>2. ASSUME NEW t \in Events, fate[t] = "pending"
      PROVE  Cardinality(Owners(t)) = 1
  <2>1. CASE \E k \in DOMAIN ready : Owns(ready[k], t)
    <3>1. PICK k \in DOMAIN ready : Owns(ready[k], t)
      BY <2>1
    <3>2. {j \in DOMAIN ready : Owns(ready[j], t)} = {k}
      BY <1>0, <3>1 DEF OwnedOnce
    <3>3. {j \in Ids : timer[j] = t} = {}
      BY <1>0, <3>1 DEF OwnedOnce
    <3>4. Owners(t) = {k}
      BY <3>2, <3>3 DEF Owners
    <3> QED
      BY <3>4, FS_Singleton
  <2>2. CASE timer[eventId[t]] = t
    <3>1. eventId[t] \in Ids
      BY <1>0 DEF SchedulerTypeOK
    <3>2. {j \in DOMAIN ready : Owns(ready[j], t)} = {}
      BY <1>0, <2>2, <3>1 DEF OwnedOnce
    <3>3. {j \in Ids : timer[j] = t} = {eventId[t]}
      BY <1>0, <2>2, <3>1 DEF OwnedOnce
    <3>4. Owners(t) = {eventId[t] + Len(ready) + 1}
      BY <3>2, <3>3 DEF Owners
    <3> QED
      BY <3>4, FS_Singleton
  <2> QED
    BY <1>0, <1>2, <2>1, <2>2 DEF OwnedOnce
<1>3. OneOwner
  BY <1>1, <1>2 DEF OneOwner
<1>4. CancelledNotDispatched
  BY <1>0 DEF CancelledAborts, CancelledNotDispatched
<1> QED
  BY <1>0, <1>3, <1>4 DEF EventsSound

-----------------------------------------------------------------------------
(* The two threads together.                                               *)

ThreadsStep == DispatcherAlone \/ SchedulerAlone \/ Both

ThreadsVars == <<BothVars, part>>

\* The events of both are tasks of both.
SharedInv ==
    part = "both" => \A t \in Events : fate[t] # "new" => t \in Shared

\* Nothing leaves what both threads have to do with an event.
LEMMA SchedulerOfBoth ==
  [ThreadsStep]_ThreadsVars => [SchedulerNext]_SchedulerVars
BY DEF ThreadsStep, ThreadsVars, BothVars, DispatcherAlone, SchedulerAlone,
   Both, EventAsked, TimerThreadStep, HandleEvent, EndWait, DispatcherThread,
   EndScheduler, EndDispatcher, OtherThreads, SchedulerNext, SchedulerThread

LEMMA FateSteps ==
    ASSUME SchedulerInv, [SchedulerNext]_SchedulerVars
    PROVE  \A t \in Events : fate[t] # "new" => fate'[t] # "new"
<1> USE DEF SchedulerInv, SchedulerTypeOK
<1>1. CASE RunWait
  <2>1. PICK kind \in {"fire", "abort"} :
           /\ NextHandler(kind)
           /\ fate' = [fate EXCEPT ![Arg] = Outcome(kind)]
    BY <1>1 DEF RunWait
  <2>2. Arg \in Events
    BY <2>1, HeadFacts
  <2> QED
    BY <2>1, <2>2 DEF Outcome
<1>2. CASE ~RunWait
  BY <1>2 DEF SchedulerNext, SchedulerThread, AddEvent, StopEvent,
     SchedulerShutdown, TimerExpires, RunAdd, RunStop, RunEndOfScheduler,
     SchedulerVars
<1> QED
  BY <1>1, <1>2

\* How the fate of events changes in both.
LEMMA FateInBoth ==
    ASSUME SchedulerInv, [ThreadsStep]_ThreadsVars, part = "both"
    PROVE  \/ fate' = fate
           \/ \E t \in Events \cap Shared : AddEvent(t) /\ UNCHANGED vars
           \/ EndWait
<1> USE DEF SchedulerVars
<1>1. CASE UNCHANGED ThreadsVars
  BY <1>1 DEF ThreadsVars, BothVars
<1>2. CASE EventAsked
  BY <1>2 DEF EventAsked, StopEvent, TimerExpires
<1>3. CASE TimerThreadStep
  BY <1>3 DEF TimerThreadStep, HandleEvent, RunAdd, RunStop,
     RunEndOfScheduler
<1>4. CASE EndScheduler \/ EndDispatcher
  BY <1>4 DEF EndScheduler, EndDispatcher, SchedulerShutdown
<1>5. CASE DispatcherThread \/ OtherThreads
  BY <1>5 DEF DispatcherThread, OtherThreads
<1> QED
  BY <1>1, <1>2, <1>3, <1>4, <1>5 DEF ThreadsStep, DispatcherAlone,
     SchedulerAlone, Both

\* The completion at the head, when it is given to the dispatcher or deleted.
LEMMA EndWaitFacts ==
    ASSUME SchedulerInv, EndWait
    PROVE  /\ Arg \in Events /\ fate[Arg] = "pending"
           /\ \A t \in Events \ {Arg} : fate'[t] = fate[t]
           /\ fate'[Arg] \in {"dispatched", "deleted"}
           /\ \/ fate'[Arg] = "dispatched" /\ AddTask(TimerThread, Arg)
              \/ fate'[Arg] = "deleted" /\ UNCHANGED vars
<1>1. PICK kind \in {"fire", "abort"} :
         NextHandler(kind) /\ fate' = [fate EXCEPT ![Arg] = Outcome(kind)]
  BY DEF EndWait, RunWait
<1>2. Arg \in Events /\ fate[Arg] = "pending"
  BY <1>1, HeadFacts DEF SchedulerInv
<1>3. /\ fate'[Arg] = Outcome(kind)
      /\ \A t \in Events \ {Arg} : fate'[t] = fate[t]
  BY <1>1, <1>2 DEF SchedulerInv, SchedulerTypeOK
<1>4. Outcome(kind) \in {"dispatched", "deleted"}
  BY DEF Outcome
<1> QED
  BY <1>2, <1>3, <1>4 DEF EndWait

LEMMA SharedInvKept ==
    SchedulerInv /\ SharedInv /\ [ThreadsStep]_ThreadsVars => SharedInv'
<1> SUFFICES ASSUME SchedulerInv, SharedInv, [ThreadsStep]_ThreadsVars,
                    part' = "both"
             PROVE  \A t \in Events : fate'[t] # "new" => t \in Shared
  BY DEF SharedInv
<1>1. part = "both"
  BY DEF ThreadsStep, ThreadsVars, DispatcherAlone, SchedulerAlone, Both
<1>2. CASE fate' = fate
  BY <1>1, <1>2 DEF SharedInv
<1>3. ASSUME NEW t \in Events \cap Shared, AddEvent(t)
      PROVE  \A x \in Events : fate'[x] # "new" => x \in Shared
  BY <1>1, <1>3 DEF SharedInv, AddEvent, SchedulerInv, SchedulerTypeOK
<1>4. CASE EndWait
  BY <1>1, <1>4, EndWaitFacts DEF SharedInv
<1> QED
  BY <1>1, <1>2, <1>3, <1>4, FateInBoth

\* What the scheduler's thread does is what a producer may do.
LEMMA DispatcherOfBoth ==
    SchedulerInv /\ SharedInv /\ [ThreadsStep]_ThreadsVars => [Next]_vars
<1> SUFFICES ASSUME SchedulerInv, SharedInv, [ThreadsStep]_ThreadsVars
             PROVE  [Next]_vars
  OBVIOUS
<1> USE ThreadsAssumption
<1>1. CASE UNCHANGED ThreadsVars \/ DispatcherAlone \/ SchedulerAlone
  BY <1>1 DEF ThreadsVars, BothVars, DispatcherAlone, SchedulerAlone
<1>2. CASE EventAsked \/ HandleEvent \/ EndScheduler
  BY <1>2 DEF EventAsked, HandleEvent, EndScheduler
<1>3. CASE EndWait /\ part = "both"
  <2>1. Arg \in Tasks
    BY <1>3, EndWaitFacts DEF SharedInv
  <2>2. TimerThread \in Producers
    OBVIOUS
  <2>3. AddTask(TimerThread, Arg) \/ UNCHANGED vars
    BY <1>3, EndWaitFacts
  <2> QED
    BY <2>1, <2>2, <2>3 DEF Next
<1>4. CASE Notify(TimerThread) \/ DispatcherThread \/ EndDispatcher
  BY <1>4 DEF DispatcherThread, EndDispatcher, Next, ThreadMain
<1>5. CASE OtherThreads
  <2>1. \A t \in Shared \ Events : t \in Tasks
    OBVIOUS
  <2> QED
    BY <1>5, <2>1 DEF OtherThreads, Next
<1> QED
  BY <1>1, <1>2, <1>3, <1>4, <1>5 DEF ThreadsStep, Both, TimerThreadStep

LEMMA ThreadsSafety ==
    ThreadsSpec => /\ Steps
                   /\ [](SchedulerInv /\ SharedInv)
<1>1. ThreadsInit => Init /\ SchedulerInv /\ SharedInv
  BY SchedulerBegins DEF ThreadsInit, SchedulerInit, SharedInv
<1>2. SchedulerInv /\ SharedInv /\ [ThreadsStep]_ThreadsVars
        => (SchedulerInv /\ SharedInv)'
  BY SchedulerOfBoth, SchedulerSteps, SharedInvKept
<1>3. ThreadsSpec => ThreadsInit /\ [][ThreadsStep]_ThreadsVars
  BY DEF ThreadsSpec, ThreadsStep, ThreadsVars
<1>4. ThreadsInit /\ [][ThreadsStep]_ThreadsVars
        => [](SchedulerInv /\ SharedInv)
  BY <1>1, <1>2, PTL
<1>5. ThreadsInit /\ [][ThreadsStep]_ThreadsVars => Init /\ [][Next]_vars
  BY <1>1, <1>4, DispatcherOfBoth, PTL
<1> QED
  BY <1>3, <1>4, <1>5 DEF Steps

\* What the dispatcher has accepted stays accepted, and it does not open again.
LEMMA AcceptedStays ==
    ASSUME TypeOK, BatchInv, [Next]_vars
    PROVE  /\ \A n \in DOMAIN submitted :
                 n \in DOMAIN submitted' /\ submitted'[n] = submitted[n]
           /\ threadState # "running" => threadState' # "running"
<1> DEFINE Stays == \A n \in DOMAIN submitted :
                       n \in DOMAIN submitted' /\ submitted'[n] = submitted[n]
<1>3. threadState # "running" => threadState' # "running"
  BY DEF Next, vars, AddTask, Notify, Expire, ThreadMain, TestState,
     LockAndSwap, LockAndWait, Wake, SpuriousWake, RunTask, DropTask,
     EndBatch, EndTask, SetShutdown, Stop, GameShutdown, Terminate,
     BodyAddsTask, MainShutdown
<1>1. CASE PushStep
  <2>1. PICK t \in AllTasks : submitted' = Append(submitted, t)
    BY <1>1 DEF PushStep, Push
  <2>2. Stays
    BY <2>1 DEF TypeOK
  <2> QED
    BY <2>2, <1>3
<1>2. CASE UNCHANGED submitted
  BY <1>2, <1>3
<1> QED
  BY <1>1, <1>2, <1>3, StepKinds DEF KeepStep, SwapStep, ReachStep, queue

LEMMA PushLeaves ==
    ASSUME NEW t, Push(t) \/ PushIfRunning(t)
    PROVE  fresh' = fresh \ {t}
BY DEF Push, PushIfRunning, Reject

\* Nobody but the scheduler's thread gives an event to addTask.
LEMMA EventsStayFresh ==
    ASSUME SchedulerInv, [ThreadsStep]_ThreadsVars, part = "both",
           NEW t \in Events \cap Shared, t \in fresh
    PROVE  t \in fresh' \/ EndWait
<1>1. t # ShutdownTask /\ t # TerminateTask
  BY ThreadsAssumption, TasksAssumption
<1>2. CASE UNCHANGED vars
  BY <1>2 DEF vars, queue
<1>3. CASE SetShutdown \/ GameShutdown \/ MainShutdown
  BY <1>1, <1>3, PushLeaves DEF SetShutdown, GameShutdown, MainShutdown
<1>4. CASE DispatcherThread /\ ~SetShutdown
  BY <1>4 DEF DispatcherThread, TestState, LockAndSwap, LockAndWait, Wake,
     RunTask, DropTask, EndBatch, EndTask, Stop, Terminate, queue
<1>5. CASE OtherThreads
  BY <1>5, PushLeaves DEF OtherThreads, SpuriousWake, Notify, AddTask, queue
<1>6. CASE Notify(TimerThread)
  BY <1>6 DEF Notify, queue
<1> QED
  BY <1>2, <1>3, <1>4, <1>5, <1>6 DEF ThreadsStep, ThreadsVars, BothVars,
     DispatcherAlone, SchedulerAlone, Both, EventAsked, TimerThreadStep,
     HandleEvent, EndScheduler, EndDispatcher

LEMMA HandedOverKept ==
    SchedulerInv /\ SharedInv /\ TypeOK /\ BatchInv /\ HandedOver
    /\ [ThreadsStep]_ThreadsVars => HandedOver'
<1> SUFFICES ASSUME SchedulerInv, SharedInv, TypeOK, BatchInv, HandedOver,
                    [ThreadsStep]_ThreadsVars, part' = "both",
                    NEW t \in Events \cap Shared
             PROVE  /\ fate'[t] # "dispatched" => t \in fresh'
                    /\ fate'[t] = "dispatched" =>
                        \/ \E n \in DOMAIN submitted' : submitted'[n] = t
                        \/ threadState' # "running"
  BY DEF HandedOver
<1>1. part = "both"
  BY DEF ThreadsStep, ThreadsVars, DispatcherAlone, SchedulerAlone, Both
<1>2. /\ fate[t] # "dispatched" => t \in fresh
      /\ fate[t] = "dispatched" =>
            \/ \E n \in DOMAIN submitted : submitted[n] = t
            \/ threadState # "running"
  BY <1>1 DEF HandedOver
<1>3. [Next]_vars
  BY DispatcherOfBoth
<1>4. CASE fate'[t] = fate[t] /\ ~(EndWait /\ t = Arg)
  <2>1. t \in fresh => t \in fresh'
    <3>1. CASE EndWait
      <4>1. t # Arg
        BY <1>4, <3>1
      <4> QED
        BY <3>1, <4>1, EndWaitFacts, PushLeaves DEF AddTask, vars, queue
    <3> QED
      BY <1>1, <3>1, EventsStayFresh
  <2> QED
    BY <1>2, <1>3, <1>4, <2>1, AcceptedStays
<1>5. CASE EndWait /\ t = Arg
  <2>1. CASE fate'[t] = "deleted" /\ UNCHANGED vars
    BY <1>2, <1>5, <2>1, EndWaitFacts DEF vars, queue
  <2>2. CASE fate'[t] = "dispatched" /\ AddTask(TimerThread, t)
    <3>1. CASE threadState = "running"
      <4>1. submitted' = Append(submitted, t) /\ submitted \in Seq(AllTasks)
        BY <2>2, <3>1 DEF AddTask, PushIfRunning, Push, TypeOK
      <4>2. t \in AllTasks
        BY ThreadsAssumption, Kinds
      <4>3. /\ Len(submitted) + 1 \in DOMAIN submitted'
            /\ submitted'[Len(submitted) + 1] = t
        BY <4>1, <4>2
      <4> QED
        BY <2>2, <4>3
    <3>2. CASE threadState # "running"
      BY <2>2, <3>2 DEF AddTask
    <3> QED
      BY <3>1, <3>2
  <2> QED
    BY <1>5, <2>1, <2>2, EndWaitFacts
<1>6. ASSUME NEW x \in Events \cap Shared, AddEvent(x), UNCHANGED vars
      PROVE  /\ fate'[t] # "dispatched" => t \in fresh'
             /\ fate'[t] = "dispatched" =>
                   \/ \E n \in DOMAIN submitted' : submitted'[n] = t
                   \/ threadState' # "running"
  <2>1. fate'[t] = "dispatched" <=> fate[t] = "dispatched"
    BY <1>6 DEF AddEvent, SchedulerInv, SchedulerTypeOK
  <2> QED
    BY <1>2, <1>6, <2>1 DEF vars, queue
<1> QED
  BY <1>1, <1>4, <1>5, <1>6, FateInBoth, EndWaitFacts

-----------------------------------------------------------------------------
(* Theorems about the two threads.                                         *)

\* With the scheduler's thread among the producers, the dispatcher keeps what
\* is proved of it by itself: types, the order of addTask, no lost wake-up,
\* and an empty list when its thread ends.
THEOREM DispatcherIsSafe ==
    ThreadsSpec => [](TypeOK /\ DispatchOrder /\ NoLostWakeup /\ DrainedAtExit)
BY ThreadsSafety, Typing, OrderKept, WakeupsKept, DrainedKept, PTL

\* The two threads together still are the queue that TaskQueue promises.
THEOREM BothImplementQueue ==
    ThreadsSpec => Queue!QueueInit /\ [][Queue!QueueNext]_(Queue!queueVars)
BY ThreadsSafety, QueueSteps

\* A task given to addEvent has one owner, handler or wait, from then to its
\* end, whichever ids come round; stopEvent is final; no timer stays in the
\* map for nothing; and what the scheduler gave away is the dispatcher's, who
\* accepted it or was closing.
THEOREM EventsAreSafe == ThreadsSpec => []EventsSafe
<1>1. ThreadsInit => HandedOver
  BY ThreadsAssumption, Kinds DEF ThreadsInit, Init, SchedulerInit, HandedOver
<1>2. ThreadsSpec => ThreadsInit /\ [][ThreadsStep]_ThreadsVars
  BY DEF ThreadsSpec, ThreadsStep, ThreadsVars
<1>3. ThreadsSpec => [](SchedulerInv /\ SharedInv /\ TypeOK /\ BatchInv)
  BY ThreadsSafety, Typing, BatchInvariant, PTL
<1>4. ThreadsSpec => []HandedOver
  BY <1>1, <1>2, <1>3, HandedOverKept, PTL
<1>5. SchedulerInv /\ HandedOver => EventsSafe
  BY OwnersAreCounted DEF EventsSafe
<1> QED
  BY <1>3, <1>4, <1>5, PTL
=============================================================================
