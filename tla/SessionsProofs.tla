--------------------------- MODULE SessionsProofs ---------------------------
(***************************************************************************)
(* Theorems about Sessions and the components it puts side by side: saving *)
(* a player, walking, the clients of a character, and the market.          *)
(***************************************************************************)
EXTENDS Sessions, FoldLemmas, FiniteSetTheorems, FunctionTheorems,
        SequenceTheorems, TLAPS

-----------------------------------------------------------------------------
(* Saving a player (Saving).                                               *)

(* What an open transaction has made of a table before its next statement. *)
RowsBefore(n, t) ==
    IF n > 2 * t + 1 THEN {version}
    ELSE IF t > 0 /\ n = 2 * t + 1 THEN {}
    ELSE stored[t]

SavingInv ==
    /\ SavingSound
    /\ open => step > 0 /\ \A t \in Tables : inside[t] = RowsBefore(step, t)
    /\ step > 0 /\ ~open => broken
    /\ step > 0 => outcome = "failed"
    /\ locks \in {0, 1}

\* At the start everything is saved as it was loaded.
LEMMA SavingInitial == SavingInit => SavingInv
<1> USE SavingAssumption
<1> SUFFICES ASSUME SavingInit PROVE SavingInv
  OBVIOUS
<1>1. SavingTypeOK
  <2>1. stored \in [Tables -> SUBSET (0..MaxSaves)]
    <3>1. {0} \in SUBSET (0..MaxSaves)
      OBVIOUS
    <3> QED
      BY <3>1 DEF SavingInit
  <2>2. inside = stored
    BY DEF SavingInit
  <2>3. open \in BOOLEAN /\ broken \in BOOLEAN
    BY DEF SavingInit
  <2>4. step \in 0..(2 * Refilled + 2)
    BY DEF SavingInit
  <2>5. version \in 0..MaxSaves /\ tries \in 0..Tries
    BY DEF SavingInit
  <2>6. locks \in 0..1 /\ outcome \in {"saved", "failed"}
    BY DEF SavingInit
  <2> QED
    BY <2>1, <2>2, <2>3, <2>4, <2>5, <2>6, Zenon DEF SavingTypeOK
<1>2. StoredWhole
  <2>1. \A t \in Tables : stored[t] = {0}
    BY DEF SavingInit
  <2> QED
    BY <2>1 DEF SavingInit, StoredWhole
<1> QED
  BY <1>1, <1>2 DEF SavingInit, SavingInv, SavingSound, LockedWhileSaving

\* A statement makes rows of rows, ...
LEMMA StatementTyped ==
  ASSUME SavingTypeOK, NEW n \in 1..LastStatement,
         NEW rows \in [Tables -> SUBSET (0..MaxSaves)]
  PROVE  Statement(n, rows) \in [Tables -> SUBSET (0..MaxSaves)]
BY SavingAssumption DEF Statement, LastStatement, SavingTypeOK, Tables

\* ... and the rows of a table that the next statement finds.
LEMMA StatementRows ==
  ASSUME SavingTypeOK, NEW n \in 1..LastStatement,
         \A t \in Tables : inside[t] = RowsBefore(n, t)
  PROVE  \A t \in Tables : Statement(n, inside)[t] = RowsBefore(n + 1, t)
<1> USE SavingAssumption
<1> TAKE t \in Tables
<1>0. t \in Nat /\ n \in Nat /\ DOMAIN inside = Tables
  BY DEF Tables, SavingTypeOK, LastStatement
<1>1. CASE n = 1
  <2>1. Statement(n, inside)[t] = IF t = 0 THEN {version} ELSE inside[t]
    BY <1>1, <1>0 DEF Statement
  <2> QED
    BY <2>1, <1>1, <1>0 DEF RowsBefore
<1>2. CASE n > 1 /\ n % 2 = 0
  <2>1. PICK m \in Nat : n = 2 * m
    <3>1. n = 2 * (n \div 2) /\ n \div 2 \in Nat
      BY <1>2, <1>0
    <3> QED
      BY <3>1
  <2>2. n \div 2 = m
    BY <2>1
  <2>3. Statement(n, inside)[t] = IF t = m THEN {} ELSE inside[t]
    BY <1>2, <1>0, <2>2 DEF Statement
  <2>4. CASE t = m
    <3>1. /\ ~(n + 1 > 2 * t + 1) /\ n + 1 = 2 * t + 1 /\ t > 0
      BY <2>1, <2>4, <1>2, <1>0
    <3> QED
      BY <3>1, <2>3, <2>4, <1>0 DEF RowsBefore
  <2>5. CASE t < m
    <3>1. n > 2 * t + 1 /\ n + 1 > 2 * t + 1
      BY <2>1, <2>5, <1>0
    <3> QED
      BY <3>1, <2>3, <2>5, <1>0 DEF RowsBefore
  <2>6. CASE t > m
    <3>1. /\ ~(n > 2 * t + 1) /\ ~(n + 1 > 2 * t + 1)
          /\ n # 2 * t + 1 /\ n + 1 # 2 * t + 1
      BY <2>1, <2>6, <1>0
    <3> QED
      BY <3>1, <2>3, <2>6, <1>0 DEF RowsBefore
  <2> QED
    BY <2>4, <2>5, <2>6, <1>0
<1>3. CASE n > 1 /\ n % 2 # 0
  <2>1. PICK m \in Nat : n = 2 * m + 1
    <3>1. n = 2 * (n \div 2) + 1 /\ n \div 2 \in Nat
      BY <1>3, <1>0
    <3> QED
      BY <3>1
  <2>2. n \div 2 = m
    BY <2>1
  <2>3. Statement(n, inside)[t]
            = IF t = m THEN inside[t] \cup {version} ELSE inside[t]
    BY <1>3, <1>0, <2>2 DEF Statement
  <2>4. CASE t = m
    <3>1. /\ ~(n > 2 * t + 1) /\ n + 1 > 2 * t + 1
          /\ n = 2 * t + 1 /\ t > 0
      BY <2>1, <2>4, <1>3, <1>0
    <3> QED
      BY <3>1, <2>3, <2>4, <1>0 DEF RowsBefore
  <2>5. CASE t < m
    <3>1. n > 2 * t + 1 /\ n + 1 > 2 * t + 1
      BY <2>1, <2>5, <1>0
    <3> QED
      BY <3>1, <2>3, <2>5, <1>0 DEF RowsBefore
  <2>6. CASE t > m
    <3>1. /\ ~(n > 2 * t + 1) /\ ~(n + 1 > 2 * t + 1)
          /\ n # 2 * t + 1 /\ n + 1 # 2 * t + 1
      BY <2>1, <2>6, <1>0
    <3> QED
      BY <3>1, <2>3, <2>6, <1>0 DEF RowsBefore
  <2> QED
    BY <2>4, <2>5, <2>6, <1>0
<1> QED
  BY <1>1, <1>2, <1>3, <1>0

\* A save that is not committed ends, and its lock is released.
LEMMA EndKeeps ==
  ASSUME SavingInv, step > 0, version' = version, tries' = tries,
         broken' = broken, outcome' = outcome, End(stored)
  PROVE  SavingInv'
<1> USE SavingAssumption
<1>0. open' \in BOOLEAN
  BY Zenon DEF End
<1>1. SavingTypeOK'
  BY <1>0 DEF SavingInv, SavingSound, SavingTypeOK, End, Tables,
    LockedWhileSaving
<1>2. StoredWhole'
  <2> SUFFICES ASSUME ~broken PROVE StoredWhole'
    BY DEF StoredWhole
  <2>1. PICK v \in 0..version : /\ \A t \in Tables : stored[t] = {v}
                                /\ v < version
    BY DEF SavingInv, SavingSound, StoredWhole
  <2>2. \A t \in Tables : stored'[t] = {v}
    BY <2>1 DEF End
  <2> QED
    BY <2>1, <2>2 DEF SavingInv, SavingSound, StoredWhole
<1> QED
  BY <1>1, <1>2
    DEF SavingInv, SavingSound, SavingTypeOK, End, LockedWhileSaving

\* Every step of a save keeps the invariant.
LEMMA SavingKeeps == SavingInv /\ [SavingNext]_SavingVars => SavingInv'
<1> USE SavingAssumption
<1> SUFFICES ASSUME SavingInv, [SavingNext]_SavingVars PROVE SavingInv'
  OBVIOUS
<1>0. SavingTypeOK /\ StoredWhole /\ LockedWhileSaving
  BY DEF SavingInv, SavingSound
<1>1. CASE StartSaving
  <2>1. SavingTypeOK'
    BY <1>1, <1>0 DEF StartSaving, SavingTypeOK
  <2>2. StoredWhole'
    BY <1>1, <1>0 DEF StartSaving, StoredWhole, SavingTypeOK
  <2> QED
    BY <1>1, <2>1, <2>2 DEF StartSaving, SavingInv, SavingSound,
      LockedWhileSaving, SavingTypeOK
<1>2. CASE Begin
  <2>1. SavingTypeOK'
    BY <1>2, <1>0 DEF Begin, SavingTypeOK, LockedWhileSaving
  <2>2. StoredWhole'
    BY <1>2, <1>0 DEF Begin, StoredWhole, SavingTypeOK
  <2>3. (\A t \in Tables : inside[t] = RowsBefore(step, t))'
    BY <1>2 DEF Begin, RowsBefore, Tables
  <2> QED
    BY <1>2, <2>1, <2>2, <2>3, <1>0 DEF Begin, SavingInv, SavingSound,
      LockedWhileSaving, SavingTypeOK
<1>3. CASE BeginFails
  <2>1. SavingTypeOK'
    BY <1>3, <1>0 DEF BeginFails, SavingTypeOK
  <2>2. StoredWhole'
    BY <1>3, <1>0 DEF BeginFails, StoredWhole, SavingTypeOK
  <2> QED
    BY <1>3, <2>1, <2>2 DEF BeginFails, SavingInv, SavingSound,
      LockedWhileSaving, SavingTypeOK, RowsBefore
<1>4. CASE Execute
  <2>1. Statement(step, inside) \in [Tables -> SUBSET (0..MaxSaves)]
    BY <1>4, <1>0, StatementTyped DEF Execute, SavingTypeOK
  <2>2. SavingTypeOK'
    BY <1>4, <1>0, <2>1 DEF Execute, SavingTypeOK, LastStatement
  <2>3. CASE open
    <3>1. \A t \in Tables :
            Statement(step, inside)[t] = RowsBefore(step + 1, t)
      BY <1>4, <1>0, <2>3, StatementRows DEF Execute, SavingInv
    <3>2. (\A t \in Tables : inside[t] = RowsBefore(step, t))'
      BY <1>4, <3>1, <2>3 DEF Execute, RowsBefore
    <3>3. StoredWhole'
      BY <1>4, <1>0, <2>3
        DEF Execute, StoredWhole, SavingTypeOK, SavingInv
    <3> QED
      BY <1>4, <2>2, <2>3, <3>2, <3>3 DEF Execute, SavingInv, SavingSound,
        LockedWhileSaving, SavingTypeOK
  <2>4. CASE ~open
    BY <1>4, <2>2, <2>4 DEF Execute, SavingInv, SavingSound,
      LockedWhileSaving, SavingTypeOK, StoredWhole
  <2> QED
    BY <2>3, <2>4
<1>5. CASE ExecuteFails
  BY <1>5, EndKeeps DEF ExecuteFails, LastStatement
<1>6. CASE Commit
  <2>1. CASE End(stored) /\ UNCHANGED <<outcome, broken>>
    BY <1>6, <2>1, EndKeeps, <1>0 DEF Commit, LastStatement
  <2>2. CASE /\ End(inside) /\ outcome' = "saved"
             /\ broken' = (broken /\ ~open)
    <3>0. open' \in BOOLEAN /\ broken' \in BOOLEAN
      BY <2>2, <1>0, Zenon DEF End
    <3>1. SavingTypeOK'
      BY <1>6, <2>2, <1>0, <3>0
        DEF Commit, End, SavingTypeOK, LockedWhileSaving, LastStatement
    <3>2. open => \A t \in Tables : stored'[t] = {version}
      BY <1>6, <2>2, <1>0
        DEF Commit, End, SavingInv, RowsBefore, LastStatement, Tables
    <3>3. StoredWhole'
      BY <1>6, <2>2, <1>0, <3>2
        DEF Commit, End, StoredWhole, SavingTypeOK, SavingInv, LastStatement
    <3> QED
      BY <1>6, <2>2, <3>1, <3>3, <1>0 DEF Commit, End, SavingInv,
        SavingSound, LockedWhileSaving, SavingTypeOK, LastStatement
  <2> QED
    BY <1>6, <2>1, <2>2 DEF Commit
<1>7. CASE LoseConnection
  BY <1>7, <1>0 DEF LoseConnection, SavingInv, SavingSound,
    LockedWhileSaving, SavingTypeOK, StoredWhole
<1>8. CASE UNCHANGED SavingVars
  BY <1>8 DEF SavingVars, SavingInv, SavingSound, LockedWhileSaving,
    SavingTypeOK, StoredWhole, RowsBefore
<1> QED
  BY <1>1, <1>2, <1>3, <1>4, <1>5, <1>6, <1>7, <1>8 DEF SavingNext

-----------------------------------------------------------------------------
(* Walking (Walking).                                                      *)

Walkers ==
    [steps : Ways, resting : BOOLEAN,
     eventWalk : {0} \cup EventIds, events : SUBSET EventIds,
     cancelNextWalk : BOOLEAN, walkTask : BOOLEAN, walkTaskEvent : BOOLEAN,
     life : {"healthy", "dying", "gone"}, sinceStop : 0 .. 3,
     interrupted : BOOLEAN, revivedThere : BOOLEAN]

(* What makes StopHeeded inductive. *)
Heeds(r) ==
    /\ r.sinceStop < 3
    /\ r.sinceStop = 1 => r.cancelNextWalk \/ r.steps = 0
    /\ r.sinceStop = 2 => r.steps = 0

HasFresh(r) == \E e \in EventIds : e \notin r.events \cup {r.eventWalk}

\* A fresh event is none of those to come, nor the last one.
LEMMA FreshIs ==
  ASSUME NEW r, HasFresh(r)
  PROVE  Fresh(r) \in EventIds /\ Fresh(r) \notin r.events \cup {r.eventWalk}
BY DEF HasFresh, Fresh

\* Scheduler::addEvent: one event more, that eventWalk stands for.
LEMMA ScheduledIs ==
  ASSUME NEW r \in Walkers, HasFresh(r)
  PROVE  /\ Scheduled(r) \in Walkers
         /\ Scheduled(r).events = r.events \cup {Fresh(r)}
         /\ Scheduled(r).eventWalk = Fresh(r)
         /\ Scheduled(r).steps = r.steps
         /\ Scheduled(r).life = r.life
         /\ Scheduled(r).sinceStop = r.sinceStop
         /\ Scheduled(r).cancelNextWalk = r.cancelNextWalk
BY FreshIs DEF Scheduled, Walkers

\* stopEventWalk: eventWalk is 0, and no event comes that did not before.
LEMMA StopEventWalkIs ==
  ASSUME NEW r \in Walkers
  PROVE  /\ StopEventWalk(r) \in Walkers
         /\ StopEventWalk(r).events \subseteq r.events
         /\ StopEventWalk(r).eventWalk = 0
         /\ StopEventWalk(r).steps = r.steps
         /\ StopEventWalk(r).life = r.life
         /\ StopEventWalk(r).sinceStop = r.sinceStop
         /\ StopEventWalk(r).cancelNextWalk = r.cancelNextWalk
BY DEF StopEventWalk, Walkers

\* Without its task of walking a player walks as before.
LEMMA WithoutWalkTaskIs ==
  ASSUME NEW r \in Walkers
  PROVE  /\ WithoutWalkTask(r) \in Walkers
         /\ WithoutWalkTask(r).events = r.events
         /\ WithoutWalkTask(r).eventWalk = r.eventWalk
         /\ WithoutWalkTask(r).steps = r.steps
         /\ WithoutWalkTask(r).life = r.life
         /\ WithoutWalkTask(r).sinceStop = r.sinceStop
         /\ WithoutWalkTask(r).cancelNextWalk = r.cancelNextWalk
         /\ WithoutWalkTask(r).revivedThere = r.revivedThere
BY DEF WithoutWalkTask, Walkers

\* A move: a step less to go, and one more since a stop.
LEMMA MovedIs ==
  ASSUME NEW r \in Walkers, r.steps > 0, r.sinceStop < 3
  PROVE  /\ Moved(r) \in Walkers
         /\ Moved(r).events = r.events
         /\ Moved(r).eventWalk = r.eventWalk
         /\ Moved(r).steps = r.steps - 1
         /\ Moved(r).life = r.life
         /\ Moved(r).sinceStop
                = IF r.sinceStop = 0 THEN 0 ELSE r.sinceStop + 1
         /\ Moved(r).cancelNextWalk = r.cancelNextWalk
<1> DEFINE k == r.steps - 1
           n == IF r.sinceStop = 0 THEN 0 ELSE r.sinceStop + 1
<1>1. k \in Ways
  BY WalkingAssumption DEF Walkers, Ways
<1>2. n \in 0 .. 3
  BY DEF Walkers
<1>3. Moved(r) = [r EXCEPT !.steps = k, !.resting = TRUE, !.sinceStop = n]
  BY DEF Moved
<1> HIDE DEF k, n
<1>4. /\ Moved(r) \in Walkers
      /\ Moved(r).events = r.events /\ Moved(r).eventWalk = r.eventWalk
      /\ Moved(r).steps = k /\ Moved(r).life = r.life
      /\ Moved(r).sinceStop = n
      /\ Moved(r).cancelNextWalk = r.cancelNextWalk
  BY <1>1, <1>2, <1>3 DEF Walkers
<1> QED
  BY <1>4 DEF k, n

\* A teleport stops the walk.
LEMMA TeleportedIs ==
  ASSUME NEW r \in Walkers
  PROVE  /\ Teleported(r) \in Walkers
         /\ Teleported(r).events \subseteq r.events
         /\ Teleported(r).eventWalk = 0
         /\ Teleported(r).steps = r.steps
         /\ Teleported(r).life = r.life
         /\ Teleported(r).sinceStop = r.sinceStop
         /\ Teleported(r).cancelNextWalk = r.cancelNextWalk
<1> DEFINE s == StopEventWalk(r)
<1>1. /\ s \in Walkers /\ s.events \subseteq r.events
      /\ s.eventWalk = 0 /\ s.steps = r.steps /\ s.life = r.life
      /\ s.sinceStop = r.sinceStop /\ s.cancelNextWalk = r.cancelNextWalk
  BY StopEventWalkIs
<1>2. Teleported(r) = [s EXCEPT !.resting = TRUE, !.interrupted = TRUE]
  BY DEF Teleported
<1> HIDE DEF s
<1> QED
  BY <1>1, <1>2 DEF Walkers

\* A step is taken from the path, whatever it meets.
LEMMA TakeStepIs ==
  ASSUME NEW r \in Walkers, NEW upshot \in Outcomes,
         r.steps > 0, r.sinceStop < 3
  PROVE  /\ TakeStep(r, upshot) \in Walkers
         /\ TakeStep(r, upshot).events \subseteq r.events
         /\ TakeStep(r, upshot).eventWalk \in {0, r.eventWalk}
         /\ TakeStep(r, upshot).steps = r.steps - 1
         /\ TakeStep(r, upshot).life = r.life
         /\ TakeStep(r, upshot).sinceStop
                \in {r.sinceStop, IF r.sinceStop = 0 THEN 0
                                  ELSE r.sinceStop + 1}
         /\ TakeStep(r, upshot).cancelNextWalk = r.cancelNextWalk
<1>1. CASE upshot = "moved"
  BY <1>1, MovedIs DEF TakeStep
<1>2. CASE upshot = "refused"
  <2>1. TakeStep(r, upshot) = [r EXCEPT !.steps = r.steps - 1]
    BY <1>2 DEF TakeStep
  <2>2. r.steps - 1 \in Ways
    BY WalkingAssumption DEF Walkers, Ways
  <2> QED
    BY <2>1, <2>2 DEF Walkers
<1>3. CASE upshot = "teleported"
  <2>1. TakeStep(r, upshot) = Teleported(Moved(r))
    BY <1>3 DEF TakeStep
  <2> QED
    BY <2>1, MovedIs, TeleportedIs
<1> QED
  BY <1>1, <1>2, <1>3 DEF Outcomes

\* onWalkComplete leaves the walk alone.
LEMMA OnWalkCompleteIs ==
  ASSUME NEW r \in Walkers
  PROVE  /\ OnWalkComplete(r) \in Walkers
         /\ OnWalkComplete(r).events = r.events
         /\ OnWalkComplete(r).eventWalk = r.eventWalk
         /\ OnWalkComplete(r).steps = r.steps
         /\ OnWalkComplete(r).life = r.life
         /\ OnWalkComplete(r).sinceStop = r.sinceStop
         /\ OnWalkComplete(r).cancelNextWalk = r.cancelNextWalk
BY DEF OnWalkComplete, Walkers

\* A walk that was to be cancelled has no steps left.
LEMMA CancelledIs ==
  ASSUME NEW r \in Walkers
  PROVE  /\ Cancelled(r) \in Walkers
         /\ Cancelled(r).events = r.events
         /\ Cancelled(r).eventWalk = r.eventWalk
         /\ Cancelled(r).steps = IF r.cancelNextWalk THEN 0 ELSE r.steps
         /\ Cancelled(r).life = r.life
         /\ Cancelled(r).sinceStop = r.sinceStop
         /\ Cancelled(r).cancelNextWalk = FALSE
<1>1. CASE r.cancelNextWalk
  <2> DEFINE s == [r EXCEPT !.steps = 0, !.cancelNextWalk = FALSE]
  <2>1. /\ s \in Walkers /\ s.events = r.events
        /\ s.eventWalk = r.eventWalk /\ s.steps = 0 /\ s.life = r.life
        /\ s.sinceStop = r.sinceStop /\ s.cancelNextWalk = FALSE
    <3>1. 0 \in Ways
      BY WalkingAssumption DEF Ways
    <3> QED
      BY <3>1 DEF Walkers
  <2>2. Cancelled(r) = WithoutWalkTask(s)
    BY <1>1 DEF Cancelled
  <2> HIDE DEF s
  <2> QED
    BY <1>1, <2>1, <2>2, WithoutWalkTaskIs
<1>2. CASE ~r.cancelNextWalk
  BY <1>2 DEF Cancelled, Walkers
<1> QED
  BY <1>1, <1>2

\* After a step the next event is scheduled.
LEMMA SuccessorIs ==
  ASSUME NEW r \in Walkers, HasFresh(r)
  PROVE  /\ Successor(r) \in Walkers
         /\ Successor(r).events = r.events \cup {Fresh(r)}
         /\ Successor(r).eventWalk = Fresh(r)
         /\ Successor(r).steps = r.steps
         /\ Successor(r).life = r.life
         /\ Successor(r).sinceStop = r.sinceStop
         /\ Successor(r).cancelNextWalk = FALSE
<1> DEFINE s == [r EXCEPT !.cancelNextWalk = FALSE]
<1>1. /\ s \in Walkers /\ s.events = r.events
      /\ s.eventWalk = r.eventWalk /\ s.steps = r.steps /\ s.life = r.life
      /\ s.sinceStop = r.sinceStop /\ s.cancelNextWalk = FALSE
  BY DEF Walkers
<1>2. Fresh(s) = Fresh(r) /\ HasFresh(s)
  BY <1>1 DEF Fresh, HasFresh
<1>3. Successor(r) = Scheduled(s)
  BY DEF Successor
<1> HIDE DEF s
<1> QED
  BY <1>1, <1>2, <1>3, ScheduledIs
\* onWalk, with all its outcomes.
LEMMA OnWalkIs ==
  ASSUME NEW r \in Walkers, NEW upshot \in Outcomes, HasFresh(r),
         Heeds(r)
  PROVE  /\ OnWalk(r, upshot) \in Walkers
         /\ \E e \in EventIds :
                OnWalk(r, upshot).events \subseteq r.events \cup {e}
         /\ OnWalk(r, upshot).eventWalk
                \in {0} \cup OnWalk(r, upshot).events
         /\ r.eventWalk = 0 => /\ OnWalk(r, upshot).eventWalk = 0
                               /\ OnWalk(r, upshot).events \subseteq r.events
         /\ OnWalk(r, upshot).life = r.life
         /\ Heeds(OnWalk(r, upshot))
<1> DEFINE walked == IF r.resting THEN r
                     ELSE IF r.steps > 0 THEN TakeStep(r, upshot)
                     ELSE OnWalkComplete(StopEventWalk(r))
           done == Cancelled(walked)
<1>0. r.steps \in Nat /\ r.sinceStop \in {0, 1, 2}
  BY DEF Walkers, Ways, Heeds
<1>1. /\ walked \in Walkers /\ walked.events \subseteq r.events
      /\ walked.eventWalk \in {0, r.eventWalk} /\ walked.life = r.life
      /\ walked.cancelNextWalk = r.cancelNextWalk
      /\ walked.sinceStop < 3
      /\ walked.sinceStop = 1 => walked.cancelNextWalk \/ walked.steps = 0
      /\ walked.sinceStop = 2 => \/ walked.steps = 0
                                 \/ walked.cancelNextWalk
  <2>1. CASE r.resting
    BY <2>1, <1>0 DEF Heeds
  <2>2. CASE ~r.resting /\ r.steps > 0
    <3>1. walked = TakeStep(r, upshot)
      BY <2>2
    <3> HIDE DEF walked
    <3>2. r.sinceStop # 2 /\ r.sinceStop < 3
      BY <2>2, <1>0 DEF Heeds
    <3>3. /\ walked \in Walkers /\ walked.events \subseteq r.events
          /\ walked.eventWalk \in {0, r.eventWalk} /\ walked.life = r.life
          /\ walked.steps = r.steps - 1
          /\ walked.sinceStop \in {r.sinceStop, IF r.sinceStop = 0 THEN 0
                                                ELSE r.sinceStop + 1}
          /\ walked.cancelNextWalk = r.cancelNextWalk
      BY <3>1, <2>2, <3>2, TakeStepIs
    <3> QED
      BY <3>2, <3>3, <2>2, <1>0 DEF Heeds
  <2>3. CASE ~r.resting /\ ~(r.steps > 0)
    <3>1. walked = OnWalkComplete(StopEventWalk(r))
      BY <2>3
    <3> HIDE DEF walked
    <3>2. r.steps = 0
      BY <2>3, <1>0
    <3> QED
      BY <3>1, <3>2, <1>0, StopEventWalkIs, OnWalkCompleteIs
  <2> QED
    BY <2>1, <2>2, <2>3
<1>2. OnWalk(r, upshot) = IF done.eventWalk # 0 THEN Successor(done) ELSE done
  BY DEF OnWalk
<1> HIDE DEF walked
<1>3. /\ done \in Walkers /\ done.events \subseteq r.events
      /\ done.eventWalk \in {0, r.eventWalk} /\ done.life = r.life
      /\ Heeds(done) /\ done.cancelNextWalk = FALSE
  <2>1. /\ done \in Walkers /\ done.events = walked.events
        /\ done.eventWalk = walked.eventWalk
        /\ done.steps = IF walked.cancelNextWalk THEN 0 ELSE walked.steps
        /\ done.life = walked.life /\ done.sinceStop = walked.sinceStop
        /\ done.cancelNextWalk = FALSE
    BY <1>1, CancelledIs
  <2> HIDE DEF done
  <2> QED
    BY <2>1, <1>1 DEF Heeds
<1> HIDE DEF done
<1>4. CASE done.eventWalk = 0
  <2>1. \E e \in EventIds : TRUE
    BY DEF HasFresh
  <2> QED
    BY <1>2, <1>3, <1>4, <2>1
<1>5. CASE done.eventWalk # 0
  <2>1. HasFresh(done) /\ done.eventWalk = r.eventWalk
    BY <1>3, <1>5 DEF HasFresh
  <2>2. OnWalk(r, upshot) = Successor(done)
    BY <1>2, <1>5
  <2>3. /\ Successor(done) \in Walkers
        /\ Successor(done).events = done.events \cup {Fresh(done)}
        /\ Successor(done).eventWalk = Fresh(done)
        /\ Successor(done).steps = done.steps
        /\ Successor(done).life = done.life
        /\ Successor(done).sinceStop = done.sinceStop
    BY <2>1, <1>3, SuccessorIs
  <2>4. Heeds(Successor(done))
    <3>1. done.sinceStop \in {0, 1, 2}
      BY <1>3 DEF Heeds, Walkers
    <3> QED
      BY <2>3, <1>3 DEF Heeds
  <2>5. Fresh(done) \in EventIds
    BY <2>1, FreshIs
  <2>6. Successor(done).events \subseteq r.events \cup {Fresh(done)}
    BY <2>3, <1>3
  <2> QED
    BY <2>2, <2>3, <2>4, <2>5, <2>6, <1>3, <1>5, <2>1
<1> QED
  BY <1>4, <1>5

\* checkCreatureWalk, with all its outcomes.
LEMMA CheckCreatureWalkIs ==
  ASSUME NEW r \in Walkers, NEW upshot \in Outcomes, HasFresh(r),
         Heeds(r)
  PROVE  LET w == CheckCreatureWalk(r, upshot) IN
         /\ w \in Walkers
         /\ \E e \in EventIds : w.events \subseteq r.events \cup {e}
         /\ w.life = "healthy" => w.eventWalk \in {0} \cup w.events
         /\ r.eventWalk = 0 => w.eventWalk = 0 /\ w.events \subseteq r.events
         /\ w.life = r.life
         /\ Heeds(w)
<1>1. CASE r.life = "healthy"
  BY <1>1, OnWalkIs DEF CheckCreatureWalk
<1>2. CASE r.life # "healthy"
  BY <1>2 DEF CheckCreatureWalk, HasFresh
<1> QED
  BY <1>1, <1>2

(* eventWalk is 0 or scheduled when it is set; otherwise it stays.         *)
LEMMA AddEventWalkIs ==
  ASSUME NEW r \in Walkers, NEW upshot \in Outcomes, HasFresh(r),
         NEW firstStep \in BOOLEAN, r.sinceStop = 0
  PROVE  LET w == AddEventWalk(r, firstStep, upshot) IN
         /\ w \in Walkers
         /\ \/ r.eventWalk = 0 /\ w.eventWalk \in w.events
            \/ /\ r.eventWalk # 0 /\ w.eventWalk = r.eventWalk
               /\ w.events = r.events /\ w.revivedThere = r.revivedThere
         /\ \E e \in EventIds : w.events \subseteq r.events \cup {e}
         /\ w.life = r.life
         /\ Heeds(w)
<1> DEFINE going == [r EXCEPT !.cancelNextWalk = FALSE]
           w == AddEventWalk(r, firstStep, upshot)
<1>1. /\ going \in Walkers /\ going.events = r.events
      /\ going.eventWalk = r.eventWalk /\ going.steps = r.steps
      /\ going.life = r.life /\ going.sinceStop = 0
      /\ going.revivedThere = r.revivedThere
  BY DEF Walkers
<1>2. Heeds(going) /\ HasFresh(going)
  BY <1>1 DEF Heeds, HasFresh
<1>3. CASE r.eventWalk # 0
  <2>1. w = going
    BY <1>3 DEF AddEventWalk
  <2> HIDE DEF w, going
  <2>2. \E e \in EventIds : TRUE
    BY DEF HasFresh
  <2> QED
    BY <2>1, <2>2, <1>1, <1>2, <1>3 DEF w
<1>4. CASE r.eventWalk = 0 /\ firstStep /\ ~r.resting
  <2> DEFINE s == CheckCreatureWalk(going, upshot)
  <2>1. w = Scheduled(s)
    BY <1>4 DEF AddEventWalk
  <2> HIDE DEF going
  <2>2. /\ s \in Walkers /\ s.eventWalk = 0 /\ s.events \subseteq r.events
        /\ s.life = r.life /\ Heeds(s)
    BY <1>1, <1>2, <1>4, CheckCreatureWalkIs
  <2> HIDE DEF s, w
  <2>3. HasFresh(s)
    BY <2>2, <1>4 DEF HasFresh
  <2>4. /\ w \in Walkers /\ w.events = s.events \cup {Fresh(s)}
        /\ w.eventWalk = Fresh(s) /\ w.steps = s.steps /\ w.life = s.life
        /\ w.sinceStop = s.sinceStop /\ w.cancelNextWalk = s.cancelNextWalk
    BY <2>1, <2>2, <2>3, ScheduledIs
  <2>5. Fresh(s) \in EventIds
    BY <2>3, FreshIs
  <2>6. Heeds(w)
    BY <2>2, <2>4 DEF Heeds
  <2> QED
    BY <2>2, <2>4, <2>5, <2>6, <1>4 DEF w
<1>5. CASE r.eventWalk = 0 /\ ~(firstStep /\ ~r.resting)
  <2>1. w = Scheduled(going)
    BY <1>5 DEF AddEventWalk
  <2> HIDE DEF going, w
  <2>4. /\ w \in Walkers /\ w.events = going.events \cup {Fresh(going)}
        /\ w.eventWalk = Fresh(going) /\ w.steps = going.steps
        /\ w.life = going.life
        /\ w.sinceStop = going.sinceStop
        /\ w.cancelNextWalk = going.cancelNextWalk
    BY <2>1, <1>1, <1>2, ScheduledIs
  <2>5. Fresh(going) \in EventIds
    BY <1>2, FreshIs
  <2>6. Heeds(w)
    BY <1>1, <1>2, <2>4 DEF Heeds
  <2> QED
    BY <1>1, <2>4, <2>5, <2>6, <1>5 DEF w
<1> QED
  BY <1>3, <1>4, <1>5

(* When the speed is positive again, a stop may still be due.              *)
LEMMA QuickensAgain ==
  ASSUME NEW r \in Walkers, HasFresh(r)
  PROVE  LET w == AddEventWalk(r, FALSE, "moved") IN
         /\ w \in Walkers
         /\ \/ w.eventWalk \in w.events
            \/ /\ w.eventWalk = r.eventWalk /\ w.events = r.events
               /\ w.revivedThere = r.revivedThere
         /\ \E e \in EventIds : w.events \subseteq r.events \cup {e}
         /\ w.life = r.life
<1> DEFINE going == [r EXCEPT !.cancelNextWalk = FALSE]
<1>1. /\ going \in Walkers /\ going.events = r.events
      /\ going.eventWalk = r.eventWalk /\ going.life = r.life
      /\ going.revivedThere = r.revivedThere
  BY DEF Walkers
<1>2. HasFresh(going)
  BY <1>1 DEF HasFresh
<1>3. AddEventWalk(r, FALSE, "moved")
        = IF r.eventWalk # 0 THEN going ELSE Scheduled(going)
  BY DEF AddEventWalk
<1> HIDE DEF going
<1>4. /\ Scheduled(going) \in Walkers
      /\ Scheduled(going).events = going.events \cup {Fresh(going)}
      /\ Scheduled(going).eventWalk = Fresh(going)
      /\ Scheduled(going).life = going.life
      /\ Fresh(going) \in EventIds
  BY <1>1, <1>2, ScheduledIs, FreshIs
<1>5. CASE r.eventWalk # 0
  BY <1>1, <1>3, <1>4, <1>5
<1>6. CASE r.eventWalk = 0
  BY <1>1, <1>3, <1>4, <1>6
<1> QED
  BY <1>5, <1>6

\* startAutoWalk: an event is to come, unless there was an eventWalk.
LEMMA StartAutoWalkIs ==
  ASSUME NEW r \in Walkers, NEW upshot \in Outcomes, HasFresh(r),
         NEW way \in Ways
  PROVE  LET w == StartAutoWalk(r, way, upshot) IN
         /\ w \in Walkers
         /\ \/ r.eventWalk = 0 /\ w.eventWalk \in w.events
            \/ /\ r.eventWalk # 0 /\ w.eventWalk = r.eventWalk
               /\ w.events = r.events /\ w.revivedThere = r.revivedThere
         /\ \E e \in EventIds : w.events \subseteq r.events \cup {e}
         /\ w.life = r.life
         /\ Heeds(w)
<1> DEFINE s == [r EXCEPT !.steps = way, !.sinceStop = 0]
<1>1. /\ s \in Walkers /\ s.events = r.events
      /\ s.eventWalk = r.eventWalk /\ s.sinceStop = 0
      /\ s.life = r.life /\ s.revivedThere = r.revivedThere
  <2>1. 0 \in 0 .. 3
    OBVIOUS
  <2> QED
    BY <2>1 DEF Walkers
<1>2. HasFresh(s)
  BY <1>1 DEF HasFresh
<1>3. StartAutoWalk(r, way, upshot) = AddEventWalk(s, way = 1, upshot)
  BY DEF StartAutoWalk
<1>4. (way = 1) \in BOOLEAN
  OBVIOUS
<1> HIDE DEF s
<1> DEFINE first == (way = 1)
<1> HIDE DEF first
<1>5. LET w == AddEventWalk(s, first, upshot) IN
      /\ w \in Walkers
      /\ \/ s.eventWalk = 0 /\ w.eventWalk \in w.events
         \/ /\ s.eventWalk # 0 /\ w.eventWalk = s.eventWalk
            /\ w.events = s.events /\ w.revivedThere = s.revivedThere
      /\ \E e \in EventIds : w.events \subseteq s.events \cup {e}
      /\ w.life = s.life
      /\ Heeds(w)
  <2>1. first \in BOOLEAN
    BY <1>4 DEF first
  <2> QED
    BY <1>1, <1>2, <2>1, AddEventWalkIs
<1>6. StartAutoWalk(r, way, upshot) = AddEventWalk(s, first, upshot)
  BY <1>3 DEF first
<1> QED
  BY <1>1, <1>5, <1>6

-----------------------------------------------------------------------------
(* The queue of the dispatcher.                                            *)
WaitingKinds == {"walk", "path", "action", "death"}

Places(q, t) == {i \in DOMAIN q : q[i] = t}

\* The places of a task in a queue are finitely many, ...
LEMMA PlacesFinite ==
  ASSUME NEW q \in Seq(WaitingKinds), NEW t
  PROVE  /\ IsFiniteSet(Places(q, t))
         /\ Cardinality(Places(q, t)) \in Nat
<1>1. Len(q) \in Nat /\ DOMAIN q = 1 .. Len(q)
  OBVIOUS
<1>2. IsFiniteSet(1 .. Len(q))
  BY <1>1, FS_Interval
<1>3. Places(q, t) \subseteq 1 .. Len(q)
  BY <1>1 DEF Places
<1> QED
  BY <1>2, <1>3, FS_Subset, FS_CardinalityType

\* ... none if it does not wait, ...
LEMMA PlacesOfNone ==
  ASSUME NEW q \in Seq(WaitingKinds), NEW t
  PROVE  Cardinality(Places(q, t)) > 0 <=> \E i \in DOMAIN q : q[i] = t
<1>1. Cardinality(Places(q, t)) = 0 <=> Places(q, t) = {}
  BY PlacesFinite, FS_EmptySet
<1>2. Cardinality(Places(q, t)) \in Nat
  BY PlacesFinite
<1> QED
  BY <1>1, <1>2 DEF Places

\* ... one more when it comes, ...
LEMMA PlacesAppend ==
  ASSUME NEW q \in Seq(WaitingKinds), NEW t, NEW x \in WaitingKinds
  PROVE  Cardinality(Places(Append(q, x), t))
            = Cardinality(Places(q, t)) + (IF x = t THEN 1 ELSE 0)
<1> DEFINE p == Append(q, x)
<1>1. /\ Len(q) \in Nat /\ DOMAIN q = 1 .. Len(q)
      /\ DOMAIN p = 1 .. Len(q) + 1 /\ p[Len(q) + 1] = x
      /\ \A i \in 1 .. Len(q) : p[i] = q[i]
  BY AppendProperties
<1> HIDE DEF p
<1>2. CASE x = t
  <2>1. Places(p, t) = Places(q, t) \cup {Len(q) + 1}
    BY <1>1, <1>2 DEF Places
  <2>2. Len(q) + 1 \notin Places(q, t)
    BY <1>1 DEF Places
  <2>3. Cardinality(Places(p, t)) = Cardinality(Places(q, t)) + 1
    BY <2>1, <2>2, PlacesFinite, FS_AddElement
  <2> QED
    BY <2>3, <1>2 DEF p
<1>3. CASE x # t
  <2>1. Places(p, t) = Places(q, t)
    BY <1>1, <1>3 DEF Places
  <2>2. Cardinality(Places(q, t)) \in Nat
    BY PlacesFinite
  <2> QED
    BY <2>1, <2>2, <1>3 DEF p
<1> QED
  BY <1>2, <1>3

\* ... and one less when it was served.
LEMMA PlacesTail ==
  ASSUME NEW q \in Seq(WaitingKinds), q # <<>>, NEW t
  PROVE  Cardinality(Places(q, t))
            = Cardinality(Places(Tail(q), t))
                + (IF Head(q) = t THEN 1 ELSE 0)
<1> DEFINE p == Tail(q)
           later == Places(q, t) \ {1}
           f == [i \in Places(p, t) |-> i + 1]
<1>1. /\ Len(q) \in Nat \ {0} /\ DOMAIN q = 1 .. Len(q)
      /\ p \in Seq(WaitingKinds) /\ DOMAIN p = 1 .. Len(q) - 1
      /\ Head(q) = q[1]
      /\ \A i \in 1 .. Len(q) - 1 : p[i] = q[i + 1]
  BY EmptySeq, HeadTailProperties
<1> HIDE DEF p
<1>2. Places(p, t) \subseteq Nat
  BY <1>1 DEF Places
<1>3. f \in Bijection(Places(p, t), later)
  <2>1. \A i \in Places(p, t) : i + 1 \in later
    BY <1>1 DEF Places
  <2>2. \A j \in later : j - 1 \in Places(p, t) /\ (j - 1) + 1 = j
    BY <1>1 DEF Places
  <2>3. f \in [Places(p, t) -> later]
    BY <2>1
  <2>4. \A i, j \in Places(p, t) : f[i] = f[j] => i = j
    BY <1>2
  <2>5. \A j \in later : \E i \in Places(p, t) : f[i] = j
    BY <2>2
  <2> HIDE DEF f, later
  <2> QED
    BY <2>3, <2>4, <2>5, Fun_IsBij
<1>4. Cardinality(later) = Cardinality(Places(p, t))
  <2>1. ExistsBijection(Places(p, t), later)
    BY <1>3, Zenon DEF ExistsBijection
  <2>2. IsFiniteSet(Places(p, t))
    BY <1>1, PlacesFinite
  <2> HIDE DEF later
  <2> QED
    BY <2>1, <2>2, FS_Bijection
<1>5. IsFiniteSet(Places(q, t)) /\ Cardinality(Places(p, t)) \in Nat
  BY <1>1, PlacesFinite
<1>6. CASE Head(q) = t
  <2>1. 1 \in Places(q, t)
    BY <1>1, <1>6 DEF Places
  <2>2. Cardinality(later) = Cardinality(Places(q, t)) - 1
    BY <2>1, <1>5, FS_RemoveElement
  <2>3. Cardinality(Places(q, t)) \in Nat
    BY PlacesFinite
  <2>4. Cardinality(Places(q, t)) = Cardinality(Places(p, t)) + 1
    <3> HIDE DEF later
    <3> QED
      BY <2>2, <2>3, <1>4, <1>5
  <2> QED
    BY <2>4, <1>6 DEF p
<1>7. CASE Head(q) # t
  <2>1. later = Places(q, t)
    BY <1>1, <1>7 DEF Places
  <2>2. Cardinality(Places(q, t)) = Cardinality(Places(p, t))
    <3> HIDE DEF later
    <3> QED
      BY <2>1, <1>4
  <2> QED
    BY <2>2, <1>5, <1>7 DEF p
<1> QED
  BY <1>6, <1>7

-----------------------------------------------------------------------------
(* How many walk events there are, with those that a queued path may       *)
(* schedule.  Nothing has been ordered, and nothing is there, at first.    *)
Load == Cardinality(walker.events) + Count("walk") + Count("path")

NothingOrdered ==
    orders = 0 =>
        /\ walker.events = {} /\ walker.steps = 0
        /\ \A i \in DOMAIN waiting : waiting[i] \notin {"walk", "path"}

WalkingInv ==
    /\ WalkingSound
    /\ Heeds(walker)
    /\ Load <= MaxEvents + 1 /\ Count("path") <= 1
    /\ NothingOrdered

\* The types, by their names.
LEMMA WalkingTyped ==
  WalkingTypeOK <=> /\ walker \in Walkers /\ waiting \in Seq(WaitingKinds)
                    /\ slow \in BOOLEAN /\ orders \in 0 .. MaxOrders
BY DEF WalkingTypeOK, Walkers, WaitingKinds

\* Count counts places.
LEMMA CountIs == \A t : Count(t) = Cardinality(Places(waiting, t))
BY DEF Count, Places

\* Events are finitely many.
LEMMA EventsFinite ==
  ASSUME NEW E, E \subseteq EventIds
  PROVE  /\ IsFiniteSet(E) /\ Cardinality(E) \in Nat
         /\ Cardinality(E) <= MaxEvents + MaxOrders + 1
<1>1. IsFiniteSet(EventIds) /\ Cardinality(EventIds)
                                = MaxEvents + MaxOrders + 1
  BY FS_Interval, WalkingAssumption DEF EventIds
<1> QED
  BY <1>1, FS_Subset, FS_CardinalityType

(* There is a number for another event while not all of them are used.     *)
LEMMA RoomForOne ==
  ASSUME NEW r \in Walkers,
         \/ /\ r.eventWalk = 0
            /\ Cardinality(r.events) <= MaxEvents + MaxOrders
         \/ Cardinality(r.events) + 1 <= MaxEvents + MaxOrders
  PROVE  HasFresh(r)
<1> DEFINE E == r.events \cup ({r.eventWalk} \cap EventIds)
<1>1. r.events \subseteq EventIds
  BY DEF Walkers
<1>2. IsFiniteSet(r.events) /\ Cardinality(r.events) \in Nat
  BY <1>1, EventsFinite
<1>3. Cardinality(E) <= MaxEvents + MaxOrders
  <2>1. CASE r.eventWalk = 0
    <3>1. 0 \notin EventIds
      BY WalkingAssumption DEF EventIds
    <3>2. E = r.events
      BY <2>1, <3>1
    <3>3. Cardinality(r.events) <= MaxEvents + MaxOrders
      BY <1>2, WalkingAssumption
    <3> QED
      BY <3>2, <3>3
  <2>2. CASE r.eventWalk # 0
    <3>1. E = r.events \cup {r.eventWalk}
      BY <2>2 DEF Walkers
    <3>2. Cardinality(E) \in {Cardinality(r.events),
                              Cardinality(r.events) + 1}
      BY <3>1, <1>2, FS_AddElement
    <3> HIDE DEF E
    <3> QED
      BY <3>2, <1>2, <2>2, WalkingAssumption
  <2> QED
    BY <2>1, <2>2
<1>4. Cardinality(EventIds) = MaxEvents + MaxOrders + 1
  <2> DEFINE l == MaxEvents + MaxOrders + 1
  <2>1. l \in Int /\ ~(1 > l) /\ l - 1 + 1 = l
    BY WalkingAssumption
  <2>2. EventIds = 1 .. l
    BY DEF EventIds
  <2> HIDE DEF l
  <2>3. Cardinality(1 .. l) = l
    BY <2>1, FS_Interval
  <2> QED
    BY <2>2, <2>3 DEF l
<1>5. E # EventIds
  <2> HIDE DEF E
  <2> QED
    BY <1>3, <1>4, WalkingAssumption
<1>6. E \subseteq EventIds
  BY <1>1
<1> QED
  BY <1>5, <1>6 DEF HasFresh

(* A walk event more, at most.                                             *)
LEMMA OneEventMore ==
  ASSUME NEW E, E \subseteq EventIds, NEW F, F \subseteq EventIds,
         \E e \in EventIds : F \subseteq E \cup {e}
  PROVE  Cardinality(F) <= Cardinality(E) + 1
<1>1. PICK e \in EventIds : F \subseteq E \cup {e}
  OBVIOUS
<1>2. /\ IsFiniteSet(E) /\ Cardinality(E) \in Nat
      /\ Cardinality(F) \in Nat
  BY EventsFinite
<1>3. /\ IsFiniteSet(E \cup {e})
      /\ Cardinality(E \cup {e}) <= Cardinality(E) + 1
  <2>1. /\ IsFiniteSet(E \cup {e})
        /\ Cardinality(E \cup {e}) \in {Cardinality(E), Cardinality(E) + 1}
    BY ONLY <1>2, FS_AddElement
  <2> QED
    BY ONLY <1>2, <2>1
<1>4. Cardinality(F) <= Cardinality(E \cup {e})
  BY <1>1, <1>3, FS_Subset
<1>5. Cardinality(E \cup {e}) \in Nat
  BY <1>3, FS_CardinalityType
<1> QED
  BY <1>2, <1>3, <1>4, <1>5

\* Events that were cancelled.
LEMMA FewerEvents ==
  ASSUME NEW E, E \subseteq EventIds, NEW F, F \subseteq E
  PROVE  Cardinality(F) <= Cardinality(E)
BY EventsFinite, FS_Subset

\* What the invariant gives, one by one.
LEMMA WalkingFacts ==
  ASSUME WalkingTypeOK
  PROVE  /\ walker \in Walkers /\ waiting \in Seq(WaitingKinds)
         /\ slow \in BOOLEAN /\ orders \in 0 .. MaxOrders
         /\ walker.events \subseteq EventIds
         /\ Cardinality(walker.events) \in Nat
         /\ \A t : /\ Count(t) \in Nat
                   /\ Count(t) > 0 <=> \E i \in DOMAIN waiting :
                                            waiting[i] = t
<1>1. /\ walker \in Walkers /\ waiting \in Seq(WaitingKinds)
      /\ slow \in BOOLEAN /\ orders \in 0 .. MaxOrders
  BY WalkingTyped
<1>2. walker.events \subseteq EventIds
  BY <1>1 DEF Walkers
<1> QED
  BY <1>1, <1>2, EventsFinite, CountIs, PlacesFinite, PlacesOfNone

(* The tasks that are waiting, when one has been served, and when one has  *)
(* come.                                                                   *)
LEMMA Served ==
  ASSUME WalkingTypeOK, NEW k, RunsFirst(k), waiting' = Tail(waiting)
  PROVE  /\ waiting' \in Seq(WaitingKinds)
         /\ \A t : Count(t)' \in Nat
         /\ \A t : Count(t) = Count(t)' + (IF t = k THEN 1 ELSE 0)
         /\ \E i \in DOMAIN waiting : waiting[i] = k
         /\ \A i \in DOMAIN waiting' :
                \E j \in DOMAIN waiting : waiting[j] = waiting'[i]
<1>1. waiting \in Seq(WaitingKinds) /\ waiting # <<>> /\ Head(waiting) = k
  BY WalkingTyped DEF RunsFirst
<1>2. /\ waiting' \in Seq(WaitingKinds) /\ Head(waiting) = waiting[1]
      /\ 1 \in DOMAIN waiting
  BY <1>1, EmptySeq, HeadTailProperties
<1>3. \A t : Count(t)' = Cardinality(Places(waiting', t))
  BY DEF Count, Places
<1>4. \A t : Count(t)' \in Nat
  BY <1>2, <1>3, PlacesFinite
<1>5. ASSUME NEW t
      PROVE  Count(t) = Count(t)' + (IF t = k THEN 1 ELSE 0)
  BY <1>1, <1>3, CountIs, PlacesTail
<1>6. \A i \in DOMAIN waiting' :
        i + 1 \in DOMAIN waiting /\ waiting[i + 1] = waiting'[i]
  BY <1>1, EmptySeq, HeadTailProperties
<1> QED
  BY <1>1, <1>2, <1>4, <1>5, <1>6

LEMMA Came ==
  ASSUME WalkingTypeOK, NEW k \in WaitingKinds, waiting' = Append(waiting, k)
  PROVE  /\ waiting' \in Seq(WaitingKinds)
         /\ \A t : Count(t)' \in Nat
         /\ \A t : Count(t)' = Count(t) + (IF t = k THEN 1 ELSE 0)
         /\ \A i \in DOMAIN waiting' :
                \/ waiting'[i] = k
                \/ \E j \in DOMAIN waiting : waiting[j] = waiting'[i]
<1>1. waiting \in Seq(WaitingKinds)
  BY WalkingTyped
<1>2. waiting' \in Seq(WaitingKinds)
  BY <1>1, AppendProperties
<1>3. \A t : Count(t)' = Cardinality(Places(waiting', t))
  BY DEF Count, Places
<1>4. \A t : Count(t)' \in Nat
  BY <1>2, <1>3, PlacesFinite
<1>5. ASSUME NEW t
      PROVE  Count(t)' = Count(t) + (IF t = k THEN 1 ELSE 0)
  <2>1. Cardinality(Places(Append(waiting, k), t))
            = Cardinality(Places(waiting, t)) + (IF k = t THEN 1 ELSE 0)
    BY <1>1, PlacesAppend
  <2> QED
    BY <2>1, <1>3, CountIs
<1>6. \A i \in DOMAIN waiting' :
        \/ waiting'[i] = k
        \/ i \in DOMAIN waiting /\ waiting[i] = waiting'[i]
  <2>1. /\ Len(waiting) \in Nat /\ DOMAIN waiting = 1 .. Len(waiting)
        /\ DOMAIN waiting' = 1 .. Len(waiting) + 1
        /\ waiting'[Len(waiting) + 1] = k
        /\ \A i \in 1 .. Len(waiting) : waiting'[i] = waiting[i]
    BY <1>1, AppendProperties
  <2> QED
    BY <2>1
<1> QED
  BY <1>2, <1>4, <1>5, <1>6

\* At the start nobody walks.
LEMMA WalkingInitial == WalkingInit => WalkingInv
<1> USE WalkingAssumption
<1> SUFFICES ASSUME WalkingInit PROVE WalkingInv
  OBVIOUS
<1>1. walker \in Walkers
  <2>1. 0 \in Ways /\ 0 \in 0 .. 3
    BY DEF Ways
  <2> QED
    BY <2>1 DEF WalkingInit, Walkers
<1>2. waiting \in Seq(WaitingKinds) /\ DOMAIN waiting = {}
  <2>1. waiting = <<>>
    BY DEF WalkingInit
  <2> QED
    BY <2>1
<1>3. WalkingTypeOK
  <2>1. slow = FALSE /\ orders = 0
    BY DEF WalkingInit
  <2>2. slow \in BOOLEAN
    BY <2>1
  <2>3. orders \in 0 .. MaxOrders
    BY <2>1
  <2> QED
    BY <1>1, <1>2, <2>2, <2>3, WalkingTyped
<1>4. \A t : Count(t) = 0
  <2>1. \A t : /\ Count(t) \in Nat
               /\ Count(t) > 0 <=> \E i \in DOMAIN waiting : waiting[i] = t
    BY <1>3, WalkingFacts
  <2>2. TAKE t
  <2>3. Count(t) \in Nat /\ ~(Count(t) > 0)
    BY <1>2, <2>1
  <2> QED
    BY <2>3
<1>5. Cardinality(walker.events) = 0
  BY FS_EmptySet DEF WalkingInit
<1>6. Load <= MaxEvents + 1 /\ Count("path") <= 1
  BY <1>4, <1>5 DEF Load
<1>7. EventToCome /\ StopHeeded /\ Heeds(walker) /\ NothingOrdered
  BY <1>2 DEF WalkingInit, EventToCome, StopHeeded, Heeds, NothingOrdered
<1> QED
  BY <1>3, <1>6, <1>7 DEF WalkingInv, WalkingSound

-----------------------------------------------------------------------------
(* What is left to show of a step: that it keeps the player's own state    *)
(* well-typed, and what it does to the events to come.                     *)
LEMMA WalkingKept ==
  ASSUME walker' \in Walkers, waiting' \in Seq(WaitingKinds),
         slow' \in BOOLEAN,
         orders' \in 0 .. MaxOrders, EventToCome', Heeds(walker'),
         (Load <= MaxEvents + 1)', (Count("path") <= 1)', NothingOrdered'
  PROVE  WalkingInv'
<1>1. WalkingTypeOK'
  BY DEF WalkingTypeOK, Walkers, WaitingKinds
<1>2. StopHeeded'
  BY DEF StopHeeded, Heeds
<1>3. Heeds(walker)'
  BY DEF Heeds
<1> QED
  BY <1>1, <1>2, <1>3 DEF WalkingInv, WalkingSound

(* Nobody waits more or less.                                              *)
LEMMA SameQueue ==
  ASSUME waiting' = waiting
  PROVE  \A t : Count(t)' = Count(t)
BY DEF Count

(* A player is ordered to go.                                              *)
LEMMA Ordered ==
  ASSUME WalkingInv, orders' \in 1 .. MaxOrders, slow' \in BOOLEAN,
         Cardinality(walker.events) + Count("walk") < MaxEvents,
         waiting' = waiting, walker' \in Walkers,
         \/ walker'.eventWalk \in walker'.events
         \/ /\ walker'.eventWalk = walker.eventWalk
            /\ walker'.events = walker.events
            /\ walker'.life = walker.life
            /\ walker'.revivedThere = walker.revivedThere,
         \E e \in EventIds : walker'.events \subseteq walker.events \cup {e},
         Heeds(walker')
  PROVE  WalkingInv'
<1> USE WalkingAssumption
<1>0. /\ WalkingTypeOK /\ EventToCome
      /\ Load <= MaxEvents + 1 /\ Count("path") <= 1
  BY DEF WalkingInv, WalkingSound
<1>1. /\ waiting \in Seq(WaitingKinds) /\ slow \in BOOLEAN
      /\ orders \in 0 .. MaxOrders
      /\ walker.events \subseteq EventIds
      /\ Cardinality(walker.events) \in Nat
  BY <1>0, WalkingFacts
<1>2. Count("walk") \in Nat /\ Count("path") \in Nat
  BY <1>0, WalkingFacts
<1>3. /\ Count("walk")' = Count("walk")
      /\ Count("path")' = Count("path")
  BY SameQueue
<1>5. walker'.events \subseteq EventIds
  BY DEF Walkers
<1>6. /\ Cardinality(walker'.events) <= Cardinality(walker.events) + 1
      /\ Cardinality(walker'.events) \in Nat
  BY <1>1, <1>5, OneEventMore, EventsFinite
<1>7. /\ Load' = Cardinality(walker'.events) + Count("walk")'
                    + Count("path")'
      /\ Load = Cardinality(walker.events) + Count("walk") + Count("path")
  BY DEF Load
<1>8. (Load <= MaxEvents + 1)' /\ (Count("path") <= 1)'
  BY <1>0, <1>1, <1>2, <1>3, <1>6, <1>7
<1>9. NothingOrdered'
  BY DEF NothingOrdered
<1>10. EventToCome'
  BY <1>0, <1>3 DEF EventToCome
<1> QED
  BY <1>1, <1>8, <1>9, <1>10, WalkingKept

(* Nothing is added to what is to come.                                    *)
LEMMA NoEventMore ==
  ASSUME WalkingInv, slow' \in BOOLEAN, orders' = orders,
         waiting' = waiting, walker' \in Walkers,
         walker'.events \subseteq walker.events,
         walker'.steps = walker.steps,
         \/ walker'.eventWalk = 0
         \/ /\ walker'.eventWalk = walker.eventWalk
            /\ walker'.events = walker.events
            /\ walker'.life = walker.life
            /\ walker'.revivedThere = walker.revivedThere,
         Heeds(walker')
  PROVE  WalkingInv'
<1> USE WalkingAssumption
<1>0. /\ WalkingTypeOK /\ EventToCome /\ NothingOrdered
      /\ Load <= MaxEvents + 1 /\ Count("path") <= 1
  BY DEF WalkingInv, WalkingSound
<1>1. /\ waiting \in Seq(WaitingKinds) /\ orders \in 0 .. MaxOrders
      /\ walker.events \subseteq EventIds
      /\ Cardinality(walker.events) \in Nat
  BY <1>0, WalkingFacts
<1>2. Count("walk") \in Nat /\ Count("path") \in Nat
  BY <1>0, WalkingFacts
<1>3. /\ Count("walk")' = Count("walk")
      /\ Count("path")' = Count("path")
  BY SameQueue
<1>6. /\ Cardinality(walker'.events) <= Cardinality(walker.events)
      /\ Cardinality(walker'.events) \in Nat
  BY <1>1, FewerEvents, EventsFinite
<1>7. /\ Load' = Cardinality(walker'.events) + Count("walk")'
                    + Count("path")'
      /\ Load = Cardinality(walker.events) + Count("walk") + Count("path")
  BY DEF Load
<1>8. (Load <= MaxEvents + 1)' /\ (Count("path") <= 1)'
  BY <1>0, <1>1, <1>2, <1>3, <1>6, <1>7
<1>9. NothingOrdered'
  BY <1>0 DEF NothingOrdered
<1>10. EventToCome'
  BY <1>0, <1>3 DEF EventToCome
<1> QED
  BY <1>1, <1>8, <1>9, <1>10, WalkingKept

(* A task has been served, and one walk event at most has taken the place  *)
(* of a walk or a path.                                                    *)
LEMMA EventForTask ==
  ASSUME WalkingInv, NEW k, RunsFirst(k), waiting' = Tail(waiting),
         slow' = slow, orders' = orders, walker' \in Walkers,
         \/ walker'.eventWalk \in {0} \cup walker'.events
         \/ walker'.life # "healthy"
         \/ walker'.revivedThere
         \/ /\ k # "walk"
            /\ walker'.eventWalk = walker.eventWalk
            /\ walker'.events = walker.events
            /\ walker'.life = walker.life
            /\ walker'.revivedThere = walker.revivedThere,
         \/ /\ walker'.events \subseteq walker.events
            /\ walker'.steps = walker.steps
         \/ /\ k \in {"walk", "path"}
            /\ \E e \in EventIds :
                    walker'.events \subseteq walker.events \cup {e},
         Heeds(walker')
  PROVE  WalkingInv'
<1> USE WalkingAssumption
<1>0. /\ WalkingTypeOK /\ EventToCome /\ NothingOrdered
      /\ Load <= MaxEvents + 1 /\ Count("path") <= 1
  BY DEF WalkingInv, WalkingSound
<1>1. /\ orders \in 0 .. MaxOrders /\ slow \in BOOLEAN
      /\ walker.events \subseteq EventIds
      /\ Cardinality(walker.events) \in Nat
  BY <1>0, WalkingFacts
<1>2. /\ Count("walk") \in Nat /\ Count("path") \in Nat
      /\ Count("walk")' \in Nat /\ Count("path")' \in Nat
  BY <1>0, WalkingFacts, Served
<1>3. /\ Count("walk") = Count("walk")' + (IF k = "walk" THEN 1 ELSE 0)
      /\ Count("path") = Count("path")' + (IF k = "path" THEN 1 ELSE 0)
  BY <1>0, Served
<1>4. /\ waiting' \in Seq(WaitingKinds)
      /\ \E i \in DOMAIN waiting : waiting[i] = k
      /\ \A i \in DOMAIN waiting' :
            \E j \in DOMAIN waiting : waiting[j] = waiting'[i]
  BY <1>0, Served
<1>5. walker'.events \subseteq EventIds
  BY DEF Walkers
<1>6. /\ Cardinality(walker'.events) \in Nat
      /\ \/ Cardinality(walker'.events) <= Cardinality(walker.events)
         \/ /\ k \in {"walk", "path"}
            /\ Cardinality(walker'.events) <= Cardinality(walker.events) + 1
  BY <1>1, <1>5, FewerEvents, OneEventMore, EventsFinite
<1>7. /\ Load' = Cardinality(walker'.events) + Count("walk")'
                    + Count("path")'
      /\ Load = Cardinality(walker.events) + Count("walk") + Count("path")
  BY DEF Load
<1>8. (Load <= MaxEvents + 1)' /\ (Count("path") <= 1)'
  <2>1. CASE k = "walk"
    BY <2>1, <1>0, <1>1, <1>2, <1>3, <1>6, <1>7
  <2>2. CASE k = "path"
    BY <2>2, <1>0, <1>1, <1>2, <1>3, <1>6, <1>7
  <2>3. CASE k \notin {"walk", "path"}
    BY <2>3, <1>0, <1>1, <1>2, <1>3, <1>6, <1>7
  <2> QED
    BY <2>1, <2>2, <2>3
<1>9. NothingOrdered'
  <2> SUFFICES ASSUME orders = 0
               PROVE  /\ walker'.events = {} /\ walker'.steps = 0
                      /\ \A i \in DOMAIN waiting' :
                            waiting'[i] \notin {"walk", "path"}
    BY DEF NothingOrdered
  <2>1. /\ walker.events = {} /\ walker.steps = 0
        /\ \A i \in DOMAIN waiting : waiting[i] \notin {"walk", "path"}
    BY <1>0 DEF NothingOrdered
  <2>2. k \notin {"walk", "path"}
    BY <1>4, <2>1
  <2>3. \A i \in DOMAIN waiting' : waiting'[i] \notin {"walk", "path"}
    BY <1>4, <2>1
  <2> QED
    BY <2>1, <2>2, <2>3
<1>10. EventToCome'
  BY <1>0, <1>2, <1>3 DEF EventToCome
<1> QED
  BY <1>1, <1>4, <1>8, <1>9, <1>10, WalkingKept

(* What is to be done is remembered while a path is looked for.            *)
LEMMA ToGoAndDo ==
  ASSUME WalkingInv, NEW q \in Seq(WaitingKinds), GoAndDo(q),
         Cardinality(Places(q, "walk")) = Count("walk"),
         Cardinality(Places(q, "path")) = Count("path")
  PROVE  WalkingInv'
<1> USE WalkingAssumption
<1>0. /\ WalkingTypeOK /\ EventToCome /\ Heeds(walker)
      /\ Load <= MaxEvents + 1 /\ Count("path") <= 1
  BY DEF WalkingInv, WalkingSound
<1>1. /\ orders \in 0 .. MaxOrders /\ slow \in BOOLEAN
      /\ walker \in Walkers
      /\ Cardinality(walker.events) \in Nat
  BY <1>0, WalkingFacts
<1>2. Count("walk") \in Nat /\ Count("path") \in Nat
  BY <1>0, WalkingFacts
<1>3. /\ waiting' = Append(q, "path") /\ orders' = orders + 1
      /\ slow' = slow /\ orders < MaxOrders /\ Count("path") = 0
      /\ Cardinality(walker.events) + Count("walk") < MaxEvents
      /\ walker' = [WithoutWalkTask(walker) EXCEPT
                        !.walkTask = TRUE, !.interrupted = FALSE]
  BY DEF GoAndDo, MayOrder
<1>4. waiting' \in Seq(WaitingKinds)
  BY <1>3, AppendProperties DEF WaitingKinds
<1>5. /\ Count("walk")' = Cardinality(Places(waiting', "walk"))
      /\ Count("path")' = Cardinality(Places(waiting', "path"))
  BY DEF Count, Places
<1>6. Count("walk")' = Count("walk") /\ Count("path")' = Count("path") + 1
  <2>1. "path" \in WaitingKinds
    BY DEF WaitingKinds
  <2>2. /\ Cardinality(Places(Append(q, "path"), "walk"))
                = Cardinality(Places(q, "walk")) + 0
        /\ Cardinality(Places(Append(q, "path"), "path"))
                = Cardinality(Places(q, "path")) + 1
    BY <2>1, PlacesAppend
  <2> QED
    BY <2>2, <1>2, <1>3, <1>5
<1>7. /\ walker' \in Walkers /\ walker'.events = walker.events
      /\ walker'.eventWalk = walker.eventWalk
      /\ walker'.life = walker.life
      /\ walker'.revivedThere = walker.revivedThere
      /\ walker'.steps = walker.steps
      /\ walker'.sinceStop = walker.sinceStop
      /\ walker'.cancelNextWalk = walker.cancelNextWalk
  <2> DEFINE r == WithoutWalkTask(walker)
  <2>1. /\ r \in Walkers /\ r.events = walker.events
        /\ r.eventWalk = walker.eventWalk /\ r.life = walker.life
        /\ r.revivedThere = walker.revivedThere
        /\ r.steps = walker.steps /\ r.sinceStop = walker.sinceStop
        /\ r.cancelNextWalk = walker.cancelNextWalk
    BY <1>1, WithoutWalkTaskIs
  <2>2. walker' = [r EXCEPT !.walkTask = TRUE, !.interrupted = FALSE]
    BY <1>3
  <2> HIDE DEF r
  <2> QED
    BY <2>1, <2>2 DEF Walkers
<1>8. Heeds(walker')
  BY <1>0, <1>7 DEF Heeds
<1>9. /\ Load' = Cardinality(walker'.events) + Count("walk")'
                    + Count("path")'
      /\ Load = Cardinality(walker.events) + Count("walk") + Count("path")
  BY DEF Load
<1>10. (Load <= MaxEvents + 1)' /\ (Count("path") <= 1)'
  BY <1>0, <1>1, <1>2, <1>3, <1>6, <1>7, <1>9
<1>11. NothingOrdered'
  BY <1>1, <1>3 DEF NothingOrdered
<1>12. EventToCome'
  BY <1>0, <1>6, <1>7 DEF EventToCome
<1>13. orders' \in 0 .. MaxOrders
  BY <1>1, <1>3
<1> QED
  BY <1>1, <1>3, <1>4, <1>7, <1>8, <1>10, <1>11, <1>12, <1>13, WalkingKept

(* A task comes that is no path; a walk replaces its event.                *)
LEMMA TaskCame ==
  ASSUME WalkingInv, NEW k \in WaitingKinds \ {"path"},
         waiting' = Append(waiting, k), slow' = slow, orders' = orders,
         walker' \in Walkers, walker'.steps = walker.steps,
         walker'.eventWalk = walker.eventWalk,
         walker'.revivedThere = walker.revivedThere,
         \/ walker'.life = walker.life \/ walker'.life = "dying",
         \/ k # "walk" /\ walker'.events = walker.events
         \/ /\ k = "walk"
            /\ \E e \in walker.events : walker'.events = walker.events \ {e},
         Heeds(walker')
  PROVE  WalkingInv'
<1> USE WalkingAssumption
<1>0. /\ WalkingTypeOK /\ EventToCome /\ NothingOrdered
      /\ Load <= MaxEvents + 1 /\ Count("path") <= 1
  BY DEF WalkingInv, WalkingSound
<1>1. /\ orders \in 0 .. MaxOrders /\ slow \in BOOLEAN
      /\ walker.events \subseteq EventIds
      /\ Cardinality(walker.events) \in Nat
  BY <1>0, WalkingFacts
<1>2. /\ Count("walk") \in Nat /\ Count("path") \in Nat
      /\ Count("walk")' \in Nat /\ Count("path")' \in Nat
  BY <1>0, WalkingFacts, Came
<1>3. /\ Count("walk")' = Count("walk") + (IF k = "walk" THEN 1 ELSE 0)
      /\ Count("path")' = Count("path")
  <2>1. Count("path")' = Count("path") + (IF "path" = k THEN 1 ELSE 0)
    BY <1>0, Came
  <2> QED
    BY <2>1, <1>0, <1>2, Came
<1>4. /\ waiting' \in Seq(WaitingKinds)
      /\ \A i \in DOMAIN waiting' :
            \/ waiting'[i] = k
            \/ \E j \in DOMAIN waiting : waiting[j] = waiting'[i]
  BY <1>0, Came
<1>5. Cardinality(walker'.events)
            = Cardinality(walker.events) - (IF k = "walk" THEN 1 ELSE 0)
  <2>1. CASE k # "walk"
    BY <2>1, <1>1
  <2>2. CASE k = "walk"
    <3>1. PICK e \in walker.events : walker'.events = walker.events \ {e}
      BY <2>2
    <3>2. IsFiniteSet(walker.events)
      BY <1>1, EventsFinite
    <3>3. Cardinality(walker.events \ {e}) = Cardinality(walker.events) - 1
      BY <3>2, FS_RemoveElement
    <3> QED
      BY <3>1, <3>3, <2>2
  <2> QED
    BY <2>1, <2>2
<1>7. /\ Load' = Cardinality(walker'.events) + Count("walk")'
                    + Count("path")'
      /\ Load = Cardinality(walker.events) + Count("walk") + Count("path")
  BY DEF Load
<1>8. (Load <= MaxEvents + 1)' /\ (Count("path") <= 1)'
  <2>1. CASE k = "walk"
    BY <2>1, <1>0, <1>1, <1>2, <1>3, <1>5, <1>7
  <2>2. CASE k # "walk"
    BY <2>2, <1>0, <1>1, <1>2, <1>3, <1>5, <1>7
  <2> QED
    BY <2>1, <2>2
<1>9. NothingOrdered'
  BY <1>0, <1>4 DEF NothingOrdered
<1>10. EventToCome'
  BY <1>0, <1>2, <1>3 DEF EventToCome
<1> QED
  BY <1>1, <1>4, <1>8, <1>9, <1>10, WalkingKept

-----------------------------------------------------------------------------
(* The actions, one by one.                                                *)
LEMMA InvFacts ==
  ASSUME WalkingInv
  PROVE  /\ WalkingTypeOK /\ Heeds(walker)
         /\ walker \in Walkers /\ slow \in BOOLEAN
         /\ orders \in 0 .. MaxOrders
         /\ walker.events \subseteq EventIds
BY WalkingFacts DEF WalkingInv, WalkingSound

(* Who may be ordered to go has a number for its event.                    *)
LEMMA RoomToOrder ==
  ASSUME WalkingInv,
         Cardinality(walker.events) + Count("walk") < MaxEvents
  PROVE  HasFresh(walker)
<1>1. /\ walker \in Walkers /\ Cardinality(walker.events) \in Nat
      /\ Count("walk") \in Nat
  BY InvFacts, WalkingFacts
<1> QED
  BY <1>1, RoomForOne, WalkingAssumption

(* So has a walk or a path that is served.                                 *)
LEMMA RoomToServe ==
  ASSUME WalkingInv, NEW k \in {"walk", "path"}, RunsFirst(k)
  PROVE  HasFresh(walker)
<1> USE WalkingAssumption
<1>1. /\ walker \in Walkers /\ Cardinality(walker.events) \in Nat
      /\ Count("walk") \in Nat /\ Count("path") \in Nat
      /\ orders \in 0 .. MaxOrders
      /\ waiting \in Seq(WaitingKinds)
  BY InvFacts, WalkingFacts
<1>2. 1 \in DOMAIN waiting /\ waiting[1] = k
  BY <1>1, EmptySeq, HeadTailProperties DEF RunsFirst
<1>3. Count(k) > 0
  BY <1>2, InvFacts, WalkingFacts
<1>4. Load = Cardinality(walker.events) + Count("walk") + Count("path")
  BY DEF Load
<1>5. Cardinality(walker.events) <= MaxEvents
  BY <1>1, <1>3, <1>4 DEF WalkingInv
<1>6. MaxOrders > 0
  BY <1>1, <1>2 DEF WalkingInv, NothingOrdered
<1>7. Cardinality(walker.events) + 1 <= MaxEvents + MaxOrders
  BY <1>1, <1>5, <1>6
<1> QED
  BY <1>1, <1>7, RoomForOne

\* playerMove.
LEMMA PlayerMoveStep ==
  ASSUME WalkingInv, NEW upshot \in Outcomes, PlayerMove(upshot)
  PROVE  WalkingInv'
<1> USE WalkingAssumption
<1> DEFINE r == WithoutWalkTask(walker)
<1>1. /\ r \in Walkers /\ r.events = walker.events
      /\ r.eventWalk = walker.eventWalk /\ r.life = walker.life
      /\ r.revivedThere = walker.revivedThere
  BY InvFacts, WithoutWalkTaskIs
<1>2. /\ walker' = StartAutoWalk(r, 1, upshot)
      /\ orders' = orders + 1 /\ orders < MaxOrders
      /\ waiting' = waiting /\ slow' = slow
      /\ Cardinality(walker.events) + Count("walk") < MaxEvents
  BY DEF PlayerMove, MayOrder
<1>3. HasFresh(r)
  BY <1>1, <1>2, RoomToOrder DEF HasFresh
<1> HIDE DEF r
<1>4. 1 \in Ways
  BY DEF Ways
<1>5. orders' \in 1 .. MaxOrders /\ slow' \in BOOLEAN
  BY <1>2, InvFacts
<1>6. /\ walker' \in Walkers
      /\ \/ walker'.eventWalk \in walker'.events
         \/ /\ walker'.eventWalk = walker.eventWalk
            /\ walker'.events = walker.events
            /\ walker'.revivedThere = walker.revivedThere
      /\ \E e \in EventIds : walker'.events \subseteq walker.events \cup {e}
      /\ walker'.life = walker.life
      /\ Heeds(walker')
  BY <1>1, <1>2, <1>3, <1>4, StartAutoWalkIs
<1> QED
  BY <1>2, <1>5, <1>6, Ordered

\* playerAutoWalk.
LEMMA PlayerAutoWalkStep ==
  ASSUME WalkingInv, NEW upshot \in Outcomes, NEW way \in Ways,
         PlayerAutoWalk(way, upshot)
  PROVE  WalkingInv'
<1> USE WalkingAssumption
<1>1. walker \in Walkers
  BY InvFacts
<1>2. /\ walker' = StartAutoWalk(walker, way, upshot)
      /\ orders' = orders + 1 /\ orders < MaxOrders
      /\ waiting' = waiting /\ slow' = slow
      /\ Cardinality(walker.events) + Count("walk") < MaxEvents
  BY DEF PlayerAutoWalk, MayOrder
<1>3. HasFresh(walker)
  BY <1>2, RoomToOrder
<1>5. orders' \in 1 .. MaxOrders /\ slow' \in BOOLEAN
  BY <1>2, InvFacts
<1>6. /\ walker' \in Walkers
      /\ \/ walker'.eventWalk \in walker'.events
         \/ /\ walker'.eventWalk = walker.eventWalk
            /\ walker'.events = walker.events
            /\ walker'.revivedThere = walker.revivedThere
      /\ \E e \in EventIds : walker'.events \subseteq walker.events \cup {e}
      /\ walker'.life = walker.life
      /\ Heeds(walker')
  BY <1>1, <1>2, <1>3, StartAutoWalkIs
<1> QED
  BY <1>2, <1>5, <1>6, Ordered

\* A path is found, and the player sets out.
LEMMA RunPathStep ==
  ASSUME WalkingInv, NEW upshot \in Outcomes, NEW way \in Ways,
         RunPath(way, upshot)
  PROVE  WalkingInv'
<1>1. walker \in Walkers /\ Heeds(walker)
  BY InvFacts
<1>2. /\ RunsFirst("path") /\ waiting' = Tail(waiting)
      /\ slow' = slow /\ orders' = orders
  BY DEF RunPath
<1>3. HasFresh(walker)
  BY <1>2, RoomToServe
<1>4. CASE IsThere
  <2>1. walker' = StartAutoWalk(walker, way, upshot)
    BY <1>4 DEF RunPath
  <2>2. /\ walker' \in Walkers
        /\ \/ walker'.eventWalk \in walker'.events
           \/ /\ walker'.eventWalk = walker.eventWalk
              /\ walker'.events = walker.events
              /\ walker'.revivedThere = walker.revivedThere
        /\ \E e \in EventIds :
                walker'.events \subseteq walker.events \cup {e}
        /\ walker'.life = walker.life
        /\ Heeds(walker')
    BY <1>1, <1>3, <2>1, StartAutoWalkIs
  <2> QED
    BY <1>2, <2>2, EventForTask
<1>5. CASE ~IsThere
  <2>1. walker' = walker
    BY <1>5 DEF RunPath
  <2> QED
    BY <1>1, <1>2, <2>1, EventForTask
<1> QED
  BY <1>4, <1>5

\* No path is found.
LEMMA PathRefusedStep == WalkingInv /\ PathRefused => WalkingInv'
<1> SUFFICES ASSUME WalkingInv, PathRefused PROVE WalkingInv'
  OBVIOUS
<1>1. walker \in Walkers /\ Heeds(walker)
  BY InvFacts
<1>2. /\ RunsFirst("path") /\ waiting' = Tail(waiting)
      /\ slow' = slow /\ orders' = orders
      /\ walker' = [walker EXCEPT !.interrupted = TRUE]
  BY DEF PathRefused
<1>3. /\ walker' \in Walkers
      /\ walker'.eventWalk = walker.eventWalk
      /\ walker'.events = walker.events
      /\ walker'.life = walker.life
      /\ walker'.revivedThere = walker.revivedThere
      /\ walker'.steps = walker.steps
      /\ walker'.sinceStop = walker.sinceStop
      /\ walker'.cancelNextWalk = walker.cancelNextWalk
  BY <1>1, <1>2 DEF Walkers
<1>4. Heeds(walker')
  BY <1>1, <1>3 DEF Heeds
<1> QED
  BY <1>2, <1>3, <1>4, EventForTask

\* checkCreatureWalk.
LEMMA RunWalkStep ==
  ASSUME WalkingInv, NEW upshot \in Outcomes, RunWalk(upshot)
  PROVE  WalkingInv'
<1>1. walker \in Walkers /\ Heeds(walker)
  BY InvFacts
<1>2. /\ RunsFirst("walk") /\ waiting' = Tail(waiting)
      /\ slow' = slow /\ orders' = orders
      /\ walker' = CheckCreatureWalk(walker, upshot)
  BY DEF RunWalk
<1>3. HasFresh(walker)
  BY <1>2, RoomToServe
<1>4. /\ walker' \in Walkers
      /\ \E e \in EventIds : walker'.events \subseteq walker.events \cup {e}
      /\ walker'.life = "healthy" =>
            walker'.eventWalk \in {0} \cup walker'.events
      /\ Heeds(walker')
  BY <1>1, <1>2, <1>3, CheckCreatureWalkIs
<1> QED
  BY <1>2, <1>4, EventForTask

\* The action that waited is done.
LEMMA RunActionStep == WalkingInv /\ RunAction => WalkingInv'
<1> SUFFICES ASSUME WalkingInv, RunAction PROVE WalkingInv'
  OBVIOUS
<1>1. /\ walker \in Walkers /\ Heeds(walker) /\ WalkingTypeOK
      /\ waiting \in Seq(WaitingKinds)
  BY InvFacts, WalkingFacts
<1>2. RunsFirst("action")
  BY DEF RunAction
<1>3. CASE waiting' = Tail(waiting) /\ UNCHANGED <<walker, slow, orders>>
  <2>1. walker' = walker /\ slow' = slow /\ orders' = orders
    BY <1>3
  <2> QED
    BY <1>1, <1>2, <1>3, <2>1, EventForTask
<1>4. CASE GoAndDo(Tail(waiting))
  <2>1. waiting # <<>> /\ Head(waiting) = "action"
    BY <1>2 DEF RunsFirst
  <2>2. Tail(waiting) \in Seq(WaitingKinds)
    BY <2>1, <1>1, HeadTailProperties
  <2>3. /\ Cardinality(Places(waiting, "walk"))
                = Cardinality(Places(Tail(waiting), "walk")) + 0
        /\ Cardinality(Places(waiting, "path"))
                = Cardinality(Places(Tail(waiting), "path")) + 0
    BY <2>1, <1>1, PlacesTail
  <2>4. /\ Cardinality(Places(Tail(waiting), "walk")) \in Nat
        /\ Cardinality(Places(Tail(waiting), "path")) \in Nat
    BY <2>2, PlacesFinite
  <2>5. /\ Cardinality(Places(Tail(waiting), "walk")) = Count("walk")
        /\ Cardinality(Places(Tail(waiting), "path")) = Count("path")
    BY <2>3, <2>4, CountIs
  <2> QED
    BY <1>4, <2>2, <2>5, ToGoAndDo
<1> QED
  BY <1>3, <1>4 DEF RunAction

\* The player dies.
LEMMA RunDeathStep == WalkingInv /\ RunDeath => WalkingInv'
<1> SUFFICES ASSUME WalkingInv, RunDeath PROVE WalkingInv'
  OBVIOUS
<1> DEFINE healed == [walker EXCEPT !.life = "healthy"]
<1>1. walker \in Walkers /\ Heeds(walker)
  BY InvFacts
<1>2. /\ RunsFirst("death") /\ waiting' = Tail(waiting)
      /\ slow' = slow /\ orders' = orders
  BY DEF RunDeath
<1>3. /\ healed \in Walkers /\ healed.events = walker.events
      /\ healed.eventWalk = walker.eventWalk
      /\ healed.steps = walker.steps
      /\ healed.sinceStop = walker.sinceStop
      /\ healed.cancelNextWalk = walker.cancelNextWalk
  BY <1>1 DEF Walkers
<1>4. \/ walker' = Teleported(healed)
      \/ walker' = [healed EXCEPT !.revivedThere = TRUE,
                                  !.interrupted = TRUE]
      \/ walker' = [WithoutWalkTask(walker) EXCEPT !.life = "gone"]
  BY DEF RunDeath
<1> HIDE DEF healed
<1>5. CASE walker' = Teleported(healed)
  <2>1. /\ walker' \in Walkers /\ walker'.events \subseteq walker.events
        /\ walker'.eventWalk = 0 /\ walker'.steps = walker.steps
        /\ walker'.sinceStop = walker.sinceStop
        /\ walker'.cancelNextWalk = walker.cancelNextWalk
    BY <1>3, <1>5, TeleportedIs
  <2>2. Heeds(walker')
    BY <1>1, <2>1 DEF Heeds
  <2> QED
    BY <1>2, <2>1, <2>2, EventForTask
<1>6. CASE walker' = [healed EXCEPT !.revivedThere = TRUE,
                                    !.interrupted = TRUE]
  <2>1. /\ walker' \in Walkers /\ walker'.events = walker.events
        /\ walker'.revivedThere = TRUE /\ walker'.steps = walker.steps
        /\ walker'.sinceStop = walker.sinceStop
        /\ walker'.cancelNextWalk = walker.cancelNextWalk
    BY <1>3, <1>6 DEF Walkers
  <2>2. Heeds(walker')
    BY <1>1, <2>1 DEF Heeds
  <2> QED
    BY <1>2, <2>1, <2>2, EventForTask
<1>7. CASE walker' = [WithoutWalkTask(walker) EXCEPT !.life = "gone"]
  <2> DEFINE s == WithoutWalkTask(walker)
  <2>1. /\ s \in Walkers /\ s.events = walker.events
        /\ s.steps = walker.steps /\ s.sinceStop = walker.sinceStop
        /\ s.cancelNextWalk = walker.cancelNextWalk
    BY <1>1, WithoutWalkTaskIs
  <2>2. walker' = [s EXCEPT !.life = "gone"]
    BY <1>7
  <2> HIDE DEF s
  <2>3. /\ walker' \in Walkers /\ walker'.events = walker.events
        /\ walker'.life = "gone" /\ walker'.steps = walker.steps
        /\ walker'.sinceStop = walker.sinceStop
        /\ walker'.cancelNextWalk = walker.cancelNextWalk
    BY <2>1, <2>2 DEF Walkers
  <2>4. Heeds(walker')
    BY <1>1, <2>3 DEF Heeds
  <2> QED
    BY <1>2, <2>3, <2>4, EventForTask
<1> QED
  BY <1>4, <1>5, <1>6, <1>7

\* playerUseItemEx.
LEMMA PlayerUseItemExStep == WalkingInv /\ PlayerUseItemEx => WalkingInv'
<1> SUFFICES ASSUME WalkingInv, PlayerUseItemEx PROVE WalkingInv'
  OBVIOUS
<1>1. waiting \in Seq(WaitingKinds)
  BY InvFacts, WalkingFacts
<1>2. /\ Cardinality(Places(waiting, "walk")) = Count("walk")
      /\ Cardinality(Places(waiting, "path")) = Count("path")
  BY CountIs
<1> QED
  BY <1>1, <1>2, ToGoAndDo DEF PlayerUseItemEx

\* stopWalk.
LEMMA StopWalkStep == WalkingInv /\ StopWalk => WalkingInv'
<1> SUFFICES ASSUME WalkingInv, StopWalk PROVE WalkingInv'
  OBVIOUS
<1> DEFINE n == IF walker.sinceStop = 0 THEN 1 ELSE walker.sinceStop
<1>1. walker \in Walkers /\ Heeds(walker) /\ slow \in BOOLEAN
  BY InvFacts
<1>2. n \in 0 .. 3 /\ (n = walker.sinceStop \/ n = 1)
  BY <1>1 DEF Walkers
<1>3. /\ walker' = [walker EXCEPT !.cancelNextWalk = TRUE, !.sinceStop = n]
      /\ slow' = slow /\ orders' = orders /\ waiting' = waiting
  BY DEF StopWalk
<1> HIDE DEF n
<1>4. /\ walker' \in Walkers /\ walker'.events = walker.events
      /\ walker'.eventWalk = walker.eventWalk
      /\ walker'.life = walker.life
      /\ walker'.revivedThere = walker.revivedThere
      /\ walker'.steps = walker.steps /\ walker'.sinceStop = n
      /\ walker'.cancelNextWalk = TRUE
  BY <1>1, <1>2, <1>3 DEF Walkers
<1>5. Heeds(walker')
  BY <1>1, <1>2, <1>4 DEF Heeds
<1> QED
  BY <1>1, <1>3, <1>4, <1>5, NoEventMore

\* The player is slowed down, ...
LEMMA SlowStep == WalkingInv /\ Slow => WalkingInv'
<1> SUFFICES ASSUME WalkingInv, Slow PROVE WalkingInv'
  OBVIOUS
<1> DEFINE s == StopEventWalk(walker)
<1>1. walker \in Walkers
  BY InvFacts
<1>2. /\ s \in Walkers /\ s.events \subseteq walker.events
      /\ s.eventWalk = 0 /\ s.steps = walker.steps
  BY <1>1, StopEventWalkIs
<1>3. /\ walker' = [s EXCEPT !.cancelNextWalk = TRUE, !.sinceStop = 0,
                             !.interrupted = TRUE]
      /\ slow' = TRUE /\ orders' = orders /\ waiting' = waiting
  BY DEF Slow
<1> HIDE DEF s
<1>4. 0 \in 0 .. 3
  OBVIOUS
<1>5. /\ walker' \in Walkers /\ walker'.events \subseteq walker.events
      /\ walker'.eventWalk = 0 /\ walker'.steps = walker.steps
      /\ walker'.sinceStop = 0
  BY <1>2, <1>3, <1>4 DEF Walkers
<1>6. Heeds(walker')
  BY <1>5 DEF Heeds
<1>7. slow' \in BOOLEAN
  BY <1>3
<1> QED
  BY <1>3, <1>5, <1>6, <1>7, NoEventMore

(* A player with steps left was ordered to walk.                           *)
LEMMA QuickenStep == WalkingInv /\ Quicken => WalkingInv'
<1> SUFFICES ASSUME WalkingInv, Quicken PROVE WalkingInv'
  OBVIOUS
<1>1. walker \in Walkers /\ Heeds(walker) /\ orders \in 0 .. MaxOrders
  BY InvFacts
<1>2. /\ slow' = FALSE /\ orders' = orders /\ waiting' = waiting
      /\ Cardinality(walker.events) + Count("walk") < MaxEvents
  BY DEF Quicken
<1>3. slow' \in BOOLEAN
  BY <1>2
<1>4. CASE walker.steps > 0
  <2> DEFINE w == AddEventWalk(walker, FALSE, "moved")
  <2>1. HasFresh(walker)
    BY <1>2, RoomToOrder
  <2>2. walker' = [w EXCEPT !.sinceStop = 0]
    BY <1>4 DEF Quicken
  <2>3. /\ w \in Walkers
        /\ \/ w.eventWalk \in w.events
           \/ /\ w.eventWalk = walker.eventWalk
              /\ w.events = walker.events
              /\ w.revivedThere = walker.revivedThere
        /\ \E e \in EventIds : w.events \subseteq walker.events \cup {e}
        /\ w.life = walker.life
    BY <1>1, <2>1, QuickensAgain
  <2> HIDE DEF w
  <2>4. 0 \in 0 .. 3
    OBVIOUS
  <2>5. /\ walker' \in Walkers /\ walker'.events = w.events
        /\ walker'.eventWalk = w.eventWalk /\ walker'.life = w.life
        /\ walker'.revivedThere = w.revivedThere
        /\ walker'.sinceStop = 0
    BY <2>2, <2>3, <2>4 DEF Walkers
  <2>6. Heeds(walker')
    BY <2>5 DEF Heeds
  <2>7. orders' \in 1 .. MaxOrders
    BY <1>1, <1>2, <1>4 DEF WalkingInv, NothingOrdered
  <2> QED
    BY <1>2, <1>3, <2>3, <2>5, <2>6, <2>7, Ordered
<1>5. CASE ~(walker.steps > 0)
  <2>1. walker' = walker
    BY <1>5 DEF Quicken
  <2> QED
    BY <1>1, <1>2, <1>3, <2>1, NoEventMore
<1> QED
  BY <1>4, <1>5

\* The player is teleported by others.
LEMMA TeleportStep == WalkingInv /\ Teleport => WalkingInv'
<1> SUFFICES ASSUME WalkingInv, Teleport PROVE WalkingInv'
  OBVIOUS
<1>1. walker \in Walkers /\ Heeds(walker) /\ slow \in BOOLEAN
  BY InvFacts
<1>2. /\ walker' = Teleported(walker)
      /\ slow' = slow /\ orders' = orders /\ waiting' = waiting
  BY DEF Teleport
<1>3. /\ walker' \in Walkers /\ walker'.events \subseteq walker.events
      /\ walker'.eventWalk = 0 /\ walker'.steps = walker.steps
      /\ walker'.sinceStop = walker.sinceStop
      /\ walker'.cancelNextWalk = walker.cancelNextWalk
  BY <1>1, <1>2, TeleportedIs
<1>4. Heeds(walker')
  BY <1>1, <1>3 DEF Heeds
<1> QED
  BY <1>1, <1>2, <1>3, <1>4, NoEventMore

\* The time between two moves is over.
LEMMA RestEndsStep == WalkingInv /\ RestEnds => WalkingInv'
<1> SUFFICES ASSUME WalkingInv, RestEnds PROVE WalkingInv'
  OBVIOUS
<1>1. walker \in Walkers /\ Heeds(walker) /\ slow \in BOOLEAN
  BY InvFacts
<1>2. /\ walker' = [walker EXCEPT !.resting = FALSE]
      /\ slow' = slow /\ orders' = orders /\ waiting' = waiting
  BY DEF RestEnds
<1>3. /\ walker' \in Walkers /\ walker'.events = walker.events
      /\ walker'.eventWalk = walker.eventWalk
      /\ walker'.life = walker.life
      /\ walker'.revivedThere = walker.revivedThere
      /\ walker'.steps = walker.steps
      /\ walker'.sinceStop = walker.sinceStop
      /\ walker'.cancelNextWalk = walker.cancelNextWalk
  BY <1>1, <1>2 DEF Walkers
<1>4. Heeds(walker')
  BY <1>1, <1>3 DEF Heeds
<1> QED
  BY <1>1, <1>2, <1>3, <1>4, NoEventMore

\* The player loses its last life.
LEMMA LosesLifeStep == WalkingInv /\ LosesLife => WalkingInv'
<1> SUFFICES ASSUME WalkingInv, LosesLife PROVE WalkingInv'
  OBVIOUS
<1>1. walker \in Walkers /\ Heeds(walker)
  BY InvFacts
<1>2. /\ walker' = [walker EXCEPT !.life = "dying"]
      /\ waiting' = Append(waiting, "death")
      /\ slow' = slow /\ orders' = orders
  BY DEF LosesLife
<1>3. /\ walker' \in Walkers /\ walker'.events = walker.events
      /\ walker'.eventWalk = walker.eventWalk
      /\ walker'.life = "dying"
      /\ walker'.revivedThere = walker.revivedThere
      /\ walker'.steps = walker.steps
      /\ walker'.sinceStop = walker.sinceStop
      /\ walker'.cancelNextWalk = walker.cancelNextWalk
  BY <1>1, <1>2 DEF Walkers
<1>4. Heeds(walker')
  BY <1>1, <1>3 DEF Heeds
<1>5. "death" \in WaitingKinds \ {"path"}
  BY DEF WaitingKinds
<1> QED
  BY <1>2, <1>3, <1>4, <1>5, TaskCame

\* The scheduler brings a walk ...
LEMMA WalkDueStep ==
  ASSUME WalkingInv, NEW e \in EventIds, WalkDue(e)
  PROVE  WalkingInv'
<1>1. walker \in Walkers /\ Heeds(walker)
  BY InvFacts
<1>2. /\ walker' = [walker EXCEPT !.events = walker.events \ {e}]
      /\ waiting' = Append(waiting, "walk") /\ e \in walker.events
      /\ slow' = slow /\ orders' = orders
  BY DEF WalkDue
<1>3. /\ walker' \in Walkers /\ walker'.events = walker.events \ {e}
      /\ walker'.eventWalk = walker.eventWalk
      /\ walker'.life = walker.life
      /\ walker'.revivedThere = walker.revivedThere
      /\ walker'.steps = walker.steps
      /\ walker'.sinceStop = walker.sinceStop
      /\ walker'.cancelNextWalk = walker.cancelNextWalk
  BY <1>1, <1>2 DEF Walkers
<1>4. Heeds(walker')
  BY <1>1, <1>3 DEF Heeds
<1>5. "walk" \in WaitingKinds \ {"path"}
  BY DEF WaitingKinds
<1> QED
  BY <1>2, <1>3, <1>4, <1>5, TaskCame

\* ... or an action.
LEMMA ActionDueStep == WalkingInv /\ ActionDue => WalkingInv'
<1> SUFFICES ASSUME WalkingInv, ActionDue PROVE WalkingInv'
  OBVIOUS
<1>1. walker \in Walkers /\ Heeds(walker)
  BY InvFacts
<1>2. /\ walker' = [walker EXCEPT !.walkTaskEvent = FALSE]
      /\ waiting' = Append(waiting, "action")
      /\ slow' = slow /\ orders' = orders
  BY DEF ActionDue
<1>3. /\ walker' \in Walkers /\ walker'.events = walker.events
      /\ walker'.eventWalk = walker.eventWalk
      /\ walker'.life = walker.life
      /\ walker'.revivedThere = walker.revivedThere
      /\ walker'.steps = walker.steps
      /\ walker'.sinceStop = walker.sinceStop
      /\ walker'.cancelNextWalk = walker.cancelNextWalk
  BY <1>1, <1>2 DEF Walkers
<1>4. Heeds(walker')
  BY <1>1, <1>3 DEF Heeds
<1>5. "action" \in WaitingKinds \ {"path"}
  BY DEF WaitingKinds
<1> QED
  BY <1>2, <1>3, <1>4, <1>5, TaskCame

\* A step of another component.
LEMMA WalkingStutters ==
  ASSUME WalkingInv, UNCHANGED WalkingVars
  PROVE  WalkingInv'
<1>1. walker' = walker /\ waiting' = waiting /\ slow' = slow
      /\ orders' = orders
  BY DEF WalkingVars
<1> QED
  BY <1>1, InvFacts, NoEventMore

\* Every step keeps the invariant of the walk.
LEMMA WalkingKeeps ==
  WalkingInv /\ [WalkingNext]_WalkingVars => WalkingInv'
<1> SUFFICES ASSUME WalkingInv, [WalkingNext]_WalkingVars
             PROVE  WalkingInv'
  OBVIOUS
<1>1. CASE RunTaskOfWalk
  BY <1>1, RunWalkStep, RunPathStep, PathRefusedStep, RunActionStep,
    RunDeathStep DEF RunTaskOfWalk
<1>2. CASE \E upshot \in Outcomes :
                \/ PlayerMove(upshot)
                \/ \E way \in Ways : PlayerAutoWalk(way, upshot)
  BY <1>2, PlayerMoveStep, PlayerAutoWalkStep
<1>3. CASE PlayerUseItemEx \/ StopWalk
  BY <1>3, PlayerUseItemExStep, StopWalkStep
<1>4. CASE Slow \/ Quicken \/ Teleport \/ LosesLife
  BY <1>4, SlowStep, QuickenStep, TeleportStep, LosesLifeStep
<1>5. CASE (\E e \in EventIds : WalkDue(e)) \/ ActionDue \/ RestEnds
  BY <1>5, WalkDueStep, ActionDueStep, RestEndsStep
<1>6. CASE UNCHANGED WalkingVars
  BY <1>6, WalkingStutters
<1> QED
  BY <1>1, <1>2, <1>3, <1>4, <1>5, <1>6 DEF WalkingNext

-----------------------------------------------------------------------------
(* The clients of a character (Login).                                     *)

Has(q, t) == \E i \in DOMAIN q : q[i] = t

TaskKinds == {"login", "connect", "logout", "release"}

(* A queue in which each task waits once, and a login before the release.  *)
QueueFit(q) ==
    /\ q \in Seq(Tasks)
    /\ \A i, j \in DOMAIN q : q[i] = q[j] => i = j
    /\ \A c \in Sessions : \A i, j \in DOMAIN q :
        q[i] = Task("login", c) /\ q[j] = Task("release", c) => i < j

\* Tasks are told apart by their kind and their session.
LEMMA TasksAre ==
  /\ \A k \in TaskKinds, c \in Sessions : Task(k, c) \in Tasks
  /\ \A k, l, c, d : Task(k, c) = Task(l, d) => k = l /\ c = d
<1>1. \A k \in TaskKinds, c \in Sessions : Task(k, c) \in Tasks
  BY DEF Task, Tasks, TaskKinds
<1>2. ASSUME NEW k, NEW l, NEW c, NEW d, Task(k, c) = Task(l, d)
      PROVE  k = l /\ c = d
  <2>1. /\ Task(k, c).kind = k /\ Task(k, c).of = c
        /\ Task(l, d).kind = l /\ Task(l, d).of = d
    BY DEF Task
  <2> QED
    BY <2>1, <1>2
<1> QED
  BY <1>1, <1>2

\* The first task of a queue is served, ...
LEMMA TasksServed ==
  ASSUME NEW q, QueueFit(q), q # <<>>
  PROVE  /\ QueueFit(Tail(q))
         /\ \A t : Has(Tail(q), t) <=> Has(q, t) /\ t # Head(q)
         /\ Has(q, Head(q))
         /\ \A c \in Sessions : Head(q) = Task("release", c) =>
                ~Has(q, Task("login", c))
<1> DEFINE p == Tail(q)
           n == Len(q)
<1>1. /\ n \in Nat \ {0} /\ DOMAIN q = 1 .. n
      /\ p \in Seq(Tasks) /\ DOMAIN p = 1 .. n - 1
      /\ Head(q) = q[1]
      /\ \A i \in 1 .. n - 1 : p[i] = q[i + 1]
  BY EmptySeq, HeadTailProperties DEF QueueFit
<1> HIDE DEF p, n
<1>2. \A i, j \in DOMAIN p : p[i] = p[j] => i = j
  <2> SUFFICES ASSUME NEW i \in DOMAIN p, NEW j \in DOMAIN p, p[i] = p[j]
               PROVE  i = j
    OBVIOUS
  <2>1. /\ i + 1 \in DOMAIN q /\ j + 1 \in DOMAIN q
        /\ q[i + 1] = q[j + 1] /\ i \in Nat /\ j \in Nat
    BY <1>1
  <2>2. i + 1 = j + 1
    BY <2>1 DEF QueueFit
  <2> QED
    BY <2>1, <2>2
<1>3. ASSUME NEW c \in Sessions, NEW i \in DOMAIN p, NEW j \in DOMAIN p,
             p[i] = Task("login", c), p[j] = Task("release", c)
      PROVE  i < j
  <2>1. /\ i + 1 \in DOMAIN q /\ j + 1 \in DOMAIN q
        /\ q[i + 1] = Task("login", c) /\ q[j + 1] = Task("release", c)
        /\ i \in Nat /\ j \in Nat
    BY <1>1, <1>3
  <2>2. i + 1 < j + 1
    BY <2>1 DEF QueueFit
  <2> QED
    BY <2>1, <2>2
<1>4. QueueFit(p)
  BY <1>1, <1>2, <1>3 DEF QueueFit
<1>5. ASSUME NEW t PROVE Has(p, t) <=> Has(q, t) /\ t # Head(q)
  <2>1. ASSUME NEW i \in DOMAIN p, p[i] = t
        PROVE  Has(q, t) /\ t # Head(q)
    <3>1. /\ i + 1 \in DOMAIN q /\ q[i + 1] = t /\ 1 \in DOMAIN q
          /\ i + 1 # 1
      BY <1>1, <2>1
    <3>2. q[i + 1] # q[1]
      BY <3>1 DEF QueueFit
    <3> QED
      BY <3>1, <3>2, <1>1 DEF Has
  <2>2. ASSUME NEW i \in DOMAIN q, q[i] = t, t # Head(q)
        PROVE  Has(p, t)
    <3>1. i # 1
      BY <2>2, <1>1
    <3>2. i - 1 \in DOMAIN p /\ p[i - 1] = q[(i - 1) + 1] /\ (i - 1) + 1 = i
      BY <3>1, <1>1
    <3> QED
      BY <3>2, <2>2 DEF Has
  <2> QED
    BY <2>1, <2>2 DEF Has
<1>6. Has(q, Head(q))
  BY <1>1 DEF Has
<1>7. ASSUME NEW c \in Sessions, Head(q) = Task("release", c),
             Has(q, Task("login", c))
      PROVE  FALSE
  <2>1. PICK i \in DOMAIN q : q[i] = Task("login", c)
    BY <1>7 DEF Has
  <2>2. 1 \in DOMAIN q /\ q[1] = Task("release", c)
    BY <1>1, <1>7
  <2>3. i < 1
    BY <2>1, <2>2 DEF QueueFit
  <2> QED
    BY <2>3, <1>1
<1> QED
  BY <1>4, <1>5, <1>6, <1>7 DEF p

\* ... and a new one is queued.
LEMMA TaskComes ==
  ASSUME NEW q, QueueFit(q), NEW t \in Tasks, ~Has(q, t),
         \A c \in Sessions : t = Task("login", c) =>
            ~Has(q, Task("release", c))
  PROVE  /\ QueueFit(Append(q, t))
         /\ \A u : Has(Append(q, t), u) <=> Has(q, u) \/ u = t
<1> DEFINE p == Append(q, t)
           n == Len(q)
<1>1. /\ n \in Nat /\ DOMAIN q = 1 .. n
      /\ p \in Seq(Tasks) /\ DOMAIN p = 1 .. n + 1
      /\ p[n + 1] = t
      /\ \A i \in 1 .. n : p[i] = q[i]
  BY AppendProperties DEF QueueFit
<1> HIDE DEF p, n
<1>2. \A i \in 1 .. n : q[i] # t
  BY <1>1 DEF Has
<1>3. ASSUME NEW i \in DOMAIN p, NEW j \in DOMAIN p, p[i] = p[j]
      PROVE  i = j
  <2>1. CASE i \in 1 .. n /\ j \in 1 .. n
    BY <2>1, <1>1, <1>3 DEF QueueFit
  <2>2. CASE i = n + 1 \/ j = n + 1
    BY <2>2, <1>1, <1>2, <1>3
  <2> QED
    BY <2>1, <2>2, <1>1
<1>4. ASSUME NEW c \in Sessions, NEW i \in DOMAIN p, NEW j \in DOMAIN p,
             p[i] = Task("login", c), p[j] = Task("release", c)
      PROVE  i < j
  <2>1. CASE i \in 1 .. n /\ j \in 1 .. n
    BY <2>1, <1>1, <1>4 DEF QueueFit
  <2>2. CASE i = n + 1
    <3>1. j # n + 1
      BY <2>2, <1>4, TasksAre
    <3>2. j \in DOMAIN q /\ q[j] = Task("release", c)
      BY <3>1, <1>1, <1>4
    <3>3. t = Task("login", c)
      BY <2>2, <1>1, <1>4
    <3> QED
      BY <3>2, <3>3 DEF Has
  <2>3. CASE i \in 1 .. n /\ j = n + 1
    BY <2>3, <1>1
  <2> QED
    BY <2>1, <2>2, <2>3, <1>1
<1>5. QueueFit(p)
  BY <1>1, <1>3, <1>4 DEF QueueFit
<1>6. ASSUME NEW u PROVE Has(p, u) <=> Has(q, u) \/ u = t
  <2>1. Has(p, u) => Has(q, u) \/ u = t
    BY <1>1 DEF Has
  <2>2. Has(q, u) => Has(p, u)
    BY <1>1 DEF Has
  <2>3. u = t => Has(p, u)
    BY <1>1 DEF Has
  <2> QED
    BY <2>1, <2>2, <2>3
<1> QED
  BY <1>5, <1>6 DEF p
-----------------------------------------------------------------------------
SessionMap == [Sessions -> SessionRecords]
BodyMap == [Sessions -> BodyRecords]

(* What a session that has not logged in has not touched.                  *)
Untouched(c) ==
    /\ session[c].player = None /\ session[c].eventConnect = None
    /\ ~session[c].released /\ body[c].state = "none"

(* The tasks of a session fit its state: it logs in once, before anything  *)
(* else, is released once, after it was closed, and connects for a body    *)
(* while it has none.                                                      *)
TasksFit ==
    \A c \in Sessions :
        /\ session[c].conn = "none" =>
            /\ Untouched(c)
            /\ \A k \in TaskKinds : ~Has(tasks, Task(k, c))
        /\ session[c].conn = "open" => ~Has(tasks, Task("release", c))
        /\ Has(tasks, Task("login", c)) => Untouched(c)
        /\ Has(tasks, Task("connect", c)) => session[c].eventConnect # None
        /\ session[c].eventConnect # None => session[c].player = None

Holders(b) ==
    (IF body[b].client = None THEN 0 ELSE 1)
    + (IF b \in InGame \cup toRelease THEN 1 ELSE 0)

BodiesFit ==
    \A b \in Sessions :
        /\ body[b].references = Holders(b)
        /\ b \in toRelease => body[b].state = "removed"
        /\ body[b].state = "none" => body[b].client = None

LoggedIn == {c \in Sessions : session[c].conn # "none"
                                /\ ~Has(tasks, Task("login", c))}

OneBody == \A b, d \in InGame : b = d

(* The types, but for that of the character's tile. *)
LoginFits ==
    /\ tasks \in Seq(Tasks)
    /\ session \in [Sessions -> SessionRecords]
    /\ body \in [Sessions -> BodyRecords]
    /\ toRelease \subseteq Sessions
    /\ autosend \subseteq Sessions
    /\ sendEvents \in 0 .. MaxSession

TileFits == noLogout \in BOOLEAN

LoginInv ==
    /\ LoginFits /\ QueueFit(tasks)
    /\ OneBody /\ LinksAgree /\ AutosendServed
    /\ TasksFit /\ BodiesFit
    /\ sendEvents <= Cardinality(LoggedIn)

\* Sets of sessions are finite.
LEMMA LoggedInFinite ==
  ASSUME NEW A, A \subseteq Sessions
  PROVE  /\ IsFiniteSet(A) /\ Cardinality(A) \in Nat
         /\ Cardinality(A) <= MaxSession
<1>1. IsFiniteSet(Sessions) /\ Cardinality(Sessions) = MaxSession
  BY FS_Interval, LoginAssumption DEF Sessions
<1> QED
  BY <1>1, FS_Subset, FS_CardinalityType

\* Connection::close changes the state of connections only.
LEMMA ShutIs ==
  ASSUME NEW S \in SessionMap, NEW cs
  PROVE  /\ Shut(S, cs) \in SessionMap
         /\ \A d \in Sessions :
            /\ Shut(S, cs)[d].conn
                    = IF d \in cs /\ S[d].conn = "open" THEN "closed"
                      ELSE S[d].conn
            /\ Shut(S, cs)[d].released = S[d].released
            /\ Shut(S, cs)[d].player = S[d].player
            /\ Shut(S, cs)[d].eventConnect = S[d].eventConnect
<1>1. ASSUME NEW d \in Sessions
      PROVE  /\ [S[d] EXCEPT !.conn = "closed"] \in SessionRecords
             /\ [S[d] EXCEPT !.conn = "closed"].conn = "closed"
             /\ [S[d] EXCEPT !.conn = "closed"].released = S[d].released
             /\ [S[d] EXCEPT !.conn = "closed"].player = S[d].player
             /\ [S[d] EXCEPT !.conn = "closed"].eventConnect
                    = S[d].eventConnect
  <2>1. S[d] \in SessionRecords
    BY DEF SessionMap
  <2> QED
    BY <2>1 DEF SessionRecords
<1>2. ASSUME NEW d \in Sessions
      PROVE  Shut(S, cs)[d] = IF d \in cs /\ S[d].conn = "open"
                              THEN [S[d] EXCEPT !.conn = "closed"]
                              ELSE S[d]
  BY DEF Shut
<1>3. \A d \in Sessions : Shut(S, cs)[d] \in SessionRecords
  BY <1>1, <1>2 DEF SessionMap
<1>4. Shut(S, cs) \in SessionMap
  <2>1. DOMAIN Shut(S, cs) = Sessions
    BY DEF Shut
  <2>2. Shut(S, cs) = [d \in Sessions |-> Shut(S, cs)[d]]
    BY DEF Shut
  <2> QED
    BY <1>3, <2>2 DEF SessionMap
<1> QED
  BY <1>1, <1>2, <1>4

\* The release of an open session is queued, once.
LEMMA ReleaseOfIs ==
  ASSUME NEW q, QueueFit(q), NEW c \in Links,
         \A d \in Sessions : session[d].conn = "open" =>
            ~Has(q, Task("release", d))
  PROVE  /\ QueueFit(ReleaseOf(q, c))
         /\ \A u : Has(ReleaseOf(q, c), u)
                <=> \/ Has(q, u)
                    \/ IsOpen(c) /\ u = Task("release", c)
<1>1. CASE IsOpen(c)
  <2>1. c \in Sessions /\ session[c].conn = "open"
    BY <1>1 DEF IsOpen, Links
  <2>2. Task("release", c) \in Tasks /\ ~Has(q, Task("release", c))
    BY <2>1, TasksAre DEF TaskKinds
  <2>3. \A d \in Sessions : Task("release", c) # Task("login", d)
    BY TasksAre
  <2>4. ReleaseOf(q, c) = Append(q, Task("release", c))
    BY <1>1 DEF ReleaseOf
  <2> QED
    BY <2>2, <2>3, <2>4, <1>1, TaskComes
<1>2. CASE ~IsOpen(c)
  BY <1>2 DEF ReleaseOf
<1> QED
  BY <1>1, <1>2

\* The types, by their names.
LEMMA LoginTyped ==
  LoginFits <=> /\ tasks \in Seq(Tasks) /\ session \in SessionMap
                  /\ body \in BodyMap /\ toRelease \subseteq Sessions
                  /\ autosend \subseteq Sessions
                  /\ sendEvents \in 0 .. MaxSession
BY DEF LoginFits, SessionMap, BodyMap

\* The types of the fields.
LEMMA RecordsTyped ==
  /\ \A S \in SessionMap, c \in Sessions :
        /\ S[c] \in SessionRecords
        /\ S[c].conn \in {"none", "open", "closed", "gone"}
        /\ S[c].released \in BOOLEAN
        /\ S[c].player \in Links /\ S[c].eventConnect \in Links
  /\ \A B \in BodyMap, b \in Sessions :
        /\ B[b] \in BodyRecords
        /\ B[b].state \in {"none", "loaded", "inGame", "removed", "freed"}
        /\ B[b].client \in Links /\ B[b].references \in Nat
BY DEF SessionMap, SessionRecords, BodyMap, BodyRecords

-----------------------------------------------------------------------------
(* Most actions leave the links alone: sessions close, bodies leave the    *)
(* game, tasks come that fit.                                              *)
SessionsStay ==
    /\ session' \in SessionMap
    /\ \A c \in Sessions :
        /\ session'[c].player = session[c].player
        /\ session'[c].released = session[c].released
        /\ session'[c].eventConnect \in {session[c].eventConnect, None}
        /\ session'[c].conn = "none" <=> session[c].conn = "none"
        /\ session'[c].conn = "open" => session[c].conn = "open"

BodiesStay ==
    /\ body' \in BodyMap /\ toRelease' \subseteq Sessions
    /\ \A b \in Sessions :
        /\ body'[b].client = body[b].client
        /\ body'[b].references = body[b].references
        /\ \/ /\ body'[b].state = body[b].state
              /\ b \in toRelease' <=> b \in toRelease
           \/ /\ body[b].state = "inGame"
              /\ body'[b].state = "removed" /\ b \in toRelease'

TasksStay ==
    /\ QueueFit(tasks')
    /\ \A c \in Sessions :
        /\ Has(tasks', Task("login", c)) => Has(tasks, Task("login", c))
        /\ \A k \in TaskKinds : Has(tasks', Task(k, c)) =>
                session[c].conn # "none"
        /\ session'[c].conn = "open" => ~Has(tasks', Task("release", c))
        /\ Has(tasks', Task("connect", c)) =>
                session'[c].eventConnect # None

SendingStays ==
    /\ autosend' = autosend
    /\ sendEvents' \in Nat /\ sendEvents' <= sendEvents
    /\ autosend # {} => sendEvents' = sendEvents

\* An action that leaves the links alone keeps the invariant.
LEMMA LinksLeftAlone ==
  ASSUME LoginInv, SessionsStay, BodiesStay, TasksStay, SendingStays
  PROVE  LoginInv'
<1> USE DEF SessionsStay, BodiesStay, TasksStay, SendingStays
<1>0. /\ LoginFits /\ OneBody /\ LinksAgree /\ AutosendServed
      /\ TasksFit /\ BodiesFit /\ sendEvents <= Cardinality(LoggedIn)
  BY DEF LoginInv
<1>1. OneBody'
  BY <1>0 DEF OneBody, InGame
<1>2. LinksAgree'
  <2>1. session' \in SessionMap /\ session \in SessionMap
        /\ body \in BodyMap
    BY <1>0, LoginTyped
  <2>2. ASSUME NEW c \in Sessions, session'[c].player # None
        PROVE  /\ body'[session'[c].player].client = c
               /\ body'[session'[c].player].state # "freed"
    <3>1. session[c].player # None /\ session[c].player \in Sessions
      BY <2>1, <2>2, RecordsTyped DEF Links
    <3> QED
      BY <1>0, <3>1 DEF LinksAgree
  <2>3. ASSUME NEW b \in Sessions, body'[b].client # None
        PROVE  session'[body'[b].client].player = b
    <3>1. body[b].client # None /\ body[b].client \in Sessions
      BY <2>1, <2>3, RecordsTyped DEF Links
    <3> QED
      BY <1>0, <3>1 DEF LinksAgree
  <2> QED
    BY <2>2, <2>3 DEF LinksAgree
<1>3. AutosendServed'
  BY <1>0, LoginTyped DEF AutosendServed
<1>4. TasksFit'
  BY <1>0 DEF TasksFit, Untouched
<1>5. BodiesFit'
  BY <1>0 DEF BodiesFit, Holders, InGame
<1>6. /\ LoggedIn \subseteq LoggedIn' /\ LoggedIn' \subseteq Sessions
  BY DEF LoggedIn
<1>7. /\ Cardinality(LoggedIn) <= Cardinality(LoggedIn')
      /\ Cardinality(LoggedIn) \in Nat /\ Cardinality(LoggedIn') \in Nat
      /\ Cardinality(LoggedIn') <= MaxSession
  BY <1>6, LoggedInFinite, FS_Subset DEF LoggedIn
<1>8. sendEvents' <= Cardinality(LoggedIn')
      /\ sendEvents' \in 0 .. MaxSession
  BY <1>0, <1>7, LoginTyped, LoginAssumption
<1>9. LoginFits'
  BY <1>0, <1>8, LoginTyped DEF LoginFits, QueueFit, SessionMap, BodyMap
<1> QED
  BY <1>1, <1>2, <1>3, <1>4, <1>5, <1>8, <1>9 DEF LoginInv

\* What the invariant gives, one by one.
LEMMA InvGives ==
  ASSUME LoginInv
  PROVE  /\ session \in SessionMap /\ body \in BodyMap
         /\ QueueFit(tasks) /\ toRelease \subseteq Sessions
         /\ autosend \subseteq Sessions
         /\ sendEvents \in 0 .. MaxSession /\ sendEvents \in Nat
         /\ OneBody /\ LinksAgree /\ AutosendServed /\ TasksFit /\ BodiesFit
         /\ sendEvents <= Cardinality(LoggedIn)
BY LoginTyped DEF LoginInv

(* The tasks after one has been served.                                    *)
LEMMA TaskServed ==
  ASSUME LoginInv, NEW k \in TaskKinds, NEW c \in Sessions, Runs(k, c)
  PROVE  /\ QueueFit(Tail(tasks))
         /\ \A t : Has(Tail(tasks), t) <=> Has(tasks, t) /\ t # Task(k, c)
         /\ Has(tasks, Task(k, c))
         /\ k = "release" => ~Has(tasks, Task("login", c))
         /\ session[c].conn # "none"
<1>1. /\ tasks # <<>> /\ Head(tasks) = Task(k, c) /\ QueueFit(tasks)
  BY DEF Runs, LoginInv
<1>2. /\ QueueFit(Tail(tasks))
      /\ \A t : Has(Tail(tasks), t) <=> Has(tasks, t) /\ t # Task(k, c)
      /\ Has(tasks, Task(k, c))
      /\ k = "release" => ~Has(tasks, Task("login", c))
  BY <1>1, TasksServed
<1>3. session[c].conn # "none"
  BY <1>2 DEF LoginInv, TasksFit
<1> QED
  BY <1>2, <1>3

(* A session is closed, and nothing else happens to it.                    *)
LEMMA ClosingFits ==
  ASSUME LoginInv, NEW q, QueueFit(q), NEW c \in Links,
         \A t : Has(q, t) => Has(tasks, t),
         session' = Shut(session, {c}), tasks' = ReleaseOf(q, c)
  PROVE  SessionsStay /\ TasksStay
<1>1. session \in SessionMap /\ TasksFit
  BY InvGives
<1>2. /\ session' \in SessionMap
      /\ \A d \in Sessions :
            /\ session'[d].conn = IF d = c /\ session[d].conn = "open"
                                  THEN "closed" ELSE session[d].conn
            /\ session'[d].released = session[d].released
            /\ session'[d].player = session[d].player
            /\ session'[d].eventConnect = session[d].eventConnect
  BY <1>1, ShutIs
<1>3. \A d \in Sessions : session[d].conn = "open" =>
            ~Has(q, Task("release", d))
  BY <1>1 DEF TasksFit
<1>4. /\ QueueFit(tasks')
      /\ \A u : Has(tasks', u)
            <=> Has(q, u) \/ (IsOpen(c) /\ u = Task("release", c))
  BY <1>3, ReleaseOfIs
<1>5. ASSUME NEW d \in Sessions
      PROVE  /\ Has(tasks', Task("login", d)) =>
                    Has(tasks, Task("login", d))
             /\ Has(tasks', Task("connect", d)) =>
                    session'[d].eventConnect # None
  <2>1. /\ Task("login", d) # Task("release", c)
        /\ Task("connect", d) # Task("release", c)
    BY TasksAre
  <2>2. /\ Has(tasks', Task("login", d)) => Has(tasks, Task("login", d))
        /\ Has(tasks', Task("connect", d)) => Has(tasks, Task("connect", d))
    BY <1>4, <2>1
  <2> QED
    BY <1>1, <1>2, <2>2 DEF TasksFit
<1>6. ASSUME NEW d \in Sessions, NEW k \in TaskKinds,
             Has(tasks', Task(k, d))
      PROVE  session[d].conn # "none"
  <2>1. CASE Has(q, Task(k, d))
    BY <1>1, <2>1 DEF TasksFit
  <2>2. CASE IsOpen(c) /\ Task(k, d) = Task("release", c)
    BY <2>2, TasksAre DEF IsOpen
  <2> QED
    BY <1>4, <1>6, <2>1, <2>2
<1>7. ASSUME NEW d \in Sessions, session'[d].conn = "open"
      PROVE  ~Has(tasks', Task("release", d))
  <2>1. session[d].conn = "open" /\ d # c
    BY <1>2, <1>7
  <2>2. Task("release", d) # Task("release", c)
    BY <2>1, TasksAre
  <2> QED
    BY <1>3, <1>4, <2>1, <2>2
<1>8. SessionsStay
  BY <1>2 DEF SessionsStay
<1> QED
  BY <1>4, <1>5, <1>6, <1>7, <1>8 DEF TasksStay

(* A body leaves the game, or none does.                                   *)
LEMMA TakenOutIs ==
  ASSUME LoginInv, NEW b \in InGame, TakenOut(b)
  PROVE  BodiesStay
<1>1. b \in Sessions /\ body[b].state = "inGame" /\ body \in BodyMap
      /\ toRelease \subseteq Sessions
  BY InvGives DEF InGame
<1>2. /\ body' = [body EXCEPT ![b].state = "removed"]
      /\ toRelease' = toRelease \cup {b}
  BY DEF TakenOut
<1>3. body' \in BodyMap
  BY <1>1, <1>2 DEF BodyMap, BodyRecords
<1>4. \A d \in Sessions :
            /\ body'[d].client = body[d].client
            /\ body'[d].references = body[d].references
            /\ body'[d].state = IF d = b THEN "removed" ELSE body[d].state
  BY <1>1, <1>2 DEF BodyMap, BodyRecords
<1> QED
  BY <1>1, <1>2, <1>3, <1>4 DEF BodiesStay

LEMMA NobodyLeaves == LoginInv /\ StaysIn => BodiesStay
<1> SUFFICES ASSUME LoginInv, StaysIn PROVE BodiesStay
  OBVIOUS
<1>1. body' = body /\ toRelease' = toRelease
  BY DEF StaysIn
<1> QED
  BY <1>1, InvGives DEF BodiesStay

\* The list of those to be sent to stays.
LEMMA NothingToSend == LoginInv /\ NoAutosend => SendingStays
<1> SUFFICES ASSUME LoginInv, NoAutosend PROVE SendingStays
  OBVIOUS
<1>1. autosend' = autosend /\ sendEvents' = sendEvents
  BY DEF NoAutosend
<1> QED
  BY <1>1, InvGives DEF SendingStays

\* logout.
LEMMA LogoutStep ==
  ASSUME LoginInv, NEW c \in Sessions, Logout(c)
  PROVE  LoginInv'
<1> DEFINE q == Tail(tasks)
<1>1. /\ Runs("logout", c) /\ tasks' = ReleaseOf(q, c)
      /\ session' = Shut(session, {c}) /\ NoAutosend
  BY DEF Logout
<1>2. /\ QueueFit(q) /\ \A t : Has(q, t) => Has(tasks, t)
  BY <1>1, TaskServed DEF TaskKinds
<1> HIDE DEF q
<1>3. c \in Links
  BY DEF Links
<1>4. BodiesStay
  <2>1. CASE session[c].player \in InGame
    BY <2>1, TakenOutIs DEF Logout
  <2>2. CASE session[c].player \notin InGame
    BY <2>2, NobodyLeaves DEF Logout
  <2> QED
    BY <2>1, <2>2
<1>5. SessionsStay /\ TasksStay
  BY <1>1, <1>2, <1>3, ClosingFits
<1> QED
  BY <1>1, <1>4, <1>5, NothingToSend, LinksLeftAlone

\* kickPlayer and sendPing.
LEMMA TakeOutStep ==
  ASSUME LoginInv, NEW b \in InGame, TakeOut(b)
  PROVE  LoginInv'
<1> DEFINE c == body[b].client
<1>1. /\ tasks' = ReleaseOf(tasks, c) /\ session' = Shut(session, {c})
      /\ TakenOut(b) /\ NoAutosend
  BY DEF TakeOut
<1>2. c \in Links /\ QueueFit(tasks)
  BY InvGives, RecordsTyped DEF InGame
<1> HIDE DEF c
<1>3. SessionsStay /\ TasksStay
  BY <1>1, <1>2, ClosingFits
<1> QED
  BY <1>1, <1>3, TakenOutIs, NothingToSend, LinksLeftAlone

\* A client closes its connection.
LEMMA CloseConnectionStep ==
  ASSUME LoginInv, NEW c \in Sessions, CloseConnection(c)
  PROVE  LoginInv'
<1>1. /\ tasks' = ReleaseOf(tasks, c) /\ session' = Shut(session, {c})
      /\ StaysIn /\ NoAutosend
  BY DEF CloseConnection
<1>2. c \in Links /\ QueueFit(tasks)
  BY InvGives DEF Links
<1>3. SessionsStay /\ TasksStay
  BY <1>1, <1>2, ClosingFits
<1> QED
  BY <1>1, <1>3, NobodyLeaves, NothingToSend, LinksLeftAlone

\* The player dies.
LEMMA DieStep ==
  ASSUME LoginInv, NEW b \in Sessions, Die(b)
  PROVE  LoginInv'
<1>1. /\ b \in InGame /\ TakenOut(b) /\ NoAutosend
      /\ tasks' = tasks /\ session' = session
  BY DEF Die
<1>2. SessionsStay
  BY <1>1, InvGives DEF SessionsStay
<1>3. TasksStay
  BY <1>1, InvGives DEF TasksStay, TasksFit
<1> QED
  BY <1>1, <1>2, <1>3, TakenOutIs, NothingToSend, LinksLeftAlone

(* The tasks are as they were, or one has been served that brought none.   *)
LEMMA NoTaskMore ==
  ASSUME LoginInv, SessionsStay, QueueFit(tasks'),
         \A t : Has(tasks', t) => Has(tasks, t),
         \A c \in Sessions : Has(tasks', Task("connect", c)) =>
            session'[c].eventConnect = session[c].eventConnect
  PROVE  TasksStay
<1>1. TasksFit
  BY InvGives
<1> QED
  BY <1>1 DEF TasksStay, TasksFit, SessionsStay

\* logout that is not allowed.
LEMMA LogoutDeniedStep ==
  ASSUME LoginInv, NEW c \in Sessions, LogoutDenied(c)
  PROVE  LoginInv'
<1>1. /\ Runs("logout", c) /\ tasks' = Tail(tasks)
      /\ session' = session /\ StaysIn /\ NoAutosend
  BY DEF LogoutDenied
<1>2. /\ QueueFit(tasks') /\ \A t : Has(tasks', t) => Has(tasks, t)
  BY <1>1, TaskServed DEF TaskKinds
<1>3. SessionsStay
  BY <1>1, InvGives DEF SessionsStay
<1>4. TasksStay
  BY <1>1, <1>2, <1>3, NoTaskMore
<1> QED
  BY <1>1, <1>3, <1>4, NobodyLeaves, NothingToSend, LinksLeftAlone

(* A task comes that is neither a login nor a release.                     *)
LEMMA TaskMore ==
  ASSUME LoginInv, NEW k \in {"connect", "logout"}, NEW c \in Sessions,
         ~Has(tasks, Task(k, c)), session[c].conn # "none",
         k = "connect" => session[c].eventConnect # None,
         tasks' = Append(tasks, Task(k, c)), session' = session
  PROVE  SessionsStay /\ TasksStay
<1>1. TasksFit /\ QueueFit(tasks) /\ session \in SessionMap
  BY InvGives
<1>2. Task(k, c) \in Tasks
  BY TasksAre DEF TaskKinds
<1>3. \A d \in Sessions : /\ Task(k, c) # Task("login", d)
                          /\ Task(k, c) # Task("release", d)
  BY TasksAre
<1>4. /\ QueueFit(tasks')
      /\ \A u : Has(tasks', u) <=> Has(tasks, u) \/ u = Task(k, c)
  BY <1>1, <1>2, <1>3, TaskComes
<1>5. SessionsStay
  BY <1>1 DEF SessionsStay
<1>6. ASSUME NEW d \in Sessions
      PROVE  /\ Has(tasks', Task("login", d)) =>
                    Has(tasks, Task("login", d))
             /\ Has(tasks', Task("release", d)) =>
                    Has(tasks, Task("release", d))
  BY <1>3, <1>4
<1>7. ASSUME NEW d \in Sessions, NEW l \in TaskKinds,
             Has(tasks', Task(l, d))
      PROVE  session[d].conn # "none"
  <2>1. CASE Has(tasks, Task(l, d))
    BY <1>1, <2>1 DEF TasksFit
  <2>2. CASE Task(l, d) = Task(k, c)
    BY <2>2, TasksAre
  <2> QED
    BY <1>4, <1>7, <2>1, <2>2
<1>8. ASSUME NEW d \in Sessions, Has(tasks', Task("connect", d))
      PROVE  session'[d].eventConnect # None
  <2>1. CASE Has(tasks, Task("connect", d))
    BY <1>1, <2>1 DEF TasksFit
  <2>2. CASE Task("connect", d) = Task(k, c)
    BY <2>2, TasksAre
  <2> QED
    BY <1>4, <1>8, <2>1, <2>2
<1>9. \A d \in Sessions : session'[d].conn = "open" =>
            ~Has(tasks', Task("release", d))
  BY <1>1, <1>6 DEF TasksFit
<1> QED
  BY <1>4, <1>5, <1>6, <1>7, <1>8, <1>9 DEF TasksStay

LEMMA HasIsQueued == \A t : Queued(t) <=> Has(tasks, t)
BY DEF Queued, Has

\* The event of connect comes to the dispatcher.
LEMMA ConnectDueStep ==
  ASSUME LoginInv, NEW c \in Sessions, ConnectDue(c)
  PROVE  LoginInv'
<1>1. /\ session[c].eventConnect # None
      /\ ~Has(tasks, Task("connect", c))
      /\ tasks' = Append(tasks, Task("connect", c))
      /\ session' = session /\ StaysIn /\ NoAutosend
  BY HasIsQueued DEF ConnectDue, StaysIn, NoAutosend
<1>2. session[c].conn # "none"
  BY <1>1, InvGives DEF TasksFit, Untouched
<1>3. SessionsStay /\ TasksStay
  BY <1>1, <1>2, TaskMore
<1> QED
  BY <1>1, <1>3, NobodyLeaves, NothingToSend, LinksLeftAlone

\* The client asks to log out.
LEMMA RequestLogoutStep ==
  ASSUME LoginInv, NEW c \in Sessions, RequestLogout(c)
  PROVE  LoginInv'
<1>1. /\ session[c].conn = "open"
      /\ ~Has(tasks, Task("logout", c))
      /\ tasks' = Append(tasks, Task("logout", c))
      /\ session' = session /\ StaysIn /\ NoAutosend
  BY HasIsQueued DEF RequestLogout, IsOpen, StaysIn, NoAutosend
<1>3. SessionsStay /\ TasksStay
  BY <1>1, TaskMore
<1> QED
  BY <1>1, <1>3, NobodyLeaves, NothingToSend, LinksLeftAlone

\* A connection is destroyed.
LEMMA ExpireStep ==
  ASSUME LoginInv, NEW c \in Sessions, Expire(c)
  PROVE  LoginInv'
<1>0. session \in SessionMap /\ QueueFit(tasks)
  BY InvGives
<1>1. /\ session[c].conn = "closed" /\ tasks' = tasks
      /\ session' = [session EXCEPT ![c].conn = "gone"]
      /\ StaysIn /\ NoAutosend
  BY DEF Expire
<1>2. /\ session' \in SessionMap
      /\ \A d \in Sessions :
            /\ session'[d].conn = IF d = c THEN "gone" ELSE session[d].conn
            /\ session'[d].released = session[d].released
            /\ session'[d].player = session[d].player
            /\ session'[d].eventConnect = session[d].eventConnect
  BY <1>0, <1>1 DEF SessionMap, SessionRecords
<1>3. SessionsStay
  BY <1>1, <1>2 DEF SessionsStay
<1>4. TasksStay
  BY <1>0, <1>1, <1>2, <1>3, NoTaskMore
<1> QED
  BY <1>1, <1>3, <1>4, NobodyLeaves, NothingToSend, LinksLeftAlone

\* The game writes to a client.
LEMMA WriteStep ==
  ASSUME LoginInv, NEW c \in Sessions, WriteToOutputBuffer(c)
  PROVE  LoginInv'
<1>0. session \in SessionMap /\ QueueFit(tasks)
  BY InvGives
<1>1. /\ tasks' = tasks
      /\ session' = [session EXCEPT ![c].outputBuffer = TRUE]
      /\ StaysIn /\ NoAutosend
  BY DEF WriteToOutputBuffer
<1>2. /\ session' \in SessionMap
      /\ \A d \in Sessions :
            /\ session'[d].conn = session[d].conn
            /\ session'[d].released = session[d].released
            /\ session'[d].player = session[d].player
            /\ session'[d].eventConnect = session[d].eventConnect
  BY <1>0, <1>1 DEF SessionMap, SessionRecords
<1>3. SessionsStay
  BY <1>1, <1>2 DEF SessionsStay
<1>4. TasksStay
  BY <1>0, <1>1, <1>2, <1>3, NoTaskMore
<1> QED
  BY <1>1, <1>3, <1>4, NobodyLeaves, NothingToSend, LinksLeftAlone

\* OutputMessagePool::sendAll.
LEMMA SendAllStep == LoginInv /\ SendAll => LoginInv'
<1> SUFFICES ASSUME LoginInv, SendAll PROVE LoginInv'
  OBVIOUS
<1>0. /\ session \in SessionMap /\ QueueFit(tasks) /\ sendEvents \in Nat
      /\ AutosendServed
  BY InvGives
<1>1. /\ tasks' = tasks /\ sendEvents > 0 /\ autosend' = autosend
      /\ session' = [c \in Sessions |-> [session[c] EXCEPT
                !.outputBuffer = session[c].outputBuffer /\ c \notin autosend]]
      /\ sendEvents' = ChainGoesOn /\ StaysIn
  BY DEF SendAll
<1>2. ASSUME NEW d \in Sessions
      PROVE  /\ session'[d] \in SessionRecords
             /\ session'[d].conn = session[d].conn
             /\ session'[d].released = session[d].released
             /\ session'[d].player = session[d].player
             /\ session'[d].eventConnect = session[d].eventConnect
  <2> DEFINE v == session[d].outputBuffer /\ d \notin autosend
  <2>1. v \in BOOLEAN
    OBVIOUS
  <2>2. session'[d] = [session[d] EXCEPT !.outputBuffer = v]
    BY <1>1
  <2>3. session[d] \in SessionRecords
    BY <1>0, RecordsTyped
  <2> HIDE DEF v
  <2> QED
    BY <2>1, <2>2, <2>3 DEF SessionRecords
<1>3. session' \in SessionMap
  <2>1. session' = [c \in Sessions |-> session'[c]]
    BY <1>1
  <2> QED
    BY <1>2, <2>1 DEF SessionMap
<1>4. SessionsStay
  BY <1>2, <1>3 DEF SessionsStay
<1>5. TasksStay
  BY <1>0, <1>1, <1>2, <1>4, NoTaskMore
<1>6. SendingStays
  BY <1>0, <1>1 DEF SendingStays, ChainGoesOn
<1> QED
  BY <1>1, <1>4, <1>5, <1>6, NobodyLeaves, LinksLeftAlone

\* connect finds its connection gone.
LEMMA ConnectExpiredStep ==
  ASSUME LoginInv, NEW c \in Sessions, ConnectExpired(c)
  PROVE  LoginInv'
<1>0. session \in SessionMap
  BY InvGives
<1>1. /\ Runs("connect", c) /\ tasks' = Tail(tasks)
      /\ session' = [session EXCEPT ![c].eventConnect = None]
      /\ StaysIn /\ NoAutosend
  BY DEF ConnectExpired, StaysIn
<1>2. /\ session' \in SessionMap
      /\ \A d \in Sessions :
            /\ session'[d].conn = session[d].conn
            /\ session'[d].released = session[d].released
            /\ session'[d].player = session[d].player
            /\ session'[d].eventConnect
                    = IF d = c THEN None ELSE session[d].eventConnect
  BY <1>0, <1>1 DEF SessionMap, SessionRecords, Links
<1>3. SessionsStay
  BY <1>2 DEF SessionsStay
<1>4. /\ QueueFit(tasks') /\ \A t : Has(tasks', t) => Has(tasks, t)
      /\ ~Has(tasks', Task("connect", c))
  BY <1>1, TaskServed DEF TaskKinds
<1>5. TasksStay
  BY <1>2, <1>3, <1>4, NoTaskMore
<1> QED
  BY <1>1, <1>3, <1>5, NobodyLeaves, NothingToSend, LinksLeftAlone

\* connect finds no body to take.
LEMMA ConnectRefusedStep ==
  ASSUME LoginInv, NEW c \in Sessions, ConnectRefused(c)
  PROVE  LoginInv'
<1> DEFINE q == Tail(tasks)
           S == Shut(session, {c})
<1>0. session \in SessionMap /\ TasksFit
  BY InvGives
<1>1. /\ Runs("connect", c) /\ tasks' = ReleaseOf(q, c)
      /\ session' = [S EXCEPT ![c].eventConnect = None]
      /\ StaysIn /\ NoAutosend
  BY DEF ConnectRefused, StaysIn
<1>2. /\ S \in SessionMap
      /\ \A d \in Sessions :
            /\ S[d].conn = IF d = c /\ session[d].conn = "open"
                           THEN "closed" ELSE session[d].conn
            /\ S[d].released = session[d].released
            /\ S[d].player = session[d].player
            /\ S[d].eventConnect = session[d].eventConnect
  BY <1>0, ShutIs
<1>3. /\ QueueFit(q)
      /\ \A t : Has(q, t) <=> Has(tasks, t) /\ t # Task("connect", c)
      /\ session[c].conn # "none"
  BY <1>1, TaskServed DEF TaskKinds
<1> HIDE DEF S, q
<1>4. /\ session' \in SessionMap
      /\ \A d \in Sessions :
            /\ session'[d].conn = S[d].conn
            /\ session'[d].released = S[d].released
            /\ session'[d].player = S[d].player
            /\ session'[d].eventConnect
                    = IF d = c THEN None ELSE S[d].eventConnect
  BY <1>1, <1>2 DEF SessionMap, SessionRecords, Links
<1>5. SessionsStay
  BY <1>2, <1>4 DEF SessionsStay
<1>6. c \in Links /\ \A d \in Sessions : session[d].conn = "open" =>
            ~Has(q, Task("release", d))
  BY <1>0, <1>3 DEF TasksFit, Links
<1>7. /\ QueueFit(tasks')
      /\ \A u : Has(tasks', u)
            <=> Has(q, u) \/ (IsOpen(c) /\ u = Task("release", c))
  BY <1>1, <1>3, <1>6, ReleaseOfIs
<1>8. ASSUME NEW d \in Sessions
      PROVE  /\ Has(tasks', Task("login", d)) =>
                    Has(tasks, Task("login", d))
             /\ Has(tasks', Task("connect", d)) =>
                    session'[d].eventConnect # None
  <2>1. /\ Task("login", d) # Task("release", c)
        /\ Task("connect", d) # Task("release", c)
    BY TasksAre
  <2>2. /\ Has(tasks', Task("login", d)) => Has(tasks, Task("login", d))
        /\ Has(tasks', Task("connect", d)) =>
                Has(tasks, Task("connect", d)) /\ d # c
    BY <1>3, <1>7, <2>1
  <2> QED
    BY <1>0, <1>2, <1>4, <2>2 DEF TasksFit
<1>9. ASSUME NEW d \in Sessions, NEW k \in TaskKinds,
             Has(tasks', Task(k, d))
      PROVE  session[d].conn # "none"
  <2>1. CASE Has(tasks, Task(k, d))
    BY <1>0, <2>1 DEF TasksFit
  <2>2. CASE Task(k, d) = Task("release", c)
    BY <2>2, <1>3, TasksAre
  <2> QED
    BY <1>3, <1>7, <1>9, <2>1, <2>2
<1>10. ASSUME NEW d \in Sessions, session'[d].conn = "open"
      PROVE  ~Has(tasks', Task("release", d))
  <2>1. session[d].conn = "open" /\ d # c
    BY <1>2, <1>4, <1>10
  <2>2. Task("release", d) # Task("release", c)
    BY <2>1, TasksAre
  <2> QED
    BY <1>6, <1>7, <2>1, <2>2
<1>11. TasksStay
  BY <1>7, <1>8, <1>9, <1>10 DEF TasksStay
<1> QED
  BY <1>1, <1>5, <1>11, NobodyLeaves, NothingToSend, LinksLeftAlone

-----------------------------------------------------------------------------
(* The others change a link.  First what a step of them has in common: a   *)
(* task is served, and a session x, or none, is closed.                    *)
LEMMA ServedAndClosed ==
  ASSUME LoginInv, NEW k \in TaskKinds, NEW c \in Sessions, Runs(k, c),
         NEW x \in Links, tasks' = ReleaseOf(Tail(tasks), x)
  PROVE  /\ QueueFit(tasks')
         /\ \A d \in Sessions :
            /\ Has(tasks', Task("login", d)) =>
                    Has(tasks, Task("login", d)) /\ (k = "login" => d # c)
            /\ Has(tasks', Task("connect", d)) =>
                    Has(tasks, Task("connect", d)) /\ (k = "connect" => d # c)
            /\ \A l \in TaskKinds : Has(tasks', Task(l, d)) =>
                    session[d].conn # "none"
            /\ session[d].conn = "open" /\ d # x =>
                    ~Has(tasks', Task("release", d))
<1> DEFINE q == Tail(tasks)
<1>1. TasksFit
  BY InvGives
<1>2. /\ QueueFit(q)
      /\ \A t : Has(q, t) <=> Has(tasks, t) /\ t # Task(k, c)
  BY TaskServed
<1>3. tasks' = ReleaseOf(q, x)
  OBVIOUS
<1> HIDE DEF q
<1>4. \A d \in Sessions : session[d].conn = "open" =>
            ~Has(q, Task("release", d))
  BY <1>1, <1>2 DEF TasksFit
<1>5. /\ QueueFit(tasks')
      /\ \A u : Has(tasks', u)
            <=> Has(q, u) \/ (IsOpen(x) /\ u = Task("release", x))
  BY <1>2, <1>3, <1>4, ReleaseOfIs
<1>6. ASSUME NEW d \in Sessions
      PROVE  /\ Has(tasks', Task("login", d)) =>
                    Has(tasks, Task("login", d)) /\ (k = "login" => d # c)
             /\ Has(tasks', Task("connect", d)) =>
                    Has(tasks, Task("connect", d)) /\ (k = "connect" => d # c)
  <2>1. /\ Task("login", d) # Task("release", x)
        /\ Task("connect", d) # Task("release", x)
    BY TasksAre
  <2> QED
    BY <1>2, <1>5, <2>1
<1>7. ASSUME NEW d \in Sessions, NEW l \in TaskKinds,
             Has(tasks', Task(l, d))
      PROVE  session[d].conn # "none"
  <2>1. CASE Has(tasks, Task(l, d))
    BY <1>1, <2>1 DEF TasksFit
  <2>2. CASE IsOpen(x) /\ Task(l, d) = Task("release", x)
    BY <2>2, TasksAre DEF IsOpen
  <2> QED
    BY <1>2, <1>5, <1>7, <2>1, <2>2
<1>8. ASSUME NEW d \in Sessions, session[d].conn = "open", d # x
      PROVE  ~Has(tasks', Task("release", d))
  <2>1. Task("release", d) # Task("release", x)
    BY <1>8, TasksAre
  <2> QED
    BY <1>4, <1>5, <1>8, <2>1
<1> QED
  BY <1>5, <1>6, <1>7, <1>8

(* Nobody has a part in a session that has not logged in yet.              *)
LEMMA LoginStarts ==
  ASSUME LoginInv, NEW c \in Sessions, Runs("login", c)
  PROVE  /\ Untouched(c) /\ session[c].conn # "none"
         /\ body[c].client = None /\ c \notin InGame \cup toRelease
         /\ \A d \in Sessions : session[d].player # c
         /\ c \notin LoggedIn
<1>1. /\ Has(tasks, Task("login", c)) /\ session[c].conn # "none"
  BY TaskServed DEF TaskKinds
<1>2. TasksFit /\ BodiesFit /\ LinksAgree
  BY InvGives
<1>3. Untouched(c) /\ body[c].client = None
  BY <1>1, <1>2 DEF TasksFit, BodiesFit, Untouched
<1>4. c \notin InGame \cup toRelease
  BY <1>2, <1>3 DEF BodiesFit, Untouched, InGame
<1>5. None \notin Sessions
  BY LoginAssumption DEF Sessions
<1>6. \A d \in Sessions : session[d].player # c
  BY <1>2, <1>3, <1>5 DEF LinksAgree
<1> QED
  BY <1>1, <1>3, <1>4, <1>6 DEF LoggedIn

(* A session and a body that were free point to each other.                *)
LEMMA LinkedAgree ==
  ASSUME LoginInv, NEW c \in Sessions, NEW b \in Sessions,
         session[c].player = None, body[b].client = None,
         \A d \in Sessions :
            session'[d].player = IF d = c THEN b ELSE session[d].player,
         \A d \in Sessions :
            /\ body'[d].client = IF d = b THEN c ELSE body[d].client
            /\ d # b => body'[d].state = body[d].state,
         body'[b].state # "freed"
  PROVE  LinksAgree'
<1>0. /\ LinksAgree /\ session \in SessionMap /\ body \in BodyMap
  BY InvGives
<1>1. None \notin Sessions
  BY LoginAssumption DEF Sessions
<1>2. ASSUME NEW d \in Sessions, session'[d].player # None
      PROVE  /\ body'[session'[d].player].client = d
             /\ body'[session'[d].player].state # "freed"
  <2>1. CASE d = c
    BY <2>1
  <2>2. CASE d # c
    <3>1. /\ session[d].player # None /\ session[d].player \in Sessions
          /\ session'[d].player = session[d].player
      BY <1>0, <1>2, <2>2, RecordsTyped DEF Links
    <3>2. /\ body[session[d].player].client = d
          /\ body[session[d].player].state # "freed"
      BY <1>0, <3>1 DEF LinksAgree
    <3>3. session[d].player # b
      BY <1>1, <3>2
    <3> QED
      BY <3>1, <3>2, <3>3
  <2> QED
    BY <2>1, <2>2
<1>3. ASSUME NEW d \in Sessions, body'[d].client # None
      PROVE  session'[body'[d].client].player = d
  <2>1. CASE d = b
    BY <2>1
  <2>2. CASE d # b
    <3>1. /\ body[d].client # None /\ body[d].client \in Sessions
          /\ body'[d].client = body[d].client
      BY <1>0, <1>3, <2>2, RecordsTyped DEF Links
    <3>2. session[body[d].client].player = d
      BY <1>0, <3>1 DEF LinksAgree
    <3>3. body[d].client # c
      BY <1>1, <3>2
    <3> QED
      BY <3>1, <3>2, <3>3
  <2> QED
    BY <2>1, <2>2
<1> QED
  BY <1>2, <1>3 DEF LinksAgree

(* Sessions that are logged in stay so; a login that was served may have   *)
(* begun a chain.                                                          *)
LEMMA ChainsCounted ==
  ASSUME LoginInv, sendEvents' \in Nat,
         LoggedIn \subseteq LoggedIn',
         \/ sendEvents' <= sendEvents
         \/ /\ sendEvents' <= sendEvents + 1
            /\ \E c \in LoggedIn' : c \notin LoggedIn
  PROVE  /\ sendEvents' <= Cardinality(LoggedIn')
         /\ sendEvents' \in 0 .. MaxSession
<1>0. sendEvents \in Nat /\ sendEvents <= Cardinality(LoggedIn)
  BY InvGives
<1>1. LoggedIn' \subseteq Sessions /\ LoggedIn \subseteq Sessions
  BY DEF LoggedIn
<1>2. /\ IsFiniteSet(LoggedIn) /\ IsFiniteSet(LoggedIn')
      /\ Cardinality(LoggedIn) \in Nat /\ Cardinality(LoggedIn') \in Nat
      /\ Cardinality(LoggedIn') <= MaxSession
  BY <1>1, LoggedInFinite
<1>3. Cardinality(LoggedIn) <= Cardinality(LoggedIn')
  BY <1>2, FS_Subset
<1>4. CASE \E c \in LoggedIn' : c \notin LoggedIn
  <2>1. LoggedIn # LoggedIn'
    BY <1>4
  <2>2. Cardinality(LoggedIn) # Cardinality(LoggedIn')
    BY <1>2, <2>1, FS_Subset
  <2> QED
    BY <1>0, <1>2, <1>3, <2>2, LoginAssumption
<1>5. CASE sendEvents' <= sendEvents
  BY <1>0, <1>2, <1>3, <1>5, LoginAssumption
<1> QED
  BY <1>4, <1>5

\* The invariant from its parts.
LEMMA LoginKept ==
  ASSUME session' \in SessionMap, body' \in BodyMap,
         toRelease' \subseteq Sessions, autosend' \subseteq Sessions,
         QueueFit(tasks'), sendEvents' \in 0 .. MaxSession,
         OneBody', LinksAgree', AutosendServed', TasksFit', BodiesFit',
         sendEvents' <= Cardinality(LoggedIn')
  PROVE  LoginInv'
<1>1. LoginFits'
  BY DEF LoginFits, QueueFit, SessionMap, BodyMap
<1>2. QueueFit(tasks)' /\ (sendEvents <= Cardinality(LoggedIn))'
  BY DEF QueueFit
<1> QED
  BY <1>1, <1>2 DEF LoginInv

\* onRecvFirstMessage.
LEMMA FirstMessageStep ==
  ASSUME LoginInv, NEW c \in Sessions, FirstMessage(c)
  PROVE  LoginInv'
<1> DEFINE opened == session' = [session EXCEPT ![c].conn = "open"]
                     /\ tasks' = Append(tasks, Task("login", c))
           refused == session' = [session EXCEPT ![c].conn = "closed"]
                      /\ tasks' = Append(tasks, Task("release", c))
<1>0. /\ session \in SessionMap /\ body \in BodyMap /\ QueueFit(tasks)
      /\ toRelease \subseteq Sessions /\ autosend \subseteq Sessions
      /\ sendEvents \in Nat
      /\ OneBody /\ LinksAgree /\ AutosendServed /\ TasksFit /\ BodiesFit
  BY InvGives
<1>1. /\ session[c].conn = "none" /\ (opened \/ refused)
      /\ body' = body /\ toRelease' = toRelease
      /\ autosend' = autosend /\ sendEvents' = sendEvents
  BY DEF FirstMessage
<1>2. Untouched(c) /\ \A k \in TaskKinds : ~Has(tasks, Task(k, c))
  BY <1>0, <1>1 DEF TasksFit
<1>3. PICK k \in {"login", "release"} :
        /\ tasks' = Append(tasks, Task(k, c))
        /\ session' \in SessionMap
        /\ \A d \in Sessions :
            /\ session'[d].conn =
                    IF d = c THEN IF k = "login" THEN "open" ELSE "closed"
                    ELSE session[d].conn
            /\ session'[d].released = session[d].released
            /\ session'[d].player = session[d].player
            /\ session'[d].eventConnect = session[d].eventConnect
  <2>1. CASE opened
    BY <1>0, <2>1 DEF SessionMap, SessionRecords
  <2>2. CASE refused
    BY <1>0, <2>2 DEF SessionMap, SessionRecords
  <2> QED
    BY <1>1, <2>1, <2>2
<1>4. Task(k, c) \in Tasks /\ ~Has(tasks, Task(k, c))
  BY <1>2, TasksAre DEF TaskKinds
<1>5. \A d \in Sessions : Task(k, c) = Task("login", d) =>
            ~Has(tasks, Task("release", d))
  <2>1. ~Has(tasks, Task("release", c))
    BY <1>2 DEF TaskKinds
  <2> QED
    BY <2>1, TasksAre
<1>6. /\ QueueFit(tasks')
      /\ \A u : Has(tasks', u) <=> Has(tasks, u) \/ u = Task(k, c)
  BY <1>0, <1>3, <1>4, <1>5, TaskComes
<1>7. ASSUME NEW d \in Sessions, d # c, NEW l \in TaskKinds
      PROVE  Has(tasks', Task(l, d)) <=> Has(tasks, Task(l, d))
  <2>1. Task(l, d) # Task(k, c)
    BY <1>7, TasksAre
  <2> QED
    BY <1>6, <2>1
<1>8. ASSUME NEW l \in TaskKinds
      PROVE  Has(tasks', Task(l, c)) <=> l = k
  <2>1. ~Has(tasks, Task(l, c)) /\ (Task(l, c) = Task(k, c) <=> l = k)
    BY <1>2, TasksAre
  <2> QED
    BY <1>6, <2>1
<1>9. TasksFit'
  <2>1. ASSUME NEW d \in Sessions
        PROVE  /\ session'[d].conn = "none" =>
                    /\ Untouched(d)'
                    /\ \A l \in TaskKinds : ~Has(tasks', Task(l, d))
               /\ session'[d].conn = "open" =>
                    ~Has(tasks', Task("release", d))
               /\ Has(tasks', Task("login", d)) => Untouched(d)'
               /\ Has(tasks', Task("connect", d)) =>
                    session'[d].eventConnect # None
               /\ session'[d].eventConnect # None =>
                    session'[d].player = None
    <3>1. Untouched(d)' <=> Untouched(d)
      BY <1>1, <1>3 DEF Untouched
    <3>2. CASE d = c
      BY <3>1, <3>2, <1>2, <1>3, <1>8 DEF TaskKinds, Untouched
    <3>3. CASE d # c
      BY <3>1, <3>3, <1>0, <1>3, <1>7 DEF TaskKinds, TasksFit
    <3> QED
      BY <3>2, <3>3
  <2> QED
    BY <2>1 DEF TasksFit
<1>10. LoggedIn \subseteq LoggedIn'
  BY <1>1, <1>3, <1>7 DEF LoggedIn, TaskKinds
<1>11. OneBody' /\ BodiesFit'
  BY <1>0, <1>1 DEF OneBody, BodiesFit, Holders, InGame
<1>12. LinksAgree'
  <2>1. \A d \in Sessions : /\ session[d].player \in Links
                            /\ body[d].client \in Links
    BY <1>0, RecordsTyped
  <2> QED
    BY <2>1, <1>0, <1>1, <1>3 DEF LinksAgree, Links
<1>13. AutosendServed'
  BY <1>0, <1>1, <1>3 DEF AutosendServed
<1>14. /\ sendEvents' <= Cardinality(LoggedIn')
       /\ sendEvents' \in 0 .. MaxSession
  BY <1>0, <1>1, <1>10, ChainsCounted
<1> QED
  BY <1>0, <1>1, <1>3, <1>6, <1>9, <1>11, <1>12, <1>13, <1>14, LoginKept

\* Game::cleanup.
LEMMA CleanupStep == LoginInv /\ Cleanup => LoginInv'
<1> SUFFICES ASSUME LoginInv, Cleanup PROVE LoginInv'
  OBVIOUS
<1>0. /\ session \in SessionMap /\ body \in BodyMap /\ QueueFit(tasks)
      /\ toRelease \subseteq Sessions /\ autosend \subseteq Sessions
      /\ sendEvents \in Nat
      /\ OneBody /\ LinksAgree /\ AutosendServed /\ TasksFit /\ BodiesFit
  BY InvGives
<1>1. /\ toRelease' = {} /\ tasks' = tasks /\ session' = session
      /\ autosend' = autosend /\ sendEvents' = sendEvents
      /\ body' = [b \in Sessions |->
                    IF b \in toRelease THEN Released(body[b]) ELSE body[b]]
  BY DEF Cleanup, NoAutosend
<1>2. ASSUME NEW b \in toRelease
      PROVE  /\ body[b].references = (IF body[b].client = None THEN 1 ELSE 2)
             /\ body[b].state = "removed"
  BY <1>0 DEF BodiesFit, Holders
<1>3. ASSUME NEW b \in Sessions
      PROVE  /\ body'[b] \in BodyRecords
             /\ body'[b].client = body[b].client
             /\ b \notin toRelease => /\ body'[b].state = body[b].state
                                      /\ body'[b].references
                                            = body[b].references
             /\ b \in toRelease =>
                    /\ body'[b].references
                            = IF body[b].client = None THEN 0 ELSE 1
                    /\ body'[b].state = IF body[b].client = None
                                        THEN "freed" ELSE "removed"
  <2>1. body[b] \in BodyRecords
    BY <1>0, RecordsTyped
  <2>2. CASE b \notin toRelease
    BY <2>1, <2>2, <1>1
  <2>3. CASE b \in toRelease
    <3> DEFINE n == body[b].references - 1
               v == IF body[b].references = 1 THEN "freed"
                    ELSE body[b].state
    <3>1. body'[b] = [body[b] EXCEPT !.references = n, !.state = v]
      BY <2>3, <1>1 DEF Released
    <3>2. /\ n = IF body[b].client = None THEN 0 ELSE 1
          /\ v = IF body[b].client = None THEN "freed" ELSE "removed"
      BY <2>3, <1>2
    <3>3. n \in Nat /\ v \in {"freed", "removed"}
      BY <3>2
    <3> HIDE DEF n, v
    <3>4. /\ body'[b] \in BodyRecords /\ body'[b].client = body[b].client
          /\ body'[b].references = n /\ body'[b].state = v
      BY <2>1, <3>1, <3>3 DEF BodyRecords
    <3> QED
      BY <2>3, <3>2, <3>4
  <2> QED
    BY <2>2, <2>3
<1>4. body' \in BodyMap
  <2>1. body' = [b \in Sessions |-> body'[b]]
    BY <1>1
  <2> QED
    BY <1>3, <2>1 DEF BodyMap
<1>5. InGame' = InGame
  BY <1>2, <1>3 DEF InGame
<1>6. OneBody'
  BY <1>0, <1>5 DEF OneBody
<1>7. LinksAgree'
  <2>1. \A d \in Sessions : /\ session[d].player \in Links
                            /\ body[d].client \in Links
    BY <1>0, RecordsTyped
  <2>2. None \notin Sessions
    BY LoginAssumption DEF Sessions
  <2>3. ASSUME NEW d \in Sessions, session'[d].player # None
        PROVE  /\ body'[session'[d].player].client = d
               /\ body'[session'[d].player].state # "freed"
    <3>1. /\ session[d].player \in Sessions
          /\ body[session[d].player].client = d
          /\ body[session[d].player].state # "freed"
      BY <2>1, <2>3, <1>0, <1>1 DEF LinksAgree, Links
    <3> QED
      BY <3>1, <2>2, <1>1, <1>3
  <2>4. ASSUME NEW d \in Sessions, body'[d].client # None
        PROVE  session'[body'[d].client].player = d
    BY <2>4, <1>0, <1>1, <1>3 DEF LinksAgree
  <2> QED
    BY <2>3, <2>4 DEF LinksAgree
<1>8. TasksFit'
  BY <1>0, <1>1, <1>2, <1>3 DEF TasksFit, Untouched
<1>9. BodiesFit'
  <2>1. ASSUME NEW b \in Sessions
        PROVE  /\ body'[b].references = Holders(b)'
               /\ b \in toRelease' => body'[b].state = "removed"
               /\ body'[b].state = "none" => body'[b].client = None
    <3>1. Holders(b)' = (IF body'[b].client = None THEN 0 ELSE 1)
                        + (IF b \in InGame' \cup toRelease' THEN 1 ELSE 0)
      BY DEF Holders
    <3>2. CASE b \in toRelease
      <4>1. b \notin InGame
        BY <3>2, <1>2 DEF InGame
      <4> QED
        BY <3>1, <3>2, <4>1, <1>1, <1>2, <1>3, <1>5
    <3>3. CASE b \notin toRelease
      <4>1. body[b].references = Holders(b)
            /\ (body[b].state = "none" => body[b].client = None)
        BY <1>0 DEF BodiesFit
      <4> QED
        BY <3>1, <3>3, <4>1, <1>1, <1>3, <1>5 DEF Holders
    <3> QED
      BY <3>2, <3>3
  <2> QED
    BY <2>1 DEF BodiesFit
<1>10. AutosendServed'
  BY <1>0, <1>1 DEF AutosendServed
<1>11. LoggedIn' = LoggedIn
  BY <1>1 DEF LoggedIn
<1>12. /\ sendEvents' <= Cardinality(LoggedIn')
       /\ sendEvents' \in 0 .. MaxSession
  BY <1>1, <1>11, InvGives
<1>13. toRelease' \subseteq Sessions
  BY <1>1
<1> QED
  BY <1>0, <1>1, <1>4, <1>6, <1>7, <1>8, <1>9, <1>10, <1>12, <1>13, LoginKept

\* ProtocolGame::release.
LEMMA ReleaseStep ==
  ASSUME LoginInv, NEW c \in Sessions, Release(c)
  PROVE  LoginInv'
<1> DEFINE p == session[c].player
<1>0. /\ session \in SessionMap /\ body \in BodyMap /\ QueueFit(tasks)
      /\ toRelease \subseteq Sessions /\ autosend \subseteq Sessions
      /\ sendEvents \in Nat
      /\ OneBody /\ LinksAgree /\ AutosendServed /\ TasksFit /\ BodiesFit
  BY InvGives
<1>1. /\ Runs("release", c) /\ tasks' = Tail(tasks)
      /\ body' = LeftBy(c) /\ toRelease' = toRelease
      /\ autosend' = autosend \ {c} /\ sendEvents' = sendEvents
  BY DEF Release, WithoutSession
<1>2. /\ QueueFit(tasks')
      /\ \A t : Has(tasks', t) <=> Has(tasks, t) /\ t # Task("release", c)
      /\ ~Has(tasks, Task("login", c)) /\ session[c].conn # "none"
  BY <1>1, TaskServed DEF TaskKinds
<1>3. None \notin Sessions
  BY LoginAssumption DEF Sessions
<1>4. \A b \in Sessions : body[b].client = c <=> b = p
  <2>1. ASSUME NEW b \in Sessions, body[b].client = c
        PROVE  b = p
    <3>1. body[b].client # None
      BY <2>1, <1>3
    <3> QED
      BY <2>1, <3>1, <1>0 DEF LinksAgree
  <2>2. ASSUME NEW b \in Sessions, b = p
        PROVE  body[b].client = c
    <3>1. p # None
      BY <2>2, <1>3
    <3> QED
      BY <2>2, <3>1, <1>0 DEF LinksAgree
  <2> QED
    BY <2>1, <2>2
<1>5. /\ session' \in SessionMap
      /\ \A d \in Sessions :
            /\ session'[d].conn = session[d].conn
            /\ session'[d].released = IF d = c THEN TRUE
                                      ELSE session[d].released
            /\ session'[d].player = IF d = c THEN None
                                    ELSE session[d].player
            /\ session'[d].eventConnect = session[d].eventConnect
  <2> DEFINE v == IF \E b \in Sessions : /\ body[b].client = c
                                         /\ b = session[c].player
                  THEN None ELSE session[c].player
  <2>1. v = None
    <3>1. CASE p \in Sessions
      BY <3>1, <1>4
    <3>2. CASE p \notin Sessions
      <4>1. p \in Links
        BY <1>0, RecordsTyped
      <4> QED
        BY <3>2, <4>1 DEF Links
    <3> QED
      BY <3>1, <3>2
  <2>2. session' = [session EXCEPT ![c].released = TRUE, ![c].player = v]
    BY DEF Release
  <2> DEFINE r == [session[c] EXCEPT !.released = TRUE, !.player = None]
  <2>3. session' = [session EXCEPT ![c].released = TRUE,
                                   ![c].player = None]
    BY <2>1, <2>2
  <2>4. session' = [session EXCEPT ![c] = r]
    BY <2>3, <1>0 DEF SessionMap
  <2>5. session[c] \in SessionRecords
    BY <1>0 DEF SessionMap
  <2>6. /\ r \in SessionRecords /\ r.conn = session[c].conn
        /\ r.released = TRUE /\ r.player = None
        /\ r.eventConnect = session[c].eventConnect
    BY <2>5 DEF SessionRecords, Links
  <2> HIDE DEF r, v
  <2>7. /\ session' \in SessionMap
        /\ \A d \in Sessions :
                session'[d] = IF d = c THEN r ELSE session[d]
    BY <2>4, <2>6, <1>0 DEF SessionMap
  <2> QED
    BY <2>6, <2>7
<1> HIDE DEF p
<1>6. \A b \in Sessions :
        b = p => /\ body[b].client = c /\ body[b].client # None
                 /\ body[b].state \notin {"none", "freed"}
                 /\ body[b].references
                        = IF b \in InGame \cup toRelease THEN 2 ELSE 1
  <2>1. ASSUME NEW b \in Sessions, b = p
        PROVE  /\ body[b].client = c /\ body[b].client # None
               /\ body[b].state \notin {"none", "freed"}
    BY <2>1, <1>0, <1>3, <1>4 DEF LinksAgree, BodiesFit, p
  <2>2. \A b \in Sessions : body[b].references = Holders(b)
    BY <1>0 DEF BodiesFit
  <2> QED
    BY <2>1, <2>2 DEF Holders
<1>7. ASSUME NEW b \in Sessions
      PROVE  /\ body'[b] \in BodyRecords
             /\ body'[b].client = IF b = p THEN None ELSE body[b].client
             /\ b # p => /\ body'[b].state = body[b].state
                         /\ body'[b].references = body[b].references
             /\ b = p =>
                    /\ body'[b].references
                            = IF b \in InGame \cup toRelease THEN 1 ELSE 0
                    /\ body'[b].state = IF b \in InGame \cup toRelease
                                        THEN body[b].state ELSE "freed"
  <2>1. body[b] \in BodyRecords
    BY <1>0, RecordsTyped
  <2>2. CASE b # p
    <3>1. body'[b] = body[b]
      BY <2>2, <1>1, <1>4 DEF LeftBy
    <3> QED
      BY <2>1, <2>2, <3>1
  <2>3. CASE b = p
    <3> DEFINE n == body[b].references - 1
               v == IF body[b].references = 1 THEN "freed"
                    ELSE body[b].state
               r == [body[b] EXCEPT !.references = n, !.state = v]
    <3>1. body'[b] = [r EXCEPT !.client = None]
      BY <2>3, <1>1, <1>4 DEF LeftBy, Released, p
    <3>2. /\ n = IF b \in InGame \cup toRelease THEN 1 ELSE 0
          /\ v = IF b \in InGame \cup toRelease
                 THEN body[b].state ELSE "freed"
      BY <2>3, <1>6
    <3>3. n \in Nat /\ v \in {body[b].state, "freed"}
      BY <3>2
    <3> HIDE DEF n, v
    <3>4. r \in BodyRecords /\ r.references = n /\ r.state = v
      BY <2>1, <3>3 DEF BodyRecords
    <3> HIDE DEF r
    <3>5. /\ body'[b] \in BodyRecords /\ body'[b].client = None
          /\ body'[b].references = n /\ body'[b].state = v
      BY <3>1, <3>4 DEF BodyRecords, Links
    <3> QED
      BY <2>3, <3>2, <3>5
  <2> QED
    BY <2>2, <2>3
<1>8. body' \in BodyMap
  <2>1. body' = [b \in Sessions |-> body'[b]]
    BY <1>1 DEF LeftBy
  <2> QED
    BY <1>7, <2>1 DEF BodyMap
<1>9. InGame' = InGame
  BY <1>6, <1>7 DEF InGame
<1>10. OneBody'
  BY <1>0, <1>9 DEF OneBody
<1>11. LinksAgree'
  <2>1. \A d \in Sessions : /\ session[d].player \in Links
                            /\ body[d].client \in Links
    BY <1>0, RecordsTyped
  <2>3. ASSUME NEW d \in Sessions, session'[d].player # None
        PROVE  /\ body'[session'[d].player].client = d
               /\ body'[session'[d].player].state # "freed"
    <3>1. d # c /\ session'[d].player = session[d].player
      BY <2>3, <1>5
    <3>2. /\ session[d].player \in Sessions
          /\ body[session[d].player].client = d
          /\ body[session[d].player].state # "freed"
      BY <2>1, <2>3, <3>1, <1>0 DEF LinksAgree, Links
    <3>3. session[d].player # p
      BY <1>6, <3>1, <3>2
    <3> QED
      BY <3>1, <3>2, <3>3, <1>7
  <2>4. ASSUME NEW d \in Sessions, body'[d].client # None
        PROVE  session'[body'[d].client].player = d
    <3>1. d # p /\ body'[d].client = body[d].client
      BY <2>4, <1>7
    <3>2. body[d].client \in Sessions /\ session[body[d].client].player = d
      BY <2>1, <2>4, <3>1, <1>0 DEF LinksAgree, Links
    <3>3. body[d].client # c
      BY <3>1, <1>4 DEF p
    <3> QED
      BY <3>1, <3>2, <3>3, <1>5
  <2> QED
    BY <2>3, <2>4 DEF LinksAgree
<1>12. TasksFit'
  <2>1. ASSUME NEW d \in Sessions
        PROVE  /\ session'[d].conn = "none" =>
                    /\ Untouched(d)'
                    /\ \A l \in TaskKinds : ~Has(tasks', Task(l, d))
               /\ session'[d].conn = "open" =>
                    ~Has(tasks', Task("release", d))
               /\ Has(tasks', Task("login", d)) => Untouched(d)'
               /\ Has(tasks', Task("connect", d)) =>
                    session'[d].eventConnect # None
               /\ session'[d].eventConnect # None =>
                    session'[d].player = None
    <3>1. d # c => (Untouched(d) => Untouched(d)')
      BY <1>5, <1>6, <1>7 DEF Untouched
    <3>2. /\ session[d].conn = "none" =>
            /\ Untouched(d)
            /\ \A l \in TaskKinds : ~Has(tasks, Task(l, d))
          /\ session[d].conn = "open" => ~Has(tasks, Task("release", d))
          /\ Has(tasks, Task("login", d)) => Untouched(d)
          /\ Has(tasks, Task("connect", d)) => session[d].eventConnect # None
          /\ session[d].eventConnect # None => session[d].player = None
      BY <1>0 DEF TasksFit
    <3>3. \A t : Has(tasks', t) => Has(tasks, t)
      BY <1>2
    <3>4. CASE d = c
      BY <3>2, <3>3, <3>4, <1>2, <1>5
    <3>5. CASE d # c
      BY <3>1, <3>2, <3>3, <3>5, <1>5
    <3> QED
      BY <3>4, <3>5
  <2> QED
    BY <2>1 DEF TasksFit
<1>13. BodiesFit'
  <2>1. ASSUME NEW b \in Sessions
        PROVE  /\ body'[b].references = Holders(b)'
               /\ b \in toRelease' => body'[b].state = "removed"
               /\ body'[b].state = "none" => body'[b].client = None
    <3>1. Holders(b)' = (IF body'[b].client = None THEN 0 ELSE 1)
                        + (IF b \in InGame \cup toRelease THEN 1 ELSE 0)
      BY <1>1, <1>9 DEF Holders
    <3>2. /\ body[b].references = Holders(b)
          /\ b \in toRelease => body[b].state = "removed"
          /\ body[b].state = "none" => body[b].client = None
      BY <1>0 DEF BodiesFit
    <3>3. CASE b = p
      BY <3>1, <3>2, <3>3, <1>1, <1>6, <1>7
    <3>4. CASE b # p
      BY <3>1, <3>2, <3>4, <1>1, <1>7 DEF Holders
    <3> QED
      BY <3>3, <3>4
  <2> QED
    BY <2>1 DEF BodiesFit
<1>14. AutosendServed'
  BY <1>0, <1>1, <1>5 DEF AutosendServed
<1>15. LoggedIn \subseteq LoggedIn'
  BY <1>2, <1>5 DEF LoggedIn
<1>16. /\ sendEvents' <= Cardinality(LoggedIn')
       /\ sendEvents' \in 0 .. MaxSession
  BY <1>0, <1>1, <1>15, ChainsCounted
<1>17. toRelease' \subseteq Sessions /\ autosend' \subseteq Sessions
  BY <1>0, <1>1
<1> QED
  BY <1>2, <1>5, <1>8, <1>10, <1>11, <1>12, <1>13, <1>14, <1>16, <1>17,
    LoginKept

-----------------------------------------------------------------------------
(* Who is to be sent to: a login adds its session, the others none.        *)
SendingFits(c) ==
    \/ NoAutosend
    \/ Runs("login", c) /\ AddToAutosend(c) /\ ~Has(tasks', Task("login", c))

LoginsStay ==
    \A d \in Sessions :
        /\ session'[d].released = session[d].released
        /\ session'[d].conn = "none" <=> session[d].conn = "none"
        /\ Has(tasks', Task("login", d)) => Has(tasks, Task("login", d))

\* Those in the list are served, and not more chains run than logins.
LEMMA SendingGoesOn ==
  ASSUME LoginInv, NEW c \in Sessions, SendingFits(c), LoginsStay
  PROVE  /\ AutosendServed' /\ autosend' \subseteq Sessions
         /\ sendEvents' <= Cardinality(LoggedIn')
         /\ sendEvents' \in 0 .. MaxSession
<1>0. /\ autosend \subseteq Sessions /\ sendEvents \in Nat
      /\ AutosendServed
  BY InvGives
<1>1. LoggedIn \subseteq LoggedIn'
  BY DEF LoggedIn, LoginsStay
<1>2. CASE NoAutosend
  <2>1. autosend' = autosend /\ sendEvents' = sendEvents
    BY <1>2 DEF NoAutosend
  <2>2. AutosendServed'
    BY <1>0, <2>1 DEF AutosendServed, LoginsStay
  <2> QED
    BY <1>0, <1>1, <2>1, <2>2, ChainsCounted
<1>3. CASE /\ Runs("login", c) /\ AddToAutosend(c)
           /\ ~Has(tasks', Task("login", c))
  <2>1. /\ autosend' = autosend \cup {c}
        /\ sendEvents' = IF autosend = {} THEN sendEvents + 1
                         ELSE sendEvents
    BY <1>3 DEF AddToAutosend
  <2>2. Untouched(c) /\ session[c].conn # "none" /\ c \notin LoggedIn
    BY <1>3, LoginStarts
  <2>3. AutosendServed'
    <3>1. sendEvents' > 0
      BY <1>0, <2>1 DEF AutosendServed
    <3>2. \A d \in autosend' : ~session'[d].released
      BY <1>0, <2>1, <2>2 DEF AutosendServed, LoginsStay, Untouched
    <3> QED
      BY <3>1, <3>2 DEF AutosendServed
  <2>4. c \in LoggedIn'
    BY <1>3, <2>2 DEF LoggedIn, LoginsStay
  <2>5. sendEvents' \in Nat /\ sendEvents' <= sendEvents + 1
    BY <1>0, <2>1
  <2>6. /\ sendEvents' <= Cardinality(LoggedIn')
        /\ sendEvents' \in 0 .. MaxSession
    BY <1>1, <2>2, <2>4, <2>5, ChainsCounted
  <2> QED
    BY <1>0, <2>1, <2>3, <2>6
<1> QED
  BY <1>2, <1>3 DEF SendingFits

(* Session c and body b are made each other's, x is closed.                *)
LinkMade(c, b, x) ==
    /\ session' \in SessionMap /\ body' \in BodyMap
    /\ \A d \in Sessions :
        /\ session'[d].conn = IF d = x /\ session[d].conn = "open"
                              THEN "closed" ELSE session[d].conn
        /\ session'[d].released = session[d].released
        /\ session'[d].player = IF d = c THEN b ELSE session[d].player
        /\ session'[d].eventConnect = IF d = c THEN None
                                      ELSE session[d].eventConnect
    /\ \A d \in Sessions :
        /\ body'[d].client = IF d = b THEN c ELSE body[d].client
        /\ d # b => /\ body'[d].state = body[d].state
                    /\ body'[d].references = body[d].references
    /\ body'[b].state \in {"loaded", "inGame", "removed"}
    /\ body'[b].references = IF body'[b].state = "loaded" THEN 1 ELSE 2
    /\ toRelease' = IF body'[b].state = "removed" THEN toRelease \cup {b}
                    ELSE toRelease

(* A body that is free: new with this login, or alone in the game.         *)
BodyFree(b, c) ==
    /\ body[b].client = None
    /\ \/ b = c /\ body[b].state = "none" /\ InGame = {}
       \/ b \in InGame /\ body'[b].state = "inGame"

\* A link between a free session and a free body keeps the invariant.
LEMMA LinkMadeKeeps ==
  ASSUME LoginInv, NEW k \in {"login", "connect"}, NEW c \in Sessions,
         NEW b \in Sessions, NEW x \in Links, Runs(k, c),
         tasks' = ReleaseOf(Tail(tasks), x),
         LinkMade(c, b, x), BodyFree(b, c),
         NoAutosend \/ (k = "login" /\ AddToAutosend(c))
  PROVE  LoginInv'
<1>0. /\ session \in SessionMap /\ body \in BodyMap
      /\ toRelease \subseteq Sessions
      /\ OneBody /\ LinksAgree /\ TasksFit /\ BodiesFit
  BY InvGives
<1>1. /\ QueueFit(tasks')
      /\ \A d \in Sessions :
            /\ Has(tasks', Task("login", d)) =>
                    Has(tasks, Task("login", d)) /\ (k = "login" => d # c)
            /\ Has(tasks', Task("connect", d)) =>
                    Has(tasks, Task("connect", d)) /\ (k = "connect" => d # c)
            /\ \A l \in TaskKinds : Has(tasks', Task(l, d)) =>
                    session[d].conn # "none"
            /\ session[d].conn = "open" /\ d # x =>
                    ~Has(tasks', Task("release", d))
  <2>1. k \in TaskKinds
    BY DEF TaskKinds
  <2> QED
    BY <2>1, ServedAndClosed
<1>2. None \notin Sessions
  BY LoginAssumption DEF Sessions
<1>3. /\ session[c].player = None /\ session[c].conn # "none"
      /\ ~Has(tasks', Task("login", c)) /\ ~Has(tasks', Task("connect", c))
  <2>1. CASE k = "login"
    <3>1. Untouched(c) /\ session[c].conn # "none"
      BY <2>1, LoginStarts
    <3>2. ~Has(tasks, Task("connect", c))
      BY <3>1, <1>0 DEF TasksFit, Untouched
    <3> QED
      BY <2>1, <3>1, <3>2, <1>1 DEF Untouched
  <2>2. CASE k = "connect"
    <3>1. Has(tasks, Task("connect", c)) /\ session[c].conn # "none"
      BY <2>2, TaskServed DEF TaskKinds
    <3>2. session[c].eventConnect # None
      BY <3>1, <1>0 DEF TasksFit
    <3>3. session[c].player = None /\ ~Has(tasks, Task("login", c))
      BY <3>2, <1>0 DEF TasksFit, Untouched
    <3> QED
      BY <2>2, <3>1, <3>3, <1>1
  <2> QED
    BY <2>1, <2>2
<1>4. b \notin toRelease
  BY <1>0 DEF BodiesFit, BodyFree, InGame
<1>5. InGame' \subseteq InGame \cup {b}
  BY DEF InGame, LinkMade
<1>6. OneBody'
  <2>1. InGame \subseteq {b}
    BY <1>0 DEF OneBody, BodyFree
  <2> QED
    BY <2>1, <1>5 DEF OneBody
<1>7. LinksAgree'
  <2>1. session[c].player = None /\ body[b].client = None
    BY <1>3 DEF BodyFree
  <2>2. /\ \A d \in Sessions : session'[d].player
                    = IF d = c THEN b ELSE session[d].player
        /\ \A d \in Sessions :
            /\ body'[d].client = IF d = b THEN c ELSE body[d].client
            /\ d # b => body'[d].state = body[d].state
        /\ body'[b].state # "freed"
    BY DEF LinkMade
  <2> QED
    BY <2>1, <2>2, LinkedAgree
<1>8. TasksFit'
  <2>1. ASSUME NEW d \in Sessions
        PROVE  /\ session'[d].conn = "none" =>
                    /\ Untouched(d)'
                    /\ \A l \in TaskKinds : ~Has(tasks', Task(l, d))
               /\ session'[d].conn = "open" =>
                    ~Has(tasks', Task("release", d))
               /\ Has(tasks', Task("login", d)) => Untouched(d)'
               /\ Has(tasks', Task("connect", d)) =>
                    session'[d].eventConnect # None
               /\ session'[d].eventConnect # None =>
                    session'[d].player = None
    <3>1. /\ session'[d].conn = IF d = x /\ session[d].conn = "open"
                                THEN "closed" ELSE session[d].conn
          /\ session'[d].released = session[d].released
          /\ session'[d].player = IF d = c THEN b ELSE session[d].player
          /\ session'[d].eventConnect = IF d = c THEN None
                                        ELSE session[d].eventConnect
      BY DEF LinkMade
    <3>2. d # c /\ Untouched(d) => Untouched(d)'
      <4>1. d # c /\ Untouched(d) => d # b
        BY DEF BodyFree, Untouched, InGame
      <4> QED
        BY <3>1, <4>1 DEF LinkMade, Untouched
    <3>3. /\ session[d].conn = "none" => Untouched(d)
          /\ Has(tasks, Task("login", d)) => Untouched(d)
          /\ Has(tasks, Task("connect", d)) =>
                session[d].eventConnect # None
          /\ session[d].eventConnect # None => session[d].player = None
      BY <1>0 DEF TasksFit
    <3>4. CASE d = c
      BY <3>1, <3>4, <1>1, <1>3
    <3>5. CASE d # c
      BY <3>1, <3>2, <3>3, <3>5, <1>1
    <3> QED
      BY <3>4, <3>5
  <2> QED
    BY <2>1 DEF TasksFit
<1>9. BodiesFit'
  <2>1. ASSUME NEW d \in Sessions
        PROVE  /\ body'[d].references = Holders(d)'
               /\ d \in toRelease' => body'[d].state = "removed"
               /\ body'[d].state = "none" => body'[d].client = None
    <3>1. /\ body[d].references = Holders(d)
          /\ d \in toRelease => body[d].state = "removed"
          /\ body[d].state = "none" => body[d].client = None
      BY <1>0 DEF BodiesFit
    <3>2. CASE d = b
      <4>1. body'[d].client # None
        BY <3>2, <1>2 DEF LinkMade
      <4>2. d \in toRelease' <=> body'[d].state = "removed"
        BY <3>2, <1>4 DEF LinkMade
      <4>3. d \in InGame' <=> body'[d].state = "inGame"
        BY DEF InGame
      <4> QED
        BY <3>2, <4>1, <4>2, <4>3 DEF LinkMade, Holders
    <3>3. CASE d # b
      <4>1. /\ body'[d].client = body[d].client
            /\ body'[d].state = body[d].state
            /\ body'[d].references = body[d].references
            /\ d \in toRelease' <=> d \in toRelease
        BY <3>3 DEF LinkMade
      <4>2. d \in InGame' <=> d \in InGame
        BY <4>1 DEF InGame
      <4> QED
        BY <3>1, <4>1, <4>2 DEF Holders
    <3> QED
      BY <3>2, <3>3
  <2> QED
    BY <2>1 DEF BodiesFit
<1>10. LoginsStay
  BY <1>1 DEF LoginsStay, LinkMade
<1>11. SendingFits(c)
  BY <1>3 DEF SendingFits
<1>12. /\ AutosendServed' /\ autosend' \subseteq Sessions
       /\ sendEvents' <= Cardinality(LoggedIn')
       /\ sendEvents' \in 0 .. MaxSession
  BY <1>10, <1>11, SendingGoesOn
<1>13. /\ session' \in SessionMap /\ body' \in BodyMap
       /\ toRelease' \subseteq Sessions
  BY <1>0 DEF LinkMade
<1> QED
  BY <1>1, <1>6, <1>7, <1>8, <1>9, <1>12, <1>13, LoginKept

PlayerIs(T, S, c, b) ==
    /\ T \in SessionMap
    /\ \A d \in Sessions :
        /\ T[d].player = IF d = c THEN b ELSE S[d].player
        /\ T[d].conn = S[d].conn
        /\ T[d].released = S[d].released
        /\ T[d].eventConnect = S[d].eventConnect

\* A session gets a player.
LEMMA PlayerSet ==
  ASSUME NEW S \in SessionMap, NEW c \in Sessions, NEW b \in Sessions
  PROVE  /\ PlayerIs([S EXCEPT ![c].player = b], S, c, b)
         /\ PlayerIs([S EXCEPT ![c].player = b, ![c].acceptPackets = TRUE],
                     S, c, b)
<1> DEFINE r1 == [S[c] EXCEPT !.player = b]
           r2 == [S[c] EXCEPT !.player = b, !.acceptPackets = TRUE]
<1>1. S[c] \in SessionRecords /\ b \in Links
  BY DEF SessionMap, Links
<1>2. /\ r1 \in SessionRecords /\ r1.player = b /\ r1.conn = S[c].conn
      /\ r1.released = S[c].released
      /\ r1.eventConnect = S[c].eventConnect
  BY <1>1 DEF SessionRecords
<1>3. /\ r2 \in SessionRecords /\ r2.player = b /\ r2.conn = S[c].conn
      /\ r2.released = S[c].released
      /\ r2.eventConnect = S[c].eventConnect
  BY <1>1 DEF SessionRecords
<1>4. /\ [S EXCEPT ![c].player = b] = [S EXCEPT ![c] = r1]
      /\ [S EXCEPT ![c].player = b, ![c].acceptPackets = TRUE]
            = [S EXCEPT ![c] = r2]
  BY DEF SessionMap
<1> HIDE DEF r1, r2
<1>5. PlayerIs([S EXCEPT ![c] = r1], S, c, b)
  BY <1>2 DEF PlayerIs, SessionMap
<1>6. PlayerIs([S EXCEPT ![c] = r2], S, c, b)
  BY <1>3 DEF PlayerIs, SessionMap
<1> QED
  BY <1>4, <1>5, <1>6

\* A body changes.
LEMMA BodySet ==
  ASSUME NEW b \in Sessions, NEW B, body \in BodyMap, B \in BodyRecords,
         body' = [body EXCEPT ![b] = B]
  PROVE  /\ body' \in BodyMap
         /\ \A d \in Sessions : body'[d] = IF d = b THEN B ELSE body[d]
BY DEF BodyMap

\* login that is refused: the new player stays with the session.
LEMMA LoginRefusedStep ==
  ASSUME LoginInv, NEW c \in Sessions, LoginRefused(c)
  PROVE  LoginInv'
<1> DEFINE S == Shut(session, {c})
           B == [body[c] EXCEPT !.state = "loaded", !.client = c,
                                !.references = 1]
<1>0. session \in SessionMap /\ body \in BodyMap
  BY InvGives
<1>1. /\ Runs("login", c) /\ FoundPlayer = {}
      /\ tasks' = ReleaseOf(Tail(tasks), c)
      /\ session' = [S EXCEPT ![c].player = c]
      /\ body' = [body EXCEPT ![c].state = "loaded", ![c].client = c,
                              ![c].references = 1]
      /\ toRelease' = toRelease /\ NoAutosend
  BY DEF LoginRefused
<1>2. Untouched(c) /\ body[c].client = None /\ c \in Links
  BY <1>1, LoginStarts DEF Links
<1>3. /\ S \in SessionMap
      /\ \A d \in Sessions :
            /\ S[d].conn = IF d = c /\ session[d].conn = "open"
                           THEN "closed" ELSE session[d].conn
            /\ S[d].released = session[d].released
            /\ S[d].player = session[d].player
            /\ S[d].eventConnect = session[d].eventConnect
  BY <1>0, ShutIs
<1> HIDE DEF S
<1>4. /\ session' \in SessionMap
      /\ \A d \in Sessions :
            /\ session'[d].player = IF d = c THEN c ELSE S[d].player
            /\ session'[d].conn = S[d].conn
            /\ session'[d].released = S[d].released
            /\ session'[d].eventConnect = S[d].eventConnect
  <2>1. PlayerIs(session', S, c, c)
    BY <1>1, <1>3, PlayerSet
  <2> QED
    BY <2>1 DEF PlayerIs
<1>5. body[c] \in BodyRecords
  BY <1>0, RecordsTyped
<1>6. /\ B \in BodyRecords /\ B.state = "loaded" /\ B.client = c
      /\ B.references = 1
  BY <1>2, <1>5 DEF BodyRecords
<1>7. body' = [body EXCEPT ![c] = B]
  BY <1>0, <1>1 DEF BodyMap
<1> HIDE DEF B
<1>8. /\ body' \in BodyMap
      /\ \A d \in Sessions : body'[d] = IF d = c THEN B ELSE body[d]
  BY <1>0, <1>6, <1>7, BodySet
<1>9. LinkMade(c, c, c)
  <2>1. \A d \in Sessions :
            /\ session'[d].conn = IF d = c /\ session[d].conn = "open"
                                  THEN "closed" ELSE session[d].conn
            /\ session'[d].released = session[d].released
            /\ session'[d].player = IF d = c THEN c ELSE session[d].player
            /\ session'[d].eventConnect = IF d = c THEN None
                                          ELSE session[d].eventConnect
    BY <1>2, <1>3, <1>4 DEF Untouched
  <2>2. /\ \A d \in Sessions :
            /\ body'[d].client = IF d = c THEN c ELSE body[d].client
            /\ d # c => /\ body'[d].state = body[d].state
                        /\ body'[d].references = body[d].references
        /\ body'[c].state = "loaded" /\ body'[c].references = 1
    BY <1>6, <1>8
  <2> QED
    BY <2>1, <2>2, <1>1, <1>4, <1>8 DEF LinkMade
<1>10. BodyFree(c, c)
  BY <1>1, <1>2 DEF BodyFree, Untouched, FoundPlayer
<1> QED
  BY <1>1, <1>2, <1>9, <1>10, LinkMadeKeeps

\* login that places the new player.
LEMMA LoginPlacedStep ==
  ASSUME LoginInv, NEW c \in Sessions, LoginPlaced(c)
  PROVE  LoginInv'
<1> DEFINE L == [session EXCEPT ![c].player = c,
                                ![c].acceptPackets = TRUE]
<1>0. session \in SessionMap /\ body \in BodyMap
  BY InvGives
<1>1. /\ Runs("login", c) /\ FoundPlayer = {} /\ AddToAutosend(c)
  BY DEF LoginPlaced
<1>2. PICK kicked \in BOOLEAN :
        /\ tasks' = IF kicked THEN ReleaseOf(Tail(tasks), c) ELSE Tail(tasks)
        /\ session' = IF kicked THEN Shut(L, {c}) ELSE L
        /\ body' = [body EXCEPT
                ![c].state = IF kicked THEN "removed" ELSE "inGame",
                ![c].client = c, ![c].references = 2]
        /\ toRelease' = IF kicked THEN toRelease \cup {c} ELSE toRelease
  BY DEF LoginPlaced
<1>3. /\ Untouched(c) /\ body[c].client = None /\ c \in Links
      /\ None \in Links
  BY <1>1, LoginStarts DEF Links
<1>4. /\ L \in SessionMap
      /\ \A d \in Sessions :
            /\ L[d].player = IF d = c THEN c ELSE session[d].player
            /\ L[d].conn = session[d].conn
            /\ L[d].released = session[d].released
            /\ L[d].eventConnect = session[d].eventConnect
  <2>1. PlayerIs(L, session, c, c)
    BY <1>0, PlayerSet
  <2> HIDE DEF L
  <2> QED
    BY <2>1 DEF PlayerIs
<1> HIDE DEF L
<1> DEFINE x == IF kicked THEN c ELSE None
           v == IF kicked THEN "removed" ELSE "inGame"
           B == [body[c] EXCEPT !.state = v, !.client = c, !.references = 2]
<1>5. /\ session' \in SessionMap
      /\ \A d \in Sessions :
            /\ session'[d].conn = IF d = x /\ session[d].conn = "open"
                                  THEN "closed" ELSE session[d].conn
            /\ session'[d].released = session[d].released
            /\ session'[d].player = IF d = c THEN c ELSE session[d].player
            /\ session'[d].eventConnect = IF d = c THEN None
                                          ELSE session[d].eventConnect
  <2>1. CASE kicked
    <3>1. /\ Shut(L, {c}) \in SessionMap
          /\ \A d \in Sessions :
                /\ Shut(L, {c})[d].conn
                        = IF d = c /\ L[d].conn = "open"
                          THEN "closed" ELSE L[d].conn
                /\ Shut(L, {c})[d].released = L[d].released
                /\ Shut(L, {c})[d].player = L[d].player
                /\ Shut(L, {c})[d].eventConnect = L[d].eventConnect
      BY <1>4, ShutIs
    <3>2. session' = Shut(L, {c}) /\ x = c
      BY <2>1, <1>2
    <3> HIDE DEF x
    <3> QED
      BY ZenonT(30), <3>1, <3>2, <1>3, <1>4 DEF Untouched
  <2>2. CASE ~kicked
    <3>1. session' = L /\ x = None /\ None \notin Sessions
      BY <2>2, <1>2, LoginAssumption DEF Sessions
    <3> HIDE DEF x
    <3> QED
      BY <3>1, <1>3, <1>4 DEF Untouched
  <2> QED
    BY <2>1, <2>2
<1>6. body[c] \in BodyRecords /\ v \in {"removed", "inGame"}
  BY <1>0, RecordsTyped
<1>7. body' = [body EXCEPT ![c] = B]
  BY <1>0, <1>2 DEF BodyMap
<1>8. /\ tasks' = ReleaseOf(Tail(tasks), x) /\ x \in Links
      /\ toRelease' = IF v = "removed" THEN toRelease \cup {c}
                      ELSE toRelease
  BY <1>2, <1>3 DEF ReleaseOf, IsOpen
<1> HIDE DEF v, x
<1>9. /\ B \in BodyRecords /\ B.state = v /\ B.client = c
      /\ B.references = 2
  BY <1>3, <1>6 DEF BodyRecords
<1> HIDE DEF B
<1>10. /\ body' \in BodyMap
       /\ \A d \in Sessions : body'[d] = IF d = c THEN B ELSE body[d]
  BY ZenonT(30), <1>0, <1>7, <1>9, BodySet
<1>11. LinkMade(c, c, x)
  <2>1. /\ \A d \in Sessions :
            /\ body'[d].client = IF d = c THEN c ELSE body[d].client
            /\ d # c => /\ body'[d].state = body[d].state
                        /\ body'[d].references = body[d].references
        /\ body'[c].state = v /\ body'[c].references = 2
    BY <1>9, <1>10
  <2> QED
    BY <2>1, <1>5, <1>6, <1>8, <1>10 DEF LinkMade
<1>12. BodyFree(c, c)
  BY <1>1, <1>3 DEF BodyFree, Untouched, FoundPlayer
<1> QED
  BY <1>1, <1>8, <1>11, <1>12, LinkMadeKeeps

\* connect makes a link.
LEMMA LinkedMakes ==
  ASSUME LoginInv, NEW c \in Sessions, NEW b \in InGame,
         body[b].client = None, Linked(c, b), toRelease' = toRelease
  PROVE  LinkMade(c, b, None) /\ BodyFree(b, c)
<1> DEFINE r == [session[c] EXCEPT !.player = b, !.eventConnect = None,
                                   !.acceptPackets = TRUE]
           n == body[b].references + 1
           B == [body[b] EXCEPT !.client = c, !.isConnecting = FALSE,
                                !.references = n]
<1>0. /\ session \in SessionMap /\ body \in BodyMap /\ BodiesFit
      /\ b \in Sessions /\ body[b].state = "inGame"
  BY InvGives DEF InGame
<1>1. /\ b \in Links /\ c \in Links /\ None \in Links
      /\ None \notin Sessions
  BY <1>0, LoginAssumption DEF Links, Sessions
<1>2. session[c] \in SessionRecords /\ body[b] \in BodyRecords
  BY <1>0, RecordsTyped
<1>3. /\ session' = [session EXCEPT ![c] = r]
      /\ body' = [body EXCEPT ![b] = B]
  BY <1>0 DEF Linked, SessionMap, BodyMap
<1>4. n = 2
  BY <1>0 DEF BodiesFit, Holders
<1>5. /\ r \in SessionRecords /\ r.player = b /\ r.conn = session[c].conn
      /\ r.released = session[c].released /\ r.eventConnect = None
  BY <1>1, <1>2 DEF SessionRecords
<1> HIDE DEF n, r
<1>6. /\ B \in BodyRecords /\ B.state = "inGame" /\ B.client = c
      /\ B.references = 2
  BY <1>0, <1>1, <1>2, <1>4 DEF BodyRecords
<1> HIDE DEF B
<1>7. /\ session' \in SessionMap
      /\ \A d \in Sessions : session'[d] = IF d = c THEN r ELSE session[d]
  BY <1>0, <1>3, <1>5 DEF SessionMap
<1>8. /\ body' \in BodyMap
      /\ \A d \in Sessions : body'[d] = IF d = b THEN B ELSE body[d]
  <2>1. /\ b \in Sessions /\ body \in BodyMap /\ B \in BodyRecords
        /\ body' = [body EXCEPT ![b] = B]
    BY <1>0, <1>3, <1>6
  <2> QED
    BY <2>1, BodySet
<1>9. LinkMade(c, b, None)
  <2>1. \A d \in Sessions :
            /\ session'[d].conn = IF d = None /\ session[d].conn = "open"
                                  THEN "closed" ELSE session[d].conn
            /\ session'[d].released = session[d].released
            /\ session'[d].player = IF d = c THEN b ELSE session[d].player
            /\ session'[d].eventConnect = IF d = c THEN None
                                          ELSE session[d].eventConnect
    BY <1>1, <1>5, <1>7
  <2>2. /\ \A d \in Sessions :
            /\ body'[d].client = IF d = b THEN c ELSE body[d].client
            /\ d # b => /\ body'[d].state = body[d].state
                        /\ body'[d].references = body[d].references
        /\ body'[b].state = "inGame" /\ body'[b].references = 2
    BY <1>0, <1>6, <1>8
  <2> QED
    BY <2>1, <2>2, <1>7, <1>8 DEF LinkMade
<1>10. BodyFree(b, c)
  BY <1>0, <1>6, <1>8 DEF BodyFree
<1> QED
  BY <1>9, <1>10

\* connect takes the body over.
LEMMA ConnectStep ==
  ASSUME LoginInv, NEW c \in Sessions, Connect(c)
  PROVE  LoginInv'
<1> DEFINE b == session[c].eventConnect
<1>1. /\ Runs("connect", c) /\ b \in InGame /\ body[b].client = None
      /\ tasks' = Tail(tasks) /\ Linked(c, b) /\ toRelease' = toRelease
      /\ NoAutosend
  <2>1. session \in SessionMap /\ TasksFit
    BY InvGives
  <2>2. Runs("connect", c)
    BY DEF Connect
  <2>3. Has(tasks, Task("connect", c))
    BY <2>2, TaskServed DEF TaskKinds
  <2>4. b # None /\ b \in Links
    BY <2>1, <2>3, RecordsTyped DEF TasksFit
  <2>5. body[b].state = "inGame" /\ body[b].client = None
    BY DEF Connect, CanTakeOver
  <2>6. b \in InGame
    BY <2>4, <2>5 DEF Links, InGame
  <2> QED
    BY <2>2, <2>5, <2>6 DEF Connect
<1> HIDE DEF b
<1>2. LinkMade(c, b, None) /\ BodyFree(b, c)
  BY <1>1, LinkedMakes
<1>3. /\ tasks' = ReleaseOf(Tail(tasks), None) /\ None \in Links
      /\ b \in Sessions
  BY <1>1 DEF ReleaseOf, IsOpen, Links, InGame
<1> QED
  BY <1>1, <1>2, <1>3, LinkMadeKeeps

(* A login that makes no link: at most a session x is closed, and the      *)
(* session of the login waits for a body.                                  *)
LEMMA NoLinkMade ==
  ASSUME LoginInv, NEW c \in Sessions, Runs("login", c), NEW x \in Links,
         tasks' = ReleaseOf(Tail(tasks), x), AddToAutosend(c),
         session' \in SessionMap, body' \in BodyMap, toRelease' = toRelease,
         \A d \in Sessions :
            /\ session'[d].conn = IF d = x /\ session[d].conn = "open"
                                  THEN "closed" ELSE session[d].conn
            /\ session'[d].released = session[d].released
            /\ session'[d].player = session[d].player
            /\ d # c => session'[d].eventConnect = session[d].eventConnect,
         \A d \in Sessions :
            /\ body'[d].client = body[d].client
            /\ body'[d].state = body[d].state
            /\ body'[d].references = body[d].references
  PROVE  LoginInv'
<1>0. /\ session \in SessionMap /\ body \in BodyMap
      /\ toRelease \subseteq Sessions
      /\ OneBody /\ LinksAgree /\ TasksFit /\ BodiesFit
  BY InvGives
<1>1. /\ QueueFit(tasks')
      /\ \A d \in Sessions :
            /\ Has(tasks', Task("login", d)) =>
                    Has(tasks, Task("login", d)) /\ d # c
            /\ Has(tasks', Task("connect", d)) =>
                    Has(tasks, Task("connect", d))
            /\ \A l \in TaskKinds : Has(tasks', Task(l, d)) =>
                    session[d].conn # "none"
            /\ session[d].conn = "open" /\ d # x =>
                    ~Has(tasks', Task("release", d))
  <2>1. "login" \in TaskKinds
    BY DEF TaskKinds
  <2> QED
    BY <2>1, ServedAndClosed
<1>2. /\ Untouched(c) /\ session[c].conn # "none"
      /\ ~Has(tasks, Task("connect", c))
  <2>1. Untouched(c) /\ session[c].conn # "none"
    BY LoginStarts
  <2> QED
    BY <2>1, <1>0 DEF TasksFit, Untouched
<1>3. InGame' = InGame
  BY DEF InGame
<1>4. OneBody' /\ BodiesFit'
  BY <1>0, <1>3 DEF OneBody, BodiesFit, Holders
<1>5. LinksAgree'
  <2>1. \A d \in Sessions : /\ session[d].player \in Links
                            /\ body[d].client \in Links
    BY <1>0, RecordsTyped
  <2> QED
    BY <2>1, <1>0 DEF LinksAgree, Links
<1>6. TasksFit'
  <2>1. ASSUME NEW d \in Sessions
        PROVE  /\ session'[d].conn = "none" =>
                    /\ Untouched(d)'
                    /\ \A l \in TaskKinds : ~Has(tasks', Task(l, d))
               /\ session'[d].conn = "open" =>
                    ~Has(tasks', Task("release", d))
               /\ Has(tasks', Task("login", d)) => Untouched(d)'
               /\ Has(tasks', Task("connect", d)) =>
                    session'[d].eventConnect # None
               /\ session'[d].eventConnect # None =>
                    session'[d].player = None
    <3>1. d # c /\ Untouched(d) => Untouched(d)'
      BY DEF Untouched
    <3>2. /\ session[d].conn = "none" => Untouched(d)
          /\ Has(tasks, Task("login", d)) => Untouched(d)
          /\ Has(tasks, Task("connect", d)) =>
                session[d].eventConnect # None
          /\ session[d].eventConnect # None => session[d].player = None
      BY <1>0 DEF TasksFit
    <3>3. CASE d = c
      BY <3>3, <1>1, <1>2 DEF Untouched
    <3>4. CASE d # c
      BY <3>1, <3>2, <3>4, <1>1
    <3> QED
      BY <3>3, <3>4
  <2> QED
    BY <2>1 DEF TasksFit
<1>7. LoginsStay
  BY <1>1 DEF LoginsStay
<1>8. SendingFits(c)
  BY <1>1 DEF SendingFits
<1>9. /\ AutosendServed' /\ autosend' \subseteq Sessions
      /\ sendEvents' <= Cardinality(LoggedIn')
      /\ sendEvents' \in 0 .. MaxSession
  BY <1>7, <1>8, SendingGoesOn
<1> QED
  BY <1>0, <1>1, <1>4, <1>5, <1>6, <1>9, LoginKept

\* login finds a body without a client.
LEMMA LoginConnectsStep ==
  ASSUME LoginInv, NEW c \in Sessions, LoginConnects(c)
  PROVE  LoginInv'
<1>1. /\ Runs("login", c) /\ tasks' = Tail(tasks) /\ AddToAutosend(c)
      /\ toRelease' = toRelease
  BY DEF LoginConnects
<1>2. PICK b \in InGame :
        /\ body[b].client = None
        /\ IF session[c].conn = "gone" THEN UNCHANGED <<session, body>>
           ELSE Linked(c, b)
  BY DEF LoginConnects, FoundPlayer
<1>3. /\ tasks' = ReleaseOf(Tail(tasks), None) /\ None \in Links
      /\ b \in Sessions /\ None \notin Sessions
  BY <1>1, LoginAssumption DEF ReleaseOf, IsOpen, Links, InGame, Sessions
<1>4. CASE session[c].conn = "gone"
  <2>1. session' = session /\ body' = body
    BY <1>2, <1>4
  <2>2. session \in SessionMap /\ body \in BodyMap
    BY InvGives
  <2> QED
    BY <2>1, <2>2, <1>1, <1>3, NoLinkMade
<1>5. CASE session[c].conn # "gone"
  <2>1. LinkMade(c, b, None) /\ BodyFree(b, c)
    BY <1>1, <1>2, <1>5, LinkedMakes
  <2> QED
    BY <2>1, <1>1, <1>3, LinkMadeKeeps
<1> QED
  BY <1>4, <1>5

\* login finds a body with a client, which is disconnected.
LEMMA LoginReplacesStep ==
  ASSUME LoginInv, NEW c \in Sessions, LoginReplaces(c)
  PROVE  LoginInv'
<1>0. session \in SessionMap /\ body \in BodyMap
  BY InvGives
<1>1. /\ Runs("login", c) /\ AddToAutosend(c) /\ toRelease' = toRelease
  BY DEF LoginReplaces
<1>2. PICK b \in InGame :
        /\ body[b].client # None
        /\ tasks' = ReleaseOf(Tail(tasks), body[b].client)
        /\ session' = [Shut(session, {body[b].client})
                            EXCEPT ![c].eventConnect = b]
        /\ body' = [body EXCEPT ![b].isConnecting = TRUE]
  BY DEF LoginReplaces, FoundPlayer
<1> DEFINE x == body[b].client
           S == Shut(session, {x})
           B == [body[b] EXCEPT !.isConnecting = TRUE]
<1>3. b \in Sessions /\ b \in Links /\ x \in Links
  BY <1>0, RecordsTyped DEF InGame, Links
<1>4. /\ S \in SessionMap
      /\ \A d \in Sessions :
            /\ S[d].conn = IF d = x /\ session[d].conn = "open"
                           THEN "closed" ELSE session[d].conn
            /\ S[d].released = session[d].released
            /\ S[d].player = session[d].player
            /\ S[d].eventConnect = session[d].eventConnect
  BY <1>0, ShutIs
<1>5. /\ tasks' = ReleaseOf(Tail(tasks), x)
      /\ session' = [S EXCEPT ![c].eventConnect = b]
      /\ body' = [body EXCEPT ![b] = B]
  BY <1>0, <1>2, <1>3 DEF BodyMap
<1>6. body[b] \in BodyRecords
  BY <1>0, <1>3, RecordsTyped
<1>7. /\ B \in BodyRecords /\ B.client = x
      /\ B.state = body[b].state /\ B.references = body[b].references
  BY <1>6 DEF BodyRecords
<1> HIDE DEF x, S, B
<1>8. /\ session' \in SessionMap
      /\ \A d \in Sessions :
            /\ session'[d].conn = S[d].conn
            /\ session'[d].released = S[d].released
            /\ session'[d].player = S[d].player
            /\ d # c => session'[d].eventConnect = S[d].eventConnect
  <2> DEFINE r == [S[c] EXCEPT !.eventConnect = b]
  <2>1. session' = [S EXCEPT ![c] = r]
    BY <1>4, <1>5 DEF SessionMap
  <2>2. S[c] \in SessionRecords
    BY <1>4 DEF SessionMap
  <2>3. /\ r \in SessionRecords /\ r.conn = S[c].conn
        /\ r.released = S[c].released /\ r.player = S[c].player
    BY <2>2, <1>3 DEF SessionRecords
  <2> HIDE DEF r
  <2>4. /\ session' \in SessionMap
        /\ \A d \in Sessions : session'[d] = IF d = c THEN r ELSE S[d]
    BY <2>1, <2>3, <1>4 DEF SessionMap
  <2> QED
    BY <2>3, <2>4
<1>9. /\ body' \in BodyMap
      /\ \A d \in Sessions : body'[d] = IF d = b THEN B ELSE body[d]
  BY ZenonT(30), <1>0, <1>3, <1>5, <1>7, BodySet
<1>10. \A d \in Sessions :
            /\ body'[d].client = body[d].client
            /\ body'[d].state = body[d].state
            /\ body'[d].references = body[d].references
  BY <1>7, <1>9 DEF x
<1>11. \A d \in Sessions :
            /\ session'[d].conn = IF d = x /\ session[d].conn = "open"
                                  THEN "closed" ELSE session[d].conn
            /\ session'[d].released = session[d].released
            /\ session'[d].player = session[d].player
            /\ d # c => session'[d].eventConnect = session[d].eventConnect
  BY <1>4, <1>8
<1> QED
  BY <1>1, <1>3, <1>5, <1>8, <1>9, <1>10, <1>11, NoLinkMade

-----------------------------------------------------------------------------
\* A task of the dispatcher ...
LEMMA RunTaskStep ==
  ASSUME LoginInv, NEW c \in Sessions, RunTask(c)
  PROVE  LoginInv'
BY LoginRefusedStep, LoginPlacedStep, LoginConnectsStep, LoginReplacesStep,
   ConnectRefusedStep, ConnectExpiredStep, ConnectStep, LogoutDeniedStep,
   LogoutStep, ReleaseStep DEF RunTask

\* ... and a kick.
LEMMA KickStep ==
  ASSUME LoginInv, NEW b \in Sessions, Kick(b)
  PROVE  LoginInv'
BY TakeOutStep DEF Kick, NoPong, IdleTooLong, KickPlayer

\* A character in the game goes elsewhere.
LEMMA MovesStep ==
  ASSUME LoginInv, Moves PROVE LoginInv'
<1>1. UNCHANGED <<tasks, session, body, toRelease, autosend, sendEvents>>
  BY DEF Moves, NoAutosend
<1> QED
  BY <1>1 DEF LoginInv, LoginFits, QueueFit, OneBody, InGame, LinksAgree,
              AutosendServed, TasksFit, Has, Untouched, BodiesFit, Holders,
              LoggedIn

\* The tile of the character has the flag, or has it not.
LEMMA TileKept ==
  ASSUME TileFits, [LoginNext]_LoginVars PROVE TileFits'
<1> SUFFICES noLogout' \in BOOLEAN
  BY DEF TileFits
<1>1. noLogout \in BOOLEAN
  BY DEF TileFits
<1>2. CASE UNCHANGED LoginVars
  BY <1>1, <1>2 DEF LoginVars
<1>3. ASSUME NEW c \in Sessions, RunTask(c) PROVE noLogout' \in BOOLEAN
  <2>1. CASE LoginPlaced(c)
    BY <2>1 DEF LoginPlaced
  <2>2. CASE \/ LoginRefused(c) \/ LoginConnects(c) \/ LoginReplaces(c)
             \/ ConnectRefused(c) \/ ConnectExpired(c) \/ Connect(c)
             \/ LogoutDenied(c) \/ Release(c)
    BY <1>1, <2>2
       DEF LoginRefused, LoginConnects, LoginReplaces, ConnectRefused,
           ConnectExpired, Connect, LogoutDenied, Release, StaysIn
  <2>3. CASE Logout(c)
    BY <1>1, <2>3 DEF Logout, TakenOut, StaysIn
  <2> QED
    BY <1>3, <2>1, <2>2, <2>3 DEF RunTask
<1>4. ASSUME NEW c \in Sessions,
             \/ FirstMessage(c) \/ ConnectDue(c) \/ RequestLogout(c)
             \/ CloseConnection(c) \/ Expire(c) \/ WriteToOutputBuffer(c)
      PROVE  noLogout' \in BOOLEAN
  BY <1>1, <1>4 DEF FirstMessage, ConnectDue, RequestLogout,
                    CloseConnection, Expire, WriteToOutputBuffer, StaysIn
<1>5. ASSUME NEW b \in Sessions, Kick(b) \/ Die(b)
      PROVE  noLogout' \in BOOLEAN
  BY <1>5 DEF Kick, NoPong, IdleTooLong, KickPlayer, TakeOut, Die, TakenOut
<1>6. CASE Moves \/ Cleanup \/ SendAll
  BY <1>1, <1>6 DEF Moves, Cleanup, SendAll, StaysIn
<1> QED
  BY <1>2, <1>3, <1>4, <1>5, <1>6 DEF LoginNext

\* Every step keeps the invariant of the sessions.
LEMMA LoginKeeps == LoginInv /\ [LoginNext]_LoginVars => LoginInv'
<1> SUFFICES ASSUME LoginInv, [LoginNext]_LoginVars PROVE LoginInv'
  OBVIOUS
<1>1. ASSUME UNCHANGED LoginVars PROVE LoginInv'
  <2>1. /\ session' = session /\ tasks' = tasks
        /\ StaysIn /\ NoAutosend
    BY <1>1 DEF LoginVars, StaysIn, NoAutosend
  <2>2. session \in SessionMap /\ QueueFit(tasks) /\ TasksFit
    BY InvGives
  <2>3. SessionsStay
    BY <2>1, <2>2 DEF SessionsStay
  <2>4. TasksStay
    BY <2>1, <2>2 DEF TasksStay, TasksFit
  <2> QED
    BY <2>1, <2>3, <2>4, NobodyLeaves, NothingToSend, LinksLeftAlone
<1>2. ASSUME LoginNext PROVE LoginInv'
  BY <1>2, FirstMessageStep, RunTaskStep, ConnectDueStep, RequestLogoutStep,
     CloseConnectionStep, ExpireStep, WriteStep, KickStep, DieStep,
     MovesStep, CleanupStep, SendAllStep DEF LoginNext
<1> QED
  BY <1>1, <1>2

\* At the start nobody has come.
LEMMA LoginInitial == LoginInit => LoginInv
<1> SUFFICES ASSUME LoginInit PROVE LoginInv
  OBVIOUS
<1>1. /\ tasks = <<>> /\ toRelease = {} /\ autosend = {} /\ sendEvents = 0
      /\ \A c \in Sessions :
            /\ session[c].conn = "none" /\ session[c].released = FALSE
            /\ session[c].player = None /\ session[c].eventConnect = None
      /\ \A b \in Sessions :
            /\ body[b].state = "none" /\ body[b].client = None
            /\ body[b].references = 0
  BY DEF LoginInit
<1>2. session \in SessionMap /\ body \in BodyMap
  BY DEF LoginInit, SessionMap, SessionRecords, BodyMap, BodyRecords, Links
<1>3. InGame = {} /\ LoggedIn = {}
  BY <1>1 DEF InGame, LoggedIn
<1>4. DOMAIN tasks = {} /\ QueueFit(tasks)
  BY <1>1 DEF QueueFit
<1>5. OneBody /\ LinksAgree /\ AutosendServed /\ BodiesFit
  BY <1>1, <1>3 DEF OneBody, LinksAgree, AutosendServed, BodiesFit, Holders
<1>6. TasksFit
  BY <1>1, <1>4 DEF TasksFit, Untouched, Has
<1>7. /\ sendEvents \in 0 .. MaxSession
      /\ sendEvents <= Cardinality(LoggedIn)
  BY <1>1, <1>3, FS_EmptySet, LoginAssumption
<1>8. LoginFits
  BY <1>1, <1>2, <1>4, <1>7, LoginTyped DEF QueueFit
<1> QED
  BY <1>4, <1>5, <1>6, <1>7, <1>8 DEF LoginInv

(* The invariant says all of LoginSound: the counters count the holders.   *)
LEMMA LoginInvSound == LoginInv /\ TileFits => LoginSound
<1> SUFFICES ASSUME LoginInv, TileFits PROVE LoginSound
  OBVIOUS
<1>0. /\ session \in SessionMap /\ body \in BodyMap
      /\ OneBody /\ LinksAgree /\ BodiesFit
  BY InvGives
<1>1. OneInGame
  <2>1. CASE InGame = {}
    BY <2>1, FS_EmptySet DEF OneInGame
  <2>2. ASSUME NEW b \in InGame PROVE OneInGame
    <3>1. InGame = {b}
      BY <2>2, <1>0 DEF OneBody
    <3> QED
      BY <3>1, FS_Singleton DEF OneInGame
  <2> QED
    BY <2>1, <2>2
<1>2. ASSUME NEW b \in Sessions
      PROVE  body[b].references =
                Cardinality({c \in Sessions : session[c].player = b})
                + Cardinality({b} \cap (InGame \cup toRelease))
  <2> DEFINE H == {c \in Sessions : session[c].player = b}
             G == {b} \cap (InGame \cup toRelease)
  <2>1. Cardinality(H) = IF body[b].client = None THEN 0 ELSE 1
    <3>0. None \notin Sessions
      BY LoginAssumption DEF Sessions
    <3>1. \A c \in Sessions : session[c].player = b => body[b].client = c
      BY <3>0, <1>0 DEF LinksAgree
    <3>2. CASE body[b].client = None
      <4>1. H = {}
        BY <3>0, <3>1, <3>2
      <4> QED
        BY <4>1, <3>2, FS_EmptySet
    <3>3. CASE body[b].client # None
      <4>1. body[b].client \in Sessions
        BY <3>3, <1>0, RecordsTyped DEF Links
      <4>2. H = {body[b].client}
        BY <3>1, <3>3, <4>1, <1>0 DEF LinksAgree
      <4> QED
        BY <4>2, <3>3, FS_Singleton
    <3> QED
      BY <3>2, <3>3
  <2>2. Cardinality(G) = IF b \in InGame \cup toRelease THEN 1 ELSE 0
    <3>1. CASE b \in InGame \cup toRelease
      <4>1. G = {b}
        BY <3>1
      <4> QED
        BY <4>1, <3>1, FS_Singleton
    <3>2. CASE b \notin InGame \cup toRelease
      <4>1. G = {}
        BY <3>2
      <4> QED
        BY <4>1, <3>2, FS_EmptySet
    <3> QED
      BY <3>1, <3>2
  <2>3. body[b].references = Holders(b)
    BY <1>0 DEF BodiesFit
  <2> HIDE DEF H, G
  <2>4. body[b].references = Cardinality(H) + Cardinality(G)
    BY <2>1, <2>2, <2>3 DEF Holders
  <2> QED
    BY <2>4 DEF H, G
<1>3. ReferencesExact
  BY <1>2 DEF ReferencesExact
<1>4. LoginTypeOK
  BY DEF LoginTypeOK, LoginInv, LoginFits, TileFits
<1> QED
  BY <1>1, <1>3, <1>4 DEF LoginInv, LoginSound

-----------------------------------------------------------------------------
(* The market (Market).                                                    *)

\* What an offer holds back of its owner's gold, or of its goods.
Worth(x) == IF x # NoOffer /\ x.type = "BUY" THEN x.price * x.amount ELSE 0

Pieces(x) == IF x # NoOffer /\ x.type = "SELL" THEN x.amount ELSE 0

StandingGold(os) == [o \in OfferIds |-> Worth(os[o])]

StandingGoods(os) == [o \in OfferIds |-> Pieces(os[o])]

\* What a trader has in the depot and in the inbox.
GoodsOf(g, i) == g["stack"] + g["single"] + i["stack"] + i["single"]

Owned(g, i) == [p \in Traders |-> GoodsOf(g[p], i[p])]

GoldGiven == SumOver([p \in Traders |-> StartGold], Traders)

GoodsGiven == SumOver([p \in Traders |-> 2 * StartGoods], Traders)

GoldAdds ==
    SumOver(gold, Traders) + SumOver(StandingGold(offers), OfferIds) + burned
        = GoldGiven + overpaid

GoodsAdd ==
    SumOver(Owned(goods, inbox), Traders)
        + SumOver(StandingGoods(offers), OfferIds) + vanished
        = GoodsGiven + swapped

\* Offer x is what was left of y later.
LeftOf(x, y) ==
    /\ x.owner = y.owner /\ x.type = y.type /\ x.kind = y.kind
    /\ x.price = y.price /\ x.amount <= y.amount

OffersFit ==
    \A o \in OfferIds : offers[o] # NoOffer =>
        o <= created /\ (offers[o].type = "SELL" => offers[o].amount = 1)

\* The row of an expiry query and the table as it is now.
RowFits(r) ==
    /\ r.id <= created
    /\ r.offer.type = "SELL" => r.offer.amount = 1
    /\ offers[r.id] # NoOffer => LeftOf(offers[r.id], r.offer)

RowsFit(rows) ==
    /\ IsFiniteSet(rows)
    /\ \A r \in rows : RowFits(r)
    /\ \A r, s \in rows : r.id = s.id => r = s

MarketInv ==
    /\ MarketTypeOK
    /\ OffersFit
    /\ \A i \in DOMAIN results : RowsFit(results[i])
    /\ GoldAdds /\ GoodsAdd
    /\ swapped <= created
    /\ overgiven = 0

GoodsMap == [Traders -> [Kinds -> Nat]]

OfferMap == [OfferIds -> Offers \cup {NoOffer}]

\* The sums of the properties are sums.
LEMMA TotalIsSum ==
  ASSUME NEW f, NEW S
  PROVE  Total(f, S) = SumOver(f, S)
BY DEF Total, SumOver

\* What the properties say of gold and goods.
LEMMA MarketInvSound == MarketInv => MarketSound
<1> SUFFICES ASSUME MarketInv PROVE MarketSound
  OBVIOUS
<1>1. StandingGold(offers) =
        [o \in OfferIds |-> IF Open(o) /\ offers[o].type = "BUY"
                            THEN offers[o].price * offers[o].amount ELSE 0]
  BY DEF StandingGold, Worth, Open
<1>2. StandingGoods(offers) =
        [o \in OfferIds |-> IF Open(o) /\ offers[o].type = "SELL"
                            THEN offers[o].amount ELSE 0]
  BY DEF StandingGoods, Pieces, Open
<1>3. Owned(goods, inbox) =
        [p \in Traders |-> goods[p]["stack"] + goods[p]["single"]
                           + inbox[p]["stack"] + inbox[p]["single"]]
  BY DEF Owned, GoodsOf
<1>4. GoldAccounted
  BY <1>1, TotalIsSum DEF GoldAccounted, MarketInv, GoldAdds, GoldGiven
<1>5. GoodsAccounted
  BY <1>2, <1>3, TotalIsSum
  DEF GoodsAccounted, MarketInv, GoodsAdd, GoodsGiven
<1> QED
  BY <1>4, <1>5 DEF MarketSound, MarketInv

\* What the types of the parameters give.
LEMMA OffersAre ==
  /\ IsFiniteSet(Traders) /\ IsFiniteSet(OfferIds)
  /\ OfferIds \subseteq Nat \ {0} /\ NoOffer \notin Offers
  /\ StartGold \in Nat /\ StartGoods \in Nat /\ Fee \in Nat
  /\ MaxResults \in Nat /\ Prices \subseteq Nat \ {0}
  /\ Amounts \subseteq Nat \ {0}
  /\ \A x \in Offers : /\ x # NoOffer /\ x.owner \in Traders
                       /\ x.type \in {"BUY", "SELL"} /\ x.kind \in Kinds
                       /\ x.amount \in Nat \ {0} /\ x.price \in Nat \ {0}
<1>1. \A x \in Offers : /\ x.owner \in Traders /\ x.type \in {"BUY", "SELL"}
                        /\ x.kind \in Kinds /\ x.amount \in Nat \ {0}
                        /\ x.price \in Nat \ {0}
  BY DEF Offers
<1> QED
  BY <1>1, MarketAssumption

\* Sums of what is offered.
LEMMA Products ==
  /\ \A a, b \in Nat : a * b \in Nat
  /\ \A a, b, c \in Int : a * b \in Int /\ a * (b - c) = a * b - a * c
                          /\ a * (b + c) = a * b + a * c
OBVIOUS

\* What an offer holds back is a number.
LEMMA WorthIs ==
  ASSUME NEW x \in Offers \cup {NoOffer}
  PROVE  /\ Worth(x) \in Nat /\ Pieces(x) \in Nat
         /\ x = NoOffer => Worth(x) = 0 /\ Pieces(x) = 0
         /\ x # NoOffer =>
              /\ x.type = "BUY" =>
                    Worth(x) = x.price * x.amount /\ Pieces(x) = 0
              /\ x.type = "SELL" => Worth(x) = 0 /\ Pieces(x) = x.amount
<1>1. CASE x = NoOffer
  BY <1>1 DEF Worth, Pieces
<1>2. CASE x \in Offers
  <2>1. x.price * x.amount \in Nat /\ x.amount \in Nat /\ x # NoOffer
    BY <1>2, OffersAre, Products
  <2> QED
    BY <2>1 DEF Worth, Pieces
<1> QED
  BY <1>1, <1>2

\* The sums of an account are numbers.
LEMMA AccountsTyped ==
  /\ \A g \in [Traders -> Nat] : SumOver(g, Traders) \in Nat
  /\ \A os \in OfferMap : /\ SumOver(StandingGold(os), OfferIds) \in Nat
                          /\ SumOver(StandingGoods(os), OfferIds) \in Nat
  /\ \A g, i \in GoodsMap : SumOver(Owned(g, i), Traders) \in Nat
  /\ GoldGiven \in Nat /\ GoodsGiven \in Nat
<1>1. \A g \in [Traders -> Nat] : SumOver(g, Traders) \in Nat
  BY OffersAre, SumNat
<1>2. ASSUME NEW os \in OfferMap
      PROVE  /\ SumOver(StandingGold(os), OfferIds) \in Nat
             /\ SumOver(StandingGoods(os), OfferIds) \in Nat
  <2>1. \A o \in OfferIds : StandingGold(os)[o] \in Nat
    BY WorthIs DEF StandingGold, OfferMap
  <2>2. \A o \in OfferIds : StandingGoods(os)[o] \in Nat
    BY WorthIs DEF StandingGoods, OfferMap
  <2> QED
    BY <2>1, <2>2, OffersAre, SumNat
<1>3. ASSUME NEW g \in GoodsMap, NEW i \in GoodsMap
      PROVE  SumOver(Owned(g, i), Traders) \in Nat
  <2>1. \A p \in Traders : Owned(g, i)[p] \in Nat
    BY DEF Owned, GoodsOf, GoodsMap, Kinds
  <2> QED
    BY <2>1, OffersAre, SumNat
<1>4. GoldGiven \in Nat /\ GoodsGiven \in Nat
  <2>1. \A p \in Traders : [q \in Traders |-> StartGold][p] \in Nat
    BY OffersAre
  <2>2. \A p \in Traders : [q \in Traders |-> 2 * StartGoods][p] \in Nat
    BY OffersAre
  <2> QED
    BY <2>1, <2>2, OffersAre, SumNat DEF GoldGiven, GoodsGiven
<1> QED
  BY <1>1, <1>2, <1>3, <1>4

\* One trader's gold changes.
LEMMA OneTraderPays ==
  ASSUME NEW g \in [Traders -> Nat], NEW h \in [Traders -> Int],
         NEW p \in Traders, \A q \in Traders \ {p} : h[q] = g[q]
  PROVE  SumOver(h, Traders) = SumOver(g, Traders) - g[p] + h[p]
<1>1. \A q \in Traders : g[q] \in Int /\ h[q] \in Int
  OBVIOUS
<1> QED
  BY <1>1, OffersAre, SumOneChanged

\* One offer changes.
LEMMA OneOfferChanges ==
  ASSUME NEW os \in OfferMap, NEW pt \in OfferMap,
         NEW o \in OfferIds, \A q \in OfferIds \ {o} : pt[q] = os[q]
  PROVE  /\ SumOver(StandingGold(pt), OfferIds) =
                SumOver(StandingGold(os), OfferIds)
                    - Worth(os[o]) + Worth(pt[o])
         /\ SumOver(StandingGoods(pt), OfferIds) =
                SumOver(StandingGoods(os), OfferIds)
                    - Pieces(os[o]) + Pieces(pt[o])
<1>1. \A q \in OfferIds : /\ os[q] \in Offers \cup {NoOffer}
                          /\ pt[q] \in Offers \cup {NoOffer}
  BY DEF OfferMap
<1>2. /\ \A q \in OfferIds : /\ StandingGold(os)[q] = Worth(os[q])
                             /\ StandingGold(pt)[q] = Worth(pt[q])
                             /\ Worth(os[q]) \in Int /\ Worth(pt[q]) \in Int
      /\ \A q \in OfferIds \ {o} : Worth(pt[q]) = Worth(os[q])
  BY <1>1, WorthIs DEF StandingGold
<1>3. /\ \A q \in OfferIds : /\ StandingGoods(os)[q] = Pieces(os[q])
                             /\ StandingGoods(pt)[q] = Pieces(pt[q])
                             /\ Pieces(os[q]) \in Int
                             /\ Pieces(pt[q]) \in Int
      /\ \A q \in OfferIds \ {o} : Pieces(pt[q]) = Pieces(os[q])
  BY <1>1, WorthIs DEF StandingGoods
<1> DEFINE a == StandingGold(os)
           b == StandingGold(pt)
           c == StandingGoods(os)
           d == StandingGoods(pt)
<1>4. /\ \A q \in OfferIds : a[q] \in Int /\ b[q] \in Int
      /\ \A q \in OfferIds \ {o} : b[q] = a[q]
  BY <1>2
<1>5. /\ \A q \in OfferIds : c[q] \in Int /\ d[q] \in Int
      /\ \A q \in OfferIds \ {o} : d[q] = c[q]
  BY <1>3
<1>0. IsFiniteSet(OfferIds)
  BY OffersAre
<1> HIDE DEF a, b, c, d
<1>6. SumOver(b, OfferIds) = SumOver(a, OfferIds) - a[o] + b[o]
  BY <1>0, <1>4, SumOneChanged
<1>7. SumOver(d, OfferIds) = SumOver(c, OfferIds) - c[o] + d[o]
  BY <1>0, <1>5, SumOneChanged
<1> QED
  BY <1>2, <1>3, <1>6, <1>7 DEF a, b, c, d

\* One trader's goods change.
LEMMA OneTraderGives ==
  ASSUME NEW g \in GoodsMap, NEW i \in GoodsMap,
         NEW h \in GoodsMap, NEW j \in GoodsMap, NEW p \in Traders,
         \A q \in Traders \ {p} : h[q] = g[q] /\ j[q] = i[q]
  PROVE  SumOver(Owned(h, j), Traders) =
            SumOver(Owned(g, i), Traders)
                - GoodsOf(g[p], i[p]) + GoodsOf(h[p], j[p])
<1> DEFINE a == Owned(g, i)
           b == Owned(h, j)
<1>1. \A q \in Traders : a[q] = GoodsOf(g[q], i[q])
                         /\ b[q] = GoodsOf(h[q], j[q])
  BY DEF Owned
<1>2. \A q \in Traders : GoodsOf(g[q], i[q]) \in Int
                         /\ GoodsOf(h[q], j[q]) \in Int
  BY DEF GoodsOf, GoodsMap, Kinds
<1>3. \A q \in Traders \ {p} : b[q] = a[q]
  BY <1>1
<1> HIDE DEF a, b
<1>4. SumOver(b, Traders) = SumOver(a, Traders) - a[p] + b[p]
  BY <1>1, <1>2, <1>3, OffersAre, SumOneChanged
<1> QED
  BY <1>1, <1>4 DEF a, b

\* Goods come to a trader or leave it.
Shifted(g, p, k, n) == [g EXCEPT ![p][k] = @ + n]

\* What h has of the goods g when n of them moved.
ShiftedInto(h, g, p, k, n) ==
    /\ h \in GoodsMap
    /\ h[p][k] = g[p][k] + n
    /\ h[p]["stack"] + h[p]["single"] = g[p]["stack"] + g[p]["single"] + n
    /\ \A q \in Traders \ {p} : h[q] = g[q]
    /\ \A q \in Traders, l \in Kinds : q # p \/ l # k => h[q][l] = g[q][l]

\* That is what moving them makes.
LEMMA GoodsMove ==
  ASSUME NEW g \in GoodsMap, NEW p \in Traders, NEW k \in Kinds,
         NEW n \in Int, g[p][k] + n \in Nat
  PROVE  ShiftedInto(Shifted(g, p, k, n), g, p, k, n)
<1> DEFINE h == Shifted(g, p, k, n)
<1>1. k \in {"stack", "single"} /\ "stack" \in Kinds /\ "single" \in Kinds
  BY DEF Kinds
<1>2. /\ \A q \in Traders : g[q] \in [Kinds -> Nat]
      /\ \A q \in Traders, l \in Kinds : g[q][l] \in Nat
  BY DEF GoodsMap
<1>3. h[p] = [g[p] EXCEPT ![k] = @ + n] /\ DOMAIN h = Traders
      /\ h = [q \in Traders |-> h[q]]
      /\ \A q \in Traders \ {p} : h[q] = g[q]
  BY DEF GoodsMap, Shifted
<1> HIDE DEF h
<1>4. h[p] \in [Kinds -> Nat]
  BY <1>2, <1>3
<1>5. h \in GoodsMap
  <2>1. \A q \in Traders : h[q] \in [Kinds -> Nat]
    BY <1>2, <1>3, <1>4
  <2> QED
    BY <1>3, <2>1 DEF GoodsMap
<1>6. h[p][k] = g[p][k] + n
      /\ \A l \in Kinds \ {k} : h[p][l] = g[p][l]
  BY <1>2, <1>3
<1>7. h[p]["stack"] + h[p]["single"]
        = g[p]["stack"] + g[p]["single"] + n
  BY <1>1, <1>2, <1>6
<1>8. ShiftedInto(h, g, p, k, n)
  BY <1>3, <1>5, <1>6, <1>7 DEF ShiftedInto
<1> QED
  BY <1>8 DEF h

\* The table goes on: ids are not used again and offers only get less.
TableKeeps ==
    /\ created' \in Nat /\ created <= created'
    /\ offers' \in OfferMap
    /\ \A o \in OfferIds : o <= created =>
          \/ offers'[o] = NoOffer
          \/ offers[o] # NoOffer /\ LeftOf(offers'[o], offers[o])
    /\ OffersFit'

\* What the invariant says of each variable.
LEMMA MarketTyped ==
  ASSUME MarketInv
  PROVE  /\ gold \in [Traders -> Nat] /\ \A p \in Traders : gold[p] \in Nat
         /\ goods \in GoodsMap /\ inbox \in GoodsMap
         /\ \A p \in Traders, k \in Kinds :
                goods[p][k] \in Nat /\ inbox[p][k] \in Nat
         /\ offers \in OfferMap
         /\ \A o \in OfferIds :
                offers[o] # NoOffer => offers[o] \in Offers
         /\ created \in Nat /\ online \subseteq Traders
         /\ expired \subseteq OfferIds /\ results \in Seq(SUBSET Rows)
         /\ burned \in Nat /\ vanished \in Nat /\ overpaid \in Nat
         /\ overgiven = 0 /\ swapped \in Nat /\ swapped <= created
         /\ SumOver(gold, Traders) \in Nat
         /\ SumOver(StandingGold(offers), OfferIds) \in Nat
         /\ SumOver(StandingGoods(offers), OfferIds) \in Nat
         /\ SumOver(Owned(goods, inbox), Traders) \in Nat
         /\ GoldGiven \in Nat /\ GoodsGiven \in Nat
<1>1. MarketTypeOK /\ overgiven = 0 /\ swapped <= created
  BY DEF MarketInv
<1>2. /\ goods \in GoodsMap /\ inbox \in GoodsMap /\ offers \in OfferMap
      /\ gold \in [Traders -> Nat]
  BY <1>1 DEF MarketTypeOK, GoodsMap, OfferMap
<1>3. \A o \in OfferIds : offers[o] # NoOffer => offers[o] \in Offers
  BY <1>2 DEF OfferMap
<1>4. /\ \A p \in Traders : gold[p] \in Nat
      /\ \A p \in Traders, k \in Kinds :
            goods[p][k] \in Nat /\ inbox[p][k] \in Nat
  BY <1>2 DEF GoodsMap
<1>5. /\ created \in Nat /\ online \subseteq Traders
      /\ expired \subseteq OfferIds /\ results \in Seq(SUBSET Rows)
      /\ burned \in Nat /\ vanished \in Nat /\ overpaid \in Nat
      /\ swapped \in Nat
  BY <1>1 DEF MarketTypeOK
<1> QED
  BY <1>1, <1>2, <1>3, <1>4, <1>5, AccountsTyped

\* The rows found fit the table that goes on.
LEMMA RowsKeep ==
  ASSUME MarketInv, TableKeeps, NEW rows \in SUBSET Rows, RowsFit(rows)
  PROVE  RowsFit(rows)'
<1>1. ASSUME NEW r \in rows PROVE RowFits(r)'
  <2>1. r.id \in OfferIds /\ r.offer \in Offers /\ RowFits(r)
    BY <1>1 DEF Rows, RowsFit
  <2>2. /\ r.id \in Nat /\ created \in Nat /\ created' \in Nat
        /\ r.offer.amount \in Nat
    BY <2>1, OffersAre, MarketTyped DEF TableKeeps
  <2>3. r.id <= created' /\ r.id <= created
    BY <2>1, <2>2 DEF RowFits, TableKeeps
  <2>4. ASSUME offers'[r.id] # NoOffer PROVE LeftOf(offers'[r.id], r.offer)
    <3>1. /\ offers[r.id] # NoOffer /\ LeftOf(offers'[r.id], offers[r.id])
          /\ LeftOf(offers[r.id], r.offer)
      BY <2>1, <2>3, <2>4 DEF TableKeeps, RowFits
    <3>2. offers[r.id] \in Offers /\ offers'[r.id] \in Offers
      BY <3>1, <2>1, <2>4, MarketTyped DEF TableKeeps, OfferMap
    <3>3. offers[r.id].amount \in Nat /\ offers'[r.id].amount \in Nat
      BY <3>2, OffersAre
    <3> QED
      BY <3>1, <3>3, <2>2 DEF LeftOf
  <2>5. r.offer.type = "SELL" => r.offer.amount = 1
    BY <2>1 DEF RowFits
  <2> QED
    BY <2>3, <2>4, <2>5 DEF RowFits
<1> QED
  BY <1>1 DEF RowsFit

\* At most one piece is offered for others, and for a row.
SwapsKeep ==
    \/ UNCHANGED swapped
    \/ swapped' = swapped + 1 /\ created' = created + 1

\* Nothing but the rest changes.
LEMMA MarketRest ==
  ASSUME MarketInv, gold' \in [Traders -> Nat], online' \subseteq Traders,
         goods' \in GoodsMap, inbox' \in GoodsMap, TableKeeps,
         expired' \subseteq OfferIds, UNCHANGED <<results, overgiven>>,
         burned' \in Nat, vanished' \in Nat, overpaid' \in Nat,
         SwapsKeep, GoldAdds', GoodsAdd'
  PROVE  MarketInv'
<1>0. swapped' \in Nat /\ swapped' <= created'
  <2>1. created \in Nat /\ swapped \in Nat /\ swapped <= created
    BY MarketTyped
  <2>2. created' \in Nat /\ created <= created'
    BY <2>1 DEF TableKeeps
  <2> QED
    BY <2>1, <2>2 DEF SwapsKeep
<1>1. MarketTypeOK'
  <2>1. /\ gold' \in [Traders -> Nat] /\ online' \subseteq Traders
        /\ {goods', inbox'} \subseteq [Traders -> [Kinds -> Nat]]
        /\ expired' \subseteq OfferIds
    BY DEF GoodsMap
  <2>2. /\ offers' \in [OfferIds -> Offers \cup {NoOffer}]
        /\ created' \in Nat
    BY MarketTyped DEF OfferMap, TableKeeps
  <2>3. results' \in Seq(SUBSET Rows) /\ overgiven' \in Nat
    BY MarketTyped
  <2> QED
    BY <1>0, <2>1, <2>2, <2>3 DEF MarketTypeOK
<1>2. ASSUME NEW i \in DOMAIN results PROVE RowsFit(results[i])'
  <2>0. results \in Seq(SUBSET Rows)
    BY MarketTyped
  <2>1. results[i] \in SUBSET Rows
    BY <2>0, <1>2
  <2>2. RowsFit(results[i])
    BY <1>2 DEF MarketInv
  <2> DEFINE rows == results[i]
  <2>3. rows \in SUBSET Rows /\ RowsFit(rows)
    BY <2>1, <2>2
  <2>4. results'[i] = rows
    OBVIOUS
  <2> HIDE DEF rows
  <2>5. /\ IsFiniteSet(rows)
        /\ \A r \in rows : RowFits(r)'
        /\ \A r, s \in rows : r.id = s.id => r = s
    BY <2>3, RowsKeep DEF RowsFit
  <2> QED
    BY <2>4, <2>5 DEF RowsFit
<1>3. \A i \in DOMAIN results' : RowsFit(results[i])'
  BY <1>2
<1> QED
  BY <1>0, <1>1, <1>3, MarketTyped DEF MarketInv, TableKeeps

\* A table that is left alone goes on.
LEMMA TableStays ==
  ASSUME MarketInv, UNCHANGED <<offers, created>>
  PROVE  TableKeeps
<1>1. \A o \in OfferIds : offers[o] # NoOffer => offers[o].amount \in Nat
  BY MarketTyped, OffersAre
<1>2. OffersFit'
  BY DEF MarketInv, OffersFit
<1> QED
  BY <1>1, <1>2, MarketTyped DEF TableKeeps, LeftOf

\* A new offer holds back what it says.
LEMMA InsertIs ==
  ASSUME MarketInv, NEW x \in Offers, x.type = "SELL" => x.amount = 1,
         Insert(x)
  PROVE  /\ TableKeeps
         /\ SumOver(StandingGold(offers'), OfferIds) =
                SumOver(StandingGold(offers), OfferIds) + Worth(x)
         /\ SumOver(StandingGoods(offers'), OfferIds) =
                SumOver(StandingGoods(offers), OfferIds) + Pieces(x)
<1> DEFINE o == created + 1
<1>1. /\ o \in OfferIds /\ created' = o /\ offers' = [offers EXCEPT ![o] = x]
      /\ created \in Nat /\ offers \in OfferMap
  BY MarketTyped DEF Insert
<1>2. ~(o <= created) /\ created <= o /\ o \in Nat
  BY <1>1
<1> HIDE DEF o
<1>3. offers[o] = NoOffer
  BY <1>1, <1>2 DEF MarketInv, OffersFit
<1>4. /\ offers' \in OfferMap /\ offers'[o] = x
      /\ \A q \in OfferIds \ {o} : offers'[q] = offers[q]
  BY <1>1 DEF OfferMap
<1>5. \A q \in OfferIds : offers[q] # NoOffer => offers[q].amount \in Nat
  BY MarketTyped, OffersAre
<1>6. ASSUME NEW q \in OfferIds, q <= created
      PROVE  \/ offers'[q] = NoOffer
             \/ offers[q] # NoOffer /\ LeftOf(offers'[q], offers[q])
  BY <1>2, <1>4, <1>5, <1>6 DEF LeftOf
<1>7. ASSUME NEW q \in OfferIds, offers'[q] # NoOffer
      PROVE  /\ q <= created'
             /\ offers'[q].type = "SELL" => offers'[q].amount = 1
  <2>1. CASE q = o
    BY <2>1, <1>1, <1>2, <1>4
  <2>2. CASE q # o
    <3>1. /\ offers'[q] = offers[q] /\ q <= created
          /\ offers[q].type = "SELL" => offers[q].amount = 1
      BY <2>2, <1>4, <1>7 DEF MarketInv, OffersFit
    <3>2. q \in Nat
      BY OffersAre
    <3> QED
      BY <3>1, <3>2, <1>1, <1>2
  <2> QED
    BY <2>1, <2>2
<1>8. TableKeeps
  BY <1>1, <1>2, <1>4, <1>6, <1>7 DEF TableKeeps, OffersFit
<1> DEFINE os == offers'
<1>9. os \in OfferMap /\ \A q \in OfferIds \ {o} : os[q] = offers[q]
  BY <1>4
<1> HIDE DEF os
<1>10. /\ SumOver(StandingGold(os), OfferIds) =
                SumOver(StandingGold(offers), OfferIds)
                    - Worth(offers[o]) + Worth(os[o])
       /\ SumOver(StandingGoods(os), OfferIds) =
                SumOver(StandingGoods(offers), OfferIds)
                    - Pieces(offers[o]) + Pieces(os[o])
  BY <1>1, <1>9, OneOfferChanges
<1>11. Worth(offers[o]) = 0 /\ Pieces(offers[o]) = 0
  BY <1>3, WorthIs
<1>12. Worth(x) \in Nat /\ Pieces(x) \in Nat
  BY WorthIs
<1>13. os[o] = x
  BY <1>4 DEF os
<1> QED
  BY <1>8, <1>10, <1>11, <1>12, <1>13, MarketTyped DEF os

\* An offer that ends, or of which less is left.
LEMMA LessIs ==
  ASSUME MarketInv, NEW o \in OfferIds, offers[o] # NoOffer,
         NEW y \in Offers \cup {NoOffer},
         y # NoOffer => LeftOf(y, offers[o]),
         offers' = [offers EXCEPT ![o] = y], created' = created
  PROVE  /\ TableKeeps
         /\ SumOver(StandingGold(offers'), OfferIds) =
                SumOver(StandingGold(offers), OfferIds)
                    - Worth(offers[o]) + Worth(y)
         /\ SumOver(StandingGoods(offers'), OfferIds) =
                SumOver(StandingGoods(offers), OfferIds)
                    - Pieces(offers[o]) + Pieces(y)
<1>1. created \in Nat /\ offers \in OfferMap
  BY MarketTyped
<1>4. /\ offers' \in OfferMap /\ offers'[o] = y
      /\ \A q \in OfferIds \ {o} : offers'[q] = offers[q]
  BY <1>1 DEF OfferMap
<1>5. \A q \in OfferIds : offers[q] # NoOffer =>
                              offers[q].amount \in Nat \ {0}
  BY MarketTyped, OffersAre
<1>6. ASSUME NEW q \in OfferIds, q <= created
      PROVE  \/ offers'[q] = NoOffer
             \/ offers[q] # NoOffer /\ LeftOf(offers'[q], offers[q])
  BY <1>4, <1>5, <1>6 DEF LeftOf
<1>7. ASSUME NEW q \in OfferIds, offers'[q] # NoOffer
      PROVE  /\ q <= created'
             /\ offers'[q].type = "SELL" => offers'[q].amount = 1
  <2>1. CASE q = o
    <3>1. /\ o <= created
          /\ offers[o].type = "SELL" => offers[o].amount = 1
      BY DEF MarketInv, OffersFit
    <3>2. y.amount \in Nat \ {0} /\ y.type = offers[o].type
          /\ y.amount <= offers[o].amount
      BY <2>1, <1>4, <1>7, OffersAre DEF LeftOf
    <3> QED
      BY <2>1, <3>1, <3>2, <1>4
  <2>2. CASE q # o
    BY <2>2, <1>4, <1>7 DEF MarketInv, OffersFit
  <2> QED
    BY <2>1, <2>2
<1>8. TableKeeps
  BY <1>1, <1>4, <1>6, <1>7 DEF TableKeeps, OffersFit
<1> DEFINE os == offers'
<1>9. os \in OfferMap /\ (\A q \in OfferIds \ {o} : os[q] = offers[q])
      /\ os[o] = y
  BY <1>4
<1> HIDE DEF os
<1>10. /\ SumOver(StandingGold(os), OfferIds) =
                SumOver(StandingGold(offers), OfferIds)
                    - Worth(offers[o]) + Worth(os[o])
       /\ SumOver(StandingGoods(os), OfferIds) =
                SumOver(StandingGoods(offers), OfferIds)
                    - Pieces(offers[o]) + Pieces(os[o])
  BY <1>1, <1>9, OneOfferChanges
<1> QED
  BY <1>8, <1>9, <1>10 DEF os

\* The accounts after a step, from what it adds to each side.
LEMMA GoldAddsUp ==
  ASSUME MarketInv,
         NEW a \in Int, SumOver(gold', Traders) = SumOver(gold, Traders) + a,
         NEW b \in Int,
         SumOver(StandingGold(offers'), OfferIds) =
            SumOver(StandingGold(offers), OfferIds) + b,
         NEW c \in Int, burned' = burned + c,
         NEW d \in Int, overpaid' = overpaid + d, a + b + c = d
  PROVE  GoldAdds'
<1>1. SumOver(gold, Traders) + SumOver(StandingGold(offers), OfferIds)
        + burned = GoldGiven + overpaid
  BY DEF MarketInv, GoldAdds
<1>2. /\ SumOver(gold, Traders) \in Nat
      /\ SumOver(StandingGold(offers), OfferIds) \in Nat
      /\ burned \in Nat /\ overpaid \in Nat /\ GoldGiven \in Nat
  BY MarketTyped
<1>3. SumOver(gold', Traders) + SumOver(StandingGold(offers'), OfferIds)
        + burned' = GoldGiven + overpaid'
  BY <1>1, <1>2
<1> QED
  BY <1>3 DEF GoldAdds

LEMMA GoodsChange ==
  ASSUME MarketInv,
         NEW a \in Int, SumOver(Owned(goods', inbox'), Traders) =
                            SumOver(Owned(goods, inbox), Traders) + a,
         NEW b \in Int, SumOver(StandingGoods(offers'), OfferIds) =
                            SumOver(StandingGoods(offers), OfferIds) + b,
         NEW c \in Int, vanished' = vanished + c,
         NEW e \in Int, swapped' = swapped + e, a + b + c = e
  PROVE  GoodsAdd'
<1>1. SumOver(Owned(goods, inbox), Traders)
        + SumOver(StandingGoods(offers), OfferIds) + vanished
        = GoodsGiven + swapped
  BY DEF MarketInv, GoodsAdd
<1>2. /\ SumOver(Owned(goods, inbox), Traders) \in Nat
      /\ SumOver(StandingGoods(offers), OfferIds) \in Nat
      /\ vanished \in Nat /\ GoodsGiven \in Nat /\ swapped \in Nat
  BY MarketTyped
<1> DEFINE s == SumOver(Owned(goods, inbox), Traders)
           t == SumOver(StandingGoods(offers), OfferIds)
           u == SumOver(Owned(goods', inbox'), Traders)
           v == SumOver(StandingGoods(offers'), OfferIds)
<1>3. u = s + a /\ v = t + b /\ s + t + vanished = GoodsGiven + swapped
      /\ s \in Nat /\ t \in Nat
  BY <1>1, <1>2
<1>4. u + v + vanished' = GoodsGiven + swapped'
  <2> HIDE DEF s, t, u, v
  <2> QED
    BY <1>2, <1>3
<1> QED
  BY <1>4 DEF GoodsAdd

\* With no piece offered for others.
LEMMA GoodsAddUp ==
  ASSUME MarketInv, UNCHANGED swapped,
         NEW a \in Int, SumOver(Owned(goods', inbox'), Traders) =
                            SumOver(Owned(goods, inbox), Traders) + a,
         NEW b \in Int, SumOver(StandingGoods(offers'), OfferIds) =
                            SumOver(StandingGoods(offers), OfferIds) + b,
         NEW c \in Int, vanished' = vanished + c, a + b + c = 0
  PROVE  GoodsAdd'
<1>1. swapped' = swapped + 0 /\ 0 \in Int
  <2>1. swapped \in Nat
    BY MarketTyped
  <2> QED
    BY <2>1
<1> QED
  BY <1>1, GoodsChange

\* Nobody's goods and nobody's offers.
LEMMA GoodsStay ==
  ASSUME MarketInv, UNCHANGED <<goods, inbox, vanished, swapped>>,
         SumOver(StandingGoods(offers'), OfferIds) =
            SumOver(StandingGoods(offers), OfferIds)
  PROVE  GoodsAdd'
<1>1. SumOver(Owned(goods', inbox'), Traders) =
            SumOver(Owned(goods, inbox), Traders) + 0
  BY MarketTyped
<1>2. vanished' = vanished + 0
  BY MarketTyped
<1>3. SumOver(StandingGoods(offers'), OfferIds) =
            SumOver(StandingGoods(offers), OfferIds) + 0
  BY MarketTyped
<1> QED
  BY <1>1, <1>2, <1>3, GoodsAddUp

LEMMA GoldStays ==
  ASSUME MarketInv, UNCHANGED <<gold, burned, overpaid>>,
         SumOver(StandingGold(offers'), OfferIds) =
            SumOver(StandingGold(offers), OfferIds)
  PROVE  GoldAdds'
<1>1. SumOver(gold', Traders) = SumOver(gold, Traders) + 0
  BY MarketTyped
<1>2. burned' = burned + 0 /\ overpaid' = overpaid + 0
  BY MarketTyped
<1>3. SumOver(StandingGold(offers'), OfferIds) =
            SumOver(StandingGold(offers), OfferIds) + 0
  BY MarketTyped
<1> QED
  BY <1>1, <1>2, <1>3, GoldAddsUp

\* A trader pays n or receives it.
Paid(g, p, n) == [g EXCEPT ![p] = @ + n]

\* That adds n to what there is.
LEMMA PaysIs ==
  ASSUME NEW g \in [Traders -> Nat], NEW p \in Traders, NEW n \in Int,
         g[p] + n \in Nat
  PROVE  /\ Paid(g, p, n) \in [Traders -> Nat]
         /\ SumOver(Paid(g, p, n), Traders) = SumOver(g, Traders) + n
         /\ Paid(g, p, n)[p] = g[p] + n
         /\ \A q \in Traders \ {p} : Paid(g, p, n)[q] = g[q]
<1> DEFINE h == Paid(g, p, n)
<1>1. h \in [Traders -> Nat] /\ h[p] = g[p] + n
      /\ \A q \in Traders \ {p} : h[q] = g[q]
  BY DEF Paid
<1> HIDE DEF h
<1>2. h \in [Traders -> Int]
  BY <1>1
<1>3. SumOver(h, Traders) = SumOver(g, Traders) - g[p] + h[p]
  BY <1>1, <1>2, OneTraderPays
<1>4. SumOver(g, Traders) \in Nat /\ g[p] \in Nat
  BY AccountsTyped
<1> QED
  BY <1>1, <1>3, <1>4 DEF h

\* Making a BUY offer.
LEMMA CreateBuyKeeps ==
  ASSUME MarketInv, NEW p \in Traders, NEW k \in Kinds, NEW n \in Amounts,
         NEW price \in Prices, CreateBuyOffer(p, k, n, price)
  PROVE  MarketInv'
<1> DEFINE x == [owner |-> p, type |-> "BUY", kind |-> k, amount |-> n,
                 price |-> price]
           sum == price * n
<1>1. n \in Nat \ {0} /\ price \in Nat \ {0} /\ Fee \in Nat
  BY OffersAre
<1>2. x \in Offers /\ x # NoOffer /\ x.type = "BUY"
      /\ x.price * x.amount = sum
  BY <1>1, OffersAre DEF Offers
<1>3. Worth(x) = sum /\ Pieces(x) = 0 /\ sum \in Nat
  BY <1>1, <1>2, Products DEF Worth, Pieces
<1>4. /\ gold[p] >= sum + Fee /\ gold' = [gold EXCEPT ![p] = @ - (sum + Fee)]
      /\ burned' = burned + Fee /\ Insert(x)
      /\ UNCHANGED <<online, goods, inbox, expired, results, vanished,
                     swapped, overpaid, overgiven>>
  BY DEF CreateBuyOffer, Afford
<1> HIDE DEF x, sum
<1>5. /\ TableKeeps
      /\ SumOver(StandingGold(offers'), OfferIds) =
             SumOver(StandingGold(offers), OfferIds) + sum
      /\ SumOver(StandingGoods(offers'), OfferIds) =
             SumOver(StandingGoods(offers), OfferIds) + 0
  <2>1. x.type = "SELL" => x.amount = 1
    BY <1>2
  <2> QED
    BY <1>2, <1>3, <1>4, <2>1, InsertIs
<1>6. SumOver(StandingGoods(offers'), OfferIds) =
             SumOver(StandingGoods(offers), OfferIds)
  BY <1>5, MarketTyped
<1> DEFINE m == 0 - (sum + Fee)
<1>6a. gold[p] \in Nat /\ gold \in [Traders -> Nat]
  BY MarketTyped
<1>7. m \in Int /\ gold[p] + m \in Nat /\ gold[p] - (sum + Fee) = gold[p] + m
  BY <1>1, <1>3, <1>4, <1>6a
<1>7a. gold' = Paid(gold, p, m)
  BY <1>4, <1>6a, <1>7 DEF Paid
<1>8. gold' \in [Traders -> Nat]
      /\ SumOver(gold', Traders) = SumOver(gold, Traders) + m
  <2> HIDE DEF m
  <2> QED
    BY <1>6a, <1>7, <1>7a, PaysIs
<1>9. GoldAdds'
  <2>1. m + sum + Fee = 0
    BY <1>1, <1>3
  <2>2. overpaid' = overpaid + 0 /\ burned' = burned + Fee
    BY <1>4, MarketTyped
  <2>3. m \in Int /\ sum \in Int /\ Fee \in Int /\ 0 \in Int
    BY <1>1, <1>3
  <2> HIDE DEF m
  <2> QED
    BY <1>5, <1>8, <2>1, <2>2, <2>3, GoldAddsUp
<1>10. GoodsAdd'
  BY <1>4, <1>6, GoodsStay
<1>11. burned' \in Nat
  <2>1. burned \in Nat
    BY MarketTyped
  <2> QED
    BY <1>1, <1>4, <2>1
<1> QED
  BY <1>4, <1>5, <1>8, <1>9, <1>10, <1>11, MarketTyped, MarketRest
  DEF SwapsKeep

\* Taking goods from the depot and the inbox.
LEMMA TakenIs ==
  ASSUME MarketInv, NEW p \in Traders, NEW k \in Kinds, NEW n \in Nat,
         NEW d \in Available(p, k, n)
  PROVE  /\ d \in Nat /\ n - d \in Nat
         /\ FromDepot(p, k, d) \in GoodsMap
         /\ FromInbox(p, k, n - d) \in GoodsMap
         /\ GoodsOf(FromDepot(p, k, d)[p], FromInbox(p, k, n - d)[p]) =
                GoodsOf(goods[p], inbox[p]) - n
         /\ SumOver(Owned(FromDepot(p, k, d), FromInbox(p, k, n - d)),
                    Traders) = SumOver(Owned(goods, inbox), Traders) - n
         /\ \A q \in Traders \ {p} :
                /\ FromDepot(p, k, d)[q] = goods[q]
                /\ FromInbox(p, k, n - d)[q] = inbox[q]
<1> DEFINE g == FromDepot(p, k, d)
           i == FromInbox(p, k, n - d)
           m == 0 - d
           l == 0 - (n - d)
<1>1. /\ d \in Nat /\ d <= n /\ d <= goods[p][k] /\ n - d <= inbox[p][k]
      /\ goods[p][k] \in Nat /\ inbox[p][k] \in Nat
      /\ goods \in GoodsMap /\ inbox \in GoodsMap
  BY MarketTyped DEF Available
<1>2. /\ m \in Int /\ l \in Int /\ m + l = 0 - n
      /\ goods[p][k] + m \in Nat /\ inbox[p][k] + l \in Nat
  BY <1>1
<1>3. /\ \A a \in GoodsMap : a[p][k] - d = a[p][k] + m
                             /\ a[p][k] - (n - d) = a[p][k] + l
  BY <1>1 DEF GoodsMap
<1>4. g = Shifted(goods, p, k, m) /\ i = Shifted(inbox, p, k, l)
  BY <1>1, <1>3 DEF FromDepot, FromInbox, Shifted
<1> HIDE DEF g, i, m, l
<1>5. /\ g \in GoodsMap
      /\ g[p]["stack"] + g[p]["single"]
            = goods[p]["stack"] + goods[p]["single"] + m
      /\ \A q \in Traders \ {p} : g[q] = goods[q]
  <2>1. ShiftedInto(g, goods, p, k, m)
    BY <1>1, <1>2, <1>4, GoodsMove
  <2> QED
    BY <2>1 DEF ShiftedInto
<1>6. /\ i \in GoodsMap
      /\ i[p]["stack"] + i[p]["single"]
            = inbox[p]["stack"] + inbox[p]["single"] + l
      /\ \A q \in Traders \ {p} : i[q] = inbox[q]
  <2>1. ShiftedInto(i, inbox, p, k, l)
    BY <1>1, <1>2, <1>4, GoodsMove
  <2> QED
    BY <2>1 DEF ShiftedInto
<1>7. \A a \in GoodsMap : a[p]["stack"] \in Nat /\ a[p]["single"] \in Nat
  BY DEF GoodsMap, Kinds
<1>7a. /\ g[p]["stack"] \in Nat /\ g[p]["single"] \in Nat
       /\ i[p]["stack"] \in Nat /\ i[p]["single"] \in Nat
       /\ goods[p]["stack"] \in Nat /\ goods[p]["single"] \in Nat
       /\ inbox[p]["stack"] \in Nat /\ inbox[p]["single"] \in Nat
  BY <1>1, <1>5, <1>6, <1>7
<1>8. GoodsOf(g[p], i[p]) = GoodsOf(goods[p], inbox[p]) - n
      /\ GoodsOf(goods[p], inbox[p]) \in Nat
  <2>1. /\ g[p]["stack"] + g[p]["single"]
              = goods[p]["stack"] + goods[p]["single"] + m
        /\ i[p]["stack"] + i[p]["single"]
              = inbox[p]["stack"] + inbox[p]["single"] + l
        /\ m + l = 0 - n /\ m \in Int /\ l \in Int /\ n \in Nat
    BY <1>2, <1>5, <1>6
  <2> DEFINE a == goods[p]["stack"] + goods[p]["single"]
             b == inbox[p]["stack"] + inbox[p]["single"]
  <2>2. a \in Nat /\ b \in Nat
    BY <1>7a
  <2>3. GoodsOf(goods[p], inbox[p]) = a + b
    BY <1>7a DEF GoodsOf
  <2>4. GoodsOf(g[p], i[p]) =
            (g[p]["stack"] + g[p]["single"])
                + (i[p]["stack"] + i[p]["single"])
    BY <1>7a DEF GoodsOf
  <2>5. GoodsOf(g[p], i[p]) = (a + m) + (b + l)
    BY <2>1, <2>4
  <2> HIDE DEF a, b
  <2> QED
    BY <2>1, <2>2, <2>3, <2>5
<1>9. SumOver(Owned(g, i), Traders) =
         SumOver(Owned(goods, inbox), Traders)
             - GoodsOf(goods[p], inbox[p]) + GoodsOf(g[p], i[p])
  BY <1>1, <1>5, <1>6, OneTraderGives
<1>10. SumOver(Owned(g, i), Traders) =
         SumOver(Owned(goods, inbox), Traders) - n
  BY <1>8, <1>9, MarketTyped
<1>11. n - d \in Nat
  BY <1>1
<1> QED
  BY <1>1, <1>5, <1>6, <1>8, <1>10, <1>11 DEF g, i

\* Goods in the inbox of a trader, and lost if it is not in the game.
LEMMA ReceivedIs ==
  ASSUME MarketInv, NEW g \in GoodsMap, NEW i \in GoodsMap, NEW p \in Traders,
         NEW k \in Kinds, NEW n \in Nat
  PROVE  /\ ToInbox(i, p, k, n) \in GoodsMap
         /\ Unsaved(p, n) \in Nat
         /\ SumOver(Owned(g, ToInbox(i, p, k, n)), Traders) + Unsaved(p, n) =
                SumOver(Owned(g, i), Traders) + n
         /\ p \in online => Unsaved(p, n) = 0
         /\ \A q \in Traders, l \in Kinds :
                i[q][l] <= ToInbox(i, p, k, n)[q][l]
<1>0. SumOver(Owned(g, i), Traders) \in Nat
  BY AccountsTyped
<1>1. \A q \in Traders, l \in Kinds : i[q][l] \in Nat
  BY DEF GoodsMap
<1>2. CASE p \notin online
  BY <1>0, <1>1, <1>2 DEF ToInbox, Unsaved
<1>3. CASE p \in online
  <2> DEFINE j == ToInbox(i, p, k, n)
  <2>1. j = Shifted(i, p, k, n) /\ i[p][k] + n \in Nat
    BY <1>1, <1>3 DEF ToInbox, Shifted
  <2> HIDE DEF j
  <2>2. /\ j \in GoodsMap
        /\ j[p][k] = i[p][k] + n
        /\ j[p]["stack"] + j[p]["single"] = i[p]["stack"] + i[p]["single"] + n
        /\ \A q \in Traders \ {p} : j[q] = i[q]
        /\ \A q \in Traders, l \in Kinds :
               q # p \/ l # k => j[q][l] = i[q][l]
    <3>1. ShiftedInto(j, i, p, k, n)
      BY <2>1, GoodsMove
    <3> QED
      BY <3>1 DEF ShiftedInto
  <2>3. \A a \in GoodsMap : a[p]["stack"] \in Nat /\ a[p]["single"] \in Nat
    BY DEF GoodsMap, Kinds
  <2>4. GoodsOf(g[p], j[p]) = GoodsOf(g[p], i[p]) + n
        /\ GoodsOf(g[p], i[p]) \in Nat
    BY <2>2, <2>3 DEF GoodsOf
  <2>5. SumOver(Owned(g, j), Traders) =
           SumOver(Owned(g, i), Traders)
               - GoodsOf(g[p], i[p]) + GoodsOf(g[p], j[p])
    BY <2>2, OneTraderGives
  <2>6. Unsaved(p, n) = 0
    BY <1>3 DEF Unsaved
  <2>7. SumOver(Owned(g, j), Traders) + Unsaved(p, n) =
                SumOver(Owned(g, i), Traders) + n
    BY <1>0, <2>4, <2>5, <2>6
  <2>8. \A q \in Traders, l \in Kinds : i[q][l] <= j[q][l]
    BY <1>1, <2>2
  <2> QED
    BY <2>2, <2>6, <2>7, <2>8 DEF j
<1> QED
  BY <1>2, <1>3

\* A trader spends n.
LEMMA SpentIs ==
  ASSUME MarketInv, NEW p \in Traders, NEW n \in Nat, gold[p] >= n
  PROVE  /\ [gold EXCEPT ![p] = @ - n] = Paid(gold, p, 0 - n)
         /\ 0 - n \in Int
         /\ Paid(gold, p, 0 - n) \in [Traders -> Nat]
         /\ SumOver(Paid(gold, p, 0 - n), Traders)
                = SumOver(gold, Traders) + (0 - n)
         /\ \A q \in Traders \ {p} : Paid(gold, p, 0 - n)[q] = gold[q]
<1> DEFINE m == 0 - n
<1>1. gold \in [Traders -> Nat] /\ gold[p] \in Nat
  BY MarketTyped
<1>2. m \in Int /\ gold[p] + m \in Nat /\ gold[p] - n = gold[p] + m
  BY <1>1
<1>3. [gold EXCEPT ![p] = @ - n] = Paid(gold, p, m)
  BY <1>1, <1>2 DEF Paid
<1> HIDE DEF m
<1>4. /\ Paid(gold, p, m) \in [Traders -> Nat]
      /\ SumOver(Paid(gold, p, m), Traders) = SumOver(gold, Traders) + m
      /\ \A q \in Traders \ {p} : Paid(gold, p, m)[q] = gold[q]
  BY <1>1, <1>2, PaysIs
<1> QED
  BY <1>2, <1>3, <1>4 DEF m

\* The fee of a sale.
LEMMA FeeAdds ==
  ASSUME MarketInv, NEW p \in Traders, gold[p] >= Fee,
         gold' = [gold EXCEPT ![p] = @ - Fee], burned' = burned + Fee,
         UNCHANGED overpaid,
         SumOver(StandingGold(offers'), OfferIds) =
            SumOver(StandingGold(offers), OfferIds)
  PROVE  gold' \in [Traders -> Nat] /\ burned' \in Nat /\ GoldAdds'
<1>1. Fee \in Nat
  BY OffersAre
<1> DEFINE m == 0 - Fee
<1>2. m \in Int /\ Fee \in Int /\ 0 \in Int /\ m + 0 + Fee = 0
  BY <1>1
<1>3. gold' \in [Traders -> Nat]
      /\ SumOver(gold', Traders) = SumOver(gold, Traders) + m
  <2>1. gold[p] \in Nat /\ gold \in [Traders -> Nat]
    BY MarketTyped
  <2>2. gold[p] - Fee = gold[p] + m
    BY <1>1, <2>1
  <2>3. gold' = Paid(gold, p, m)
    BY <2>1, <2>2 DEF Paid
  <2>4. /\ Paid(gold, p, m) \in [Traders -> Nat]
        /\ SumOver(Paid(gold, p, m), Traders)
                = SumOver(gold, Traders) + m
    BY <1>1, SpentIs
  <2> QED
    BY <2>3, <2>4
<1>4. /\ overpaid' = overpaid + 0 /\ burned' \in Nat
      /\ SumOver(StandingGold(offers'), OfferIds) =
            SumOver(StandingGold(offers), OfferIds) + 0
  <2>1. /\ overpaid \in Nat /\ burned \in Nat
        /\ SumOver(StandingGold(offers), OfferIds) \in Nat
    BY MarketTyped
  <2> QED
    BY <1>1, <2>1
<1> HIDE DEF m
<1>5. GoldAdds'
  BY <1>2, <1>3, <1>4, GoldAddsUp
<1> QED
  BY <1>3, <1>4, <1>5

\* Selling stackable goods: no offer is inserted.
LEMMA SellStackKeeps ==
  ASSUME MarketInv, NEW p \in Traders, NEW n \in Amounts, SellStack(p, n)
  PROVE  /\ goods' \in GoodsMap /\ inbox' \in GoodsMap /\ TableKeeps
         /\ vanished' \in Nat /\ GoodsAdd' /\ SwapsKeep
         /\ SumOver(StandingGold(offers'), OfferIds) =
                SumOver(StandingGold(offers), OfferIds)
<1>1. n \in Nat /\ "stack" \in Kinds
  BY OffersAre DEF Kinds
<1>2. PICK d \in Available(p, "stack", n) :
        /\ goods' = FromDepot(p, "stack", d)
        /\ inbox' = FromInbox(p, "stack", n - d)
        /\ vanished' = vanished + n
        /\ UNCHANGED <<offers, created, swapped>>
  BY DEF SellStack
<1>3. /\ goods' \in GoodsMap /\ inbox' \in GoodsMap
      /\ SumOver(Owned(goods', inbox'), Traders) =
            SumOver(Owned(goods, inbox), Traders) - n
  BY <1>1, <1>2, TakenIs
<1> DEFINE m == 0 - n
<1>4. /\ m \in Int /\ n \in Int /\ 0 \in Int /\ m + 0 + n = 0
      /\ SumOver(Owned(goods', inbox'), Traders) =
            SumOver(Owned(goods, inbox), Traders) + m
      /\ SumOver(StandingGoods(offers'), OfferIds) =
            SumOver(StandingGoods(offers), OfferIds) + 0
      /\ vanished' \in Nat
  <2>1. /\ SumOver(Owned(goods, inbox), Traders) \in Nat
        /\ SumOver(StandingGoods(offers), OfferIds) \in Nat
        /\ vanished \in Nat
    BY MarketTyped
  <2>2. offers' = offers /\ vanished' = vanished + n
    BY <1>2
  <2> QED
    BY <1>1, <1>3, <2>1, <2>2
<1> HIDE DEF m
<1>5. GoodsAdd'
  BY <1>2, <1>4, GoodsAddUp
<1> QED
  BY <1>2, <1>3, <1>4, <1>5, TableStays DEF SwapsKeep

\* What is taken out of the depot by itself.
LEMMA LotIs ==
  ASSUME MarketInv, NEW p \in Traders, NEW lot \in Lots(p),
         UNCHANGED inbox,
         goods' = [goods EXCEPT ![p] =
                     [k \in Kinds |-> goods[p][k] - lot[k]]]
  PROVE  /\ lot["stack"] \in Nat /\ lot["single"] \in Nat
         /\ PiecesIn(lot) \in Nat \ {0}
         /\ goods' \in GoodsMap
         /\ SumOver(Owned(goods', inbox'), Traders) =
                SumOver(Owned(goods, inbox), Traders)
                    - PiecesIn(lot)
<1>1. /\ goods \in GoodsMap /\ inbox \in GoodsMap
      /\ goods[p]["stack"] \in Nat /\ goods[p]["single"] \in Nat
      /\ inbox[p]["stack"] \in Nat /\ inbox[p]["single"] \in Nat
      /\ Kinds = {"stack", "single"}
      /\ SumOver(Owned(goods, inbox), Traders) \in Nat
  BY MarketTyped DEF Kinds
<1>2. /\ lot["stack"] \in Nat /\ lot["single"] \in Nat
      /\ lot["stack"] <= goods[p]["stack"]
      /\ lot["single"] <= goods[p]["single"]
      /\ PiecesIn(lot) = lot["stack"] + lot["single"] /\ PiecesIn(lot) > 0
  BY <1>1 DEF Lots, PiecesIn
<1> DEFINE g == [k \in Kinds |-> goods[p][k] - lot[k]]
<1>3. /\ g["stack"] = goods[p]["stack"] - lot["stack"]
      /\ g["single"] = goods[p]["single"] - lot["single"]
  BY <1>1
<1>4. g \in [Kinds -> Nat]
  BY <1>1, <1>2, <1>3
<1> HIDE DEF g
<1>5. /\ goods' \in GoodsMap /\ goods'[p] = g
      /\ \A q \in Traders \ {p} : goods'[q] = goods[q]
  <2>1. goods' = [goods EXCEPT ![p] = g]
    BY DEF g
  <2> QED
    BY <1>1, <1>4, <2>1 DEF GoodsMap
<1>6. SumOver(Owned(goods', inbox), Traders) =
         SumOver(Owned(goods, inbox), Traders)
             - GoodsOf(goods[p], inbox[p]) + GoodsOf(goods'[p], inbox[p])
  <2> DEFINE h == goods'
  <2>1. /\ h \in GoodsMap /\ inbox \in GoodsMap
        /\ \A q \in Traders \ {p} : h[q] = goods[q] /\ inbox[q] = inbox[q]
    BY <1>1, <1>5
  <2> HIDE DEF h
  <2>2. SumOver(Owned(h, inbox), Traders) =
           SumOver(Owned(goods, inbox), Traders)
               - GoodsOf(goods[p], inbox[p]) + GoodsOf(h[p], inbox[p])
    BY <1>1, <2>1, OneTraderGives
  <2> QED
    BY <2>2 DEF h
<1>7. /\ GoodsOf(goods'[p], inbox[p]) = GoodsOf(goods[p], inbox[p])
                                        - PiecesIn(lot)
      /\ GoodsOf(goods[p], inbox[p]) \in Nat
  BY <1>1, <1>2, <1>3, <1>5 DEF GoodsOf
<1>8. inbox' = inbox
  OBVIOUS
<1> QED
  BY <1>1, <1>2, <1>5, <1>6, <1>7, <1>8

\* Selling one item: a lot of n pieces leaves the depot for an offer of one
\* piece, which was among them (e = 0) or not (e = 1).
LEMMA LotSold ==
  ASSUME MarketInv, NEW p \in Traders, NEW lot \in Lots(p), NEW n,
         n = PiecesIn(lot),
         NEW x \in Offers, x # NoOffer, x.type = "SELL", x.amount = 1,
         Insert(x), UNCHANGED inbox,
         goods' = [goods EXCEPT ![p] =
                     [k \in Kinds |-> goods[p][k] - lot[k]]],
         NEW e \in {0, 1}, swapped' = swapped + e,
         vanished' = vanished + (n - 1 + e)
  PROVE  /\ goods' \in GoodsMap /\ inbox' \in GoodsMap /\ TableKeeps
         /\ vanished' \in Nat /\ GoodsAdd' /\ SwapsKeep
         /\ SumOver(StandingGold(offers'), OfferIds) =
                SumOver(StandingGold(offers), OfferIds)
<1>1. Worth(x) = 0 /\ Pieces(x) = 1
  BY DEF Worth, Pieces
<1>2. /\ TableKeeps
      /\ SumOver(StandingGold(offers'), OfferIds) =
             SumOver(StandingGold(offers), OfferIds) + 0
      /\ SumOver(StandingGoods(offers'), OfferIds) =
             SumOver(StandingGoods(offers), OfferIds) + 1
  BY <1>1, InsertIs
<1>3. /\ n \in Nat \ {0} /\ goods' \in GoodsMap
      /\ SumOver(Owned(goods', inbox'), Traders) =
            SumOver(Owned(goods, inbox), Traders) - n
  BY LotIs
<1>4. /\ SumOver(Owned(goods, inbox), Traders) \in Nat /\ vanished \in Nat
      /\ SumOver(StandingGold(offers), OfferIds) \in Nat
      /\ swapped \in Nat /\ inbox \in GoodsMap
  BY MarketTyped
<1> DEFINE a == 0 - n
           c == n - 1 + e
<1>5. a \in Int /\ c \in Nat /\ c \in Int /\ 1 \in Int /\ e \in Int
      /\ a + 1 + c = e
  BY <1>3
<1>6. SumOver(Owned(goods', inbox'), Traders) =
         SumOver(Owned(goods, inbox), Traders) + a
  BY <1>3, <1>4
<1>7. vanished' = vanished + c /\ swapped' = swapped + e
  OBVIOUS
<1> HIDE DEF a, c
<1>8. GoodsAdd'
  BY <1>2, <1>5, <1>6, <1>7, GoodsChange
<1>9. created' = created + 1
  BY DEF Insert
<1>10. SwapsKeep
  <2>1. e = 0 \/ e = 1
    OBVIOUS
  <2> QED
    BY <1>4, <1>7, <1>9, <2>1 DEF SwapsKeep
<1>11. vanished' \in Nat
  BY <1>4, <1>5, <1>7
<1>12. SumOver(StandingGold(offers'), OfferIds) =
          SumOver(StandingGold(offers), OfferIds)
  BY <1>2, <1>4
<1>13. inbox' \in GoodsMap
  BY <1>4
<1> QED
  BY <1>2, <1>3, <1>8, <1>10, <1>11, <1>12, <1>13

\* Selling one item, or having a container to sell it from dropped.
LEMMA SellSingleKeeps ==
  ASSUME MarketInv, NEW p \in Traders, NEW price \in Prices,
         SellSingle(p, price)
  PROVE  /\ goods' \in GoodsMap /\ inbox' \in GoodsMap /\ TableKeeps
         /\ vanished' \in Nat /\ GoodsAdd' /\ SwapsKeep
         /\ SumOver(StandingGold(offers'), OfferIds) =
                SumOver(StandingGold(offers), OfferIds)
<1>1. CASE UNCHANGED <<offers, created, goods, inbox, vanished, swapped>>
  BY <1>1, TableStays, GoodsStay, MarketTyped DEF SwapsKeep
<1> DEFINE x == [owner |-> p, type |-> "SELL", kind |-> "single",
                 amount |-> 1, price |-> price]
<1>2. x \in Offers /\ x # NoOffer /\ x.type = "SELL" /\ x.amount = 1
  <2>1. "single" \in Kinds /\ price \in Nat \ {0}
    BY OffersAre DEF Kinds
  <2> QED
    BY <2>1, OffersAre DEF Offers
<1> DEFINE Sold(lot, other) ==
              /\ other = 0 => lot["single"] > 0
              /\ goods' = [goods EXCEPT ![p] =
                             [k \in Kinds |-> goods[p][k] - lot[k]]]
              /\ vanished' = vanished + (PiecesIn(lot) - 1 + other)
              /\ swapped' = swapped + other
<1>3. CASE /\ Insert(x) /\ UNCHANGED inbox
           /\ \E lot \in Lots(p), other \in {0, 1} : Sold(lot, other)
  <2>1. PICK lot \in Lots(p), other \in {0, 1} : Sold(lot, other)
    BY <1>3
  <2> QED
    BY <1>2, <1>3, <2>1, LotSold
<1> QED
  BY <1>1, <1>3 DEF SellSingle

\* Making a SELL offer.
LEMMA CreateSellKeeps ==
  ASSUME MarketInv, NEW p \in Traders, NEW k \in Kinds, NEW n \in Amounts,
         NEW price \in Prices, CreateSellOffer(p, k, n, price)
  PROVE  MarketInv'
<1>1. /\ gold[p] >= Fee /\ gold' = [gold EXCEPT ![p] = @ - Fee]
      /\ burned' = burned + Fee
      /\ UNCHANGED <<online, expired, results, overpaid, overgiven>>
  BY DEF CreateSellOffer, Afford
<1>2. /\ goods' \in GoodsMap /\ inbox' \in GoodsMap /\ TableKeeps
      /\ vanished' \in Nat /\ GoodsAdd' /\ SwapsKeep
      /\ SumOver(StandingGold(offers'), OfferIds) =
             SumOver(StandingGold(offers), OfferIds)
  BY SellStackKeeps, SellSingleKeeps DEF CreateSellOffer
<1>3. gold' \in [Traders -> Nat] /\ burned' \in Nat /\ GoldAdds'
  BY <1>1, <1>2, FeeAdds
<1>4. online' \subseteq Traders /\ expired' \subseteq OfferIds
      /\ overpaid' \in Nat
  BY <1>1, MarketTyped
<1> QED
  BY <1>1, <1>2, <1>3, <1>4, MarketRest

\* Cancelling an offer.
LEMMA CancelKeeps ==
  ASSUME MarketInv, NEW p \in Traders, NEW o \in OfferIds, CancelOffer(p, o)
  PROVE  MarketInv'
<1> DEFINE x == offers[o]
<1>1. /\ x # NoOffer /\ x.owner = p /\ p \in online
      /\ offers' = [offers EXCEPT ![o] = NoOffer]
      /\ UNCHANGED <<online, goods, created, expired, results, burned,
                     vanished, swapped, overpaid, overgiven>>
  BY DEF CancelOffer, Open, history
<1>2. x \in Offers
  BY <1>1, MarketTyped
<1>3. /\ x.type \in {"BUY", "SELL"} /\ x.kind \in Kinds /\ x.amount \in Nat
      /\ x.price \in Nat /\ x.price * x.amount \in Nat
      /\ Worth(x) \in Nat /\ Pieces(x) \in Nat
      /\ x.type = "BUY" => Worth(x) = x.price * x.amount /\ Pieces(x) = 0
      /\ x.type = "SELL" => Worth(x) = 0 /\ Pieces(x) = x.amount
      /\ Worth(NoOffer) = 0 /\ Pieces(NoOffer) = 0
  BY <1>1, <1>2, OffersAre, WorthIs, Products
<1>4. /\ TableKeeps
      /\ SumOver(StandingGold(offers'), OfferIds) =
             SumOver(StandingGold(offers), OfferIds)
                 - Worth(x) + Worth(NoOffer)
      /\ SumOver(StandingGoods(offers'), OfferIds) =
             SumOver(StandingGoods(offers), OfferIds)
                 - Pieces(x) + Pieces(NoOffer)
  BY <1>1, LessIs
<1>5. /\ SumOver(StandingGold(offers), OfferIds) \in Nat
      /\ SumOver(StandingGoods(offers), OfferIds) \in Nat
      /\ SumOver(Owned(goods, inbox), Traders) \in Nat
      /\ gold \in [Traders -> Nat] /\ gold[p] \in Nat
      /\ goods \in GoodsMap /\ inbox \in GoodsMap
      /\ burned \in Nat /\ vanished \in Nat /\ overpaid \in Nat
      /\ online \subseteq Traders /\ expired \subseteq OfferIds
  BY MarketTyped
<1>6. \/ /\ x.type = "BUY" /\ UNCHANGED inbox
         /\ gold' = [gold EXCEPT ![p] = @ + x.price * x.amount]
      \/ /\ x.type = "SELL" /\ UNCHANGED gold
         /\ inbox' = ToInbox(inbox, p, x.kind, x.amount)
  BY <1>1, <1>3 DEF CancelOffer, Returned
<1> HIDE DEF x
<1>7. CASE /\ x.type = "BUY" /\ UNCHANGED inbox
           /\ gold' = [gold EXCEPT ![p] = @ + x.price * x.amount]
  <2> DEFINE n == x.price * x.amount
             m == 0 - n
  <2>1. n \in Nat /\ n \in Int /\ m \in Int /\ gold[p] + n \in Nat
        /\ gold' = Paid(gold, p, n)
    BY <1>3, <1>5, <1>7 DEF Paid
  <2>2. /\ SumOver(StandingGold(offers'), OfferIds) =
               SumOver(StandingGold(offers), OfferIds) + m
        /\ SumOver(StandingGoods(offers'), OfferIds) =
               SumOver(StandingGoods(offers), OfferIds)
    BY <1>3, <1>4, <1>5, <1>7
  <2>3. n + m + 0 = 0 /\ 0 \in Int /\ burned' = burned + 0
        /\ overpaid' = overpaid + 0
    BY <1>1, <1>5, <2>1
  <2> HIDE DEF n, m
  <2>4. gold' \in [Traders -> Nat]
        /\ SumOver(gold', Traders) = SumOver(gold, Traders) + n
    BY <1>5, <2>1, PaysIs
  <2>5. GoldAdds'
    BY <2>1, <2>2, <2>3, <2>4, GoldAddsUp
  <2>6. GoodsAdd'
    BY <1>1, <1>7, <2>2, GoodsStay
  <2> QED
    BY <1>1, <1>4, <1>5, <1>7, <2>4, <2>5, <2>6, MarketRest
    DEF SwapsKeep
<1>8. CASE /\ x.type = "SELL" /\ UNCHANGED gold
           /\ inbox' = ToInbox(inbox, p, x.kind, x.amount)
  <2> DEFINE n == x.amount
             m == 0 - n
             k == x.kind
  <2>1. /\ inbox' \in GoodsMap
        /\ SumOver(Owned(goods, inbox'), Traders) + 0 =
              SumOver(Owned(goods, inbox), Traders) + n
    <3>1. /\ k \in Kinds /\ n \in Nat /\ p \in Traders /\ p \in online
          /\ goods \in GoodsMap /\ inbox \in GoodsMap
          /\ inbox' = ToInbox(inbox, p, k, n)
      BY <1>1, <1>3, <1>5, <1>8
    <3> HIDE DEF k, n, m
    <3>2. /\ ToInbox(inbox, p, k, n) \in GoodsMap
          /\ SumOver(Owned(goods, ToInbox(inbox, p, k, n)), Traders)
                + Unsaved(p, n) = SumOver(Owned(goods, inbox), Traders) + n
          /\ Unsaved(p, n) = 0
      BY <3>1, ReceivedIs
    <3> QED
      BY <3>1, <3>2
  <2>2. SumOver(Owned(goods, inbox'), Traders) \in Nat
    BY <1>5, <2>1, AccountsTyped
  <2>3. /\ SumOver(StandingGold(offers'), OfferIds) =
               SumOver(StandingGold(offers), OfferIds)
        /\ SumOver(StandingGoods(offers'), OfferIds) =
               SumOver(StandingGoods(offers), OfferIds) + m
        /\ SumOver(Owned(goods', inbox'), Traders) =
               SumOver(Owned(goods, inbox), Traders) + n
    BY <1>1, <1>3, <1>4, <1>5, <1>8, <2>1, <2>2
  <2>4. n \in Int /\ m \in Int /\ 0 \in Int /\ n + m + 0 = 0
        /\ vanished' = vanished + 0
    BY <1>1, <1>3, <1>5
  <2> HIDE DEF n, m
  <2>5. GoodsAdd'
    BY <1>1, <2>3, <2>4, GoodsAddUp
  <2>6. GoldAdds'
    BY <1>1, <1>8, <2>3, GoldStays
  <2> QED
    BY <1>1, <1>4, <1>5, <1>8, <2>1, <2>5, <2>6, MarketRest
    DEF SwapsKeep
<1> QED
  BY <1>6, <1>7, <1>8

\* What is left of an offer of which n are accepted.
Rest(x, n) ==
    IF n = x.amount THEN NoOffer ELSE [x EXCEPT !.amount = @ - n]

\* It holds back so much less.
LEMMA RestIs ==
  ASSUME NEW x \in Offers, NEW n \in Nat \ {0}, n <= x.amount
  PROVE  /\ Rest(x, n) \in Offers \cup {NoOffer}
         /\ Rest(x, n) # NoOffer => LeftOf(Rest(x, n), x)
         /\ x.type = "BUY" =>
                /\ Worth(Rest(x, n)) = Worth(x) - x.price * n
                /\ Pieces(Rest(x, n)) = Pieces(x)
         /\ x.type = "SELL" =>
                /\ Worth(Rest(x, n)) = Worth(x)
                /\ Pieces(Rest(x, n)) = Pieces(x) - n
<1>1. /\ x # NoOffer /\ x.type \in {"BUY", "SELL"}
      /\ x.amount \in Nat \ {0} /\ x.price \in Nat \ {0}
  BY OffersAre
<1>2. CASE n = x.amount
  <2>1. Rest(x, n) = NoOffer
    BY <1>2 DEF Rest
  <2>2. x.price * n = x.price * x.amount /\ x.price * x.amount \in Nat
    BY <1>1, <1>2, Products
  <2> QED
    BY <1>1, <1>2, <2>1, <2>2 DEF Worth, Pieces
<1>3. CASE n # x.amount
  <2> DEFINE y == Rest(x, n)
  <2>1. y = [x EXCEPT !.amount = @ - n] /\ x.amount - n \in Nat \ {0}
    BY <1>1, <1>3 DEF Rest
  <2>2. /\ y \in Offers /\ y.owner = x.owner /\ y.type = x.type
        /\ y.kind = x.kind /\ y.price = x.price
        /\ y.amount = x.amount - n
    BY <2>1 DEF Offers
  <2>3. y # NoOffer /\ y.amount <= x.amount
    BY <1>1, <2>2, OffersAre
  <2>4. x.price * y.amount = x.price * x.amount - x.price * n
    BY <1>1, <2>2, Products
  <2> HIDE DEF y
  <2>5. LeftOf(y, x)
    BY <2>2, <2>3 DEF LeftOf
  <2>6. x.type = "BUY" => Worth(y) = Worth(x) - x.price * n
                          /\ Pieces(y) = Pieces(x)
    BY <1>1, <2>2, <2>3, <2>4 DEF Worth, Pieces
  <2>7. x.type = "SELL" => Worth(y) = Worth(x) /\ Pieces(y) = Pieces(x) - n
    BY <1>1, <2>2, <2>3 DEF Worth, Pieces
  <2> QED
    BY <2>2, <2>5, <2>6, <2>7 DEF y
<1> QED
  BY <1>2, <1>3

\* A BUY offer is accepted: its owner has paid.
LEMMA AcceptBuyKeeps ==
  ASSUME MarketInv, NEW p \in Traders, NEW o \in OfferIds, NEW n \in Amounts,
         AcceptOffer(p, o, n), offers[o].type = "BUY"
  PROVE  MarketInv'
<1> DEFINE x == offers[o]
           k == x.kind
           c == x.price * n
           m == 0 - c
           lost == Unsaved(x.owner, n)
<1>1. /\ x # NoOffer /\ p \in online /\ n <= x.amount /\ x.type = "BUY"
      /\ gold' = [gold EXCEPT ![p] = @ + c]
      /\ offers' = [offers EXCEPT ![o] = Rest(x, n)]
      /\ Deliver(p, x, n)
      /\ UNCHANGED <<online, created, expired, results, burned, swapped,
                     overpaid, overgiven>>
  BY DEF AcceptOffer, Open, GoldAfter, Rest
<1>2. x \in Offers /\ n \in Nat \ {0} /\ n \in Nat
  BY <1>1, MarketTyped, OffersAre
<1>3. /\ k \in Kinds /\ x.amount \in Nat /\ x.owner \in Traders
      /\ x.price \in Nat /\ c \in Nat
      /\ Worth(x) \in Nat /\ Pieces(x) \in Nat
  BY <1>2, OffersAre, WorthIs, Products
<1>4. /\ Rest(x, n) \in Offers \cup {NoOffer}
      /\ Rest(x, n) # NoOffer => LeftOf(Rest(x, n), x)
      /\ Worth(Rest(x, n)) = Worth(x) - c
      /\ Pieces(Rest(x, n)) = Pieces(x)
  BY <1>1, <1>2, RestIs
<1>5. /\ SumOver(StandingGold(offers), OfferIds) \in Nat
      /\ SumOver(StandingGoods(offers), OfferIds) \in Nat
      /\ SumOver(Owned(goods, inbox), Traders) \in Nat
      /\ gold \in [Traders -> Nat] /\ gold[p] \in Nat
      /\ goods \in GoodsMap /\ inbox \in GoodsMap
      /\ burned \in Nat /\ vanished \in Nat /\ overpaid \in Nat
      /\ online \subseteq Traders /\ expired \subseteq OfferIds
  BY MarketTyped
<1>6. PICK d \in Available(p, k, n) :
        /\ goods' = FromDepot(p, k, d)
        /\ inbox' = ToInbox(FromInbox(p, k, n - d), x.owner, k, n)
        /\ vanished' = vanished + lost
  BY <1>1 DEF Deliver
<1>7. /\ TableKeeps
      /\ SumOver(StandingGold(offers'), OfferIds) =
             SumOver(StandingGold(offers), OfferIds)
                 - Worth(x) + Worth(Rest(x, n))
      /\ SumOver(StandingGoods(offers'), OfferIds) =
             SumOver(StandingGoods(offers), OfferIds)
                 - Pieces(x) + Pieces(Rest(x, n))
  BY <1>1, <1>4, LessIs
<1>8. /\ c \in Int /\ m \in Int /\ gold[p] + c \in Nat
      /\ gold' = Paid(gold, p, c)
      /\ SumOver(StandingGold(offers'), OfferIds) =
            SumOver(StandingGold(offers), OfferIds) + m
      /\ SumOver(StandingGoods(offers'), OfferIds) =
            SumOver(StandingGoods(offers), OfferIds) + 0
      /\ c + m + 0 = 0 /\ 0 \in Int
      /\ burned' = burned + 0 /\ overpaid' = overpaid + 0
  BY <1>1, <1>3, <1>4, <1>5, <1>7 DEF Paid
<1>9. /\ FromDepot(p, k, d) \in GoodsMap
      /\ FromInbox(p, k, n - d) \in GoodsMap
      /\ SumOver(Owned(FromDepot(p, k, d), FromInbox(p, k, n - d)), Traders)
            = SumOver(Owned(goods, inbox), Traders) - n
  BY <1>2, <1>3, TakenIs
<1>10. /\ goods' \in GoodsMap /\ inbox' \in GoodsMap
       /\ lost \in Nat
       /\ SumOver(Owned(goods', inbox'), Traders) + lost =
            SumOver(Owned(FromDepot(p, k, d), FromInbox(p, k, n - d)),
                    Traders) + n
  <2> DEFINE g == FromDepot(p, k, d)
             i == FromInbox(p, k, n - d)
  <2>1. g \in GoodsMap /\ i \in GoodsMap
    BY <1>9
  <2>2. goods' = g /\ inbox' = ToInbox(i, x.owner, k, n)
    BY <1>6
  <2> HIDE DEF g, i
  <2>3. /\ ToInbox(i, x.owner, k, n) \in GoodsMap
        /\ Unsaved(x.owner, n) \in Nat
        /\ SumOver(Owned(g, ToInbox(i, x.owner, k, n)), Traders)
                + Unsaved(x.owner, n) = SumOver(Owned(g, i), Traders) + n
    BY <1>2, <1>3, <2>1, ReceivedIs
  <2> QED
    BY <2>1, <2>2, <2>3 DEF g, i
<1>11. SumOver(Owned(goods', inbox'), Traders) \in Nat
  BY <1>10, AccountsTyped
<1> DEFINE l == 0 - lost
<1>12. /\ l \in Int /\ lost \in Int /\ l + 0 + lost = 0
       /\ SumOver(Owned(goods', inbox'), Traders) =
            SumOver(Owned(goods, inbox), Traders) + l
  BY <1>2, <1>5, <1>9, <1>10, <1>11
<1>13. vanished' \in Nat
  BY <1>5, <1>6, <1>10
<1> HIDE DEF c, m, l, lost
<1>14. GoodsAdd'
  BY <1>1, <1>6, <1>8, <1>12, GoodsAddUp
<1>15. gold' \in [Traders -> Nat]
       /\ SumOver(gold', Traders) = SumOver(gold, Traders) + c
  BY <1>5, <1>8, PaysIs
<1>16. GoldAdds'
  BY <1>8, <1>15, GoldAddsUp
<1> QED
  BY <1>1, <1>5, <1>7, <1>10, <1>13, <1>14, <1>15, <1>16, MarketRest
  DEF SwapsKeep

\* One trader pays another.
PaidTo(p, q, c) == [gold EXCEPT ![p] = @ - c, ![q] = @ + c]

\* That leaves what there is, and only one has less.
LEMMA PaidOver ==
  ASSUME MarketInv, NEW p \in Traders, NEW q \in Traders, p # q,
         NEW c \in Nat, gold[p] >= c,
         gold' = PaidTo(p, q, c)
  PROVE  /\ gold' \in [Traders -> Nat]
         /\ SumOver(gold', Traders) = SumOver(gold, Traders)
         /\ \A t \in Traders \ {p} : gold'[t] >= gold[t]
<1> DEFINE g == Paid(gold, p, 0 - c)
           h == Paid(g, q, c)
<1>1. gold \in [Traders -> Nat] /\ gold[p] \in Nat /\ gold[q] \in Nat
      /\ SumOver(gold, Traders) \in Nat
      /\ \A t \in Traders : gold[t] \in Nat
  BY MarketTyped
<1>2. /\ g \in [Traders -> Nat]
      /\ SumOver(g, Traders) = SumOver(gold, Traders) + (0 - c)
      /\ \A t \in Traders \ {p} : g[t] = gold[t]
  BY SpentIs
<1>3. gold[p] - c = gold[p] + (0 - c)
  BY <1>1
<1>4. gold' = h
  BY <1>1, <1>3 DEF Paid, PaidTo
<1> HIDE DEF g
<1>5. g[q] = gold[q] /\ g[q] + c \in Nat /\ c \in Int
  BY <1>1, <1>2
<1>6. /\ h \in [Traders -> Nat]
      /\ SumOver(h, Traders) = SumOver(g, Traders) + c
      /\ h[q] = g[q] + c /\ \A t \in Traders \ {q} : h[t] = g[t]
  BY <1>2, <1>5, PaysIs
<1> HIDE DEF h
<1>7. SumOver(h, Traders) = SumOver(gold, Traders)
  BY <1>1, <1>2, <1>6
<1>8. \A t \in Traders \ {p} : h[t] >= gold[t]
  BY <1>1, <1>2, <1>5, <1>6
<1> QED
  BY <1>4, <1>6, <1>7, <1>8

\* A SELL offer is accepted: its owner has given the goods.
LEMMA AcceptSellKeeps ==
  ASSUME MarketInv, NEW p \in Traders, NEW o \in OfferIds, NEW n \in Amounts,
         AcceptOffer(p, o, n), offers[o].type = "SELL"
  PROVE  MarketInv'
<1> DEFINE x == offers[o]
           k == x.kind
           c == x.price * n
           m == 0 - n
<1>1. /\ x # NoOffer /\ p \in online /\ n <= x.amount /\ x.type = "SELL"
      /\ x.owner # p /\ gold[p] >= c
      /\ gold' = [gold EXCEPT ![p] = @ - c, ![x.owner] = @ + c]
      /\ offers' = [offers EXCEPT ![o] = Rest(x, n)]
      /\ inbox' = ToInbox(inbox, p, k, n)
      /\ UNCHANGED <<online, created, expired, results, burned, swapped,
                     overpaid, overgiven, goods, vanished>>
  BY DEF AcceptOffer, Open, GoldAfter, Rest, Deliver, Afford
<1>2. x \in Offers /\ n \in Nat \ {0} /\ n \in Nat
  BY <1>1, MarketTyped, OffersAre
<1>3. /\ k \in Kinds /\ x.amount \in Nat /\ x.owner \in Traders
      /\ x.price \in Nat /\ c \in Nat
      /\ Worth(x) \in Nat /\ Pieces(x) \in Nat
  BY <1>2, OffersAre, WorthIs, Products
<1>4. /\ Rest(x, n) \in Offers \cup {NoOffer}
      /\ Rest(x, n) # NoOffer => LeftOf(Rest(x, n), x)
      /\ Worth(Rest(x, n)) = Worth(x)
      /\ Pieces(Rest(x, n)) = Pieces(x) - n
  BY <1>1, <1>2, RestIs
<1>5. /\ SumOver(StandingGold(offers), OfferIds) \in Nat
      /\ SumOver(StandingGoods(offers), OfferIds) \in Nat
      /\ SumOver(Owned(goods, inbox), Traders) \in Nat
      /\ goods \in GoodsMap /\ inbox \in GoodsMap
      /\ burned \in Nat /\ vanished \in Nat /\ overpaid \in Nat
      /\ online \subseteq Traders /\ expired \subseteq OfferIds
  BY MarketTyped
<1>7. /\ TableKeeps
      /\ SumOver(StandingGold(offers'), OfferIds) =
             SumOver(StandingGold(offers), OfferIds)
                 - Worth(x) + Worth(Rest(x, n))
      /\ SumOver(StandingGoods(offers'), OfferIds) =
             SumOver(StandingGoods(offers), OfferIds)
                 - Pieces(x) + Pieces(Rest(x, n))
  BY <1>1, <1>4, LessIs
<1>8. /\ SumOver(StandingGold(offers'), OfferIds) =
            SumOver(StandingGold(offers), OfferIds)
      /\ SumOver(StandingGoods(offers'), OfferIds) =
            SumOver(StandingGoods(offers), OfferIds) + m
      /\ n \in Int /\ m \in Int /\ n + m + 0 = 0 /\ 0 \in Int
      /\ vanished' = vanished + 0
  BY <1>1, <1>2, <1>3, <1>4, <1>5, <1>7
<1>9. /\ inbox' \in GoodsMap
      /\ SumOver(Owned(goods, inbox'), Traders) + 0 =
            SumOver(Owned(goods, inbox), Traders) + n
  BY <1>1, <1>2, <1>3, <1>5, ReceivedIs
<1>10. SumOver(Owned(goods, inbox'), Traders) \in Nat
  BY <1>5, <1>9, AccountsTyped
<1>11. SumOver(Owned(goods', inbox'), Traders) =
            SumOver(Owned(goods, inbox), Traders) + n
  BY <1>1, <1>2, <1>5, <1>9, <1>10
<1> HIDE DEF c, m
<1>12. GoodsAdd'
  BY <1>1, <1>8, <1>11, GoodsAddUp
<1>13. /\ gold' \in [Traders -> Nat]
       /\ SumOver(gold', Traders) = SumOver(gold, Traders) + 0
  <2> DEFINE q == x.owner
  <2>1. /\ q \in Traders /\ p # q /\ c \in Nat /\ gold[p] >= c
        /\ gold' = PaidTo(p, q, c)
    BY <1>1, <1>3 DEF PaidTo
  <2> HIDE DEF q
  <2>2. /\ gold' \in [Traders -> Nat]
        /\ SumOver(gold', Traders) = SumOver(gold, Traders)
    BY <2>1, PaidOver
  <2> QED
    BY <2>2, MarketTyped
<1>14. GoldAdds'
  <2>1. /\ burned' = burned + 0 /\ overpaid' = overpaid + 0
        /\ SumOver(StandingGold(offers'), OfferIds) =
               SumOver(StandingGold(offers), OfferIds) + 0
        /\ 0 \in Int /\ 0 + 0 + 0 = 0
    BY <1>1, <1>5, <1>8
  <2>2. SumOver(gold', Traders) = SumOver(gold, Traders) + 0
    BY <1>13
  <2> QED
    BY ONLY MarketInv, <2>1, <2>2, GoldAddsUp
<1> QED
  BY <1>1, <1>5, <1>7, <1>9, <1>12, <1>13, <1>14, MarketRest DEF SwapsKeep

\* What is in the inbox goes with the Player object.
LEMMA LogoutKeeps ==
  ASSUME MarketInv, NEW p \in Traders, LogoutOwner(p)
  PROVE  MarketInv'
<1> DEFINE n == inbox[p]["stack"] + inbox[p]["single"]
           m == 0 - n
<1>1. /\ online' = online \ {p}
      /\ inbox' = [inbox EXCEPT ![p] = [k \in Kinds |-> 0]]
      /\ vanished' = vanished + inbox[p]["stack"] + inbox[p]["single"]
      /\ UNCHANGED <<gold, goods, offers, created, expired, results, burned,
                     swapped, overpaid, overgiven>>
  BY DEF LogoutOwner
<1>2. /\ SumOver(Owned(goods, inbox), Traders) \in Nat
      /\ goods \in GoodsMap /\ inbox \in GoodsMap
      /\ burned \in Nat /\ vanished \in Nat /\ overpaid \in Nat
      /\ online \subseteq Traders /\ expired \subseteq OfferIds
      /\ gold \in [Traders -> Nat]
      /\ SumOver(StandingGoods(offers), OfferIds) \in Nat
  BY MarketTyped
<1>3. /\ \A a \in GoodsMap : a[p]["stack"] \in Nat /\ a[p]["single"] \in Nat
      /\ "stack" \in Kinds /\ "single" \in Kinds
  BY DEF GoodsMap, Kinds
<1>4. /\ n \in Int /\ m \in Int /\ 0 \in Int /\ m + 0 + n = 0
      /\ vanished' = vanished + n /\ vanished' \in Nat
  BY <1>1, <1>2, <1>3
<1>5. /\ inbox' \in GoodsMap
      /\ inbox'[p] = [k \in Kinds |-> 0]
      /\ \A q \in Traders \ {p} : inbox'[q] = inbox[q]
  BY <1>1, <1>2 DEF GoodsMap
<1>6. inbox'[p]["stack"] = 0 /\ inbox'[p]["single"] = 0
  BY <1>3, <1>5
<1>7. GoodsOf(goods[p], inbox'[p]) = GoodsOf(goods[p], inbox[p]) + m
      /\ GoodsOf(goods[p], inbox[p]) \in Nat
  BY <1>2, <1>3, <1>6 DEF GoodsOf
<1>8. SumOver(Owned(goods, inbox'), Traders) =
         SumOver(Owned(goods, inbox), Traders)
             - GoodsOf(goods[p], inbox[p]) + GoodsOf(goods[p], inbox'[p])
  BY <1>2, <1>5, OneTraderGives
<1>9. /\ SumOver(Owned(goods', inbox'), Traders) =
            SumOver(Owned(goods, inbox), Traders) + m
      /\ SumOver(StandingGoods(offers'), OfferIds) =
            SumOver(StandingGoods(offers), OfferIds) + 0
  BY <1>1, <1>2, <1>4, <1>7, <1>8
<1> HIDE DEF n, m
<1>10. GoodsAdd'
  BY <1>1, <1>4, <1>9, GoodsAddUp
<1>11. GoldAdds' /\ TableKeeps
  BY <1>1, GoldStays, TableStays
<1> QED
  BY <1>1, <1>2, <1>4, <1>5, <1>10, <1>11, MarketRest DEF SwapsKeep

\* Coming back, and the time that passes.
LEMMA NobodyTrades ==
  ASSUME MarketInv, online' \subseteq Traders, expired' \subseteq OfferIds,
         UNCHANGED <<gold, goods, inbox, offers, created, results, history>>
  PROVE  MarketInv'
<1>1. GoldAdds' /\ GoodsAdd' /\ TableKeeps
  BY GoldStays, GoodsStay, TableStays DEF history
<1> QED
  BY <1>1, MarketTyped, MarketRest DEF history, SwapsKeep

\* The expiry query finds rows of the table.
LEMMA FindKeeps == ASSUME MarketInv, FindExpired PROVE MarketInv'
<1> DEFINE E == {e \in expired : Open(e)}
           rows == {[id |-> o, offer |-> offers[o]] : o \in E}
<1>1. /\ results' = Append(results, rows)
      /\ UNCHANGED <<online, gold, goods, inbox, offers, created, expired,
                     history>>
  BY DEF FindExpired
<1>2. /\ IsFiniteSet(OfferIds) /\ expired \subseteq OfferIds
      /\ results \in Seq(SUBSET Rows)
      /\ \A o \in OfferIds : offers[o] # NoOffer => offers[o] \in Offers
      /\ \A x \in Offers : x.amount \in Nat
  BY OffersAre, MarketTyped
<1>3. E \subseteq OfferIds /\ \A o \in E : offers[o] # NoOffer
  BY <1>2 DEF Open
<1>4. rows \subseteq Rows
  BY <1>2, <1>3 DEF Rows
<1>5. IsFiniteSet(rows)
  <2>1. IsFiniteSet(E)
    BY <1>2, <1>3, FS_Subset
  <2> DEFINE f == [o \in E |-> [id |-> o, offer |-> offers[o]]]
  <2>2. f \in Surjection(E, rows)
    <3>1. f \in [E -> rows]
      OBVIOUS
    <3>2. \A r \in rows : \E o \in E : f[o] = r
      OBVIOUS
    <3> HIDE DEF f, rows, E
    <3> QED
      BY <3>1, <3>2 DEF Surjection
  <2> HIDE DEF E, f, rows
  <2> QED
    BY <2>1, <2>2, FS_Surjection
<1>6. \A r \in rows : RowFits(r)
  <2> TAKE r \in rows
  <2>1. PICK o \in E : r = [id |-> o, offer |-> offers[o]]
    OBVIOUS
  <2>2. r.id = o /\ r.offer = offers[o] /\ o \in OfferIds
        /\ offers[o] # NoOffer /\ offers[o].amount \in Nat
    BY <1>2, <1>3, <2>1
  <2> QED
    BY <2>2 DEF RowFits, LeftOf, MarketInv, OffersFit
<1>7. \A r, s \in rows : r.id = s.id => r = s
  OBVIOUS
<1> HIDE DEF rows
<1>8. RowsFit(rows)
  BY <1>5, <1>6, <1>7 DEF RowsFit
<1>9. ASSUME NEW i \in DOMAIN results' PROVE RowsFit(results'[i])
  <2>1. CASE i \in DOMAIN results
    BY <1>1, <1>2, <2>1 DEF MarketInv
  <2>2. CASE i \notin DOMAIN results
    BY <1>1, <1>2, <1>8, <2>2
  <2> QED
    BY <2>1, <2>2
<1>10. \A i \in DOMAIN results' : RowsFit(results[i])'
  <2> TAKE i \in DOMAIN results'
  <2> DEFINE q == results'[i]
  <2>1. RowsFit(q)
    BY <1>9
  <2> HIDE DEF q
  <2>2. /\ IsFiniteSet(q) /\ \A r, s \in q : r.id = s.id => r = s
        /\ \A r \in q : RowFits(r)'
    BY <1>1, <2>1 DEF RowsFit, RowFits
  <2> QED
    BY <2>2 DEF RowsFit, q
<1>11. results' \in Seq(SUBSET Rows)
  BY <1>1, <1>2, <1>4
<1>12. MarketTypeOK'
  BY <1>1, <1>11 DEF MarketInv, MarketTypeOK, history
<1>13. OffersFit' /\ GoldAdds' /\ GoodsAdd' /\ overgiven' = 0
       /\ swapped' <= created'
  BY <1>1 DEF MarketInv, OffersFit, GoldAdds, GoodsAdd, history, GoldGiven,
     GoodsGiven
<1> QED
  BY <1>10, <1>12, <1>13 DEF MarketInv

\* The rows of the next result that are still there.
Found == StillThere(Head(results))

Buys == {r \in Found : r.offer.type = "BUY"}

Sells == {r \in Found : r.offer.type = "SELL"}

\* What processExpiredOffers goes by, of each row.
PaidBack == [r \in Found |-> r.offer.price * r.offer.amount]

GivenBack == [r \in Found |-> r.offer.amount]

Since == [r \in Found |-> AcceptedSince(r)]

SinceWorth == [r \in Found |-> r.offer.price * AcceptedSince(r)]

Lost == [r \in Found |-> Unsaved(r.offer.owner, r.offer.amount)]

Owners == [r \in Found |-> r.offer.owner]

KindsOf == [r \in Found |-> r.offer.kind]

RowIds == [r \in Found |-> r.id]

SellsOf(p) == {r \in Sells : Owners[r] = p}

\* What a refund does, by these.
LEMMA ProcessIs ==
  ASSUME ProcessExpired
  PROVE  /\ results # <<>> /\ results' = Tail(results)
         /\ offers' = [o \in OfferIds |->
                IF \E r \in Found : RowIds[r] = o THEN NoOffer
                ELSE offers[o]]
         /\ gold' = [p \in Traders |->
                gold[p] + ByKey(PaidBack, Buys, Owners, Traders)[p]]
         /\ inbox' = [p \in Traders |-> [k \in Kinds |->
                IF p \in online
                THEN inbox[p][k]
                        + ByKey(GivenBack, SellsOf(p), KindsOf, Kinds)[k]
                ELSE inbox[p][k]]]
         /\ vanished' = vanished + SumOver(Lost, Sells)
         /\ overpaid' = overpaid + SumOver(SinceWorth, Buys)
         /\ overgiven' = overgiven + SumOver(Since, Sells)
         /\ UNCHANGED <<online, goods, created, expired, burned, swapped>>
<1>1. \A p \in Traders :
         GoldBack(Found, p) = ByKey(PaidBack, Buys, Owners, Traders)[p]
  <2> TAKE p \in Traders
  <2>1. {r \in Found : r.offer.owner = p /\ r.offer.type = "BUY"}
            = {r \in Buys : Owners[r] = p}
    BY DEF Buys, Owners
  <2> QED
    BY <2>1, TotalIsSum DEF GoldBack, PaidBack, ByKey
<1>2. \A p \in Traders, k \in Kinds :
         GoodsBack(Found, p, k)
            = ByKey(GivenBack, SellsOf(p), KindsOf, Kinds)[k]
  <2> TAKE p \in Traders, k \in Kinds
  <2>1. {r \in Found : /\ r.offer.owner = p /\ r.offer.kind = k
                       /\ r.offer.type = "SELL"}
            = {r \in SellsOf(p) : KindsOf[r] = k}
    BY DEF Sells, SellsOf, Owners, KindsOf
  <2> QED
    BY <2>1, TotalIsSum DEF GoodsBack, GivenBack, ByKey
<1>3. /\ results # <<>> /\ results' = Tail(results)
      /\ UNCHANGED <<online, goods, created, expired, burned, swapped>>
  BY DEF ProcessExpired
<1>4. offers' = [o \in OfferIds |->
          IF \E r \in Found : r.id = o THEN NoOffer ELSE offers[o]]
  BY DEF ProcessExpired, Found
<1>5. /\ gold' = [p \in Traders |-> gold[p] + GoldBack(Found, p)]
      /\ inbox' = [p \in Traders |-> [k \in Kinds |->
              IF p \in online THEN inbox[p][k] + GoodsBack(Found, p, k)
              ELSE inbox[p][k]]]
  BY DEF ProcessExpired, Found
<1>6. /\ vanished' = vanished + Total(Lost, Sells)
      /\ overpaid' = overpaid + Total(SinceWorth, Buys)
      /\ overgiven' = overgiven + Total(Since, Sells)
  BY DEF ProcessExpired, Found, Lost, Sells, Buys, SinceWorth, Since
<1>7. \A r \in Found : RowIds[r] = r.id
  BY DEF RowIds
<1>8. offers' = [o \in OfferIds |->
          IF \E r \in Found : RowIds[r] = o THEN NoOffer ELSE offers[o]]
  BY <1>4, <1>7
<1>9. gold' = [p \in Traders |->
                 gold[p] + ByKey(PaidBack, Buys, Owners, Traders)[p]]
  BY <1>1, <1>5
<1>10. inbox' = [p \in Traders |-> [k \in Kinds |->
                IF p \in online
                THEN inbox[p][k]
                        + ByKey(GivenBack, SellsOf(p), KindsOf, Kinds)[k]
                ELSE inbox[p][k]]]
  BY <1>2, <1>5
<1> QED
  BY <1>3, <1>6, <1>8, <1>9, <1>10, TotalIsSum

\* The rows and the table.
LEMMA FoundIs ==
  ASSUME MarketInv, results # <<>>
  PROVE  /\ Found \in SUBSET Rows /\ IsFiniteSet(Found)
         /\ IsFiniteSet(Buys) /\ IsFiniteSet(Sells)
         /\ Buys \subseteq Found /\ Sells \subseteq Found
         /\ \A r, s \in Found : RowIds[r] = RowIds[s] => r = s
         /\ \A r \in Found :
                /\ RowIds[r] = r.id /\ r.id \in OfferIds
                /\ Owners[r] = r.offer.owner /\ Owners[r] \in Traders
                /\ KindsOf[r] = r.offer.kind /\ KindsOf[r] \in Kinds
                /\ r.offer \in Offers
                /\ r.offer.type = "BUY" => r \in Buys
                /\ r.offer.type = "SELL" => r \in Sells
                /\ r.offer.type \in {"BUY", "SELL"}
                /\ r.offer.amount \in Nat /\ r.offer.price \in Nat
                /\ offers[r.id] # NoOffer /\ offers[r.id] \in Offers
                /\ LeftOf(offers[r.id], r.offer)
                /\ r.offer.type = "SELL" => r.offer.amount = 1
<1> DEFINE rows == Head(results)
<1>1. results \in Seq(SUBSET Rows) /\ 1 \in DOMAIN results
      /\ rows = results[1]
  BY MarketTyped
<1>2. RowsFit(rows) /\ rows \in SUBSET Rows
  BY <1>1 DEF MarketInv
<1> HIDE DEF rows
<1>3. Found = {r \in rows : Open(r.id)}
  BY DEF Found, StillThere, rows
<1>4. /\ Found \in SUBSET Rows /\ IsFiniteSet(Found)
      /\ \A r \in Found : RowFits(r) /\ offers[r.id] # NoOffer
      /\ \A r, s \in Found : r.id = s.id => r = s
  <2>1. Found \subseteq rows
    BY <1>3
  <2>2. IsFiniteSet(Found)
    BY <1>2, <2>1, FS_Subset DEF RowsFit
  <2> QED
    BY <1>2, <1>3, <2>1, <2>2 DEF RowsFit, Open
<1>5. Buys \subseteq Found /\ Sells \subseteq Found
  BY DEF Buys, Sells
<1>6. IsFiniteSet(Buys) /\ IsFiniteSet(Sells)
  BY <1>4, <1>5, FS_Subset
<1>7. \A r \in Found : RowIds[r] = r.id /\ Owners[r] = r.offer.owner
                       /\ KindsOf[r] = r.offer.kind
  BY DEF RowIds, Owners, KindsOf
<1>8. ASSUME NEW r \in Found
      PROVE  /\ r.id \in OfferIds /\ r.offer \in Offers
             /\ r.offer.owner \in Traders /\ r.offer.kind \in Kinds
             /\ r.offer.type = "BUY" => r \in Buys
             /\ r.offer.type = "SELL" => r \in Sells
             /\ r.offer.type \in {"BUY", "SELL"}
             /\ r.offer.amount \in Nat /\ r.offer.price \in Nat
             /\ offers[r.id] # NoOffer /\ offers[r.id] \in Offers
             /\ LeftOf(offers[r.id], r.offer)
             /\ r.offer.type = "SELL" => r.offer.amount = 1
  <2>1. r.id \in OfferIds /\ r.offer \in Offers
    BY <1>4 DEF Rows
  <2>2. offers[r.id] # NoOffer /\ RowFits(r)
    BY <1>4
  <2>3. offers[r.id] \in Offers
    BY <2>1, <2>2, MarketTyped
  <2> QED
    BY <2>1, <2>2, <2>3, OffersAre DEF RowFits, Buys, Sells
<1> QED
  BY <1>4, <1>5, <1>6, <1>7, <1>8

\* What a row is about, in numbers.
LEMMA FoundCounts ==
  ASSUME MarketInv, results # <<>>
  PROVE  /\ \A r \in Found :
                /\ PaidBack[r] \in Nat /\ GivenBack[r] \in Nat
                /\ Since[r] \in Nat /\ SinceWorth[r] \in Nat
                /\ Lost[r] \in Nat
                /\ GivenBack[r] = r.offer.amount
                /\ Lost[r] = IF Owners[r] \in online THEN 0
                             ELSE GivenBack[r]
         /\ \A r \in Buys :
                /\ PaidBack[r] = Worth(offers[r.id]) + SinceWorth[r]
                /\ Pieces(offers[r.id]) = 0
                /\ Worth(offers[r.id]) \in Nat
         /\ \A r \in Sells :
                /\ Since[r] = 0 /\ Worth(offers[r.id]) = 0
                /\ Pieces(offers[r.id]) = GivenBack[r]
<1> SUFFICES ASSUME NEW r \in Found
             PROVE  /\ PaidBack[r] \in Nat /\ GivenBack[r] \in Nat
                    /\ Since[r] \in Nat /\ SinceWorth[r] \in Nat
                    /\ Lost[r] \in Nat
                    /\ GivenBack[r] = r.offer.amount
                    /\ Lost[r] = IF Owners[r] \in online THEN 0
                                 ELSE GivenBack[r]
                    /\ r.offer.type = "BUY" =>
                        /\ PaidBack[r] = Worth(offers[r.id]) + SinceWorth[r]
                        /\ Pieces(offers[r.id]) = 0
                        /\ Worth(offers[r.id]) \in Nat
                    /\ r.offer.type = "SELL" =>
                        /\ Since[r] = 0 /\ Worth(offers[r.id]) = 0
                        /\ Pieces(offers[r.id]) = GivenBack[r]
  BY DEF Buys, Sells
<1> DEFINE x == offers[r.id]
           y == r.offer
<1>1. /\ x \in Offers /\ y \in Offers /\ x # NoOffer /\ LeftOf(x, y)
      /\ y.type = "SELL" => y.amount = 1
      /\ Owners[r] = y.owner
  BY FoundIs
<1>2. /\ PaidBack[r] = y.price * y.amount /\ GivenBack[r] = y.amount
      /\ Since[r] = AcceptedSince(r)
      /\ SinceWorth[r] = y.price * AcceptedSince(r)
      /\ Lost[r] = Unsaved(y.owner, y.amount)
  BY DEF PaidBack, GivenBack, Since, SinceWorth, Lost
<1>3. AcceptedSince(r) = y.amount - x.amount
  BY <1>1 DEF AcceptedSince, Open
<1>4. Lost[r] = IF y.owner \in online THEN 0 ELSE y.amount
  BY <1>2 DEF Unsaved
<1> HIDE DEF x, y
<1>5. /\ x.amount \in Nat \ {0} /\ y.amount \in Nat \ {0} /\ y.price \in Nat
      /\ x.price = y.price /\ x.type = y.type /\ x.amount <= y.amount
  BY <1>1, OffersAre DEF LeftOf
<1>6. Since[r] = y.amount - x.amount /\ Since[r] \in Nat
  BY <1>2, <1>3, <1>5
<1>7. /\ PaidBack[r] \in Nat /\ SinceWorth[r] \in Nat
      /\ y.price * x.amount \in Nat
      /\ SinceWorth[r] = y.price * y.amount - y.price * x.amount
  <2>1. SinceWorth[r] = y.price * Since[r]
    BY <1>2
  <2>2. SinceWorth[r] \in Nat /\ PaidBack[r] \in Nat
        /\ y.price * x.amount \in Nat
    BY <1>2, <1>5, <1>6, <2>1, Products
  <2>3. y.price * (y.amount - x.amount)
            = y.price * y.amount - y.price * x.amount
    BY <1>5, Products
  <2> QED
    BY <1>6, <2>1, <2>2, <2>3
<1>8. y.type = "BUY" => Worth(x) = y.price * x.amount /\ Pieces(x) = 0
  BY <1>1, <1>5 DEF Worth, Pieces
<1>9. y.type = "SELL" => Worth(x) = 0 /\ Pieces(x) = x.amount
  BY <1>1, <1>5 DEF Worth, Pieces
<1>10. y.type = "BUY" => /\ PaidBack[r] = Worth(x) + SinceWorth[r]
                         /\ Worth(x) \in Nat
  BY <1>2, <1>7, <1>8
<1>11. y.type = "SELL" => Since[r] = 0 /\ Pieces(x) = GivenBack[r]
  BY <1>1, <1>2, <1>5, <1>6, <1>9
<1>12. Lost[r] \in Nat /\ GivenBack[r] \in Nat
  BY <1>2, <1>4, <1>5
<1> QED
  BY <1>1, <1>2, <1>4, <1>6, <1>7, <1>8, <1>9, <1>10, <1>11, <1>12 DEF x, y

\* What is paid back, and what was held back for it.
LEMMA ProcessGold ==
  ASSUME MarketInv, ProcessExpired
  PROVE  /\ gold' \in [Traders -> Nat] /\ overpaid' \in Nat /\ GoldAdds'
         /\ \A p \in Traders : gold'[p] >= gold[p]
<1> DEFINE g == ByKey(PaidBack, Buys, Owners, Traders)
<1>0. /\ results # <<>> /\ UNCHANGED burned
      /\ gold' = [p \in Traders |-> gold[p] + g[p]]
      /\ overpaid' = overpaid + SumOver(SinceWorth, Buys)
      /\ offers' = [o \in OfferIds |->
              IF \E r \in Found : RowIds[r] = o THEN NoOffer ELSE offers[o]]
  BY ProcessIs
<1>1. /\ IsFiniteSet(Buys) /\ Buys \subseteq Found
      /\ \A r \in Found : Owners[r] \in Traders
      /\ \A r, s \in Buys : RowIds[r] = RowIds[s] => r = s
      /\ \A r \in Found : RowIds[r] \in OfferIds /\ RowIds[r] = r.id
      /\ \A r \in Found : r \in Buys \/ r \in Sells
  BY <1>0, FoundIs
<1>2. /\ \A r \in Buys : /\ PaidBack[r] \in Nat /\ SinceWorth[r] \in Nat
                         /\ PaidBack[r] = Worth(offers[r.id]) + SinceWorth[r]
                         /\ Worth(offers[r.id]) \in Nat
      /\ \A r \in Sells : Worth(offers[r.id]) = 0
  BY <1>0, <1>1, FoundCounts
<1>3. /\ IsFiniteSet(Traders) /\ IsFiniteSet(OfferIds)
      /\ gold \in [Traders -> Nat] /\ \A p \in Traders : gold[p] \in Nat
      /\ overpaid \in Nat /\ burned \in Nat
      /\ offers \in OfferMap
      /\ SumOver(gold, Traders) \in Nat
      /\ SumOver(StandingGold(offers), OfferIds) \in Nat
  BY OffersAre, MarketTyped
<1>4. ASSUME NEW p \in Traders PROVE g[p] \in Nat
  <2> DEFINE Q == {r \in Buys : Owners[r] = p}
  <2>1. IsFiniteSet(Q) /\ \A r \in Q : PaidBack[r] \in Nat
    BY <1>1, <1>2, FS_Subset
  <2> HIDE DEF Q
  <2>2. SumOver(PaidBack, Q) \in Nat
    BY <2>1, SumNat
  <2> QED
    BY <2>2 DEF ByKey, Q
<1>5. SumOver(g, Traders) = SumOver(PaidBack, Buys)
  BY <1>1, <1>2, <1>3, SumByKey
<1> HIDE DEF g
<1>6. gold' \in [Traders -> Nat] /\ \A p \in Traders :
            gold'[p] >= gold[p] /\ gold'[p] = gold[p] + g[p]
  BY <1>0, <1>3, <1>4
<1>7. SumOver(gold', Traders) = SumOver(gold, Traders) + SumOver(g, Traders)
  BY <1>3, <1>4, <1>6, SumAdds
<1> DEFINE w == [r \in Buys |-> Worth(offers[r.id])]
           a == SumOver(PaidBack, Buys)
           b == SumOver(w, Buys)
           d == SumOver(SinceWorth, Buys)
<1>8. \A r \in Buys : w[r] = Worth(offers[r.id]) /\ w[r] \in Nat
  BY <1>2
<1>9. a = b + d /\ a \in Nat /\ b \in Nat /\ d \in Nat
  <2>1. \A r \in Buys : /\ w[r] \in Int /\ SinceWorth[r] \in Int
                        /\ PaidBack[r] = w[r] + SinceWorth[r]
    BY <1>2, <1>8
  <2> HIDE DEF w
  <2>2. SumOver(PaidBack, Buys) = SumOver(w, Buys) + SumOver(SinceWorth, Buys)
    BY <1>1, <2>1, SumAdds
  <2>3. SumOver(PaidBack, Buys) \in Nat
    BY <1>1, <1>2, SumNat
  <2>4. SumOver(w, Buys) \in Nat
    BY <1>1, <1>8, SumNat
  <2>5. SumOver(SinceWorth, Buys) \in Nat
    BY <1>1, <1>2, SumNat
  <2> QED
    BY <2>2, <2>3, <2>4, <2>5
<1>10. offers' \in OfferMap
  BY <1>0, <1>3 DEF OfferMap
<1> DEFINE v == StandingGold(offers)
           u == StandingGold(offers')
<1>11. /\ \A o \in OfferIds : v[o] = Worth(offers[o]) /\ v[o] \in Nat
       /\ \A o \in OfferIds : u[o] = Worth(offers'[o]) /\ u[o] \in Nat
  BY <1>3, <1>10, WorthIs DEF StandingGold, OfferMap
<1>12. Worth(NoOffer) = 0
  BY DEF Worth
<1>13. SumOver(v, OfferIds) = SumOver(u, OfferIds) + SumOver(w, Buys)
  <2>1. \A r \in Buys : v[RowIds[r]] = u[RowIds[r]] + w[r]
    <3> TAKE r \in Buys
    <3>1. r \in Found /\ RowIds[r] \in OfferIds /\ RowIds[r] = r.id
      BY <1>1
    <3>2. offers'[RowIds[r]] = NoOffer
      BY <1>0, <3>1
    <3>3. v[RowIds[r]] = w[r] /\ u[RowIds[r]] = 0 /\ w[r] \in Nat
      BY <1>8, <1>11, <1>12, <3>1, <3>2
    <3> QED
      BY <3>3
  <2>2. ASSUME NEW o \in OfferIds, \A r \in Buys : RowIds[r] # o
        PROVE  v[o] = u[o]
    <3>1. CASE \E r \in Found : RowIds[r] = o
      <4>1. PICK r \in Found : RowIds[r] = o
        BY <3>1
      <4>2. r \in Sells /\ r.id = o
        BY <1>1, <2>2, <4>1
      <4>3. offers'[o] = NoOffer
        BY <1>0, <3>1
      <4> QED
        BY <1>2, <1>11, <1>12, <4>2, <4>3
    <3>2. CASE ~ \E r \in Found : RowIds[r] = o
      BY <1>0, <1>11, <3>2
    <3> QED
      BY <3>1, <3>2
  <2>3. /\ \A o \in OfferIds : v[o] \in Int /\ u[o] \in Int
        /\ \A r \in Buys : RowIds[r] \in OfferIds /\ w[r] \in Int
    BY <1>1, <1>8, <1>11
  <2>4. \A o \in OfferIds :
            (\A r \in Buys : RowIds[r] # o) => v[o] = u[o]
    BY <2>2
  <2>5. \A r, s \in Buys : RowIds[r] = RowIds[s] => r = s
    BY <1>1
  <2>6. IsFiniteSet(Buys) /\ IsFiniteSet(OfferIds)
    BY <1>1, <1>3
  <2> HIDE DEF u, v, w
  <2>7. SumOver(v, OfferIds) = SumOver(u, OfferIds) + SumOver(w, Buys)
    BY <2>1, <2>3, <2>4, <2>5, <2>6, SumGone
  <2> QED
    BY <2>7
<1>14. SumOver(u, OfferIds) \in Nat
  BY <1>10, AccountsTyped
<1> DEFINE m == 0 - b
<1>15. SumOver(StandingGold(offers'), OfferIds) =
            SumOver(StandingGold(offers), OfferIds) + m
  <2> HIDE DEF w
  <2> QED
    BY <1>3, <1>9, <1>13, <1>14
<1>16. a \in Int /\ m \in Int /\ 0 \in Int /\ d \in Int /\ a + m + 0 = d
  <2> HIDE DEF a, b, d
  <2> QED
    BY <1>9
<1>17. /\ SumOver(gold', Traders) = SumOver(gold, Traders) + a
       /\ burned' = burned + 0 /\ overpaid' = overpaid + d
       /\ overpaid' \in Nat
  BY <1>0, <1>3, <1>5, <1>7, <1>9
<1> HIDE DEF a, m, d
<1>18. GoldAdds'
  BY <1>15, <1>16, <1>17, GoldAddsUp
<1> QED
  BY <1>6, <1>17, <1>18

\* What is given back, and what was held back for it.
LEMMA ProcessGoods ==
  ASSUME MarketInv, ProcessExpired
  PROVE  /\ inbox' \in GoodsMap /\ vanished' \in Nat /\ GoodsAdd'
         /\ overgiven' = 0
         /\ \A p \in Traders, k \in Kinds : inbox'[p][k] >= inbox[p][k]
<1> DEFINE g(p) == ByKey(GivenBack, SellsOf(p), KindsOf, Kinds)
<1>0. /\ results # <<>> /\ UNCHANGED <<goods, swapped>>
      /\ inbox' = [p \in Traders |-> [k \in Kinds |->
                IF p \in online THEN inbox[p][k] + g(p)[k]
                ELSE inbox[p][k]]]
      /\ vanished' = vanished + SumOver(Lost, Sells)
      /\ overgiven' = overgiven + SumOver(Since, Sells)
      /\ offers' = [o \in OfferIds |->
              IF \E r \in Found : RowIds[r] = o THEN NoOffer ELSE offers[o]]
  BY ProcessIs
<1>1. /\ IsFiniteSet(Sells) /\ Sells \subseteq Found
      /\ \A r \in Found : Owners[r] \in Traders /\ KindsOf[r] \in Kinds
      /\ \A r, s \in Sells : RowIds[r] = RowIds[s] => r = s
      /\ \A r \in Found : RowIds[r] \in OfferIds /\ RowIds[r] = r.id
      /\ \A r \in Found : r \in Buys \/ r \in Sells
  BY <1>0, FoundIs
<1>2. /\ \A r \in Sells : /\ GivenBack[r] \in Nat /\ Lost[r] \in Nat
                          /\ Since[r] = 0
                          /\ Pieces(offers[r.id]) = GivenBack[r]
                          /\ Lost[r] = IF Owners[r] \in online THEN 0
                                       ELSE GivenBack[r]
      /\ \A r \in Buys : Pieces(offers[r.id]) = 0
  BY <1>0, <1>1, FoundCounts
<1>3. /\ IsFiniteSet(Traders) /\ IsFiniteSet(OfferIds)
      /\ goods \in GoodsMap /\ inbox \in GoodsMap
      /\ vanished \in Nat /\ offers \in OfferMap /\ overgiven = 0
      /\ SumOver(Owned(goods, inbox), Traders) \in Nat
      /\ SumOver(StandingGoods(offers), OfferIds) \in Nat
      /\ \A p \in Traders, k \in Kinds :
            goods[p][k] \in Nat /\ inbox[p][k] \in Nat
  BY OffersAre, MarketTyped
<1>4. overgiven' = 0
  <2>1. SumOver(Since, Sells) = 0
    BY <1>1, <1>2, SumZero
  <2> QED
    BY <1>0, <1>3, <2>1
<1>5. \A p \in Traders : /\ SellsOf(p) \subseteq Sells
                         /\ IsFiniteSet(SellsOf(p))
                         /\ SellsOf(p) = {r \in Sells : Owners[r] = p}
  BY <1>1, FS_Subset DEF SellsOf
<1>6. ASSUME NEW p \in Traders, NEW k \in Kinds PROVE g(p)[k] \in Nat
  <2> DEFINE Q == {r \in SellsOf(p) : KindsOf[r] = k}
  <2>1. IsFiniteSet(Q) /\ \A r \in Q : GivenBack[r] \in Nat
    BY <1>2, <1>5, FS_Subset
  <2> HIDE DEF Q
  <2>2. SumOver(GivenBack, Q) \in Nat
    BY <2>1, SumNat
  <2> QED
    BY <2>2 DEF ByKey, Q
<1>7. ASSUME NEW p \in Traders
      PROVE  g(p)["stack"] + g(p)["single"] = SumOver(GivenBack, SellsOf(p))
  <2> DEFINE R == SellsOf(p)
             h == g(p)
  <2>1. /\ IsFiniteSet(R)
        /\ \A r \in R : GivenBack[r] \in Int /\ KindsOf[r] \in Kinds
    BY <1>1, <1>2, <1>5
  <2>2. IsFiniteSet(Kinds)
    <3>1. IsFiniteSet({"stack"})
      BY FS_Singleton
    <3>2. IsFiniteSet({"stack"} \cup {"single"})
      BY <3>1, FS_AddElement
    <3>3. Kinds = {"stack"} \cup {"single"}
      BY DEF Kinds
    <3> QED
      BY <3>2, <3>3
  <2>3. h["stack"] \in Int /\ h["single"] \in Int
    BY <1>6 DEF Kinds
  <2> HIDE DEF R
  <2>4. SumOver(h, Kinds) = SumOver(GivenBack, R)
    BY <2>1, <2>2, SumByKey DEF R
  <2> HIDE DEF h
  <2>5. SumOver(h, Kinds) = h["stack"] + h["single"]
    BY <2>3, SumFew DEF Kinds
  <2> QED
    BY <2>4, <2>5 DEF h, R
<1> HIDE DEF g
<1>8. /\ inbox' \in GoodsMap
      /\ \A p \in Traders, k \in Kinds : inbox'[p][k] >= inbox[p][k]
      /\ \A p \in Traders, k \in Kinds :
            inbox'[p][k] = IF p \in online THEN inbox[p][k] + g(p)[k]
                           ELSE inbox[p][k]
  BY <1>0, <1>3, <1>6 DEF GoodsMap
\* What comes into the inboxes.
<1> DEFINE saved == [r \in Sells |-> IF Owners[r] \in online
                                     THEN GivenBack[r] ELSE 0]
           sb == ByKey(saved, Sells, Owners, Traders)
<1>9. \A r \in Sells : /\ saved[r] \in Nat
                       /\ GivenBack[r] = saved[r] + Lost[r]
                       /\ Owners[r] \in online => saved[r] = GivenBack[r]
                       /\ Owners[r] \notin online => saved[r] = 0
  BY <1>2
<1> HIDE DEF saved
<1>10. SumOver(sb, Traders) = SumOver(saved, Sells)
  BY <1>1, <1>3, <1>9, SumByKey
<1>11. ASSUME NEW p \in Traders
       PROVE  sb[p] = IF p \in online
                      THEN g(p)["stack"] + g(p)["single"] ELSE 0
  <2>0. sb[p] = SumOver(saved, SellsOf(p))
    BY <1>5 DEF ByKey
  <2>1. CASE p \in online
    <3>1. \A r \in SellsOf(p) : GivenBack[r] \in Int
                                /\ saved[r] = GivenBack[r]
      BY <1>2, <1>5, <1>9, <2>1
    <3>2. SumOver(saved, SellsOf(p)) = SumOver(GivenBack, SellsOf(p))
      BY <1>5, <3>1, SumSame
    <3> QED
      BY <1>7, <2>0, <2>1, <3>2
  <2>2. CASE p \notin online
    <3>1. \A r \in SellsOf(p) : saved[r] = 0
      BY <1>5, <1>9, <2>2
    <3>2. SumOver(saved, SellsOf(p)) = 0
      BY <1>5, <3>1, SumZero
    <3> QED
      BY <2>0, <2>2, <3>2
  <2> QED
    BY <2>1, <2>2
<1> HIDE DEF sb
<1> DEFINE before == Owned(goods, inbox)
           after == Owned(goods', inbox')
<1>12. ASSUME NEW p \in Traders
       PROVE  /\ before[p] \in Int /\ sb[p] \in Int
              /\ after[p] = before[p] + sb[p]
  <2>1. "stack" \in Kinds /\ "single" \in Kinds
    BY DEF Kinds
  <2>2. /\ g(p)["stack"] \in Nat /\ g(p)["single"] \in Nat
        /\ goods[p]["stack"] \in Nat /\ goods[p]["single"] \in Nat
        /\ inbox[p]["stack"] \in Nat /\ inbox[p]["single"] \in Nat
    BY <1>3, <1>6, <2>1
  <2>3. /\ before[p] = goods[p]["stack"] + goods[p]["single"]
                        + inbox[p]["stack"] + inbox[p]["single"]
        /\ after[p] = goods[p]["stack"] + goods[p]["single"]
                        + inbox'[p]["stack"] + inbox'[p]["single"]
    BY <1>0 DEF Owned, GoodsOf
  <2> HIDE DEF before, after
  <2>4. CASE p \in online
    <3>1. /\ inbox'[p]["stack"] = inbox[p]["stack"] + g(p)["stack"]
          /\ inbox'[p]["single"] = inbox[p]["single"] + g(p)["single"]
          /\ sb[p] = g(p)["stack"] + g(p)["single"]
      BY <1>8, <1>11, <2>1, <2>4
    <3> QED
      BY <2>2, <2>3, <3>1
  <2>5. CASE p \notin online
    <3>1. /\ inbox'[p]["stack"] = inbox[p]["stack"]
          /\ inbox'[p]["single"] = inbox[p]["single"]
          /\ sb[p] = 0
      BY <1>8, <1>11, <2>1, <2>5
    <3> QED
      BY <2>2, <2>3, <3>1
  <2> QED
    BY <2>4, <2>5
<1> DEFINE a == SumOver(saved, Sells)
           b == SumOver(GivenBack, Sells)
           c == SumOver(Lost, Sells)
<1>13. SumOver(after, Traders) = SumOver(before, Traders) + a
  <2> HIDE DEF before, after
  <2>1. SumOver(after, Traders)
            = SumOver(before, Traders) + SumOver(sb, Traders)
    BY <1>3, <1>12, SumAdds
  <2> QED
    BY <1>10, <2>1
<1>14. b = a + c /\ a \in Nat /\ b \in Nat /\ c \in Nat
  <2>1. \A r \in Sells : saved[r] \in Int /\ Lost[r] \in Int
                         /\ GivenBack[r] = saved[r] + Lost[r]
    BY <1>2, <1>9
  <2>2. b = a + c
    BY <1>1, <2>1, SumAdds
  <2>3. a \in Nat /\ b \in Nat /\ c \in Nat
    BY <1>1, <1>2, <1>9, SumNat
  <2> QED
    BY <2>2, <2>3
\* What was held back.
<1>15. offers' \in OfferMap
  BY <1>0, <1>3 DEF OfferMap
<1> DEFINE v == StandingGoods(offers)
           u == StandingGoods(offers')
<1>16. /\ \A o \in OfferIds : v[o] = Pieces(offers[o]) /\ v[o] \in Nat
       /\ \A o \in OfferIds : u[o] = Pieces(offers'[o]) /\ u[o] \in Nat
  BY <1>3, <1>15, WorthIs DEF StandingGoods, OfferMap
<1>17. Pieces(NoOffer) = 0
  BY DEF Pieces
<1>18. SumOver(v, OfferIds) = SumOver(u, OfferIds) + b
  <2>1. \A r \in Sells : v[RowIds[r]] = u[RowIds[r]] + GivenBack[r]
    <3> TAKE r \in Sells
    <3>1. r \in Found /\ RowIds[r] \in OfferIds /\ RowIds[r] = r.id
      BY <1>1
    <3>2. offers'[RowIds[r]] = NoOffer
      BY <1>0, <3>1
    <3>3. v[RowIds[r]] = GivenBack[r] /\ u[RowIds[r]] = 0
          /\ GivenBack[r] \in Nat
      BY <1>2, <1>16, <1>17, <3>1, <3>2
    <3> QED
      BY <3>3
  <2>2. ASSUME NEW o \in OfferIds, \A r \in Sells : RowIds[r] # o
        PROVE  v[o] = u[o]
    <3>1. CASE \E r \in Found : RowIds[r] = o
      <4>1. PICK r \in Found : RowIds[r] = o
        BY <3>1
      <4>2. r \in Buys /\ r.id = o
        BY <1>1, <2>2, <4>1
      <4>3. offers'[o] = NoOffer
        BY <1>0, <3>1
      <4> QED
        BY <1>2, <1>16, <1>17, <4>2, <4>3
    <3>2. CASE ~ \E r \in Found : RowIds[r] = o
      BY <1>0, <1>16, <3>2
    <3> QED
      BY <3>1, <3>2
  <2>3. /\ \A o \in OfferIds : v[o] \in Int /\ u[o] \in Int
        /\ \A r \in Sells : RowIds[r] \in OfferIds /\ GivenBack[r] \in Int
    BY <1>1, <1>2, <1>16
  <2>4. \A o \in OfferIds :
            (\A r \in Sells : RowIds[r] # o) => v[o] = u[o]
    BY <2>2
  <2>5. \A r, s \in Sells : RowIds[r] = RowIds[s] => r = s
    BY <1>1
  <2>6. IsFiniteSet(Sells) /\ IsFiniteSet(OfferIds)
    BY <1>1, <1>3
  <2> HIDE DEF u, v
  <2>7. SumOver(v, OfferIds) = SumOver(u, OfferIds) + SumOver(GivenBack, Sells)
    BY <2>1, <2>3, <2>4, <2>5, <2>6, SumGone
  <2> QED
    BY <2>7
<1>19. SumOver(u, OfferIds) \in Nat
  BY <1>15, AccountsTyped
<1> DEFINE m == 0 - b
<1>20. /\ SumOver(StandingGoods(offers'), OfferIds) =
            SumOver(StandingGoods(offers), OfferIds) + m
       /\ a \in Int /\ m \in Int /\ c \in Int /\ a + m + c = 0
  <2> HIDE DEF a, b, c
  <2> QED
    BY <1>3, <1>14, <1>18, <1>19
<1>21. /\ SumOver(Owned(goods', inbox'), Traders) =
            SumOver(Owned(goods, inbox), Traders) + a
       /\ vanished' = vanished + c /\ vanished' \in Nat
  BY <1>0, <1>3, <1>13, <1>14
<1> HIDE DEF a, m, c
<1>22. GoodsAdd'
  BY <1>0, <1>20, <1>21, GoodsAddUp
<1> QED
  BY <1>4, <1>8, <1>21, <1>22

\* The offers that expired are gone.
LEMMA ProcessKeeps == ASSUME MarketInv, ProcessExpired PROVE MarketInv'
<1>1. /\ gold' \in [Traders -> Nat] /\ overpaid' \in Nat /\ GoldAdds'
      /\ inbox' \in GoodsMap /\ vanished' \in Nat /\ GoodsAdd'
      /\ overgiven' = 0
  BY ProcessGold, ProcessGoods
<1>2. /\ results # <<>> /\ results' = Tail(results)
      /\ offers' = [o \in OfferIds |->
              IF \E r \in Found : RowIds[r] = o THEN NoOffer ELSE offers[o]]
      /\ UNCHANGED <<online, goods, created, expired, burned, swapped>>
  BY ProcessIs
<1>3. /\ offers \in OfferMap /\ created \in Nat
      /\ \A o \in OfferIds : offers[o] # NoOffer => offers[o].amount \in Nat
      /\ results \in Seq(SUBSET Rows)
  BY MarketTyped, OffersAre
<1>4. TableKeeps
  <2>1. offers' \in OfferMap
    BY <1>2, <1>3 DEF OfferMap
  <2>2. \A o \in OfferIds : offers'[o] = NoOffer \/ offers'[o] = offers[o]
    BY <1>2
  <2>3. OffersFit'
    BY <1>2, <2>2 DEF MarketInv, OffersFit
  <2>4. \A o \in OfferIds : \/ offers'[o] = NoOffer
                            \/ offers[o] # NoOffer
                                /\ LeftOf(offers'[o], offers[o])
    BY <1>3, <2>2 DEF LeftOf
  <2> QED
    BY <1>2, <1>3, <2>1, <2>3, <2>4 DEF TableKeeps
<1>5. results' \in Seq(SUBSET Rows) /\ \A i \in DOMAIN results' :
          i + 1 \in DOMAIN results /\ results'[i] = results[i + 1]
  BY <1>2, <1>3
<1>6. \A i \in DOMAIN results' : RowsFit(results[i])'
  <2> TAKE i \in DOMAIN results'
  <2> DEFINE rows == results'[i]
  <2>1. rows \in SUBSET Rows /\ RowsFit(rows)
    BY <1>3, <1>5 DEF MarketInv
  <2> HIDE DEF rows
  <2>2. /\ IsFiniteSet(rows)
        /\ \A r \in rows : RowFits(r)'
        /\ \A r, s \in rows : r.id = s.id => r = s
    BY <1>4, <2>1, RowsKeep DEF RowsFit
  <2> QED
    BY <2>2 DEF RowsFit, rows
<1>7. MarketTypeOK'
  <2>1. MarketTypeOK /\ offers' \in OfferMap
    BY <1>4 DEF MarketInv, TableKeeps
  <2> QED
    BY <1>1, <1>2, <1>5, <2>1
    DEF MarketTypeOK, OfferMap, GoodsMap
<1>8. (swapped <= created)'
  BY <1>2 DEF MarketInv
<1> QED
  BY <1>1, <1>4, <1>6, <1>7, <1>8 DEF MarketInv, TableKeeps

\* Every step of the market keeps its invariant.
LEMMA MarketKeeps == MarketInv /\ [MarketNext]_MarketVars => MarketInv'
<1> SUFFICES ASSUME MarketInv, [MarketNext]_MarketVars PROVE MarketInv'
  OBVIOUS
<1>1. ASSUME NEW p \in Traders, CreateOffer(p) PROVE MarketInv'
  BY <1>1, CreateBuyKeeps, CreateSellKeeps DEF CreateOffer
<1>2. ASSUME NEW p \in Traders, NEW o \in OfferIds, CancelOffer(p, o)
      PROVE  MarketInv'
  BY <1>2, CancelKeeps
<1>3. ASSUME NEW p \in Traders, NEW o \in OfferIds, NEW n \in Amounts,
             AcceptOffer(p, o, n)
      PROVE  MarketInv'
  <2>1. offers[o].type \in {"BUY", "SELL"}
    BY <1>3, MarketTyped, OffersAre DEF AcceptOffer, Open
  <2> QED
    BY <1>3, <2>1, AcceptBuyKeeps, AcceptSellKeeps
<1>4. ASSUME NEW p \in Traders, LogoutOwner(p) PROVE MarketInv'
  BY <1>4, LogoutKeeps
<1>5. ASSUME NEW p \in Traders, LoginOwner(p) PROVE MarketInv'
  BY <1>5, NobodyTrades, MarketTyped DEF LoginOwner
<1>6. ASSUME NEW o \in OfferIds, PassDuration(o) PROVE MarketInv'
  BY <1>6, NobodyTrades, MarketTyped DEF PassDuration
<1>7. CASE FindExpired
  BY <1>7, FindKeeps
<1>8. CASE ProcessExpired
  BY <1>8, ProcessKeeps
<1>9. CASE UNCHANGED MarketVars
  BY <1>9, NobodyTrades, MarketTyped DEF MarketVars
<1> QED
  BY <1>1, <1>2, <1>3, <1>4, <1>5, <1>6, <1>7, <1>8, <1>9 DEF MarketNext

\* At the start nothing is offered.
LEMMA MarketInitial == MarketInit => MarketInv
<1> SUFFICES ASSUME MarketInit PROVE MarketInv
  OBVIOUS
<1>1. /\ gold = [p \in Traders |-> StartGold] /\ online = Traders
      /\ goods = [p \in Traders |-> [k \in Kinds |-> StartGoods]]
      /\ inbox = [p \in Traders |-> [k \in Kinds |-> 0]]
      /\ offers = [o \in OfferIds |-> NoOffer]
      /\ created = 0 /\ expired = {} /\ results = <<>>
      /\ burned = 0 /\ vanished = 0 /\ overpaid = 0 /\ overgiven = 0
      /\ swapped = 0
  BY DEF MarketInit
<1>2. StartGold \in Nat /\ StartGoods \in Nat
      /\ IsFiniteSet(Traders) /\ IsFiniteSet(OfferIds)
  BY OffersAre
<1>3. MarketTypeOK
  <2>1. goods \in [Traders -> [Kinds -> Nat]]
        /\ inbox \in [Traders -> [Kinds -> Nat]]
    BY <1>1, <1>2
  <2>2. gold \in [Traders -> Nat]
        /\ offers \in [OfferIds -> Offers \cup {NoOffer}]
    BY <1>1, <1>2
  <2> QED
    BY <1>1, <2>1, <2>2 DEF MarketTypeOK
<1>4. OffersFit /\ \A i \in DOMAIN results : RowsFit(results[i])
  BY <1>1 DEF OffersFit
<1>5. SumOver(StandingGold(offers), OfferIds) = 0
      /\ SumOver(StandingGoods(offers), OfferIds) = 0
  <2>1. \A o \in OfferIds : StandingGold(offers)[o] = 0
    BY <1>1 DEF StandingGold, Worth
  <2>2. \A o \in OfferIds : StandingGoods(offers)[o] = 0
    BY <1>1 DEF StandingGoods, Pieces
  <2> QED
    BY <1>2, <2>1, <2>2, SumZero
<1>6. SumOver(gold, Traders) = GoldGiven /\ GoldGiven \in Nat
  BY <1>1, AccountsTyped DEF GoldGiven
<1>7. SumOver(Owned(goods, inbox), Traders) = GoodsGiven
      /\ GoodsGiven \in Nat
  <2>1. \A p \in Traders : Owned(goods, inbox)[p] = 2 * StartGoods
    BY <1>1, <1>2 DEF Owned, GoodsOf, Kinds
  <2>2. Owned(goods, inbox) = [p \in Traders |-> 2 * StartGoods]
    BY <2>1 DEF Owned
  <2> QED
    BY <2>2, AccountsTyped DEF GoodsGiven
<1>8. GoldAdds /\ GoodsAdd
  BY <1>1, <1>5, <1>6, <1>7 DEF GoldAdds, GoodsAdd
<1> QED
  BY <1>1, <1>3, <1>4, <1>8 DEF MarketInv

\* What an owner loses when others do something.
NoLoss(p) ==
    /\ gold'[p] >= gold[p]
    /\ \A k \in Kinds :
          goods'[p][k] + inbox'[p][k] >= goods[p][k] + inbox[p][k]

\* Nothing, if its gold, its depot and its inbox have no less.
LEMMA NothingLost ==
  ASSUME MarketInv, MarketInv', NEW p \in Traders, gold'[p] >= gold[p],
         \A k \in Kinds : goods'[p][k] >= goods[p][k]
                          /\ inbox'[p][k] >= inbox[p][k]
  PROVE  NoLoss(p)
<1>1. \A k \in Kinds : /\ goods[p][k] \in Nat /\ inbox[p][k] \in Nat
                       /\ goods'[p][k] \in Nat /\ inbox'[p][k] \in Nat
  <2>1. /\ goods \in GoodsMap /\ inbox \in GoodsMap
        /\ goods' \in GoodsMap /\ inbox' \in GoodsMap
    BY DEF MarketInv, MarketTypeOK, GoodsMap
  <2> QED
    BY <2>1 DEF GoodsMap
<1> QED
  BY <1>1 DEF NoLoss

\* Nobody loses anything when another trader has an offer accepted.
LEMMA OthersAccept ==
  ASSUME MarketInv, MarketInv', NEW p \in Traders, NEW q \in Traders, p # q,
         NEW o \in OfferIds, NEW n \in Amounts, AcceptOffer(q, o, n)
  PROVE  NoLoss(p)
<1> DEFINE x == offers[o]
           c == x.price * n
<1>1. /\ x # NoOffer /\ x \in Offers /\ n \in Nat /\ x.owner # q
      /\ x.owner \in Traders /\ x.type \in {"BUY", "SELL"}
      /\ x.price \in Nat /\ c \in Nat /\ x.kind \in Kinds
  BY MarketTyped, OffersAre, Products DEF AcceptOffer, Open
<1>2. /\ gold \in [Traders -> Nat] /\ \A r \in Traders : gold[r] \in Nat
      /\ goods \in GoodsMap /\ inbox \in GoodsMap
      /\ \A r \in Traders, k \in Kinds :
            goods[r][k] \in Nat /\ inbox[r][k] \in Nat
  BY MarketTyped
<1>3. gold'[p] >= gold[p]
  <2>1. CASE x.type = "BUY"
    <3>1. gold' = [gold EXCEPT ![q] = @ + c]
      BY <2>1 DEF AcceptOffer, GoldAfter
    <3> HIDE DEF c, x
    <3> QED
      BY <1>2, <3>1
  <2>2. CASE x.type = "SELL"
    <3> DEFINE r == x.owner
    <3>1. gold' = PaidTo(q, r, c) /\ gold[q] >= c /\ r \in Traders /\ r # q
      BY <1>1, <2>2 DEF AcceptOffer, GoldAfter, Afford, PaidTo
    <3>2. c \in Nat
      BY <1>1
    <3> HIDE DEF c, r, x
    <3> QED
      BY <3>1, <3>2, PaidOver
  <2> QED
    BY <1>1, <2>1, <2>2
<1>4. \A k \in Kinds : goods'[p][k] >= goods[p][k]
                       /\ inbox'[p][k] >= inbox[p][k]
  <2>0. Deliver(q, x, n)
    BY DEF AcceptOffer
  <2>1. CASE x.type = "BUY"
    <3>1. PICK d \in Available(q, x.kind, n) :
            /\ goods' = FromDepot(q, x.kind, d)
            /\ inbox' = ToInbox(FromInbox(q, x.kind, n - d), x.owner,
                                x.kind, n)
      BY <2>0, <2>1 DEF Deliver
    <3>2. /\ goods'[p] = goods[p]
          /\ FromInbox(q, x.kind, n - d) \in GoodsMap
          /\ FromInbox(q, x.kind, n - d)[p] = inbox[p]
      BY <1>1, <3>1, TakenIs
    <3>3. \A k \in Kinds : inbox[p][k] <= inbox'[p][k]
      BY <1>1, <1>2, <3>1, <3>2, ReceivedIs
    <3>4. inbox' \in GoodsMap
      BY DEF MarketInv, MarketTypeOK, GoodsMap
    <3>5. \A k \in Kinds : inbox'[p][k] \in Nat
      BY <3>4 DEF GoodsMap
    <3> QED
      BY <1>2, <3>2, <3>3, <3>5
  <2>2. CASE x.type = "SELL"
    <3>1. UNCHANGED goods /\ inbox' = ToInbox(inbox, q, x.kind, n)
      BY <2>0, <2>2 DEF Deliver
    <3>2. \A k \in Kinds : inbox[p][k] <= inbox'[p][k]
      BY <1>1, <1>2, <3>1, ReceivedIs
    <3>4. inbox' \in GoodsMap
      BY DEF MarketInv, MarketTypeOK, GoodsMap
    <3>5. \A k \in Kinds : inbox'[p][k] \in Nat
      BY <3>4 DEF GoodsMap
    <3> QED
      BY <1>2, <3>1, <3>2, <3>5
  <2> QED
    BY <1>1, <2>1, <2>2
<1> QED
  BY <1>3, <1>4, NothingLost

\* Nobody loses anything when another trader offers, cancels or leaves.
LEMMA OthersOffer ==
  ASSUME MarketInv, MarketInv', NEW p \in Traders, NEW q \in Traders, p # q,
         \/ CreateOffer(q) \/ LogoutOwner(q)
         \/ \E o \in OfferIds : CancelOffer(q, o)
  PROVE  NoLoss(p)
<1>1. /\ gold \in [Traders -> Nat] /\ gold[p] \in Nat /\ gold[q] \in Nat
      /\ goods \in GoodsMap /\ inbox \in GoodsMap
      /\ goods \in [Traders -> [Kinds -> Nat]]
      /\ inbox \in [Traders -> [Kinds -> Nat]]
      /\ \A r \in Traders, k \in Kinds :
            goods[r][k] \in Nat /\ inbox[r][k] \in Nat
  BY MarketTyped DEF GoodsMap
<1> SUFFICES gold'[p] = gold[p] /\ goods'[p] = goods[p]
             /\ inbox'[p] = inbox[p]
  BY <1>1, NothingLost
<1>2. ASSUME NEW k \in Kinds, NEW n \in Amounts, NEW price \in Prices,
             CreateBuyOffer(q, k, n, price)
      PROVE  gold'[p] = gold[p] /\ goods'[p] = goods[p]
             /\ inbox'[p] = inbox[p]
  <2> DEFINE c == price * n + Fee
  <2>1. gold' = [gold EXCEPT ![q] = @ - c] /\ UNCHANGED <<goods, inbox>>
    BY <1>2 DEF CreateBuyOffer
  <2> HIDE DEF c
  <2> QED
    BY <1>1, <2>1
<1>3. ASSUME NEW k \in Kinds, NEW n \in Amounts, NEW price \in Prices,
             CreateSellOffer(q, k, n, price)
      PROVE  gold'[p] = gold[p] /\ goods'[p] = goods[p]
             /\ inbox'[p] = inbox[p]
  <2>1. gold' = [gold EXCEPT ![q] = @ - Fee]
    BY <1>3 DEF CreateSellOffer
  <2>2. CASE SellStack(q, n)
    <3>1. PICK d \in Available(q, "stack", n) :
            /\ goods' = FromDepot(q, "stack", d)
            /\ inbox' = FromInbox(q, "stack", n - d)
      BY <2>2 DEF SellStack
    <3> QED
      BY <1>1, <2>1, <3>1 DEF FromDepot, FromInbox
  <2>3. CASE SellSingle(q, price)
    BY <1>1, <2>1, <2>3 DEF SellSingle, FromDepot
  <2> QED
    BY <1>3, <2>2, <2>3 DEF CreateSellOffer
<1>4. CASE LogoutOwner(q)
  BY <1>1, <1>4 DEF LogoutOwner
<1>5. ASSUME NEW o \in OfferIds, CancelOffer(q, o)
      PROVE  gold'[p] = gold[p] /\ goods'[p] = goods[p]
             /\ inbox'[p] = inbox[p]
  <2> DEFINE x == offers[o]
             c == x.price * x.amount
  <2>1. UNCHANGED goods /\ x.owner = q
    BY <1>5 DEF CancelOffer
  <2>2. \/ gold' = [gold EXCEPT ![q] = @ + c] /\ UNCHANGED inbox
        \/ inbox' = ToInbox(inbox, q, x.kind, x.amount) /\ UNCHANGED gold
    BY <1>5 DEF CancelOffer, Returned
  <2> HIDE DEF c, x
  <2> QED
    BY <1>1, <2>1, <2>2 DEF ToInbox
<1> QED
  BY <1>2, <1>3, <1>4, <1>5 DEF CreateOffer

\* Who loses something has done something.
LEMMA LossByTrader ==
  ASSUME MarketInv, MarketInv', MarketNext, NEW p \in Traders
  PROVE  NoLoss(p) \/ ByTrader(p)
<1>0. /\ gold[p] \in Nat /\ \A k \in Kinds :
            goods[p][k] \in Nat /\ inbox[p][k] \in Nat
  BY MarketTyped
<1>1. ASSUME NEW q \in Traders,
             \/ CreateOffer(q) \/ LogoutOwner(q)
             \/ \E o \in OfferIds : CancelOffer(q, o)
      PROVE  NoLoss(p) \/ ByTrader(p)
  <2>1. CASE p = q
    BY <1>1, <2>1 DEF ByTrader
  <2>2. CASE p # q
    BY <1>1, <2>2, OthersOffer
  <2> QED
    BY <2>1, <2>2
<1>2. ASSUME NEW q \in Traders, NEW o \in OfferIds, NEW n \in Amounts,
             AcceptOffer(q, o, n)
      PROVE  NoLoss(p) \/ ByTrader(p)
  <2>1. CASE p = q
    BY <1>2, <2>1 DEF ByTrader
  <2>2. CASE p # q
    BY <1>2, <2>2, OthersAccept
  <2> QED
    BY <2>1, <2>2
<1>3. ASSUME UNCHANGED <<gold, goods, inbox>> PROVE NoLoss(p)
  BY <1>0, <1>3, NothingLost
<1>4. ASSUME NEW q \in Traders, LoginOwner(q) PROVE NoLoss(p)
  BY <1>3, <1>4 DEF LoginOwner
<1>5. ASSUME NEW o \in OfferIds, PassDuration(o) PROVE NoLoss(p)
  BY <1>3, <1>5 DEF PassDuration
<1>6. CASE FindExpired
  BY <1>3, <1>6 DEF FindExpired
<1>7. CASE ProcessExpired
  <2>1. gold'[p] >= gold[p] /\ UNCHANGED goods
        /\ \A k \in Kinds : inbox'[p][k] >= inbox[p][k]
    BY <1>7, ProcessGold, ProcessGoods, ProcessIs
  <2> QED
    BY <1>0, <2>1, NothingLost
<1> QED
  BY <1>1, <1>2, <1>4, <1>5, <1>6, <1>7 DEF MarketNext

\* The property says that of every step.
Losing(p) ==
    \/ gold'[p] < gold[p]
    \/ \E k \in Kinds : goods'[p][k] + inbox'[p][k]
                            < goods[p][k] + inbox[p][k]

\* No loss is no loss.
LEMMA NoLossIs ==
  ASSUME MarketInv, MarketInv', NEW p \in Traders, NoLoss(p)
  PROVE  ~Losing(p)
<1>1. /\ gold \in [Traders -> Nat] /\ gold' \in [Traders -> Nat]
      /\ goods \in GoodsMap /\ inbox \in GoodsMap
      /\ goods' \in GoodsMap /\ inbox' \in GoodsMap
  BY DEF MarketInv, MarketTypeOK, GoodsMap
<1>2. gold[p] \in Nat /\ gold'[p] \in Nat
  BY <1>1
<1>3. ASSUME NEW k \in Kinds
      PROVE  /\ goods[p][k] \in Nat /\ inbox[p][k] \in Nat
             /\ goods'[p][k] \in Nat /\ inbox'[p][k] \in Nat
  BY <1>1 DEF GoodsMap
<1> QED
  BY <1>2, <1>3 DEF NoLoss, Losing

-----------------------------------------------------------------------------
(* Sessions: in a behaviour of one component the others stay as they       *)
(* begin.                                                                  *)

AllVars == <<LoginVars, WalkingVars, SavingVars, MarketVars, part>>

OneSteps == LoginStep \/ WalkingStep \/ SavingStep \/ MarketStep

LEMMA OnlyOneMoves ==
    ASSUME [OneSteps]_AllVars
    PROVE  /\ [LoginNext]_LoginVars /\ [WalkingNext]_WalkingVars
           /\ [SavingNext]_SavingVars /\ [MarketNext]_MarketVars
BY DEF AllVars, OneSteps, LoginStep, WalkingStep, SavingStep, MarketStep

\* Unless a connection broke within a transaction, what is stored is one
\* version of everything, the latest if its save returned true and an older
\* one if not, whichever statement or commit fails; and the lock is held just
\* while a save runs (iologindata.cpp, database.cpp); for any number of
\* tables, saves and tries.
THEOREM SavesAreSound == Spec => []SavingSound
<1>1. Init => SavingInv
    BY SavingInitial DEF Init
<1>2. SavingInv /\ [OneSteps]_AllVars => SavingInv'
    BY OnlyOneMoves, SavingKeeps
<1>3. SavingInv => SavingSound
    BY DEF SavingInv
<1> QED
    BY <1>1, <1>2, <1>3, PTL DEF Spec, OneSteps, AllVars

\* A player whose eventWalk is set has an event to come, or it could never
\* walk again; and one that asked to stop takes one more step at most, however
\* many events are on their way (creature.cpp, player.cpp, game.cpp); for
\* paths of any length, and any number of events and orders.
THEOREM WalksAreSound == Spec => []WalkingSound
<1>1. Init => WalkingInv
    BY WalkingInitial DEF Init
<1>2. WalkingInv /\ [OneSteps]_AllVars => WalkingInv'
    BY OnlyOneMoves, WalkingKeeps
<1>3. WalkingInv => WalkingSound
    BY DEF WalkingInv
<1> QED
    BY <1>1, <1>2, <1>3, PTL DEF Spec, OneSteps, AllVars

\* However many clients log in to a character, at whatever moment, it has one
\* body in the game; a body and the client that has it point to each other,
\* its holders are counted exactly, and what waits to be sent has a sendAll to
\* come (protocolgame.cpp, outputmessage.cpp); for any number of clients.
THEOREM SessionsAreSound == Spec => []LoginSound
<1>1. Init => LoginInv /\ TileFits
    BY LoginInitial DEF Init, LoginInit, TileFits
<1>2. LoginInv /\ TileFits /\ [OneSteps]_AllVars
        => (LoginInv /\ TileFits)'
    BY OnlyOneMoves, LoginKeeps, TileKept
<1> QED
    BY <1>1, <1>2, LoginInvSound, PTL DEF Spec, OneSteps, AllVars

\* What the traders have, what stands in the offers, the fees and what was
\* lost with an inbox are what they began with; only what was bought between
\* the query for an expired offer and its refund is paid twice (game.cpp,
\* iomarket.cpp); for any traders, offers, prices, amounts and fee.
THEOREM MarketIsSound == Spec => []MarketSound
<1>1. Init => MarketInv
    BY MarketInitial DEF Init
<1>2. MarketInv /\ [OneSteps]_AllVars => MarketInv'
    BY OnlyOneMoves, MarketKeeps
<1> QED
    BY <1>1, <1>2, MarketInvSound, PTL DEF Spec, OneSteps, AllVars

\* Whoever has less gold or goods after a step has offered, cancelled,
\* accepted or logged out in it: accepting an offer takes nothing from its
\* owner, and a refund takes nothing from anybody (game.cpp, iomarket.cpp).
THEOREM OwnersHavePaid == Spec => OwnersPaidInAdvance
<1>1. Init => MarketInv
    BY MarketInitial DEF Init
<1>2. MarketInv /\ [OneSteps]_AllVars => MarketInv'
    BY OnlyOneMoves, MarketKeeps
<1>3. MarketInv /\ MarketInv' /\ [OneSteps]_AllVars
        => [\A p \in Traders : Losing(p) => ByTrader(p)]_MarketVars
    BY OnlyOneMoves, LossByTrader, NoLossIs
<1>4. [\A p \in Traders : Losing(p) => ByTrader(p)]_MarketVars
        => [\A p \in Traders :
               \/ gold'[p] < gold[p]
               \/ \E k \in Kinds : goods'[p][k] + inbox'[p][k]
                                       < goods[p][k] + inbox[p][k]
               => ByTrader(p)]_MarketVars
    BY DEF Losing
<1> QED
    BY <1>1, <1>2, <1>3, <1>4, PTL
    DEF Spec, OneSteps, AllVars, OwnersPaidInAdvance
=============================================================================
