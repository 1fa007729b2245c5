------------------------------- MODULE Walking ------------------------------
(***************************************************************************)
(* A player that walks (creature.cpp, player.cpp, game.cpp).  The steps    *)
(* still to take are a list; eventWalk names the event of the scheduler    *)
(* that takes the next one and schedules its successor.  What the player   *)
(* wants to do at the end of the way, walkTask, waits until an event finds *)
(* the list empty.                                                         *)
(*                                                                         *)
(* An event that has expired is a task in the dispatcher's queue, and      *)
(* stopEvent comes too late for it.  Everything else a client or a script  *)
(* asks for may be served before or after what stands in the queue.        *)
(*                                                                         *)
(* Directions and durations are left out; "resting" is a walk delay that   *)
(* has not passed.  A player's step speed is never below a minimum, so     *)
(* that addEventWalk always finds a positive one.                          *)
(***************************************************************************)
EXTENDS Naturals, Sequences, FiniteSets

CONSTANTS MaxSteps,      \* the longest way
          MaxEvents,     \* bound: walk events scheduled or expired
          MaxOrders      \* bound: orders to walk

ASSUME WalkingAssumption ==
    MaxSteps \in Nat \ {0} /\ MaxEvents \in Nat \ {0} /\ MaxOrders \in Nat

Ways == 0 .. MaxSteps
EventIds == 1 .. MaxEvents + MaxOrders + 1
Outcomes == {"moved", "refused", "teleported"}

VARIABLES
    walker,      \* the player's own state, with the events of its walk
    waiting,       \* what these have become at the dispatcher
    slow,        \* the speed is not positive
    orders

WalkingVars == <<walker, waiting, slow, orders>>

WalkingTypeOK ==
    /\ walker \in
        [steps : Ways, resting : BOOLEAN,
         eventWalk : {0} \cup EventIds, events : SUBSET EventIds,
         cancelNextWalk : BOOLEAN,
         walkTask : BOOLEAN,       \* walkTask is set
         walkTaskEvent : BOOLEAN,  \* its event is scheduled
         life : {"healthy", "dying", "gone"},
         sinceStop : 0 .. 3,       \* history: 1 is asked to stop, then steps
         interrupted : BOOLEAN,    \* history: the way of walkTask was left
         revivedThere : BOOLEAN]   \* history: died without being moved
    /\ waiting \in Seq({"walk", "path", "action", "death"})
    /\ slow \in BOOLEAN
    /\ orders \in 0 .. MaxOrders

WalkingInit ==
    /\ walker = [steps |-> 0, resting |-> FALSE,
                 eventWalk |-> 0, events |-> {}, cancelNextWalk |-> FALSE,
                 walkTask |-> FALSE, walkTaskEvent |-> FALSE,
                 life |-> "healthy", sinceStop |-> 0,
                 interrupted |-> FALSE, revivedThere |-> FALSE]
    /\ waiting = <<>> /\ slow = FALSE /\ orders = 0

-----------------------------------------------------------------------------
Count(t) == Cardinality({i \in DOMAIN waiting : waiting[i] = t})

RunsFirst(t) == waiting # <<>> /\ Head(waiting) = t

(* The scheduler numbers its events anew for ever. *)
Fresh(r) == CHOOSE e \in EventIds : e \notin r.events \cup {r.eventWalk}

Scheduled(r) ==
    [r EXCEPT !.eventWalk = Fresh(r), !.events = @ \cup {Fresh(r)}]

NotForgottenMutant(r) == [r EXCEPT !.events = @ \ {r.eventWalk}]

(* stopEventWalk *)
StopEventWalk(r) ==
    [r EXCEPT !.events = @ \ {r.eventWalk}, !.eventWalk = 0,
              !.revivedThere = FALSE]

(* setNextWalkActionTask(nullptr) *)
WithoutWalkTask(r) == [r EXCEPT !.walkTask = FALSE, !.walkTaskEvent = FALSE]

Moved(r) ==
    [r EXCEPT !.steps = @ - 1, !.resting = TRUE,
              !.sinceStop = IF @ = 0 THEN 0 ELSE @ + 1]

(* onCreatureMove of a teleport *)
Teleported(r) ==
    [StopEventWalk(r) EXCEPT !.resting = TRUE, !.interrupted = TRUE]

(* internalMoveCreature: a step that is refused is not taken back. *)
TakeStep(r, outcome) ==
    CASE outcome = "moved" -> Moved(r)
      [] outcome = "refused" -> [r EXCEPT !.steps = @ - 1]
      [] outcome = "teleported" -> Teleported(Moved(r))

(* Player::onWalkComplete *)
OnWalkComplete(r) ==
    IF r.walkTask THEN [r EXCEPT !.walkTask = FALSE, !.walkTaskEvent = TRUE]
    ELSE r

Cancelled(r) ==
    IF r.cancelNextWalk
    THEN WithoutWalkTask([r EXCEPT !.steps = 0, !.cancelNextWalk = FALSE])
    ELSE r

NoSuccessorMutant(r) == [r EXCEPT !.cancelNextWalk = FALSE]

(* The end of onWalk: eventWalk = 0, and addEventWalk *)
Successor(r) == Scheduled([r EXCEPT !.cancelNextWalk = FALSE])

OnWalk(r, outcome) ==
    LET walked == IF r.resting THEN r
                  ELSE IF r.steps > 0 THEN TakeStep(r, outcome)
                  ELSE OnWalkComplete(StopEventWalk(r))
        done == Cancelled(walked)
    IN  IF done.eventWalk # 0 THEN Successor(done) ELSE done

CheckCreatureWalk(r, outcome) ==
    IF r.life = "healthy" THEN OnWalk(r, outcome) ELSE r

(* addEventWalk: the first step of a way of one is taken at once, and the  *)
(* event comes nevertheless.                                               *)
AddEventWalk(r, firstStep, outcome) ==
    LET going == [r EXCEPT !.cancelNextWalk = FALSE] IN
    IF r.eventWalk # 0 THEN going
    ELSE IF firstStep /\ ~r.resting
    THEN Scheduled(CheckCreatureWalk(going, outcome))
    ELSE Scheduled(going)

(* startAutoWalk *)
StartAutoWalk(r, way, outcome) ==
    AddEventWalk([r EXCEPT !.steps = way, !.sinceStop = 0], way = 1, outcome)

-----------------------------------------------------------------------------
IsThere == walker.life # "gone"

(* Bound: orders, and events not yet done. *)
MayOrder ==
    /\ IsThere /\ orders < MaxOrders
    /\ Cardinality(walker.events) + Count("walk") < MaxEvents

PlayerMove(outcome) ==
    /\ MayOrder
    /\ orders' = orders + 1
    /\ walker' = StartAutoWalk(WithoutWalkTask(walker), 1, outcome)
    /\ UNCHANGED <<waiting, slow>>

PlayerAutoWalk(way, outcome) ==
    /\ MayOrder
    /\ orders' = orders + 1
    /\ walker' = StartAutoWalk(walker, way, outcome)
    /\ UNCHANGED <<waiting, slow>>

(* Something is to be done where the player is not: playerAutoWalk is      *)
(* queued, and what is to be done becomes the walkTask.                    *)
GoAndDo(queue) ==
    /\ MayOrder /\ Count("path") = 0
    /\ orders' = orders + 1
    /\ waiting' = Append(queue, "path")
    /\ walker' = [WithoutWalkTask(walker) EXCEPT
                    !.walkTask = TRUE, !.interrupted = FALSE]
    /\ UNCHANGED slow

PlayerUseItemEx == GoAndDo(waiting)

(* The queued playerAutoWalk; a player that may not move keeps the task.   *)
RunPath(way, outcome) ==
    /\ RunsFirst("path")
    /\ waiting' = Tail(waiting)
    /\ walker' = IF IsThere THEN StartAutoWalk(walker, way, outcome)
                 ELSE walker
    /\ UNCHANGED <<slow, orders>>

PathRefused ==
    /\ RunsFirst("path")
    /\ waiting' = Tail(waiting)
    /\ walker' = [walker EXCEPT !.interrupted = TRUE]
    /\ UNCHANGED <<slow, orders>>

(* playerStopAutoWalk; setMovementBlocked does the same. *)
StopWalk ==
    /\ IsThere
    /\ walker' = [walker EXCEPT !.cancelNextWalk = TRUE,
                                !.sinceStop = IF @ = 0 THEN 1 ELSE @]
    /\ UNCHANGED <<waiting, slow, orders>>

(* setSpeed, when the speed is not positive any more, ...                  *)
Slow ==
    /\ IsThere
    /\ slow' = TRUE
    /\ walker' = [StopEventWalk(walker) EXCEPT !.cancelNextWalk = TRUE,
                        !.sinceStop = 0, !.interrupted = TRUE]
    /\ UNCHANGED <<waiting, orders>>

(* ... and when it is again: a stop that was asked for is forgotten.       *)
Quicken ==
    /\ slow /\ IsThere
    /\ Cardinality(walker.events) + Count("walk") < MaxEvents       \* bound
    /\ slow' = FALSE
    /\ walker' = IF walker.steps > 0
                 THEN [AddEventWalk(walker, FALSE, "moved") EXCEPT
                        !.sinceStop = 0]
                 ELSE walker
    /\ UNCHANGED <<waiting, orders>>

Teleport ==
    /\ IsThere
    /\ walker' = Teleported(walker)
    /\ UNCHANGED <<waiting, slow, orders>>

(* Health falls to zero, and executeDeath is queued. *)
LosesLife ==
    /\ walker.life = "healthy"
    /\ walker' = [walker EXCEPT !.life = "dying"]
    /\ waiting' = Append(waiting, "death")
    /\ UNCHANGED <<slow, orders>>

(* In a fight between players in their zone the dead are healed and sent   *)
(* to their temple, which is no teleport for who stands there already;     *)
(* elsewhere they leave the game.                                          *)
RunDeath ==
    /\ RunsFirst("death")
    /\ waiting' = Tail(waiting)
    /\ LET healed == [walker EXCEPT !.life = "healthy"] IN
       \/ walker' = Teleported(healed)
       \/ walker' = [healed EXCEPT !.revivedThere = TRUE,
                                   !.interrupted = TRUE]
       \/ walker' = [WithoutWalkTask(walker) EXCEPT !.life = "gone"]
    /\ UNCHANGED <<slow, orders>>

-----------------------------------------------------------------------------
(* The scheduler's thread *)
WalkDue(e) ==
    /\ e \in walker.events
    /\ walker' = [walker EXCEPT !.events = @ \ {e}]
    /\ waiting' = Append(waiting, "walk")
    /\ UNCHANGED <<slow, orders>>

ActionDue ==
    /\ walker.walkTaskEvent /\ Count("action") = 0
    /\ walker' = [walker EXCEPT !.walkTaskEvent = FALSE]
    /\ waiting' = Append(waiting, "action")
    /\ UNCHANGED <<slow, orders>>

RunWalk(outcome) ==
    /\ RunsFirst("walk")
    /\ waiting' = Tail(waiting)
    /\ walker' = CheckCreatureWalk(walker, outcome)
    /\ UNCHANGED <<slow, orders>>

(* The walkTask is done, or finds itself too far away once more. *)
RunAction ==
    /\ RunsFirst("action")
    /\ \/ waiting' = Tail(waiting) /\ UNCHANGED <<walker, slow, orders>>
       \/ GoAndDo(Tail(waiting))

RestEnds ==
    /\ walker.resting
    /\ walker' = [walker EXCEPT !.resting = FALSE]
    /\ UNCHANGED <<waiting, slow, orders>>

RunTaskOfWalk ==
    \/ \E outcome \in Outcomes :
        RunWalk(outcome) \/ \E way \in Ways : RunPath(way, outcome)
    \/ PathRefused \/ RunAction \/ RunDeath

WalkingNext ==
    \/ \E outcome \in Outcomes :
        PlayerMove(outcome) \/ \E way \in Ways : PlayerAutoWalk(way, outcome)
    \/ PlayerUseItemEx \/ StopWalk
    \/ Slow \/ Quicken \/ Teleport \/ LosesLife
    \/ \E e \in EventIds : WalkDue(e)
    \/ ActionDue \/ RestEnds
    \/ RunTaskOfWalk

(* Timers expire, and the dispatcher serves its queue. *)
WalkingSpec ==
    /\ WalkingInit /\ [][WalkingNext]_WalkingVars
    /\ WF_WalkingVars(RunTaskOfWalk)
    /\ WF_WalkingVars(\E e \in EventIds : WalkDue(e))
    /\ WF_WalkingVars(ActionDue) /\ WF_WalkingVars(RestEnds)

-----------------------------------------------------------------------------
(* eventWalk is not 0 only while an event is to come that clears or        *)
(* renews it, even when a stop came too late or the event found its player *)
(* dead; a player for whom none comes could not walk any more.  Only who   *)
(* was revived in place may be left so.                                    *)
EventToCome ==
    walker.eventWalk # 0 /\ walker.life = "healthy" =>
        \/ walker.eventWalk \in walker.events \/ Count("walk") > 0
        \/ walker.revivedThere

(* A player that asked to stop takes one more step at most, however many   *)
(* events are on their way, until the next order or a change of speed.     *)
StopHeeded == walker.sinceStop < 3

(* Walks are sound: eventWalk stands for an event to come, and a stop is   *)
(* heeded after a step.                                                    *)
WalkingSound == WalkingTypeOK /\ EventToCome /\ StopHeeded

(* A walk that goes on comes to an end, or is interrupted. *)
WalkEnds ==
    walker.steps > 0 /\ walker.eventWalk # 0
        ~> \/ walker.steps = 0 \/ walker.eventWalk = 0
           \/ walker.life = "gone" \/ walker.revivedThere

(* What a player set out to do is done, given up for another order, or     *)
(* was cut off by a teleport, a change of speed, a refusal or a death.     *)
ActionComes ==
    walker.walkTask
        ~> ~walker.walkTask \/ walker.interrupted \/ walker.revivedThere

(* Walks come to their ends: the steps are taken and the action is done.   *)
WalksEnd == WalkEnds /\ ActionComes
=============================================================================
