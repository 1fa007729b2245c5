-------------------------------- MODULE Raids -------------------------------
(***************************************************************************)
(* Raids (raids.cpp, Game.startRaid of luascript.cpp, and reload of        *)
(* game.cpp and signals.cpp).  Every minute it is looked whether a raid    *)
(* begins; the one that runs is a chain of events until it is reset, and   *)
(* no other begins meanwhile.  A raid that may not be repeated is taken    *)
(* from the list when it begins, and is then out of the reach of clear(),  *)
(* which deletes the others when the raids are loaded again.               *)
(*                                                                         *)
(* A raid is known by what it is and by the load that made it.  A task of  *)
(* a raid that was deleted finds it as it was.  What an event does, places *)
(* monsters or runs a script, is whether it succeeds.                      *)
(***************************************************************************)
EXTENDS Chains, FiniteSets

CONSTANTS
    RaidNames,       \* the raids of the file
    OnlyOnce,        \* those that may not be repeated
    MaxRaidEvents,   \* events of a raid
    MaxLoads,        \* bound: how often the raids are loaded
    NoRaid

ASSUME RaidsAssumption ==
    /\ {MaxRaidEvents, MaxLoads} \subseteq Nat \ {0}
    /\ OnlyOnce \subseteq RaidNames /\ IsFiniteSet(RaidNames)
    /\ NoRaid \notin RaidNames \X Nat

VARIABLE raids

(* A raid is <<name, load>>. *)
Raids == RaidNames \X (1..MaxLoads)
Loaded(n) == {r \in Raids : r[2] = n}

Length(r) == raids.file[r[1]]

RaidsTypeOK ==
    raids \in [list : SUBSET Raids, running : Raids \cup {NoRaid},
               started : BOOLEAN, load : 1..MaxLoads, checks : Chains,
               events : [Raids -> Chains],
               nextEvent : [Raids -> 0..MaxRaidEvents],
               file : [RaidNames -> 0..MaxRaidEvents], outlived : BOOLEAN]

RaidsInit ==
    \E file \in [RaidNames -> 0..MaxRaidEvents] :
        raids = [list |-> Loaded(1), running |-> NoRaid,
                 started |-> TRUE, load |-> 1, checks |-> ChainAdd(NoEvents),
                 events |-> [r \in Raids |-> NoEvents],
                 nextEvent |-> [r \in Raids |-> 0],
                 file |-> file,
                 outlived |-> FALSE]

-----------------------------------------------------------------------------
Executing(w) == {r \in Raids : Coming(w.events[r]) > 0}

(* Events that clear() cannot stop *)
OutOfReach(r) ==
    \/ raids.events[r].due + raids.events[r].others > 0
    \/ r \notin raids.list /\ r \in Executing(raids)

(* outlived: events of a raid outlived a load, and what they disturbed has *)
(* not come to rest.                                                       *)
Become(w) ==
    raids' = [w EXCEPT !.outlived =
                \/ w.load # raids.load /\ \E r \in Raids : OutOfReach(r)
                \/ @ /\ Executing(w) # {}]

(* The next event, unless there is none *)
StartRaid(w, r) ==
    IF w.nextEvent[r] < Length(r)
    THEN [w EXCEPT !.events[r] = ChainAdd(@)] ELSE w

ResetRaid(w, r) == [w EXCEPT !.nextEvent[r] = 0, !.running = NoRaid]

(* checkRaids: chance and the margin after the last raid choose a raid, or *)
(* none.                                                                   *)
CheckRaids ==
    /\ raids.checks.due > 0
    /\ LET again == [raids EXCEPT !.checks = ChainAdd(ChainRun(@))]
       IN  \/ Become(again)
           \/ \E r \in raids.list :
                /\ raids.running = NoRaid
                /\ Become(StartRaid(
                    [again EXCEPT !.running = r,
                        !.list = IF r[1] \in OnlyOnce THEN @ \ {r}
                                ELSE @], r))

(* luaGameStartRaid: the list stays as it is. *)
StartByScript(r) ==
    /\ r \in raids.list /\ raids.running = NoRaid
    /\ Become(StartRaid([raids EXCEPT !.running = r], r))

ExecuteRaidEvent(r, success) ==
    /\ raids.events[r].due > 0
    /\ LET now == [raids EXCEPT !.events[r] = ChainRun(@)]
           next == [now EXCEPT !.nextEvent[r] = @ + 1]
       IN  Become(IF success /\ next.nextEvent[r] < Length(r)
                  THEN StartRaid(next, r) ELSE ResetRaid(next, r))

ClearedChecksOnlyMutant(w) ==
    [w EXCEPT !.checks = ChainStop(@), !.list = {}, !.running = NoRaid,
              !.started = FALSE]

(* clear: who is not in the list is neither stopped nor deleted. *)
ClearedRaids(w) ==
    [w EXCEPT !.checks = ChainStop(@), !.list = {}, !.running = NoRaid,
              !.started = FALSE,
              !.events = [r \in Raids |->
                            IF r \in w.list THEN ChainStop(@[r]) ELSE @[r]]]

(* reload and startup; without the file nothing is started. *)
ReloadRaids ==
    /\ raids.load < MaxLoads
    /\ LET w == [ClearedRaids(raids) EXCEPT !.load = @ + 1]
       IN  \/ Become(w)
           \/ Become([w EXCEPT !.list = Loaded(w.load), !.started = TRUE,
                               !.checks = ChainAdd(@)])

CheckRaidsDue ==
    \E c \in ChainExpirations(raids.checks) :
        Become([raids EXCEPT !.checks = c])

RaidEventDue(r) ==
    \E c \in ChainExpirations(raids.events[r]) :
        Become([raids EXCEPT !.events[r] = c])

RunRaidEvent(r) == \E success \in BOOLEAN : ExecuteRaidEvent(r, success)

RaidGoesOn(r) == RaidEventDue(r) \/ RunRaidEvent(r)

RaidsNext ==
    \/ CheckRaidsDue \/ CheckRaids
    \/ \E r \in Raids : StartByScript(r) \/ RaidGoesOn(r)
    \/ ReloadRaids

RaidEvents == \E r \in Raids : RaidGoesOn(r)

(* Timers expire, and the dispatcher runs their tasks. *)
RaidsSpec == RaidsInit /\ [][RaidsNext]_raids /\ WF_raids(RaidEvents)

-----------------------------------------------------------------------------
(* Once started, the raids are looked at for ever: however a load falls    *)
(* between a check and its task, another check is to come.                 *)
CheckToCome == raids.started => Coming(raids.checks) > 0

(* What runs was not deleted by a load. *)
RunningIsAlive ==
    raids.running # NoRaid => raids.running[2] = raids.load

(* One raid at a time: the one that runs, and no other, has one event to   *)
(* come, and a raid begins with its first event; unless the events of a    *)
(* raid outlived a load, until they are over.  A raid without events runs  *)
(* and is never reset.                                                     *)
OneRaidAtATime ==
    raids.outlived \/ \A r \in Raids :
        /\ Coming(raids.events[r]) =
            IF r = raids.running /\ Length(r) > 0 THEN 1 ELSE 0
        /\ r[2] = raids.load /\ r # raids.running
            => raids.nextEvent[r] = 0

(* Raids are sound: checks go on, and one raid runs at a time.             *)
RaidsSound ==
    RaidsTypeOK /\ CheckToCome /\ RunningIsAlive /\ OneRaidAtATime

(* A raid with events comes to its end. *)
RaidsEnd ==
    raids.running # NoRaid /\ Length(raids.running) > 0
        ~> raids.running = NoRaid
=============================================================================
