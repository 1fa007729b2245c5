---------------------------- MODULE ScriptTimers ----------------------------
(***************************************************************************)
(* What Lua scripts put off with addEvent and take back with stopEvent     *)
(* (luascript.cpp).  A callback is kept under a number, with references to *)
(* its function and parameters in Lua's registry; an event of the          *)
(* scheduler knows the number only.  Numbers are counted modulo NumberLimit*)
(* (2^32), and one that is still in use is not taken again.                *)
(***************************************************************************)
EXTENDS Naturals, FiniteSets

CONSTANTS
    Callbacks,      \* calls of addEvent
    NumberLimit,
    NoCallback

ASSUME ScriptTimersAssumption ==
    NumberLimit \in Nat \ {0} /\ NoCallback \notin Callbacks

VARIABLE timers

Numbers == 0..NumberLimit - 1

Fates == {"new", "kept", "lost", "ran", "early", "stopped", "closed"}

(* fate is a history, and so is cameRound: a number was taken again while  *)
(* an event had it.                                                        *)
TimersTypeOK ==
    timers \in [last : Numbers,
                entry : [Numbers -> Callbacks \cup {NoCallback}],
                event : [Callbacks -> {"none", "pending", "due", "over"}],
                number : [Callbacks -> Numbers],
                references : SUBSET Callbacks,
                fate : [Callbacks -> Fates],
                cameRound : BOOLEAN]

TimersInit ==
    timers = [last |-> 1 % NumberLimit,
              entry |-> [n \in Numbers |-> NoCallback],
              event |-> [t \in Callbacks |-> "none"],
              number |-> [t \in Callbacks |-> 0],
              references |-> {},
              fate |-> [t \in Callbacks |-> "new"],
              cameRound |-> FALSE]

-----------------------------------------------------------------------------
(* luaAddEvent: emplace keeps the callback that has the number, and the    *)
(* references of the new one are never given back.                         *)
AddTimer(t) ==
    LET n == timers.last
        free == timers.entry[n] = NoCallback
    IN  /\ timers.event[t] = "none"
        /\ timers' =
            [timers EXCEPT
                !.last = (@ + 1) % NumberLimit,
                !.event[t] = "pending", !.number[t] = n,
                !.entry[n] = IF free THEN t ELSE @,
                !.references = @ \cup {t},
                !.fate[t] = IF free THEN "kept" ELSE "lost",
                !.cameRound = @ \/ \E u \in Callbacks :
                    timers.number[u] = n
                    /\ timers.event[u] \in {"pending", "due"}]

KeepingEntryMutant(w, n, fate) ==
    LET t == w.entry[n]
    IN  [w EXCEPT !.references = @ \ {t}, !.fate[t] = fate]

(* The callback of a number is over, and its references are given back. *)
Ended(w, n, fate) ==
    LET t == w.entry[n]
    IN  [w EXCEPT !.entry[n] = NoCallback, !.references = @ \ {t},
                  !.fate[t] = fate]

(* luaStopEvent: an event that has expired cannot be stopped. *)
StopTimer(n) ==
    /\ timers.entry[n] # NoCallback
    /\ timers' = [Ended(timers, n, "stopped") EXCEPT
                    !.event[timers.entry[n]] =
                        IF @ = "pending" THEN "over" ELSE @]

(* executeTimerEvent: the event finds what is kept under its number. *)
ExecuteTimerEvent(t) ==
    LET n == timers.number[t]
        ran == [timers EXCEPT !.event[t] = "over"]
        found == timers.entry[n]
    IN  /\ timers.event[t] = "due"
        /\ timers' = IF found = NoCallback THEN ran
                     ELSE Ended(ran, n, IF found = t THEN "ran" ELSE "early")

TimerDue(t) ==
    /\ timers.event[t] = "pending"
    /\ timers' = [timers EXCEPT !.event[t] = "due"]

Kept == {t \in Callbacks : \E n \in Numbers : timers.entry[n] = t}

(* closeState *)
CloseLua ==
    timers' = [timers EXCEPT
                !.entry = [n \in Numbers |-> NoCallback],
                !.references = @ \ Kept,
                !.fate = [t \in Callbacks |->
                            IF t \in Kept THEN "closed" ELSE timers.fate[t]]]

TimersNext ==
    \/ \E t \in Callbacks : AddTimer(t) \/ TimerDue(t) \/ ExecuteTimerEvent(t)
    \/ \E n \in Numbers : StopTimer(n)
    \/ CloseLua

TimersSpec == TimersInit /\ [][TimersNext]_timers

-----------------------------------------------------------------------------
(* A callback waits under one number, with its references, until it runs,  *)
(* is stopped or Lua is closed, and has none from then on; only the one    *)
(* whose number was in use leaves its references behind.                   *)
ReferencesGivenBack ==
    \A t \in Callbacks :
        /\ t \in Kept <=> timers.fate[t] = "kept"
        /\ t \in timers.references <=> timers.fate[t] \in {"kept", "lost"}

(* What waits will run: the event with its number is to come. *)
EventForEach ==
    \A t \in Kept : timers.event[t] \in {"pending", "due"}

(* Nothing runs on the event of another, such as one that was stopped when *)
(* its event had expired, nor is lost, unless a number was taken again     *)
(* while an event had it.                                                  *)
EachByItsEvent ==
    timers.cameRound
        \/ \A t \in Callbacks : timers.fate[t] \notin {"early", "lost"}

(* Timers of scripts are sound: each runs once, or was stopped and never   *)
(* runs, and holds references as long as it waits.                         *)
TimersSound ==
    TimersTypeOK /\ ReferencesGivenBack /\ EventForEach /\ EachByItsEvent
=============================================================================
