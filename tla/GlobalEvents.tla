---------------------------- MODULE GlobalEvents ----------------------------
(***************************************************************************)
(* The events of scripts that happen again and again (globalevent.cpp):    *)
(* those that think in an interval and those that have a time of day.      *)
(* Each kind is served by one chain of events, which is begun when an      *)
(* event is registered and the id of the chain is 0.  Events come from the *)
(* XML file or from Lua scripts, each of which is loaded again by itself;  *)
(* a reload of everything is one of XML and one of Lua.                    *)
(***************************************************************************)
EXTENDS Chains, FiniteSets

CONSTANTS GlobalNames     \* names of events, for each kind

VARIABLE globals

EventKinds == {"think", "timer"}
Origins == {"xml", "lua"}

GlobalsTypeOK ==
    globals \in [events : [EventKinds -> SUBSET (GlobalNames \X Origins)],
                 chain : [EventKinds -> Chains],
                 overtaken : [EventKinds -> BOOLEAN],
                 silent : [EventKinds -> BOOLEAN]]

(* Two histories: an event had expired when clear() came, and a kind has   *)
(* events that nothing serves; see Served.                                 *)
GlobalsInit ==
    globals = [events |-> [k \in EventKinds |-> {}],
               chain |-> [k \in EventKinds |-> NoEvents],
               overtaken |-> [k \in EventKinds |-> FALSE],
               silent |-> [k \in EventKinds |-> FALSE]]

-----------------------------------------------------------------------------
Names(events) == {e[1] : e \in events}

(* registerEvent, registerLuaEvent of some names; a name that is taken is  *)
(* refused.                                                                *)
Register(w, k, names, from) ==
    LET new == names \ Names(w.events[k])
    IN  [w EXCEPT !.events[k] = @ \cup (new \X {from}),
                  !.chain[k] = IF new # {} /\ @.id = "zero"
                               THEN ChainAdd(@) ELSE @]

(* Only what is thrown away is stopped. *)
ClearGlobals(w, from) ==
    [w EXCEPT
        !.events = [k \in EventKinds |->
                        {e \in w.events[k] : e[2] # from}],
        !.chain = [k \in EventKinds |-> ChainStop(w.chain[k])]]

(* What is kept of a kind is not served again unless something of the kind *)
(* is registered.                                                          *)
Reload(from) ==
    \E think, timer \in SUBSET GlobalNames :
        LET kept == ClearGlobals(globals, from)
            w == Register(Register(kept, "think", think, from),
                          "timer", timer, from)
        IN  globals' =
            [w EXCEPT
                !.overtaken = [k \in EventKinds |->
                    \/ globals.overtaken[k]
                    \/ globals.chain[k].due + globals.chain[k].others > 0],
                !.silent = [k \in EventKinds |->
                    w.events[k] = kept.events[k] /\ w.events[k] # {}]]

(* A script that runs registers one more event. *)
RegisterLater(k, name) ==
    LET w == Register(globals, k, {name}, "lua")
    IN  globals' = [w EXCEPT !.silent[k] = @ /\ Coming(w.chain[k]) = 0]

(* timer() drops the events that fail, and ends with the last one; nobody  *)
(* resets the id, so that one registered later is not served.              *)
RunTimers ==
    /\ globals.chain["timer"].due > 0
    /\ \E failed \in SUBSET globals.events["timer"] :
        LET left == globals.events["timer"] \ failed
            ran == ChainRun(globals.chain["timer"])
        IN  globals' =
            [globals EXCEPT
                !.events["timer"] = left,
                !.chain["timer"] = IF left = {} THEN ran ELSE ChainAdd(ran),
                !.silent["timer"] =
                    IF left # {} THEN FALSE
                    ELSE @ \/ globals.events["timer"] # {}]

(* think() keeps what fails. *)
RunThinks ==
    /\ globals.chain["think"].due > 0
    /\ LET ran == ChainRun(globals.chain["think"])
           none == globals.events["think"] = {}
       IN  globals' =
            [globals EXCEPT
                !.chain["think"] = IF none THEN ran ELSE ChainAdd(ran),
                !.silent["think"] = @ /\ none]

GlobalEventDue(k) ==
    \E c \in ChainExpirations(globals.chain[k]) :
        globals' = [globals EXCEPT !.chain[k] = c]

(* Bound: expired events do not pile up. *)
GlobalsNext ==
    \/ \E k \in EventKinds :
        \/ globals.chain[k].due < 2 /\ GlobalEventDue(k)
        \/ \E name \in GlobalNames : RegisterLater(k, name)
    \/ \E from \in Origins :
        /\ \A k \in EventKinds : Coming(globals.chain[k]) < 3
        /\ Reload(from)
    \/ RunTimers \/ RunThinks

GlobalsSpec == GlobalsInit /\ [][GlobalsNext]_globals

-----------------------------------------------------------------------------
(* Events that are registered are served, unless the last reload kept them *)
(* and brought none of their kind, or the timers had all failed before.    *)
Served ==
    \A k \in EventKinds :
        globals.events[k] # {} /\ ~globals.silent[k]
            => Coming(globals.chain[k]) > 0

(* A kind has one chain, unless a reload came when its event had expired.  *)
OneChain ==
    \A k \in EventKinds :
        ~globals.overtaken[k] => Coming(globals.chain[k]) <= 1

(* Global events are sound: what is registered is served, by one chain.    *)
GlobalsSound == GlobalsTypeOK /\ Served /\ OneChain
=============================================================================
