-------------------------------- MODULE Turns -------------------------------
(***************************************************************************)
(* Who and what waits for its turn, for one run: clients for a seat on the *)
(* server (WaitList), the raids of the file (Raids), the events of scripts *)
(* that happen again and again (GlobalEvents) and those that are put off   *)
(* (ScriptTimers).  They share no state: a behaviour is one of one         *)
(* component, chosen in the initial state, and the others stay as they     *)
(* begin.  The players without privilege are alike.                        *)
(***************************************************************************)
EXTENDS WaitList, Raids, GlobalEvents, ScriptTimers, TLC

VARIABLE part

Init == /\ part \in {"clients", "raids", "globals", "timers"}
        /\ WaitListInit /\ RaidsInit /\ GlobalsInit /\ TimersInit
        /\ part # "raids" => \A n \in RaidNames : raids.file[n] = 0

WaitListStep ==
    /\ part = "clients" /\ WaitListNext
    /\ UNCHANGED <<raids, globals, timers, part>>

RaidsStep ==
    /\ part = "raids" /\ RaidsNext
    /\ UNCHANGED <<WaitListVars, globals, timers, part>>

GlobalsStep ==
    /\ part = "globals" /\ GlobalsNext
    /\ UNCHANGED <<WaitListVars, raids, timers, part>>

TimersStep ==
    /\ part = "timers" /\ TimersNext
    /\ UNCHANGED <<WaitListVars, raids, globals, part>>

Spec ==
    /\ Init
    /\ [][WaitListStep \/ RaidsStep \/ GlobalsStep \/ TimersStep]_
            <<WaitListVars, raids, globals, timers, part>>

(* What scripts have registered or put off is done, and done once.         *)
ScriptsSound == GlobalsSound /\ TimersSound

Symmetry == Permutations(Players \ Privileged)
=============================================================================
