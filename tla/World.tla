------------------------------- MODULE World --------------------------------
(***************************************************************************)
(* What lives and lies on the map, for one run: creatures (Creatures), the *)
(* tiles they stand on (Tiles) and the conditions they have (Conditions).  *)
(* They share no state: a behaviour is one of one component, chosen in the *)
(* initial state, and the others stay as they begin.  Rooms are only       *)
(* compared.                                                               *)
(***************************************************************************)
EXTENDS Creatures, Tiles, Conditions, TLC

VARIABLE part

Init ==
    /\ part \in {"creatures", "tiles", "conditions"}
    /\ CreaturesInit /\ TilesInit /\ ConditionsInit
    \* who does not take part begins in one way only
    /\ part # "conditions" => met = OfType("OUTFIT")

CreaturesStep ==
    /\ part = "creatures" /\ CreaturesNext
    /\ UNCHANGED <<TilesVars, ConditionsVars, part>>

TilesStep ==
    /\ part = "tiles" /\ TilesNext
    /\ UNCHANGED <<CreaturesVars, ConditionsVars, part>>

ConditionsStep ==
    /\ part = "conditions" /\ ConditionsNext
    /\ UNCHANGED <<CreaturesVars, TilesVars, part>>

Spec ==
    /\ Init
    /\ [][CreaturesStep \/ TilesStep \/ ConditionsStep]_
            <<CreaturesVars, TilesVars, ConditionsVars, part>>

Symmetry == Permutations(Rooms)
=============================================================================
