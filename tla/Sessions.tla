------------------------------ MODULE Sessions ------------------------------
(***************************************************************************)
(* What a player's session leans on, for one run: the clients of a         *)
(* character (Login), the player's walk (Walking), its offers on the       *)
(* market (Market), and what is saved at the end (Saving).  They share no  *)
(* state: a behaviour is one of one component, chosen in the initial       *)
(* state, and the others stay as they begin.                               *)
(***************************************************************************)
EXTENDS Login, Walking, Saving, Market, TLC

VARIABLE part

Init ==
    /\ part \in {"login", "walking", "saving", "market"}
    /\ LoginInit /\ WalkingInit /\ SavingInit /\ MarketInit

LoginStep ==
    /\ part = "login" /\ LoginNext
    /\ UNCHANGED <<WalkingVars, SavingVars, MarketVars, part>>

WalkingStep ==
    /\ part = "walking" /\ WalkingNext
    /\ UNCHANGED <<LoginVars, SavingVars, MarketVars, part>>

SavingStep ==
    /\ part = "saving" /\ SavingNext
    /\ UNCHANGED <<LoginVars, WalkingVars, MarketVars, part>>

MarketStep ==
    /\ part = "market" /\ MarketNext
    /\ UNCHANGED <<LoginVars, WalkingVars, SavingVars, part>>

Spec ==
    /\ Init
    /\ [][LoginStep \/ WalkingStep \/ SavingStep \/ MarketStep]_
            <<LoginVars, WalkingVars, SavingVars, MarketVars, part>>

(* The traders are alike. *)
Symmetry == Permutations(Traders)
=============================================================================
