----------------------------- MODULE Agreements -----------------------------
(***************************************************************************)
(* What players agree on, Trade and Party, what they say to each other,    *)
(* Chat, and what they hold, Containers, for one run.  They share no       *)
(* state: a behaviour is one of one component, chosen in the initial       *)
(* state, and the others stay as they begin.  The players that trade with  *)
(* each other are alike, and so are the items but for the bag.             *)
(***************************************************************************)
EXTENDS Trade, Party, Chat, Containers, TLC

VARIABLE part

Init == /\ part \in {"trade", "party", "chat", "containers"}
        /\ TradeInit /\ PartyInit /\ ChatInit /\ ContainersInit
        \* who does not take part begins in one way only
        /\ part # "chat" => topic = {"private"}

TradeStep ==
    /\ part = "trade" /\ TradeNext
    /\ UNCHANGED <<PartyVars, ChatVars, ContainersVars, part>>

PartyStep ==
    /\ part = "party" /\ PartyNext
    /\ UNCHANGED <<TradeVars, ChatVars, ContainersVars, part>>

ChatStep ==
    /\ part = "chat" /\ ChatNext
    /\ UNCHANGED <<TradeVars, PartyVars, ContainersVars, part>>

ContainersStep ==
    /\ part = "containers" /\ ContainersNext
    /\ UNCHANGED <<TradeVars, PartyVars, ChatVars, part>>

Spec ==
    /\ Init
    /\ [][TradeStep \/ PartyStep \/ ChatStep \/ ContainersStep]_
            <<TradeVars, PartyVars, ChatVars, ContainersVars, part>>

Symmetry ==
    Permutations(TradePlayers) \cup Permutations(TradeItems \ {Bag})
=============================================================================
