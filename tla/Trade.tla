------------------------------- MODULE Trade -------------------------------
(***************************************************************************)
(* Trade between two players (game.cpp, player.cpp): a player offers one   *)
(* item to another, who answers with an item of its own; when both have    *)
(* accepted, the items change hands.  All of it runs in the dispatcher's   *)
(* thread, one task at a time, but the steps of a trade are tasks of two   *)
(* players, between which items are moved, players walk or log out, and a  *)
(* request may have been put off until its player has walked to the item.  *)
(*                                                                         *)
(* An item is in a player's hands, on the ground at "north", or inside the *)
(* container Bag.  Players at "north" and "south" can trade; only those at *)
(* "north" are next to the ground's items.  A player who is "away" is too  *)
(* far or not online.                                                      *)
(***************************************************************************)
EXTENDS Naturals, FiniteSets

CONSTANTS TradePlayers, TradeItems, Bag, Nobody, Nothing, Ground,
          HandRoom          \* how many items a player has room for

ASSUME TradeAssumption ==
    /\ Bag \in TradeItems /\ IsFiniteSet(TradeItems)
    /\ HandRoom \in Nat
    /\ Nobody \notin TradePlayers
    /\ Nothing \notin TradeItems
    /\ Ground \notin TradePlayers \cup TradeItems
    /\ TradePlayers \cap TradeItems = {}

VARIABLES
    tradeState, tradePartner, tradeItem,   \* members of Player
    offeredBy,      \* Game::tradeItems: the player, or Nobody
    references,     \* references trading holds on each item
    holder,         \* where each item is
    place,          \* where each player is
    walkTask        \* the request put off by setNextWalkActionTask

tradeVars == <<tradeState, tradePartner, tradeItem, offeredBy, references>>
TradeVars == <<tradeVars, holder, place, walkTask>>

(* TRADE_TRANSFER is the state of both players inside AcceptTransfer, where *)
(* it keeps the moves of the items from closing the trade.                 *)
TradeStates == {"NONE", "INITIATED", "ACCEPT", "ACKNOWLEDGE"}
Requests == [partner : TradePlayers, item : TradeItems]

TradeTypeOK ==
    /\ tradeState \in [TradePlayers -> TradeStates]
    /\ tradePartner \in [TradePlayers -> TradePlayers \cup {Nobody}]
    /\ tradeItem \in [TradePlayers -> TradeItems \cup {Nothing}]
    /\ offeredBy \in [TradeItems -> TradePlayers \cup {Nobody}]
    /\ references \in [TradeItems -> Nat]
    /\ holder \in [TradeItems -> TradePlayers \cup {Ground, Bag}]
    /\ place \in [TradePlayers -> {"north", "south", "away"}]
    /\ walkTask \in [TradePlayers -> Requests \cup {Nothing}]

TradeInit ==
    /\ tradeState = [p \in TradePlayers |-> "NONE"]
    /\ tradePartner = [p \in TradePlayers |-> Nobody]
    /\ tradeItem = [p \in TradePlayers |-> Nothing]
    /\ offeredBy = [i \in TradeItems |-> Nobody]
    /\ references = [i \in TradeItems |-> 0]
    /\ holder = [i \in TradeItems |-> Ground]
    /\ place = [p \in TradePlayers |-> "north"]
    /\ walkTask = [p \in TradePlayers |-> Nothing]

-----------------------------------------------------------------------------
(* The top of the chain of containers an item is in. *)
Root(i) == IF holder[i] = Bag THEN holder[Bag] ELSE holder[i]

(* Container::isHoldingItem *)
IsHolding(c, i) == c = Bag /\ holder[i] = Bag

Overlap(i, j) == i = j \/ IsHolding(i, j) \/ IsHolding(j, i)

AlreadyTraded(i) ==
    \E j \in TradeItems : offeredBy[j] # Nobody /\ Overlap(i, j)

HasRoom(p) ==
    Cardinality({i \in TradeItems : holder[i] = p}) < HandRoom

InReach(p, i) ==
    \/ Root(i) = p
    \/ Root(i) = Ground /\ place[p] = "north"

(* What internalCloseTrade leaves of a set of offers: the items they name  *)
(* are released and the players trade no more.                             *)
Withdraw(players) ==
    LET items == {tradeItem[p] : p \in players} \cap TradeItems IN
    /\ tradeState' = [p \in TradePlayers |->
                        IF p \in players THEN "NONE" ELSE tradeState[p]]
    /\ tradePartner' = [p \in TradePlayers |->
                        IF p \in players THEN Nobody ELSE tradePartner[p]]
    /\ tradeItem' = [p \in TradePlayers |->
                        IF p \in players THEN Nothing ELSE tradeItem[p]]
    /\ offeredBy' = [i \in TradeItems |->
                        IF i \in items THEN Nobody ELSE offeredBy[i]]
    /\ references' = [i \in TradeItems |->
                        IF i \in items /\ offeredBy[i] # Nobody
                        THEN references[i] - 1 ELSE references[i]]

(* internalCloseTrade takes the trade from its player and its partner. *)
WithPartners(players) ==
    players \cup ({tradePartner[p] : p \in players} \cap TradePlayers)

CloseTrades(players) == Withdraw(WithPartners(players))

KeepTrades == UNCHANGED tradeVars

-----------------------------------------------------------------------------
(* internalStartTrade: p offers i to q.  It is refused while p trades,     *)
(* unless it is asked for a counter-offer by q, and while q trades with    *)
(* somebody else.                                                          *)
MayStart(p, q) ==
    /\ tradeState[p] = "NONE" \/ (tradeState[p] = "ACKNOWLEDGE"
                                  /\ tradePartner[p] = q)
    /\ tradeState[q] = "NONE" \/ tradePartner[q] = p

IncrementReference(i) == references' = [references EXCEPT ![i] = @ + 1]

StartTrade(p, q, i) ==
    /\ tradeState' = [tradeState EXCEPT
                        ![p] = "INITIATED",
                        ![q] = IF @ = "NONE" THEN "ACKNOWLEDGE" ELSE @]
    /\ tradePartner' = [tradePartner EXCEPT
                        ![p] = q,
                        ![q] = IF tradeState[q] = "NONE" THEN p ELSE @]
    /\ tradeItem' = [tradeItem EXCEPT ![p] = i]
    /\ offeredBy' = [offeredBy EXCEPT ![i] = p]
    /\ IncrementReference(i)

(* playerRequestTrade: the players must be near each other; if the item is *)
(* not in reach the player walks to it and the request is made again.      *)
CanAsk(p, q, i) ==
    /\ p # q
    /\ place[p] # "away" /\ place[q] # "away"
    /\ Root(i) \in {p, Ground}

MayRequest(p, q, i) ==
    CanAsk(p, q, i) /\ InReach(p, i) /\ ~AlreadyTraded(i) /\ MayStart(p, q)

RequestTrade(p, q, i) ==
    /\ MayRequest(p, q, i)
    /\ StartTrade(p, q, i)
    /\ UNCHANGED <<holder, place, walkTask>>

RequestLater(p, q, i) ==
    /\ CanAsk(p, q, i) /\ ~InReach(p, i)
    /\ \A r \in TradePlayers : walkTask[r] # Nothing => r = p   \* bound
    /\ walkTask' = [walkTask EXCEPT ![p] = [partner |-> q, item |-> i]]
    /\ KeepTrades /\ UNCHANGED <<holder, place>>

(* The walk ends at the item and the request is made with what it was then *)
(* given: the partner may be gone or trading, the item offered or taken.   *)
RequestNow(p) ==
    LET r == walkTask[p] IN
    /\ r # Nothing
    /\ place[p] = "north"
    /\ walkTask' = [walkTask EXCEPT ![p] = Nothing]
    /\ IF MayRequest(p, r.partner, r.item)
       THEN StartTrade(p, r.partner, r.item)
       ELSE KeepTrades
    /\ UNCHANGED <<holder, place>>

-----------------------------------------------------------------------------
(* playerAcceptTrade is allowed as soon as there is a partner; the second  *)
(* player to accept makes the transfer.                                    *)
Accepts(p) ==
    tradeState[p] \in {"ACKNOWLEDGE", "INITIATED"} /\ tradePartner[p] # Nobody

SecondToAccept(p) == Accepts(p) /\ tradeState[tradePartner[p]] = "ACCEPT"

AcceptFirst(p) ==
    /\ Accepts(p) /\ ~SecondToAccept(p)
    /\ tradeState' = [tradeState EXCEPT ![p] = "ACCEPT"]
    /\ UNCHANGED <<tradePartner, tradeItem, offeredBy, references>>
    /\ UNCHANGED <<holder, place, walkTask>>

TestsPassOneSidedMutant(p, q) ==
    /\ tradeItem[p] # Nothing /\ tradeItem[q] # Nothing
    /\ HasRoom(q)

(* Both items are released; the tests of internalAddItem and of            *)
(* internalRemoveItem come before any item is moved.  internalAddItem      *)
(* refuses the missing item of a player who accepted without an offer.     *)
TestsPass(p, q) ==
    /\ tradeItem[p] # Nothing /\ tradeItem[q] # Nothing
    /\ HasRoom(p) /\ HasRoom(q)

(* The two internalMoveItem: a move fails when there is no room, and the   *)
(* result of the second one is not looked at.                              *)
MoveTo(h, i, p) ==
    IF Cardinality({j \in TradeItems : h[j] = p}) < HandRoom
    THEN [h EXCEPT ![i] = p] ELSE h

Exchange(p, q) == MoveTo(MoveTo(holder, tradeItem[p], q), tradeItem[q], p)

AcceptTransfer(p) ==
    LET q == tradePartner[p] IN
    /\ SecondToAccept(p)
    /\ holder' = IF TestsPass(p, q) THEN Exchange(p, q) ELSE holder
    /\ Withdraw({p, q})
    /\ UNCHANGED <<place, walkTask>>

(* No clear line between the players, a script's veto or a test that fails *)
(* for what is not modelled (capacity, slots): the trade is over and       *)
(* nothing has moved.                                                      *)
AcceptRefused(p) ==
    /\ SecondToAccept(p)
    /\ Withdraw({p, tradePartner[p]})
    /\ UNCHANGED <<holder, place, walkTask>>

CloseTrade(p) ==
    /\ place[p] # "away"
    /\ CloseTrades({p})
    /\ UNCHANGED <<holder, place, walkTask>>

-----------------------------------------------------------------------------
(* checkTradeState and its callers: when an item is moved, the trades of   *)
(* it, of a container it was in or comes into, and of an item in it close. *)
Touched(i, to) ==
    {p \in TradePlayers :
        /\ tradeItem[p] # Nothing
        /\ Overlap(tradeItem[p], i) \/ (tradeItem[p] = Bag /\ to = Bag)}

MoveItem(p, i, to) ==
    /\ InReach(p, i)
    /\ to # holder[i]
    /\ \/ to = p /\ HasRoom(p)
       \/ to = Ground /\ place[p] = "north"
       \/ to = Bag /\ i # Bag /\ InReach(p, Bag)
    /\ holder' = [holder EXCEPT ![i] = to]
    /\ CloseTrades(Touched(i, to))
    /\ UNCHANGED <<place, walkTask>>

LeftBehindPartnerMutant(p, where) ==
    tradePartner[p] # Nobody /\ where = "away"

(* Player::onCreatureMove: the player's offer must stay next to him, and   *)
(* his partner near him.                                                   *)
LeftBehind(p, where) ==
    \/ tradePartner[p] # Nobody /\ where = "away"
    \/ /\ tradeItem[p] # Nothing
       /\ Root(tradeItem[p]) = Ground /\ where # "north"

Walk(p, where) ==
    /\ where # place[p]
    /\ place' = [place EXCEPT ![p] = where]
    /\ IF LeftBehind(p, where) THEN CloseTrades({p}) ELSE KeepTrades
    /\ UNCHANGED <<holder, walkTask>>

(* Player::onRemoveCreature; the id a put-off request was made for is no   *)
(* longer in use when the player comes back.                               *)
LogoutTrader(p) ==
    /\ place' = [place EXCEPT ![p] = "away"]
    /\ walkTask' = [walkTask EXCEPT ![p] = Nothing]
    /\ IF tradePartner[p] # Nobody THEN CloseTrades({p}) ELSE KeepTrades
    /\ UNCHANGED holder

TradeNext ==
    \E p \in TradePlayers :
        \/ \E q \in TradePlayers, i \in TradeItems : RequestTrade(p, q, i)
        \/ \E q \in TradePlayers, i \in TradeItems : RequestLater(p, q, i)
        \/ RequestNow(p)
        \/ AcceptFirst(p)
        \/ AcceptTransfer(p)
        \/ AcceptRefused(p)
        \/ CloseTrade(p)
        \/ \E i \in TradeItems, to \in {p, Ground, Bag} : MoveItem(p, i, to)
        \/ \E where \in {"north", "south", "away"} : Walk(p, where)
        \/ LogoutTrader(p)

TradeSpec == TradeInit /\ [][TradeNext]_TradeVars

-----------------------------------------------------------------------------
(* The two players of a trade agree that they trade with each other, and   *)
(* one who trades with nobody offers nothing.                              *)
PartnersAgree ==
    \A p \in TradePlayers :
        /\ tradePartner[p] # Nobody => tradePartner[tradePartner[p]] = p
        /\ (tradePartner[p] = Nobody) <=> (tradeState[p] = "NONE")
        /\ tradeState[p] \in {"NONE", "ACKNOWLEDGE"} => tradeItem[p] = Nothing

(* Game::tradeItems lists exactly the items on offer, each with the one    *)
(* player who offers it, and trading holds one reference on each of them   *)
(* and on no other item.                                                   *)
OffersRegistered ==
    \A i \in TradeItems :
        /\ \A p \in TradePlayers : tradeItem[p] = i <=> offeredBy[i] = p
        /\ references[i] = IF offeredBy[i] = Nobody THEN 0 ELSE 1

(* No item is on offer twice, by itself and inside a container that is on  *)
(* offer too.                                                              *)
OffersApart ==
    \A i, j \in TradeItems :
        offeredBy[i] # Nobody /\ offeredBy[j] # Nobody /\ Overlap(i, j)
        => i = j

(* What a player offers is at his disposal as long as the offer stands: in *)
(* his hands or on the ground next to him, never in somebody else's hands. *)
OfferInReach ==
    \A p \in TradePlayers :
        tradeItem[p] # Nothing => InReach(p, tradeItem[p])

(* Trades are sound: the tables of both players, of the game and of the    *)
(* references agree, and an offer is of something its owner can give, once.*)
TradeSound ==
    /\ TradeTypeOK /\ PartnersAgree /\ OffersRegistered
    /\ OffersApart /\ OfferInReach

(* A trade moves both items, each to the other player, after both players  *)
(* accepted, or it moves nothing.                                          *)
BothOrNothing ==
    [][\A p \in TradePlayers : AcceptTransfer(p) =>
        LET q == tradePartner[p]
            moved == {i \in TradeItems : holder'[i] # holder[i]} IN
        \/ moved = {}
        \/ /\ moved = {tradeItem[p], tradeItem[q]}
           /\ holder'[tradeItem[p]] = q /\ holder'[tradeItem[q]] = p
      ]_TradeVars
=============================================================================
