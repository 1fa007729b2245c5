-------------------------- MODULE AgreementsProofs --------------------------
(***************************************************************************)
(* Theorems about Agreements and the components it puts side by side:      *)
(* trades, parties, chat channels and containers.                          *)
(***************************************************************************)
EXTENDS Agreements, FoldLemmas, TLAPS

-----------------------------------------------------------------------------
(* Trades between two players (Trade).                                     *)

TablesOK ==
    /\ tradeState \in [TradePlayers -> TradeStates]
    /\ tradePartner \in [TradePlayers -> TradePlayers \cup {Nobody}]
    /\ tradeItem \in [TradePlayers -> TradeItems \cup {Nothing}]
    /\ offeredBy \in [TradeItems -> TradePlayers \cup {Nobody}]
    /\ references \in [TradeItems -> Nat]

WorldOK ==
    /\ holder \in [TradeItems -> TradePlayers \cup {Ground, Bag}]
    /\ place \in [TradePlayers -> {"north", "south", "away"}]
    /\ walkTask \in [TradePlayers -> Requests \cup {Nothing}]

TablesAgree == TablesOK /\ PartnersAgree /\ OffersRegistered

TradeInv == TablesAgree /\ WorldOK /\ OffersApart /\ OfferInReach

\* The soundness of trades is inductive as it stands.
LEMMA TradeInvIsTradeSound == TradeInv <=> TradeSound
BY DEF TradeInv, TradeSound, TradeTypeOK, TablesAgree, TablesOK, WorldOK

\* At the start nobody trades.
LEMMA TradeInvAtFirst == TradeInit => TradeInv
<1> SUFFICES ASSUME TradeInit PROVE TradeInv
    OBVIOUS
<1> USE TradeAssumption
<1>1. TablesOK
    BY DEF TradeInit, TablesOK, TradeStates
<1>2. WorldOK
    BY DEF TradeInit, WorldOK
<1>3. PartnersAgree
    BY DEF TradeInit, PartnersAgree
<1>4. OffersRegistered
    BY DEF TradeInit, OffersRegistered
<1>5. OffersApart /\ OfferInReach
    BY DEF TradeInit, OffersApart, OfferInReach
<1> QED
    BY <1>1, <1>2, <1>3, <1>4, <1>5 DEF TradeInv, TablesAgree

\* Whoever trades has a partner that trades with nobody else.
LEMMA PartnersAreTogether ==
    ASSUME TablesAgree, NEW players \in SUBSET TradePlayers
    PROVE  /\ WithPartners(players) \in SUBSET TradePlayers
           /\ \A p \in TradePlayers : tradePartner[p] \in WithPartners(players)
                => p \in WithPartners(players)
<1> USE TradeAssumption
<1>1. WithPartners(players) \in SUBSET TradePlayers
    BY DEF WithPartners
<1>2. ASSUME NEW p \in TradePlayers, tradePartner[p] \in WithPartners(players)
      PROVE  p \in WithPartners(players)
    <2> DEFINE q == tradePartner[p]
    <2>1. q \in TradePlayers /\ q # Nobody /\ tradePartner[q] = p
        BY <1>1, <1>2 DEF TablesAgree, PartnersAgree
    <2>2. CASE q \in players
        BY <2>1, <2>2 DEF WithPartners
    <2>3. CASE q \notin players
        <3>1. PICK r \in players : tradePartner[r] = q
            BY <1>2, <2>3 DEF WithPartners
        <3>2. tradePartner[q] = r
            BY <3>1, <2>1 DEF TablesAgree, PartnersAgree
        <3> QED
            BY <3>1, <3>2, <2>1 DEF WithPartners
    <2> QED
        BY <2>2, <2>3
<1> QED
    BY <1>1, <1>2

\* Who withdraws takes its offer and its partner along, ...
LEMMA WithdrawKeepsTables ==
    ASSUME TablesAgree, NEW players \in SUBSET TradePlayers,
           \A p \in TradePlayers :
                tradePartner[p] \in players => p \in players,
           Withdraw(players)
    PROVE  TablesAgree'
<1> USE TradeAssumption
<1> DEFINE items == {tradeItem[p] : p \in players} \cap TradeItems
<1>0. TablesOK /\ PartnersAgree /\ OffersRegistered
    BY DEF TablesAgree
<1>1. /\ tradeState' = [p \in TradePlayers |->
                        IF p \in players THEN "NONE" ELSE tradeState[p]]
      /\ tradePartner' = [p \in TradePlayers |->
                        IF p \in players THEN Nobody ELSE tradePartner[p]]
      /\ tradeItem' = [p \in TradePlayers |->
                        IF p \in players THEN Nothing ELSE tradeItem[p]]
      /\ offeredBy' = [i \in TradeItems |->
                        IF i \in items THEN Nobody ELSE offeredBy[i]]
      /\ references' = [i \in TradeItems |->
                        IF i \in items /\ offeredBy[i] # Nobody
                        THEN references[i] - 1 ELSE references[i]]
    BY DEF Withdraw
<1>2. ASSUME NEW i \in items
      PROVE  offeredBy[i] # Nobody /\ references[i] = 1
    BY <1>0 DEF OffersRegistered, TablesOK
<1>3. references' \in [TradeItems -> Nat]
    BY <1>0, <1>1, <1>2 DEF TablesOK
<1>4. TablesOK'
    BY <1>0, <1>1, <1>3 DEF TablesOK, TradeStates
<1>5. PartnersAgree'
    BY <1>0, <1>1 DEF PartnersAgree, TablesOK
<1>6. ASSUME NEW i \in TradeItems, NEW p \in TradePlayers
      PROVE  tradeItem'[p] = i <=> offeredBy'[i] = p
    BY <1>0, <1>1 DEF OffersRegistered, TablesOK
<1>7. ASSUME NEW i \in TradeItems
      PROVE  references'[i] = IF offeredBy'[i] = Nobody THEN 0 ELSE 1
    BY <1>0, <1>1, <1>2 DEF OffersRegistered, TablesOK
<1>8. OffersRegistered'
    BY <1>6, <1>7 DEF OffersRegistered
<1> QED
    BY <1>4, <1>5, <1>8 DEF TablesAgree

\* ... and so do several that withdraw at once.
LEMMA CloseTradesKeepsTables ==
    ASSUME TablesAgree, NEW players \in SUBSET TradePlayers,
           CloseTrades(players)
    PROVE  TablesAgree'
BY PartnersAreTogether, WithdrawKeepsTables DEF CloseTrades

\* what is still on offer was on offer before, and not by one that withdrew
Fewer(players) ==
    /\ \A i \in TradeItems : offeredBy'[i] # Nobody =>
        offeredBy'[i] = offeredBy[i] /\ offeredBy[i] \notin players
    /\ \A p \in TradePlayers : tradeItem'[p] # Nothing =>
        tradeItem'[p] = tradeItem[p] /\ p \notin players

\* Nothing new is offered by one that withdraws ...
LEMMA WithdrawLeavesFewer ==
    ASSUME TablesAgree, NEW players \in SUBSET TradePlayers,
           Withdraw(players)
    PROVE  Fewer(players)
<1> USE TradeAssumption
<1>1. ASSUME NEW i \in TradeItems, offeredBy'[i] # Nobody
      PROVE  offeredBy'[i] = offeredBy[i] /\ offeredBy[i] \notin players
    <2>1. offeredBy'[i] = offeredBy[i] /\ \A p \in players : tradeItem[p] # i
        BY <1>1 DEF Withdraw
    <2> QED
        BY <2>1 DEF TablesAgree, OffersRegistered
<1>2. ASSUME NEW p \in TradePlayers, tradeItem'[p] # Nothing
      PROVE  tradeItem'[p] = tradeItem[p] /\ p \notin players
    BY <1>2 DEF Withdraw
<1> QED
    BY <1>1, <1>2 DEF Fewer

\* ... or by several.
LEMMA CloseTradesLeavesFewer ==
    ASSUME TablesAgree, NEW players \in SUBSET TradePlayers,
           CloseTrades(players)
    PROVE  Fewer(players)
<1>1. Fewer(WithPartners(players))
    BY PartnersAreTogether, WithdrawLeavesFewer DEF CloseTrades
<1>2. players \subseteq WithPartners(players)
    BY DEF WithPartners
<1> QED
    BY <1>1, <1>2 DEF Fewer

\* Fewer offers are as far apart as they were.
LEMMA FewerKeepsOffers ==
    ASSUME TradeInv, Fewer({}), TablesAgree',
           UNCHANGED holder, UNCHANGED place
    PROVE  OffersApart' /\ OfferInReach'
BY DEF TradeInv, TablesAgree, Fewer, OffersApart, OfferInReach, Overlap,
       IsHolding, InReach, Root, TablesOK

\* playerRequestTrade: the offer is entered in the tables, ...
LEMMA StartTradeKeepsTables ==
    ASSUME TradeInv, NEW p \in TradePlayers, NEW q \in TradePlayers,
           NEW i \in TradeItems, MayRequest(p, q, i), StartTrade(p, q, i)
    PROVE  TablesAgree'
<1> USE TradeAssumption
<1>0. TablesOK /\ PartnersAgree /\ OffersRegistered
    BY DEF TablesAgree, TradeInv
<1>1. p # q /\ MayStart(p, q) /\ ~AlreadyTraded(i)
    BY DEF MayRequest, CanAsk
<1>2. offeredBy[i] = Nobody /\ references[i] = 0
    BY <1>0, <1>1 DEF AlreadyTraded, Overlap, OffersRegistered
<1>3. tradeItem[p] = Nothing
    BY <1>0, <1>1 DEF MayStart, PartnersAgree
<1>4. tradeState[q] = "NONE" \/ (tradePartner[q] = p /\ tradePartner[p] = q)
    BY <1>0, <1>1 DEF MayStart, PartnersAgree
<1>5. tradeState[p] = "NONE" => tradePartner[p] = Nobody
    BY <1>0 DEF PartnersAgree
<1>6. tradeState[q] = "NONE" =>
        tradePartner[q] = Nobody /\ tradeItem[q] = Nothing
    BY <1>0 DEF PartnersAgree
<1>7. tradeState[q] = "NONE" => tradeState[p] = "NONE"
    BY <1>0, <1>1, <1>6 DEF MayStart, PartnersAgree
<1>8. TablesOK'
    BY <1>0 DEF TablesOK, StartTrade, IncrementReference, TradeStates
<1>9. /\ tradeState' = [tradeState EXCEPT
                        ![p] = "INITIATED",
                        ![q] = IF tradeState[q] = "NONE" THEN "ACKNOWLEDGE"
                               ELSE tradeState[q]]
      /\ tradePartner' = [tradePartner EXCEPT
                        ![p] = q,
                        ![q] = IF tradeState[q] = "NONE" THEN p
                               ELSE tradePartner[q]]
      /\ tradeItem' = [tradeItem EXCEPT ![p] = i]
      /\ offeredBy' = [offeredBy EXCEPT ![i] = p]
      /\ references' = [references EXCEPT ![i] = 1]
    BY <1>0, <1>1, <1>2 DEF StartTrade, IncrementReference, TablesOK
<1>10. tradePartner'[p] = q /\ tradePartner'[q] = p
    BY <1>0, <1>1, <1>4, <1>9 DEF TablesOK
<1>11. PartnersAgree'
    <2> SUFFICES ASSUME NEW r \in TradePlayers
                 PROVE  /\ tradePartner'[r] # Nobody
                            => tradePartner'[tradePartner'[r]] = r
                        /\ (tradePartner'[r] = Nobody)
                            <=> (tradeState'[r] = "NONE")
                        /\ tradeState'[r] \in {"NONE", "ACKNOWLEDGE"}
                            => tradeItem'[r] = Nothing
        BY DEF PartnersAgree
    <2>1. CASE r = p
        BY <2>1, <1>0, <1>1, <1>9, <1>10 DEF TablesOK
    <2>2. CASE r = q
        BY <2>2, <1>0, <1>1, <1>4, <1>6, <1>9, <1>10
           DEF TablesOK, PartnersAgree
    <2>3. CASE r # p /\ r # q
        <3>1. /\ tradePartner'[r] = tradePartner[r]
              /\ tradeState'[r] = tradeState[r] /\ tradeItem'[r] = tradeItem[r]
            BY <2>3, <1>0, <1>9 DEF TablesOK
        <3>2. tradePartner[r] # Nobody =>
                tradePartner[r] # p /\ tradePartner[r] # q
            BY <2>3, <1>0, <1>1, <1>4, <1>5, <1>6, <1>7
               DEF PartnersAgree, MayStart
        <3>3. tradePartner[r] # Nobody =>
                tradePartner'[tradePartner[r]] = tradePartner[tradePartner[r]]
            BY <3>2, <1>0, <1>9 DEF TablesOK
        <3> QED
            BY <3>1, <3>3, <1>0 DEF PartnersAgree
    <2> QED
        BY <2>1, <2>2, <2>3
<1>12. OffersRegistered'
    BY <1>0, <1>2, <1>3, <1>9 DEF OffersRegistered, TablesOK
<1> QED
    BY <1>8, <1>11, <1>12 DEF TablesAgree

\* ... and it was in reach and in no other offer.
LEMMA StartTradeKeepsInv ==
    ASSUME TradeInv, NEW p \in TradePlayers, NEW q \in TradePlayers,
           NEW i \in TradeItems, MayRequest(p, q, i), StartTrade(p, q, i),
           UNCHANGED <<holder, place>>, WorldOK'
    PROVE  TradeInv'
<1> USE TradeAssumption
<1>0. /\ TablesOK /\ PartnersAgree /\ OffersRegistered
      /\ OffersApart /\ OfferInReach
    BY DEF TablesAgree, TradeInv
<1>1. ~AlreadyTraded(i) /\ InReach(p, i)
    BY DEF MayRequest
<1>2. /\ tradeItem' = [tradeItem EXCEPT ![p] = i]
      /\ offeredBy' = [offeredBy EXCEPT ![i] = p]
    BY DEF StartTrade
<1>3. OffersApart'
    <2> SUFFICES ASSUME NEW j \in TradeItems, NEW k \in TradeItems,
                        offeredBy'[j] # Nobody, offeredBy'[k] # Nobody,
                        Overlap(j, k)
                 PROVE  j = k
        BY DEF OffersApart, Overlap, IsHolding
    <2>1. Overlap(k, j)
        BY DEF Overlap
    <2>2. \A m \in TradeItems : m = i \/ offeredBy'[m] = offeredBy[m]
        BY <1>0, <1>2 DEF TablesOK
    <2> QED
        BY <2>1, <2>2, <1>0, <1>1 DEF OffersApart, AlreadyTraded
<1>4. OfferInReach'
    <2>2. \A r \in TradePlayers : r # p => tradeItem'[r] = tradeItem[r]
        BY <1>0, <1>2 DEF TablesOK
    <2>3. tradeItem'[p] = i
        BY <1>0, <1>2 DEF TablesOK
    <2> SUFFICES ASSUME NEW r \in TradePlayers, tradeItem'[r] # Nothing
                 PROVE  InReach(r, tradeItem[r])'
        BY DEF OfferInReach
    <2>4. InReach(r, tradeItem'[r])
        BY <2>2, <2>3, <1>0, <1>1 DEF OfferInReach
    <2> QED
        BY <2>4 DEF InReach, Root
<1> QED
    BY <1>3, <1>4, StartTradeKeepsTables DEF TradeInv

LEMMA KeepTradesKeepsTables ==
    ASSUME TablesAgree, KeepTrades PROVE TablesAgree' /\ Fewer({})
BY DEF TablesAgree, KeepTrades, TablesOK, PartnersAgree, OffersRegistered,
       tradeVars, Fewer

LEMMA FewerIsFewer ==
    ASSUME NEW players, Fewer(players) PROVE Fewer({})
BY DEF Fewer

\* What is moved or walks away is offered no more, ...
LEMMA ClosedInTime ==
    ASSUME TradeInv, NEW players \in SUBSET TradePlayers, Fewer(players),
           TablesAgree', WorldOK',
           \A p \in TradePlayers, i \in TradeItems :
              tradeItem[p] = i /\ p \notin players
                  => /\ InReach(p, i) => InReach(p, i)'
                     /\ \A j \in TradeItems :
                            /\ offeredBy[j] # Nobody
                            /\ offeredBy[j] \notin players
                            => (Overlap(i, j)' => Overlap(i, j))
    PROVE  TradeInv'
<1> USE TradeAssumption
<1>0. /\ TablesOK /\ PartnersAgree /\ OffersRegistered
      /\ OffersApart /\ OfferInReach
    BY DEF TablesAgree, TradeInv
<1>1. OffersApart'
    <2> SUFFICES ASSUME NEW j \in TradeItems, NEW k \in TradeItems,
                        offeredBy'[j] # Nobody, offeredBy'[k] # Nobody,
                        Overlap(j, k)'
                 PROVE  j = k
        BY DEF OffersApart
    <2>1. /\ offeredBy[j] # Nobody /\ offeredBy[j] \notin players
          /\ offeredBy[k] # Nobody /\ offeredBy[k] \notin players
        BY DEF Fewer
    <2>2. PICK p \in TradePlayers : offeredBy[j] = p /\ tradeItem[p] = j
        BY <2>1, <1>0 DEF OffersRegistered, TablesOK
    <2>3. Overlap(j, k)
        BY <2>1, <2>2
    <2> QED
        BY <2>1, <2>3, <1>0 DEF OffersApart
<1>2. OfferInReach'
    <2> SUFFICES ASSUME NEW p \in TradePlayers, tradeItem'[p] # Nothing
                 PROVE  InReach(p, tradeItem[p])'
        BY DEF OfferInReach
    <2>1. tradeItem'[p] = tradeItem[p] /\ p \notin players
        BY DEF Fewer
    <2>2. tradeItem[p] \in TradeItems /\ InReach(p, tradeItem[p])
        BY <2>1, <1>0 DEF TablesOK, OfferInReach
    <2> DEFINE i == tradeItem[p]
    <2>3. InReach(p, i)'
        <3> HIDE DEF i
        <3> QED
            BY <2>1, <2>2 DEF i
    <2>4. InReach(p, tradeItem'[p]) <=> InReach(p, i)
        BY <2>1
    <2> QED
        BY <2>1, <2>3 DEF InReach, Root
<1> QED
    BY <1>1, <1>2 DEF TradeInv

\* ... so that what is still offered stays in reach.
LEMMA KeptInReach ==
    ASSUME TradeInv, NEW players \in SUBSET TradePlayers, Fewer(players),
           TablesAgree', WorldOK', UNCHANGED <<holder, place>>
    PROVE  TradeInv'
<1>1. Fewer({})
    BY FewerIsFewer
<1>2. OffersApart' /\ OfferInReach'
    BY <1>1, FewerKeepsOffers
<1> QED
    BY <1>2 DEF TradeInv

\* Two that accept are the whole of their trade.
LEMMA AcceptersAreTogether ==
    ASSUME TablesAgree, NEW p \in TradePlayers, SecondToAccept(p)
    PROVE  /\ tradePartner[p] \in TradePlayers
           /\ tradePartner[p] # p /\ tradePartner[tradePartner[p]] = p
           /\ \A r \in TradePlayers :
                tradePartner[r] \in {p, tradePartner[p]}
                    => r \in {p, tradePartner[p]}
<1> USE TradeAssumption
<1> DEFINE q == tradePartner[p]
<1>1. q \in TradePlayers /\ tradePartner[q] = p
    BY DEF TablesAgree, TablesOK, PartnersAgree, SecondToAccept, Accepts
<1>2. q # p
    BY <1>1 DEF SecondToAccept, Accepts
<1>3. ASSUME NEW r \in TradePlayers, tradePartner[r] \in {p, q}
      PROVE  r \in {p, q}
    BY <1>1, <1>3 DEF TablesAgree, PartnersAgree
<1> QED
    BY <1>1, <1>2, <1>3

\* The exchange moves two items, each to the other player.
LEMMA ExchangeMoves ==
    ASSUME WorldOK, NEW i \in TradeItems, NEW j \in TradeItems,
           NEW p \in TradePlayers, NEW q \in TradePlayers, NEW h, NEW g,
           h = MoveTo(holder, i, q), g = MoveTo(h, j, p)
    PROVE  /\ h \in [TradeItems -> TradePlayers \cup {Ground, Bag}]
           /\ g \in [TradeItems -> TradePlayers \cup {Ground, Bag}]
           /\ \A k \in TradeItems : k # i /\ k # j => g[k] = holder[k]
           /\ \A k \in TradeItems :
                g[k] # holder[k] => g[k] \in TradePlayers
<1>1. h \in [TradeItems -> TradePlayers \cup {Ground, Bag}]
    BY DEF MoveTo, WorldOK
<1>2. g \in [TradeItems -> TradePlayers \cup {Ground, Bag}]
    BY <1>1 DEF MoveTo
<1>3. \A k \in TradeItems : h[k] = holder[k] \/ (k = i /\ h[k] = q)
    BY DEF MoveTo, WorldOK
<1>4. \A k \in TradeItems : g[k] = h[k] \/ (k = j /\ g[k] = p)
    BY <1>1 DEF MoveTo
<1> QED
    BY <1>1, <1>2, <1>3, <1>4

\* The second accepts: both items are exchanged, or none.
LEMMA AcceptTransferKeepsInv ==
    ASSUME TradeInv, NEW p \in TradePlayers, AcceptTransfer(p)
    PROVE  TradeInv'
<1> USE TradeAssumption
<1> DEFINE q == tradePartner[p]
           i == tradeItem[p]
           j == tradeItem[q]
           g == Exchange(p, q)
<1>0. /\ TablesAgree /\ WorldOK /\ TablesOK /\ OffersRegistered
      /\ OffersApart
    BY DEF TablesAgree, TradeInv
<1>1. /\ SecondToAccept(p) /\ Withdraw({p, q})
      /\ UNCHANGED <<place, walkTask>>
      /\ holder' = IF TestsPass(p, q) THEN g ELSE holder
    BY DEF AcceptTransfer
<1>2. /\ q \in TradePlayers
      /\ \A r \in TradePlayers :
            tradePartner[r] \in {p, q} => r \in {p, q}
    BY <1>0, <1>1, AcceptersAreTogether
<1>3. TablesAgree'
    BY <1>0, <1>1, <1>2, WithdrawKeepsTables
<1>4. Fewer({p, q})
    BY <1>0, <1>1, <1>2, WithdrawLeavesFewer
<1>5. CASE ~TestsPass(p, q)
    <2>1. UNCHANGED <<holder, place>> /\ WorldOK'
        BY <1>0, <1>1, <1>5 DEF WorldOK
    <2> QED
        BY <1>2, <1>3, <1>4, <2>1, KeptInReach
<1>6. CASE TestsPass(p, q)
    <2>1. i \in TradeItems /\ j \in TradeItems
        BY <1>0, <1>2, <1>6 DEF TestsPass, TablesOK
    <2>2. /\ g \in [TradeItems -> TradePlayers \cup {Ground, Bag}]
          /\ \A k \in TradeItems : k # i /\ k # j => g[k] = holder[k]
          /\ \A k \in TradeItems : g[k] # holder[k] => g[k] \in TradePlayers
        BY <1>0, <1>2, <2>1, ExchangeMoves DEF Exchange
    <2>3. holder' = g
        BY <1>1, <1>6
    <2> HIDE DEF g
    <2>4. WorldOK'
        BY <1>0, <1>1, <2>2, <2>3 DEF WorldOK
    <2>5. offeredBy[i] = p /\ offeredBy[j] = q
        BY <1>0, <1>2, <2>1 DEF OffersRegistered
    <2>6. ASSUME NEW r \in TradePlayers, NEW k \in TradeItems,
                 tradeItem[r] = k, r \notin {p, q}
          PROVE  /\ InReach(r, k) => InReach(r, k)'
                 /\ \A m \in TradeItems :
                        offeredBy[m] # Nobody /\ offeredBy[m] \notin {p, q}
                        => (Overlap(k, m)' => Overlap(k, m))
        <3>1. offeredBy[k] = r
            BY <1>0, <2>6 DEF OffersRegistered
        <3>2. k # i /\ k # j
            BY <3>1, <2>5, <2>6
        <3>3. holder[k] = Bag => i # Bag /\ j # Bag
            BY <3>1, <3>2, <2>1, <2>5, <1>0, <1>2
               DEF OffersApart, Overlap, IsHolding
        <3>4. holder'[k] = holder[k] /\ (holder[k] = Bag
                                           => holder'[Bag] = holder[Bag])
            BY <3>2, <3>3, <2>2, <2>3
        <3>5. InReach(r, k) => InReach(r, k)'
            BY <3>4, <1>1 DEF InReach, Root
        <3>6. ASSUME NEW m \in TradeItems, Overlap(k, m)'
              PROVE  Overlap(k, m)
            BY <3>6, <2>2, <2>3 DEF Overlap, IsHolding
        <3> QED
            BY <3>5, <3>6
    <2> QED
        BY <1>2, <1>3, <1>4, <2>4, <2>6, ClosedInTime
<1> QED
    BY <1>5, <1>6

\* An item is moved.
LEMMA MoveItemKeepsInv ==
    ASSUME TradeInv, NEW p \in TradePlayers, NEW i \in TradeItems,
           NEW to \in {p, Ground, Bag}, MoveItem(p, i, to)
    PROVE  TradeInv'
<1> USE TradeAssumption
<1> DEFINE touched == Touched(i, to)
<1>0. TablesAgree /\ WorldOK /\ TablesOK /\ OffersRegistered
    BY DEF TablesAgree, TradeInv
<1>1. touched \in SUBSET TradePlayers
    BY DEF Touched
<1>2. /\ holder' = [holder EXCEPT ![i] = to] /\ CloseTrades(touched)
      /\ UNCHANGED <<place, walkTask>>
      /\ to = Bag => i # Bag
    BY DEF MoveItem
<1>3. TablesAgree' /\ Fewer(touched)
    BY <1>0, <1>1, <1>2, CloseTradesKeepsTables, CloseTradesLeavesFewer
<1>4. WorldOK'
    BY <1>0, <1>2 DEF WorldOK
<1>5. ASSUME NEW r \in TradePlayers, NEW k \in TradeItems,
             tradeItem[r] = k, r \notin touched
      PROVE  /\ InReach(r, k) => InReach(r, k)'
             /\ \A m \in TradeItems :
                    offeredBy[m] # Nobody /\ offeredBy[m] \notin touched
                    => (Overlap(k, m)' => Overlap(k, m))
    <2>1. ~Overlap(k, i) /\ ~(k = Bag /\ to = Bag)
        BY <1>5 DEF Touched
    <2>2. holder'[k] = holder[k] /\ (holder[k] = Bag
                                       => holder'[Bag] = holder[Bag])
        BY <2>1, <1>0, <1>2 DEF Overlap, IsHolding, WorldOK
    <2>3. InReach(r, k) => InReach(r, k)'
        BY <2>2, <1>2 DEF InReach, Root
    <2>4. ASSUME NEW m \in TradeItems, offeredBy[m] # Nobody,
                 offeredBy[m] \notin touched, Overlap(k, m)'
          PROVE  Overlap(k, m)
        <3>1. PICK s \in TradePlayers : offeredBy[m] = s /\ tradeItem[s] = m
            BY <2>4, <1>0 DEF OffersRegistered, TablesOK
        <3>2. m # i
            BY <2>4, <3>1 DEF Touched, Overlap
        <3>3. holder'[m] = holder[m]
            BY <3>2, <1>0, <1>2 DEF WorldOK
        <3> QED
            BY <3>3, <2>2, <2>4 DEF Overlap, IsHolding
    <2> QED
        BY <2>3, <2>4
<1> HIDE DEF touched
<1> QED
    BY <1>1, <1>3, <1>4, <1>5, ClosedInTime

\* A player walks.
LEMMA WalkKeepsInv ==
    ASSUME TradeInv, NEW p \in TradePlayers,
           NEW where \in {"north", "south", "away"}, Walk(p, where)
    PROVE  TradeInv'
<1> USE TradeAssumption
<1> DEFINE gone == IF LeftBehind(p, where) THEN {p} ELSE {}
<1>0. TablesAgree /\ WorldOK /\ TablesOK /\ OffersRegistered
    BY DEF TablesAgree, TradeInv
<1>1. /\ place' = [place EXCEPT ![p] = where]
      /\ IF LeftBehind(p, where) THEN CloseTrades({p}) ELSE KeepTrades
      /\ UNCHANGED <<holder, walkTask>>
    BY DEF Walk
<1>2. TablesAgree' /\ Fewer(gone)
    BY <1>0, <1>1, CloseTradesKeepsTables, CloseTradesLeavesFewer,
       KeepTradesKeepsTables
<1>3. WorldOK'
    BY <1>0, <1>1 DEF WorldOK
<1>4. gone \in SUBSET TradePlayers
    OBVIOUS
<1>5. ASSUME NEW r \in TradePlayers, NEW k \in TradeItems,
             tradeItem[r] = k, r \notin gone
      PROVE  /\ InReach(r, k) => InReach(r, k)'
             /\ \A m \in TradeItems :
                    offeredBy[m] # Nobody /\ offeredBy[m] \notin gone
                    => (Overlap(k, m)' => Overlap(k, m))
    <2>1. ASSUME InReach(r, k) PROVE InReach(r, k)'
        <3>1. CASE r # p
            BY <2>1, <3>1, <1>0, <1>1 DEF InReach, Root, WorldOK
        <3>2. CASE r = p
            <4>1. Root(k) = Ground => where = "north"
                BY <3>2, <1>5 DEF LeftBehind
            <4> QED
                BY <4>1, <2>1, <3>2, <1>0, <1>1 DEF InReach, Root, WorldOK
        <3> QED
            BY <3>1, <3>2
    <2>2. \A m \in TradeItems : Overlap(k, m)' => Overlap(k, m)
        BY <1>1 DEF Overlap, IsHolding
    <2> QED
        BY <2>1, <2>2
<1> HIDE DEF gone
<1> QED
    BY <1>2, <1>3, <1>4, <1>5, ClosedInTime

\* A player leaves the game.
LEMMA LogoutKeepsInv ==
    ASSUME TradeInv, NEW p \in TradePlayers, LogoutTrader(p)
    PROVE  TradeInv'
<1> USE TradeAssumption
<1>0. /\ TablesAgree /\ WorldOK /\ TablesOK /\ PartnersAgree
      /\ OffersRegistered
    BY DEF TablesAgree, TradeInv
<1>1. /\ place' = [place EXCEPT ![p] = "away"]
      /\ walkTask' = [walkTask EXCEPT ![p] = Nothing]
      /\ IF tradePartner[p] # Nobody THEN CloseTrades({p}) ELSE KeepTrades
      /\ UNCHANGED holder
    BY DEF LogoutTrader
<1>2. TablesAgree' /\ Fewer({})
    BY <1>0, <1>1, CloseTradesKeepsTables, CloseTradesLeavesFewer,
       KeepTradesKeepsTables, FewerIsFewer
<1>3. WorldOK'
    BY <1>0, <1>1 DEF WorldOK
<1>4. tradePartner[p] = Nobody => tradeItem[p] = Nothing
    BY <1>0 DEF PartnersAgree
<1>5. Fewer({p})
    <2>1. CASE tradePartner[p] # Nobody
        BY <1>0, <1>1, <2>1, CloseTradesLeavesFewer
    <2>2. CASE tradePartner[p] = Nobody
        BY <2>2, <1>0, <1>1, <1>4
           DEF KeepTrades, tradeVars, Fewer, OffersRegistered
    <2> QED
        BY <2>1, <2>2
<1>6. ASSUME NEW r \in TradePlayers, NEW k \in TradeItems,
             tradeItem[r] = k, r \notin {p}
      PROVE  /\ InReach(r, k) => InReach(r, k)'
             /\ \A m \in TradeItems :
                    offeredBy[m] # Nobody /\ offeredBy[m] \notin {p}
                    => (Overlap(k, m)' => Overlap(k, m))
    BY <1>6, <1>0, <1>1 DEF InReach, Root, WorldOK, Overlap, IsHolding
<1> QED
    BY <1>2, <1>3, <1>5, <1>6, ClosedInTime

\* The first of the two accepts.
LEMMA AcceptFirstKeepsInv ==
    ASSUME TradeInv, NEW p \in TradePlayers, AcceptFirst(p)
    PROVE  TradeInv'
<1> USE TradeAssumption
<1>0. TablesAgree /\ TablesOK /\ PartnersAgree /\ WorldOK
    BY DEF TablesAgree, TradeInv
<1>1. /\ Accepts(p) /\ tradeState' = [tradeState EXCEPT ![p] = "ACCEPT"]
      /\ UNCHANGED <<tradePartner, tradeItem, offeredBy, references>>
      /\ UNCHANGED <<holder, place, walkTask>>
    BY DEF AcceptFirst
<1>2. TablesOK'
    BY <1>0, <1>1 DEF TablesOK, TradeStates
<1>3. PartnersAgree'
    <2>1. tradePartner[p] # Nobody
        BY <1>1 DEF Accepts
    <2> QED
        BY <2>1, <1>0, <1>1 DEF PartnersAgree, TablesOK
<1>4. OffersRegistered' /\ OffersApart' /\ OfferInReach' /\ WorldOK'
    BY <1>1 DEF TradeInv, TablesAgree, OffersRegistered, OffersApart,
       OfferInReach, WorldOK, Overlap, IsHolding, InReach, Root
<1> QED
    BY <1>2, <1>3, <1>4 DEF TradeInv, TablesAgree

\* Every step keeps the trades sound.
LEMMA TradeInvIsKept ==
    ASSUME TradeInv, [TradeNext]_TradeVars
    PROVE  TradeInv'
<1> USE TradeAssumption
<1>0. TablesAgree /\ WorldOK /\ TablesOK
    BY DEF TablesAgree, TradeInv
<1>1. CASE UNCHANGED TradeVars
    BY <1>1 DEF TradeVars, tradeVars, TradeInv, TablesAgree, TablesOK,
       PartnersAgree, OffersRegistered, OffersApart, OfferInReach, WorldOK,
       Overlap, IsHolding, InReach, Root
<1>2. ASSUME NEW p \in TradePlayers, NEW q \in TradePlayers,
             NEW i \in TradeItems, RequestTrade(p, q, i)
      PROVE  TradeInv'
    <2>1. WorldOK'
        BY <1>0, <1>2 DEF RequestTrade, WorldOK
    <2> QED
        BY <1>2, <2>1, StartTradeKeepsInv DEF RequestTrade
<1>3. ASSUME NEW p \in TradePlayers, NEW q \in TradePlayers,
             NEW i \in TradeItems, RequestLater(p, q, i)
      PROVE  TradeInv'
    <2>1. WorldOK'
        BY <1>0, <1>3 DEF RequestLater, WorldOK, Requests
    <2>2. TablesAgree' /\ Fewer({})
        BY <1>0, <1>3, KeepTradesKeepsTables DEF RequestLater
    <2> QED
        BY <1>3, <2>1, <2>2, KeptInReach DEF RequestLater
<1>4. ASSUME NEW p \in TradePlayers, RequestNow(p)
      PROVE  TradeInv'
    <2> DEFINE r == walkTask[p]
    <2>1. r.partner \in TradePlayers /\ r.item \in TradeItems
        BY <1>0, <1>4 DEF RequestNow, WorldOK, Requests
    <2>2. WorldOK'
        BY <1>0, <1>4 DEF RequestNow, WorldOK
    <2>3. CASE MayRequest(p, r.partner, r.item)
        <3>1. StartTrade(p, r.partner, r.item)
            BY <1>4, <2>3 DEF RequestNow
        <3>2. UNCHANGED <<holder, place>>
            BY <1>4 DEF RequestNow
        <3> QED
            BY <2>1, <2>2, <2>3, <3>1, <3>2, StartTradeKeepsInv
    <2>4. CASE ~MayRequest(p, r.partner, r.item)
        <3>1. TablesAgree' /\ Fewer({})
            BY <1>0, <1>4, <2>4, KeepTradesKeepsTables DEF RequestNow
        <3> QED
            BY <1>4, <2>2, <3>1, KeptInReach DEF RequestNow
    <2> QED
        BY <2>3, <2>4
<1>5. ASSUME NEW p \in TradePlayers, AcceptRefused(p)
      PROVE  TradeInv'
    <2> DEFINE q == tradePartner[p]
    <2>1. /\ SecondToAccept(p) /\ Withdraw({p, q})
          /\ UNCHANGED <<holder, place, walkTask>>
        BY <1>5 DEF AcceptRefused
    <2>2. /\ q \in TradePlayers
          /\ \A r \in TradePlayers :
                tradePartner[r] \in {p, q} => r \in {p, q}
        BY <1>0, <2>1, AcceptersAreTogether
    <2>3. TablesAgree' /\ Fewer({p, q})
        BY <1>0, <2>1, <2>2, WithdrawKeepsTables, WithdrawLeavesFewer
    <2>4. WorldOK'
        BY <1>0, <2>1 DEF WorldOK
    <2> QED
        BY <2>1, <2>2, <2>3, <2>4, KeptInReach
<1>6. ASSUME NEW p \in TradePlayers, CloseTrade(p)
      PROVE  TradeInv'
    <2>1. /\ CloseTrades({p}) /\ UNCHANGED <<holder, place, walkTask>>
        BY <1>6 DEF CloseTrade
    <2>2. TablesAgree' /\ Fewer({p})
        BY <1>0, <2>1, CloseTradesKeepsTables, CloseTradesLeavesFewer
    <2>3. WorldOK'
        BY <1>0, <2>1 DEF WorldOK
    <2> QED
        BY <2>1, <2>2, <2>3, KeptInReach
<1>7. CASE TradeNext
    BY <1>7, <1>2, <1>3, <1>4, <1>5, <1>6, AcceptFirstKeepsInv,
       AcceptTransferKeepsInv, MoveItemKeepsInv, WalkKeepsInv,
       LogoutKeepsInv
       DEF TradeNext
<1> QED
    BY <1>1, <1>7

\* A trade that passes its tests moves both items.
LEMMA TransferMovesBoth ==
    ASSUME TradeInv, NEW p \in TradePlayers, AcceptTransfer(p)
    PROVE  LET q == tradePartner[p]
               moved == {i \in TradeItems : holder'[i] # holder[i]} IN
           \/ moved = {}
           \/ /\ moved = {tradeItem[p], tradeItem[q]}
              /\ holder'[tradeItem[p]] = q /\ holder'[tradeItem[q]] = p
<1> USE TradeAssumption
<1> DEFINE q == tradePartner[p]
           i == tradeItem[p]
           j == tradeItem[q]
           g == MoveTo(holder, i, q)
           moved == {k \in TradeItems : holder'[k] # holder[k]}
<1>0. /\ TablesAgree /\ WorldOK /\ TablesOK /\ OffersRegistered
      /\ OfferInReach
    BY DEF TablesAgree, TradeInv
<1>1. /\ SecondToAccept(p)
      /\ holder' = IF TestsPass(p, q) THEN MoveTo(g, j, p) ELSE holder
    BY DEF AcceptTransfer, Exchange
<1>2. CASE ~TestsPass(p, q)
    BY <1>1, <1>2
<1>3. CASE TestsPass(p, q)
    <2>1. q \in TradePlayers /\ q # p
        BY <1>0, <1>1, AcceptersAreTogether
    <2>2. i \in TradeItems /\ j \in TradeItems
        BY <1>0, <2>1, <1>3 DEF TestsPass, TablesOK
    <2>3. i # j
        BY <1>0, <2>1, <2>2 DEF OffersRegistered
    <2>4. HasRoom(q) /\ HasRoom(p)
        BY <1>3 DEF TestsPass
    <2>5. g = [holder EXCEPT ![i] = q]
        BY <2>4 DEF MoveTo, HasRoom
    <2>6. {k \in TradeItems : g[k] = p} \subseteq
            {k \in TradeItems : holder[k] = p}
        BY <2>1, <2>2, <2>5, <1>0 DEF WorldOK
    <2>7. Cardinality({k \in TradeItems : g[k] = p}) < HandRoom
        <3> DEFINE A == {k \in TradeItems : g[k] = p}
                   B == {k \in TradeItems : holder[k] = p}
        <3>1. IsFiniteSet(B)
            BY FS_Subset
        <3>2. IsFiniteSet(A) /\ Cardinality(A) <= Cardinality(B)
            BY <3>1, <2>6, FS_Subset
        <3>3. Cardinality(A) \in Nat /\ Cardinality(B) \in Nat
            BY <3>1, <3>2, FS_CardinalityType
        <3>4. Cardinality(B) < HandRoom
            BY <2>4 DEF HasRoom
        <3> HIDE DEF A, B
        <3>5. Cardinality(A) < HandRoom
            BY <3>2, <3>3, <3>4
        <3> QED
            BY <3>5 DEF A
    <2>8. holder' = [g EXCEPT ![j] = p]
        BY <1>1, <1>3, <2>7 DEF MoveTo
    <2>9. holder'[i] = q /\ holder'[j] = p
        BY <2>1, <2>2, <2>3, <2>5, <2>8, <1>0 DEF WorldOK
    <2>10. \A k \in TradeItems : k # i /\ k # j => holder'[k] = holder[k]
        BY <2>2, <2>5, <2>8, <1>0 DEF WorldOK
    <2>11. holder[i] # q /\ holder[j] # p
        BY <2>1, <2>2, <1>0 DEF OfferInReach, InReach, Root, TablesOK
    <2>12. moved = {i, j}
        BY <2>2, <2>9, <2>10, <2>11
    <2> QED
        BY <2>9, <2>12
<1> QED
    BY <1>2, <1>3

-----------------------------------------------------------------------------
(* Parties and who belongs to them (Party).                                *)

Distinct(s) == \A i, j \in DOMAIN s : s[i] = s[j] => i = j

Elements(s) == {s[i] : i \in DOMAIN s}

\* The list without the first occurrence of a member, which has no other.
LEMMA WithoutRemoves ==
    ASSUME NEW S, NEW s \in Seq(S), Distinct(s), NEW p
    PROVE  /\ Without(s, p) \in Seq(S)
           /\ Distinct(Without(s, p))
           /\ Elements(Without(s, p)) = Elements(s) \ {p}
<1>1. CASE \A i \in DOMAIN s : s[i] # p
    <2>1. Without(s, p) = s
        BY <1>1 DEF Without
    <2> QED
        BY <1>1, <2>1 DEF Elements
<1>2. CASE \E i \in DOMAIN s : s[i] = p
    <2> DEFINE found == CHOOSE i \in DOMAIN s :
                            s[i] = p /\ \A j \in 1 .. i - 1 : s[j] # p
               t == [i \in 1 .. Len(s) - 1 |->
                        IF i < found THEN s[i] ELSE s[i + 1]]
    <2>0. Len(s) \in Nat /\ DOMAIN s = 1 .. Len(s)
        BY LenProperties
    <2>1. PICK k \in DOMAIN s : s[k] = p
        BY <1>2
    <2>2. \A j \in 1 .. k - 1 : s[j] # p
        BY <2>0, <2>1 DEF Distinct
    <2>3. found \in DOMAIN s /\ s[found] = p
        BY <2>1, <2>2
    <2>4. Without(s, p) = t
        BY <1>2 DEF Without
    <2> HIDE DEF found
    <2>5. \A i \in DOMAIN s : s[i] \in S
        BY ElementOfSeq, <2>0
    <2>6. t \in [1 .. Len(s) - 1 -> S]
        BY <2>0, <2>3, <2>5
    <2>7. Len(s) - 1 \in Nat
        BY <2>0, <2>3
    <2>8. t \in Seq(S)
        BY <2>6, <2>7
    <2>9. DOMAIN t = 1 .. Len(s) - 1
        OBVIOUS
    <2>10. ASSUME NEW i \in 1 .. Len(s) - 1, NEW j \in 1 .. Len(s) - 1,
                  t[i] = t[j]
           PROVE  i = j
        BY <2>10, <2>0, <2>3 DEF Distinct
    <2>11. Distinct(t)
        BY <2>9, <2>10 DEF Distinct
    <2>12. ASSUME NEW x \in Elements(t) PROVE x \in Elements(s) \ {p}
        <3>1. PICK i \in 1 .. Len(s) - 1 : x = t[i]
            BY <2>12, <2>9 DEF Elements
        <3> QED
            BY <3>1, <2>0, <2>3 DEF Elements, Distinct
    <2>13. ASSUME NEW x \in Elements(s) \ {p} PROVE x \in Elements(t)
        <3>1. PICK i \in DOMAIN s : x = s[i]
            BY <2>13 DEF Elements
        <3>2. CASE i < found
            <4>1. i \in 1 .. Len(s) - 1 /\ t[i] = x
                BY <3>1, <3>2, <2>0, <2>3
            <4> QED
                BY <4>1, <2>9 DEF Elements
        <3>3. CASE i > found
            <4>1. i - 1 \in 1 .. Len(s) - 1 /\ t[i - 1] = x
                BY <3>1, <3>3, <2>0, <2>3
            <4> QED
                BY <4>1, <2>9 DEF Elements
        <3> QED
            BY <3>1, <3>2, <3>3, <2>0, <2>3, <2>13
    <2> HIDE DEF t
    <2> QED
        BY <2>4, <2>8, <2>11, <2>12, <2>13
<1> QED
    BY <1>1, <1>2

\* A new first member.
LEMMA ConsAdds ==
    ASSUME NEW S, NEW s \in Seq(S), Distinct(s), NEW x \in S,
           x \notin Elements(s)
    PROVE  /\ <<x>> \o s \in Seq(S) /\ Distinct(<<x>> \o s)
           /\ Elements(<<x>> \o s) = Elements(s) \cup {x}
<1> DEFINE t == <<x>> \o s
<1>0. Len(s) \in Nat /\ DOMAIN s = 1 .. Len(s) /\ <<x>> \in Seq(S)
      /\ Len(<<x>>) = 1
    BY LenProperties
<1>1. t \in Seq(S) /\ Len(t) = Len(s) + 1
    BY <1>0, ConcatProperties
<1>2. DOMAIN t = 1 .. Len(s) + 1
    BY <1>1, LenProperties
<1>3. t[1] = x /\ \A i \in 2 .. Len(s) + 1 : t[i] = s[i - 1]
    BY <1>0, <1>1, ConcatProperties
<1> HIDE DEF t
<1>4. Distinct(t)
    <2> SUFFICES ASSUME NEW i \in 1 .. Len(s) + 1, NEW j \in 1 .. Len(s) + 1,
                        t[i] = t[j]
                 PROVE  i = j
        BY <1>2 DEF Distinct
    <2>1. \A k \in 2 .. Len(s) + 1 : t[k] # x
        BY <1>0, <1>3 DEF Elements
    <2>2. CASE i = 1 \/ j = 1
        BY <2>1, <2>2, <1>0, <1>3
    <2>3. CASE i # 1 /\ j # 1
        <3>1. i - 1 \in DOMAIN s /\ j - 1 \in DOMAIN s
            BY <2>3, <1>0
        <3>2. s[i - 1] = s[j - 1]
            BY <2>3, <1>0, <1>3
        <3> QED
            BY <3>1, <3>2, <1>0 DEF Distinct
    <2> QED
        BY <2>2, <2>3
<1>5. ASSUME NEW y \in Elements(t) PROVE y \in Elements(s) \cup {x}
    <2>1. PICK i \in 1 .. Len(s) + 1 : y = t[i]
        BY <1>2, <1>5 DEF Elements
    <2>2. CASE i = 1
        BY <2>1, <2>2, <1>3
    <2>3. CASE i # 1
        <3>1. i - 1 \in DOMAIN s /\ y = s[i - 1]
            BY <2>1, <2>3, <1>0, <1>3
        <3> QED
            BY <3>1 DEF Elements
    <2> QED
        BY <2>2, <2>3
<1>6. ASSUME NEW y \in Elements(s) PROVE y \in Elements(t)
    <2>1. PICK i \in DOMAIN s : y = s[i]
        BY <1>6 DEF Elements
    <2>2. i + 1 \in 2 .. Len(s) + 1 /\ t[i + 1] = y
        BY <2>1, <1>0, <1>3
    <2> QED
        BY <2>2, <1>0, <1>2 DEF Elements
<1>7. x \in Elements(t)
    BY <1>0, <1>2, <1>3 DEF Elements
<1>8. Elements(t) = Elements(s) \cup {x}
    BY <1>5, <1>6, <1>7
<1> QED
    BY <1>1, <1>4, <1>8 DEF t

\* A new last member.
LEMMA AppendAdds ==
    ASSUME NEW S, NEW s \in Seq(S), Distinct(s), NEW x \in S,
           x \notin Elements(s)
    PROVE  /\ Append(s, x) \in Seq(S) /\ Distinct(Append(s, x))
           /\ Elements(Append(s, x)) = Elements(s) \cup {x}
<1> DEFINE t == Append(s, x)
<1>0. Len(s) \in Nat /\ DOMAIN s = 1 .. Len(s)
    BY LenProperties
<1>1. t \in Seq(S) /\ Len(t) = Len(s) + 1
    BY AppendProperties
<1>2. DOMAIN t = 1 .. Len(s) + 1
    BY <1>1, LenProperties
<1>3. t[Len(s) + 1] = x /\ \A i \in 1 .. Len(s) : t[i] = s[i]
    BY <1>0, AppendProperties
<1> HIDE DEF t
<1>4. Distinct(t)
    BY <1>0, <1>2, <1>3 DEF Distinct, Elements
<1>5. ASSUME NEW y \in Elements(t) PROVE y \in Elements(s) \cup {x}
    BY <1>0, <1>2, <1>3 DEF Elements
<1>6. ASSUME NEW y \in Elements(s) PROVE y \in Elements(t)
    BY <1>0, <1>2, <1>3 DEF Elements
<1>7. x \in Elements(t)
    BY <1>0, <1>2, <1>3 DEF Elements
<1>8. Elements(t) = Elements(s) \cup {x}
    BY <1>5, <1>6, <1>7
<1> QED
    BY <1>1, <1>4, <1>8 DEF t

\* A list without repetitions has as many places as members.
LEMMA DistinctCounted ==
    ASSUME NEW S, NEW s \in Seq(S), Distinct(s)
    PROVE  /\ IsFiniteSet(Elements(s))
           /\ Cardinality(Elements(s)) = Len(s)
<1>0. Len(s) \in Nat /\ DOMAIN s = 1 .. Len(s)
    BY LenProperties
<1>1. s \in [1 .. Len(s) -> Elements(s)]
    BY <1>0 DEF Elements
<1>2. s \in Bijection(1 .. Len(s), Elements(s))
    BY <1>0, <1>1 DEF Bijection, Injection, Surjection, IsInjective, Distinct,
                     Elements
<1>3. ExistsBijection(1 .. Len(s), Elements(s))
    BY <1>2 DEF ExistsBijection
<1>4. IsFiniteSet(1 .. Len(s)) /\ Cardinality(1 .. Len(s)) = Len(s)
    BY <1>0, FS_Interval
<1> QED
    BY <1>3, <1>4, FS_Bijection

Shared(r) == r.sharedExpActive /\ r.sharedExpEnabled => CanEnable(r)

\* A party by itself, whatever it may lack of members and invitees
Formed(r) ==
    /\ r \in Parties /\ Distinct(r.members) /\ r.leader \in Companions
    /\ r.leader \notin Members(r) /\ Shared(r)

Kept(r) == r = Free \/ (Formed(r) /\ ~Empty(r))

LEMMA MembersAreElements == \A r : Members(r) = Elements(r.members)
BY DEF Members, Elements

\* A party that is freed has nobody.
LEMMA FreeIsEmpty ==
    /\ Free \in Parties /\ Free.leader = NoLeader /\ Free.members = <<>>
    /\ Free.invitees = {} /\ ~Free.sharedExpActive
    /\ Members(Free) = {} /\ Everyone(Free) = {} /\ Distinct(Free.members)
<1>1. <<>> \in Seq(Companions) /\ DOMAIN <<>> = {}
    BY EmptySeq
<1>2. /\ Free \in Parties /\ Free.leader = NoLeader /\ Free.members = <<>>
      /\ Free.invitees = {} /\ ~Free.sharedExpActive
    BY <1>1 DEF Free, Parties
<1>3. Members(Free) = {}
    BY <1>1, <1>2 DEF Members
<1>4. Everyone(Free) = {}
    BY <1>2, <1>3, PartyAssumption DEF Everyone
<1>5. Distinct(Free.members)
    BY <1>1, <1>2 DEF Distinct
<1> QED
    BY <1>2, <1>3, <1>4, <1>5

LEMMA FieldsOfParties ==
    ASSUME NEW r \in Parties
    PROVE  /\ r.leader \in Companions \cup {NoLeader}
           /\ r.members \in Seq(Companions)
           /\ r.invitees \in SUBSET Companions
           /\ r.ticks \in SUBSET Companions
           /\ r.sharedExpActive \in BOOLEAN
           /\ r.sharedExpEnabled \in BOOLEAN
BY DEF Parties

\* What updateSharedExperience leaves as it is, and what it makes sure of
LEMMA UpdateSharedShares ==
    ASSUME NEW r \in Parties
    PROVE  /\ UpdateShared(r) \in Parties /\ Shared(UpdateShared(r))
           /\ UpdateShared(r).leader = r.leader
           /\ UpdateShared(r).members = r.members
           /\ UpdateShared(r).invitees = r.invitees
<1> DEFINE u == UpdateShared(r)
           v == [r EXCEPT !.sharedExpEnabled = CanEnable(r)]
<1>0. CanEnable(r) \in BOOLEAN
    BY DEF CanEnable
<1>1. v \in Parties
    BY <1>0 DEF Parties
<1>2. /\ v.leader = r.leader /\ v.members = r.members
      /\ v.invitees = r.invitees /\ v.ticks = r.ticks
    BY DEF Parties
<1>3. v.sharedExpEnabled = CanEnable(r)
    BY DEF Parties
<1>4. CanEnable(v) = CanEnable(r)
    BY <1>2 DEF CanEnable, Everyone, Members
<1>5. Shared(v)
    BY <1>3, <1>4 DEF Shared
<1>6. u = IF r.sharedExpActive THEN v ELSE r
    BY DEF UpdateShared
<1>7. ~r.sharedExpActive => Shared(r)
    BY DEF Shared
<1> HIDE DEF u, v
<1>8. CASE r.sharedExpActive
    <2>1. u = v
        BY <1>6, <1>8
    <2> QED
        BY <2>1, <1>1, <1>2, <1>5 DEF u
<1>9. CASE ~r.sharedExpActive
    <2>1. u = r
        BY <1>6, <1>9
    <2> QED
        BY <2>1, <1>7, <1>9 DEF u
<1> QED
    BY <1>8, <1>9

\* Whatever was changed, updateSharedExperience makes the sharing right.
LEMMA FormedByUpdate ==
    ASSUME NEW r \in Parties, Distinct(r.members), r.leader \in Companions,
           r.leader \notin Members(r)
    PROVE  /\ Formed(UpdateShared(r))
           /\ Everyone(UpdateShared(r)) = Everyone(r)
           /\ Members(UpdateShared(r)) = Members(r)
           /\ UpdateShared(r).leader = r.leader
           /\ UpdateShared(r).members = r.members
           /\ UpdateShared(r).invitees = r.invitees
BY UpdateSharedShares DEF Formed, Members, Everyone

\* passPartyLeadership exchanges the leader and a member.
LEMMA PassedIsFormed ==
    ASSUME NEW r, Formed(r), NEW p \in Members(r)
    PROVE  /\ Formed(Passed(r, p)) /\ Passed(r, p).leader = p
           /\ Everyone(Passed(r, p)) = Everyone(r)
           /\ Members(Passed(r, p)) = (Members(r) \ {p}) \cup {r.leader}
           /\ Passed(r, p).members = <<r.leader>> \o Without(r.members, p)
           /\ Passed(r, p).invitees = r.invitees
<1>0. /\ r \in Parties /\ r.members \in Seq(Companions)
      /\ r.leader \in Companions /\ Distinct(r.members)
      /\ r.leader \notin Members(r) /\ Members(r) = Elements(r.members)
    BY FieldsOfParties, MembersAreElements DEF Formed
<1> DEFINE w == Without(r.members, p)
           t == <<r.leader>> \o w
           a == [r EXCEPT !.leader = p]
           b == [a EXCEPT !.members = t]
<1>1. w \in Seq(Companions) /\ Distinct(w) /\ Elements(w) = Members(r) \ {p}
    BY <1>0, WithoutRemoves
<1>2. /\ t \in Seq(Companions) /\ Distinct(t)
      /\ Elements(t) = Elements(w) \cup {r.leader}
    <2>1. r.leader \notin Elements(w)
        BY <1>0, <1>1
    <2> HIDE DEF w
    <2> QED
        BY <2>1, <1>0, <1>1, ConsAdds
<1>3. p \in Companions
    BY <1>0, LenProperties, ElementOfSeq DEF Members
<1> HIDE DEF t
<1>4. Passed(r, p) = UpdateShared(b)
    <2>1. [r EXCEPT !.leader = p, !.members = t] = b
        BY <1>0 DEF Parties
    <2> QED
        BY <2>1 DEF Passed, t
<1>5. a \in Parties /\ a.leader = p /\ a.invitees = r.invitees
    BY <1>0, <1>3 DEF Parties
<1> HIDE DEF a
<1>6. /\ b \in Parties /\ b.leader = p /\ b.members = t
      /\ b.invitees = r.invitees
    BY <1>5, <1>2 DEF Parties
<1> HIDE DEF b
<1>7. Members(b) = (Members(r) \ {p}) \cup {r.leader}
    BY <1>1, <1>2, <1>6, MembersAreElements
<1>8. p # r.leader
    BY <1>0
<1>9. /\ Formed(UpdateShared(b)) /\ Everyone(UpdateShared(b)) = Everyone(b)
      /\ Members(UpdateShared(b)) = Members(b)
      /\ UpdateShared(b).leader = b.leader
      /\ UpdateShared(b).members = b.members
      /\ UpdateShared(b).invitees = b.invitees
    <2>1. Distinct(b.members)
        BY <1>2, <1>6
    <2>2. b.leader \in Companions /\ b.leader \notin Members(b)
        BY <1>3, <1>6, <1>7, <1>8
    <2> QED
        BY <2>1, <2>2, <1>6, FormedByUpdate
<1>10. Everyone(b) = Everyone(r)
    BY <1>0, <1>3, <1>6, <1>7 DEF Everyone
<1>11. b.members = <<r.leader>> \o Without(r.members, p)
    BY <1>6 DEF t
<1> QED
    BY <1>4, <1>6, <1>7, <1>9, <1>10, <1>11

\* leaveParty takes the leaver out, and names another leader if need be.
LEMMA LeavingLeaves ==
    ASSUME NEW r, Formed(r), ~Empty(r), NEW p \in Everyone(r)
    PROVE  LET a == AfterLeaving(r, p) IN
           /\ Kept(a)
           /\ a # Free => /\ Everyone(a) = Everyone(r) \ {p}
                          /\ a.invitees = r.invitees
           /\ a = Free => \E q \in Companions : Everyone(r) \subseteq {p, q}
<1>0. /\ r \in Parties /\ r.members \in Seq(Companions)
      /\ r.leader \in Companions /\ Distinct(r.members)
      /\ r.leader \notin Members(r) /\ Members(r) = Elements(r.members)
      /\ Len(r.members) \in Nat /\ DOMAIN r.members = 1 .. Len(r.members)
    BY FieldsOfParties, MembersAreElements, LenProperties DEF Formed
<1>1. Everyone(r) = Members(r) \cup {r.leader}
    BY <1>0 DEF Everyone
<1>2. Members(r) \subseteq Companions
    BY <1>0, ElementOfSeq DEF Members
<1>3. CASE MissingLeader(r, p)
    <2>1. AfterLeaving(r, p) = Free
        BY <1>3 DEF AfterLeaving
    <2>2. r.leader = p
        BY <1>3 DEF MissingLeader
    <2>3. CASE r.members = <<>>
        <3>1. Members(r) = {}
            BY <2>3, <1>0 DEF Members
        <3>2. Everyone(r) \subseteq {p, p}
            BY <3>1, <2>2, <1>1
        <3> QED
            BY <3>2, <2>1, <2>2, <1>0 DEF Kept
    <2>4. CASE Len(r.members) = 1
        <3>1. r.members[1] \in Companions /\ Members(r) = {r.members[1]}
            BY <2>4, <1>0, ElementOfSeq DEF Members
        <3>2. Everyone(r) \subseteq {p, r.members[1]}
            BY <3>1, <2>2, <1>1
        <3> QED
            BY <3>1, <3>2, <2>1 DEF Kept
    <2> QED
        BY <2>3, <2>4, <1>3 DEF MissingLeader
<1>4. CASE ~MissingLeader(r, p)
    <2> DEFINE led == IF r.leader = p THEN Passed(r, Head(r.members)) ELSE r
               w == Without(led.members, p)
               a == [led EXCEPT !.members = w]
               b == [a EXCEPT !.ticks = @ \ {p}]
               left == UpdateShared(b)
    <2>1. /\ Formed(led) /\ Everyone(led) = Everyone(r) /\ led.leader # p
          /\ led.invitees = r.invitees
        <3>1. CASE r.leader # p
            BY <3>1
        <3>2. CASE r.leader = p
            <4>1. r.members # <<>>
                BY <1>4, <3>2 DEF MissingLeader
            <4>2. Head(r.members) = r.members[1] /\ Len(r.members) # 0
                BY <4>1, <1>0, HeadTailProperties, EmptySeq
            <4>3. Head(r.members) \in Members(r)
                BY <4>2, <1>0 DEF Members
            <4>4. /\ Formed(Passed(r, Head(r.members)))
                  /\ Passed(r, Head(r.members)).leader = Head(r.members)
                  /\ Everyone(Passed(r, Head(r.members))) = Everyone(r)
                  /\ Passed(r, Head(r.members)).invitees = r.invitees
                BY <4>3, PassedIsFormed
            <4> QED
                BY <4>3, <4>4, <3>2, <1>0
        <3> QED
            BY <3>1, <3>2
    <2>2. AfterLeaving(r, p) = IF Empty(left) THEN Free ELSE left
        <3>1. AfterLeaving(r, p) =
                LET d == UpdateShared([led EXCEPT !.members = Without(@, p),
                                                  !.ticks = @ \ {p}])
                IN IF Empty(d) THEN Free ELSE d
            BY <1>4 DEF AfterLeaving
        <3>2. led \in Parties
            BY <2>1 DEF Formed
        <3> HIDE DEF led
        <3>3. [led EXCEPT !.members = Without(@, p), !.ticks = @ \ {p}] = b
            BY <3>2 DEF Parties
        <3> QED
            BY <3>1, <3>3
    <2> HIDE DEF led
    <2>3. /\ led \in Parties /\ led.members \in Seq(Companions)
          /\ led.leader \in Companions /\ Distinct(led.members)
          /\ led.leader \notin Members(led)
          /\ Members(led) = Elements(led.members)
        BY <2>1, FieldsOfParties, MembersAreElements DEF Formed
    <2>4. w \in Seq(Companions) /\ Distinct(w)
          /\ Elements(w) = Members(led) \ {p}
        BY <2>3, WithoutRemoves
    <2> HIDE DEF w
    <2>5. a \in Parties /\ a.leader = led.leader /\ a.members = w
          /\ a.invitees = led.invitees
        BY <2>3, <2>4 DEF Parties
    <2> HIDE DEF a
    <2>6. b \in Parties /\ b.leader = led.leader /\ b.members = w
          /\ b.invitees = led.invitees
        BY <2>5 DEF Parties
    <2> HIDE DEF b
    <2>7. Members(b) = Members(led) \ {p}
        BY <2>4, <2>6, MembersAreElements
    <2>8. /\ Formed(left) /\ Everyone(left) = Everyone(b)
          /\ Members(left) = Members(b) /\ left.members = b.members
          /\ left.leader = b.leader /\ left.invitees = b.invitees
        <3>1. Distinct(b.members)
            BY <2>4, <2>6
        <3>2. b.leader \in Companions /\ b.leader \notin Members(b)
            BY <2>3, <2>6, <2>7
        <3> QED
            BY <3>1, <3>2, <2>6, FormedByUpdate
    <2>9. Everyone(b) = Everyone(r) \ {p}
        BY <2>1, <2>3, <2>6, <2>7 DEF Everyone
    <2> HIDE DEF left
    <2>10. CASE Empty(left)
        <3>1. left.members = <<>>
            BY <2>10 DEF Empty
        <3>2. Members(b) = {}
            BY <3>1, <2>8, EmptySeq DEF Members
        <3>3. Members(led) \subseteq {p}
            BY <3>2, <2>7
        <3>4. Everyone(r) \subseteq {p, led.leader}
            BY <3>3, <2>1 DEF Everyone
        <3> QED
            BY <3>4, <2>2, <2>3, <2>10 DEF Kept
    <2>11. CASE ~Empty(left)
        <3>1. left # Free
            BY <2>11, FreeIsEmpty DEF Empty
        <3> QED
            BY <3>1, <2>1, <2>2, <2>6, <2>8, <2>9, <2>11 DEF Kept
    <2> QED
        BY <2>10, <2>11
<1> QED
    BY <1>3, <1>4

\* revokeInvitation takes the invitee out.
LEMMA RemovalRemoves ==
    ASSUME NEW r, Formed(r), ~Empty(r), NEW p
    PROVE  LET a == AfterRemoval(r, p) IN
           /\ Kept(a)
           /\ a # Free => /\ Everyone(a) = Everyone(r)
                          /\ a.invitees = r.invitees \ {p}
           /\ a = Free => Everyone(r) = {r.leader}
<1> DEFINE s == [r EXCEPT !.invitees = @ \ {p}]
<1>0. r \in Parties /\ r.leader \in Companions
    BY DEF Formed
<1>1. /\ s \in Parties /\ s.leader = r.leader /\ s.members = r.members
      /\ s.ticks = r.ticks
      /\ s.sharedExpActive = r.sharedExpActive
      /\ s.sharedExpEnabled = r.sharedExpEnabled
    BY <1>0 DEF Parties
<1>2. s.invitees = r.invitees \ {p}
    BY <1>0 DEF Parties
<1>3. AfterRemoval(r, p) = IF Empty(s) THEN Free ELSE s
    BY DEF AfterRemoval
<1> HIDE DEF s
<1>4. Members(s) = Members(r) /\ Everyone(s) = Everyone(r)
    BY <1>1 DEF Members, Everyone
<1>5. CanEnable(s) = CanEnable(r)
    BY <1>1, <1>4 DEF CanEnable
<1>6. Formed(s)
    BY <1>1, <1>4, <1>5 DEF Formed, Shared
<1>7. CASE Empty(s)
    <2>1. r.members = <<>>
        BY <1>1, <1>7 DEF Empty
    <2>2. Members(r) = {}
        BY <2>1, EmptySeq DEF Members
    <2>3. Everyone(r) = {r.leader}
        BY <2>2, <1>0 DEF Everyone
    <2> QED
        BY <2>3, <1>3, <1>7 DEF Kept
<1>8. CASE ~Empty(s)
    <2>1. s # Free
        BY <1>8, FreeIsEmpty DEF Empty
    <2> QED
        BY <2>1, <1>2, <1>3, <1>4, <1>6, <1>8 DEF Kept
<1> QED
    BY <1>7, <1>8

\* joinParty makes a member of an invitee.
LEMMA JoinedIsFormed ==
    ASSUME NEW r, Formed(r), NEW p \in Companions, p \notin Everyone(r)
    PROVE  LET a == Joined(r, p) IN
           /\ Formed(a) /\ ~Empty(a) /\ Everyone(a) = Everyone(r) \cup {p}
           /\ a.invitees = r.invitees \ {p}
<1>0. /\ r \in Parties /\ r.members \in Seq(Companions)
      /\ r.leader \in Companions /\ Distinct(r.members)
      /\ r.leader \notin Members(r) /\ Members(r) = Elements(r.members)
    BY FieldsOfParties, MembersAreElements DEF Formed
<1> DEFINE t == Append(r.members, p)
           a == [r EXCEPT !.invitees = @ \ {p}]
           b == [a EXCEPT !.members = t]
<1>1. p \notin Elements(r.members) /\ p # r.leader
    BY <1>0 DEF Everyone
<1>2. /\ t \in Seq(Companions) /\ Distinct(t)
      /\ Elements(t) = Elements(r.members) \cup {p}
    BY <1>0, <1>1, AppendAdds
<1> HIDE DEF t
<1>3. Joined(r, p) = UpdateShared(b)
    <2>1. [r EXCEPT !.invitees = @ \ {p}, !.members = t] = b
        BY <1>0 DEF Parties
    <2> QED
        BY <2>1 DEF Joined, t
<1>4. a \in Parties /\ a.leader = r.leader
    BY <1>0 DEF Parties
<1>5. a.invitees = r.invitees \ {p}
    BY <1>0 DEF Parties
<1> HIDE DEF a
<1>6. /\ b \in Parties /\ b.leader = r.leader /\ b.members = t
      /\ b.invitees = r.invitees \ {p}
    BY <1>4, <1>5, <1>2 DEF Parties
<1> HIDE DEF b
<1>7. Members(b) = Members(r) \cup {p}
    BY <1>0, <1>2, <1>6, MembersAreElements
<1>8. /\ Formed(UpdateShared(b)) /\ Everyone(UpdateShared(b)) = Everyone(b)
      /\ Members(UpdateShared(b)) = Members(b)
      /\ UpdateShared(b).leader = b.leader
      /\ UpdateShared(b).members = b.members
      /\ UpdateShared(b).invitees = b.invitees
    <2>1. Distinct(b.members)
        BY <1>2, <1>6
    <2>2. b.leader \in Companions /\ b.leader \notin Members(b)
        BY <1>0, <1>1, <1>6, <1>7
    <2> QED
        BY <2>1, <2>2, <1>6, FormedByUpdate
<1>9. Everyone(b) = Everyone(r) \cup {p}
    BY <1>0, <1>6, <1>7 DEF Everyone
<1>10. t # <<>>
    BY <1>2, EmptySeq DEF Elements
<1>11. ~Empty(UpdateShared(b))
    BY <1>6, <1>8, <1>10 DEF Empty
<1> QED
    BY <1>3, <1>6, <1>8, <1>9, <1>11

\* Who fights or heals is active.
LEMMA TickedIsFormed ==
    ASSUME NEW r, Formed(r), NEW p \in Companions
    PROVE  LET a == Ticked(r, p) IN
           /\ Formed(a) /\ Everyone(a) = Everyone(r)
           /\ a.members = r.members /\ a.invitees = r.invitees
<1> DEFINE a == [r EXCEPT !.ticks = @ \cup {p}]
<1>1. /\ a \in Parties /\ a.leader = r.leader /\ a.members = r.members
      /\ a.invitees = r.invitees
    BY DEF Formed, Parties
<1>2. Ticked(r, p) = UpdateShared(a)
    BY DEF Ticked
<1> HIDE DEF a
<1>3. Members(a) = Members(r) /\ Everyone(a) = Everyone(r)
    BY <1>1 DEF Members, Everyone
<1>4. /\ Formed(UpdateShared(a)) /\ Everyone(UpdateShared(a)) = Everyone(a)
      /\ UpdateShared(a).members = a.members
      /\ UpdateShared(a).invitees = a.invitees
    BY <1>1, <1>3, FormedByUpdate DEF Formed
<1> QED
    BY <1>1, <1>2, <1>3, <1>4

\* setSharedExperience.
LEMMA SwitchedIsFormed ==
    ASSUME NEW r, Formed(r), NEW on \in BOOLEAN
    PROVE  LET a == Switched(r, on) IN
           /\ Formed(a) /\ Everyone(a) = Everyone(r)
           /\ a.members = r.members /\ a.invitees = r.invitees
<1>0. r \in Parties
    BY DEF Formed
<1> DEFINE e == IF on THEN CanEnable(r) ELSE r.sharedExpEnabled
           a == [r EXCEPT !.sharedExpActive = on, !.sharedExpEnabled = e]
<1>1. e \in BOOLEAN
    BY <1>0, FieldsOfParties DEF CanEnable
<1>2. on => (e <=> CanEnable(r))
    OBVIOUS
<1>3. Switched(r, on) = a
    BY DEF Switched
<1> HIDE DEF e
<1>4. /\ a.leader = r.leader /\ a.members = r.members
      /\ a.invitees = r.invitees /\ a.ticks = r.ticks
    BY <1>0 DEF Parties
<1>5. a.sharedExpActive = on /\ a.sharedExpEnabled = e
    BY <1>0 DEF Parties
<1>6. a \in Parties
    BY <1>0, <1>1 DEF Parties
<1> HIDE DEF a
<1>7. Members(a) = Members(r) /\ Everyone(a) = Everyone(r)
    BY <1>4 DEF Members, Everyone
<1>8. CanEnable(a) <=> CanEnable(r)
    BY <1>4, <1>7 DEF CanEnable
<1>9. Shared(a)
    BY <1>2, <1>5, <1>8 DEF Shared
<1> QED
    BY <1>3, <1>4, <1>6, <1>7, <1>9 DEF Formed

-----------------------------------------------------------------------------
MembersPoint ==
    \A id \in PartyIds : Everyone(party[id]) = {p \in Companions :
                                                  partyOf[p] = id}

NotInvitedHome == \A p \in Companions : partyOf[p] \notin invitedTo[p]

AbsentAreAlone ==
    \A p \in Companions \ inGame : partyOf[p] = NoParty /\ invitedTo[p] = {}

PartyInv ==
    /\ party \in [PartyIds -> Parties]
    /\ \A id \in PartyIds : Kept(party[id])
    /\ partyOf \in [Companions -> PartyIds \cup {NoParty}]
    /\ invitedTo \in [Companions -> SUBSET PartyIds]
    /\ inGame \subseteq Companions
    /\ MembersPoint /\ InvitationsAgree /\ NotInvitedHome /\ AbsentAreAlone

\* The invariant says that parties are sound.
LEMMA PartyInvIsSound == PartyInv => PartySound
<1> SUFFICES ASSUME PartyInv PROVE PartySound
    OBVIOUS
<1> USE PartyAssumption
<1>1. ASSUME NEW id \in PartyIds, party[id] # Free
      PROVE  Formed(party[id]) /\ ~Empty(party[id])
    BY <1>1 DEF PartyInv, Kept
<1>2. ASSUME NEW id \in PartyIds
      PROVE  /\ Cardinality(Members(party[id])) = Len(party[id].members)
             /\ party[id].leader \notin Members(party[id])
    <2>1. party[id].members \in Seq(Companions) /\ Distinct(party[id].members)
        BY <1>1, FreeIsEmpty, FieldsOfParties DEF PartyInv, Formed
    <2>2. Cardinality(Members(party[id])) = Len(party[id].members)
        BY <2>1, DistinctCounted, MembersAreElements
    <2>3. party[id].leader \notin Members(party[id])
        BY <1>1, FreeIsEmpty DEF Formed
    <2> QED
        BY <2>2, <2>3
<1>3. PartyTypeOK
    <2>1. \A id \in PartyIds : party[id].leader = NoLeader => party[id] = Free
        BY <1>1 DEF Formed
    <2> QED
        BY <2>1 DEF PartyInv, PartyTypeOK
<1>4. MembershipAgrees
    BY <1>2 DEF PartyInv, MembersPoint, MembershipAgrees
<1>5. NoLonelyParty
    BY <1>1 DEF NoLonelyParty
<1>6. LeftBehindNothing
    <2> SUFFICES ASSUME NEW p \in Companions \ inGame, NEW id \in PartyIds
                 PROVE  p \notin Everyone(party[id]) \cup party[id].invitees
        BY DEF LeftBehindNothing, PartyInv, AbsentAreAlone
    <2>1. partyOf[p] # id /\ id \notin invitedTo[p]
        BY DEF PartyInv, AbsentAreAlone
    <2> QED
        BY <2>1 DEF PartyInv, MembersPoint, InvitationsAgree
<1>7. SharingIsEarned
    BY <1>1, FreeIsEmpty DEF SharingIsEarned, Formed, Shared
<1> QED
    BY <1>3, <1>4, <1>5, <1>6, <1>7 DEF PartySound, PartyInv

\* At the start there is no party.
LEMMA PartyInvAtFirst == PartyInit => PartyInv
<1> SUFFICES ASSUME PartyInit PROVE PartyInv
    OBVIOUS
<1> USE PartyAssumption
<1>1. /\ party \in [PartyIds -> Parties]
      /\ \A id \in PartyIds : party[id] = Free
    BY FreeIsEmpty DEF PartyInit
<1>2. \A id \in PartyIds : Kept(party[id])
    BY <1>1 DEF Kept
<1>3. MembersPoint
    BY <1>1, FreeIsEmpty DEF PartyInit, MembersPoint
<1>4. InvitationsAgree
    BY <1>1, FreeIsEmpty DEF PartyInit, InvitationsAgree
<1>5. NotInvitedHome /\ AbsentAreAlone
    BY DEF PartyInit, NotInvitedHome, AbsentAreAlone
<1> QED
    BY <1>1, <1>2, <1>3, <1>4, <1>5 DEF PartyInv, PartyInit

OneGone(before, after) ==
    \/ Cardinality(before \ after) <= 1
    \/ after = {} /\ Cardinality(before) = 2

\* Two sets that differ in one leaver.
LEMMA OneIsOne ==
    ASSUME NEW before, NEW after, NEW p, before \ after \subseteq {p}
    PROVE  OneGone(before, after)
<1>1. Cardinality(before \ after) <= Cardinality({p})
    BY FS_Singleton, FS_Subset
<1>2. Cardinality({p}) = 1
    BY FS_Singleton
<1>3. Cardinality(before \ after) <= 1
    BY <1>1, <1>2
<1> QED
    BY <1>3 DEF OneGone

\* A party of two that ends.
LEMMA TwoAreTwo ==
    ASSUME NEW before, NEW p, NEW q, before \subseteq {p, q}
    PROVE  OneGone(before, {})
<1>1. CASE p \in before /\ q \in before /\ p # q
    <2>1. before = {p} \cup {q}
        BY <1>1
    <2>2. IsFiniteSet({p}) /\ Cardinality({p}) = 1
        BY FS_Singleton
    <2>3. Cardinality({p} \cup {q}) = 2
        BY <1>1, <2>2, FS_AddElement
    <2> QED
        BY <2>1, <2>3 DEF OneGone
<1>2. CASE p \notin before \/ p = q
    <2>1. before \ {} \subseteq {q}
        BY <1>2
    <2> QED
        BY <2>1, OneIsOne
<1>3. CASE q \notin before
    <2>1. before \ {} \subseteq {p}
        BY <1>3
    <2> QED
        BY <2>1, OneIsOne
<1> QED
    BY <1>1, <1>2, <1>3

NoneIsLost ==
    \A id \in PartyIds : OneGone(Everyone(party[id]), Everyone(party'[id]))

\* What a handler may do with the parties before it is published
Changed(new, p, leaves, ids) ==
    /\ new \in [PartyIds -> Parties]
    /\ \A id \in PartyIds :
        /\ Kept(new[id])
        /\ party[id] = Free => new[id] = Free
        /\ new[id] # Free =>
            /\ Everyone(new[id])
                = Everyone(party[id]) \ (IF leaves THEN {p} ELSE {})
            /\ new[id].invitees
                = party[id].invitees \ (IF id \in ids THEN {p} ELSE {})
        /\ new[id] = Free =>
            \E q \in Companions, r \in Companions :
                Everyone(party[id]) \subseteq {q, r}

\* A handler that leaves the parties formed and takes one out at most, ...
LEMMA PublishKeeps ==
    ASSUME PartyInv, NEW p \in Companions, NEW leaves \in BOOLEAN,
           NEW ids \in SUBSET PartyIds, NEW new,
           Changed(new, p, leaves, ids), Publish(new, p, leaves, ids)
    PROVE  /\ party' \in [PartyIds -> Parties]
           /\ \A id \in PartyIds : Kept(party'[id])
           /\ partyOf' \in [Companions -> PartyIds \cup {NoParty}]
           /\ invitedTo' \in [Companions -> SUBSET PartyIds]
           /\ MembersPoint' /\ InvitationsAgree' /\ NotInvitedHome'
           /\ \A q \in Companions : /\ partyOf'[q] \in {partyOf[q], NoParty}
                                    /\ invitedTo'[q] \subseteq invitedTo[q]
           /\ leaves => partyOf'[p] = NoParty
           /\ invitedTo'[p] \cap ids = {}
           /\ NoneIsLost
<1> USE PartyAssumption
<1> DEFINE ended == Ending(new)
<1>0. /\ party \in [PartyIds -> Parties]
      /\ partyOf \in [Companions -> PartyIds \cup {NoParty}]
      /\ invitedTo \in [Companions -> SUBSET PartyIds]
      /\ MembersPoint /\ InvitationsAgree /\ NotInvitedHome
    BY DEF PartyInv
<1>1. /\ party' = new
      /\ partyOf' = [q \in Companions |->
            IF (q = p /\ leaves) \/ ReleasedFrom(ended, q)
            THEN NoParty ELSE partyOf[q]]
      /\ invitedTo' = [q \in Companions |->
            invitedTo[q] \ (Uninvited(ended, q)
                            \cup (IF q = p THEN ids ELSE {}))]
    BY DEF Publish
<1>2. \A id \in PartyIds : id \in ended <=> party[id] # Free /\ new[id] = Free
    BY DEF Ending
<1> HIDE DEF ended
<1>3. \A q \in Companions : /\ partyOf'[q] \in {partyOf[q], NoParty}
                            /\ invitedTo'[q] \subseteq invitedTo[q]
    BY <1>1
<1>4. /\ partyOf' \in [Companions -> PartyIds \cup {NoParty}]
      /\ invitedTo' \in [Companions -> SUBSET PartyIds]
    BY <1>0, <1>1
<1>5. ASSUME NEW id \in PartyIds, NEW q \in Companions
      PROVE  q \in Everyone(new[id]) <=> partyOf'[q] = id
    <2>1. q \in Everyone(party[id]) <=> partyOf[q] = id
        BY <1>0 DEF MembersPoint
    <2>2. CASE new[id] # Free
        <3>1. ReleasedFrom(ended, q) => partyOf[q] # id
            BY <1>2, <2>2 DEF ReleasedFrom
        <3>2. q \in Everyone(new[id])
                <=> q \in Everyone(party[id]) /\ ~(leaves /\ q = p)
            BY <2>2 DEF Changed
        <3> QED
            BY <3>1, <3>2, <2>1, <1>1
    <2>3. CASE new[id] = Free
        <3>1. q \notin Everyone(new[id])
            BY <2>3, FreeIsEmpty
        <3>2. partyOf[q] = id => ReleasedFrom(ended, q)
            <4> SUFFICES ASSUME partyOf[q] = id PROVE ReleasedFrom(ended, q)
                OBVIOUS
            <4>1. party[id] # Free
                BY <2>1, FreeIsEmpty
            <4> QED
                BY <4>1, <1>2, <2>1, <2>3 DEF ReleasedFrom
        <3>3. partyOf'[q] # id
            BY <3>2, <1>1
        <3> QED
            BY <3>1, <3>3
    <2> QED
        BY <2>2, <2>3
<1>6. \A id \in PartyIds : Everyone(new[id]) \subseteq Companions
    <2> SUFFICES ASSUME NEW id \in PartyIds
                 PROVE  Everyone(new[id]) \subseteq Companions
        OBVIOUS
    <2>1. new[id].members \in Seq(Companions)
        BY FieldsOfParties DEF Changed
    <2> QED
        BY <2>1, LenProperties, ElementOfSeq DEF Everyone, Members
<1>7. MembersPoint'
    BY <1>1, <1>5, <1>6 DEF MembersPoint
<1>8. ASSUME NEW id \in PartyIds, NEW q \in Companions
      PROVE  q \in new[id].invitees <=> id \in invitedTo'[q]
    <2>1. q \in party[id].invitees <=> id \in invitedTo[q]
        BY <1>0 DEF InvitationsAgree
    <2>2. CASE new[id] # Free
        <3>1. id \notin Uninvited(ended, q)
            BY <1>2, <2>2 DEF Uninvited
        <3>2. q \in new[id].invitees
                <=> q \in party[id].invitees /\ ~(id \in ids /\ q = p)
            BY <2>2 DEF Changed
        <3> QED
            BY <3>1, <3>2, <2>1, <1>1
    <2>3. CASE new[id] = Free
        <3>1. q \notin new[id].invitees
            BY <2>3, FreeIsEmpty
        <3>2. id \in invitedTo[q] => id \in Uninvited(ended, q)
            BY <1>2, <2>1, <2>3, FreeIsEmpty DEF Uninvited
        <3> QED
            BY <3>1, <3>2, <1>1
    <2> QED
        BY <2>2, <2>3
<1>9. \A id \in PartyIds : new[id].invitees \subseteq Companions
    BY FieldsOfParties DEF Changed
<1>10. InvitationsAgree'
    BY <1>1, <1>8, <1>9 DEF InvitationsAgree
<1>11. NotInvitedHome'
    BY <1>0, <1>3 DEF NotInvitedHome
<1>12. leaves => partyOf'[p] = NoParty
    BY <1>1
<1>13. invitedTo'[p] \cap ids = {}
    BY <1>1
<1>14. NoneIsLost
    <2> SUFFICES ASSUME NEW id \in PartyIds
                 PROVE  OneGone(Everyone(party[id]), Everyone(new[id]))
        BY <1>1 DEF NoneIsLost
    <2>1. CASE new[id] # Free
        <3>1. Everyone(party[id]) \ Everyone(new[id]) \subseteq {p}
            BY <2>1 DEF Changed
        <3> QED
            BY <3>1, OneIsOne
    <2>2. CASE new[id] = Free
        <3>1. PICK q \in Companions, r \in Companions :
                Everyone(party[id]) \subseteq {q, r}
            BY <2>2 DEF Changed
        <3>2. OneGone(Everyone(party[id]), {})
            BY <3>1, TwoAreTwo
        <3> QED
            BY <3>2, <2>2, FreeIsEmpty
    <2> QED
        BY <2>1, <2>2
<1>15. /\ party' \in [PartyIds -> Parties]
       /\ \A id \in PartyIds : Kept(party'[id])
    BY <1>1 DEF Changed
<1> QED
    BY <1>3, <1>4, <1>7, <1>10, <1>11, <1>12, <1>13, <1>14, <1>15

\* The party of one that belongs to it
LEMMA PartyOfMember ==
    ASSUME PartyInv, NEW p \in Companions, partyOf[p] # NoParty
    PROVE  /\ partyOf[p] \in PartyIds /\ party[partyOf[p]] # Free
           /\ Formed(party[partyOf[p]]) /\ ~Empty(party[partyOf[p]])
           /\ p \in Everyone(party[partyOf[p]])
<1>1. partyOf[p] \in PartyIds
    BY DEF PartyInv
<1>2. p \in Everyone(party[partyOf[p]])
    BY <1>1 DEF PartyInv, MembersPoint
<1>3. party[partyOf[p]] # Free
    BY <1>2, FreeIsEmpty
<1> QED
    BY <1>1, <1>2, <1>3 DEF PartyInv, Kept

\* leaveParty.
LEMMA LeavePartyKeepsInv ==
    ASSUME PartyInv, NEW p \in Companions, LeaveParty(p)
    PROVE  PartyInv' /\ NoneIsLost
<1> USE PartyAssumption
<1> DEFINE id == partyOf[p]
           new == [party EXCEPT ![id] = AfterLeaving(@, p)]
<1>1. p \in inGame /\ id # NoParty /\ Publish(new, p, TRUE, {})
      /\ inGame' = inGame
    BY DEF LeaveParty
<1>2. /\ id \in PartyIds /\ party[id] # Free
      /\ Formed(party[id]) /\ ~Empty(party[id])
      /\ p \in Everyone(party[id])
    BY <1>1, PartyOfMember
<1>3. /\ party \in [PartyIds -> Parties]
      /\ \A k \in PartyIds : Kept(party[k])
      /\ MembersPoint
    BY DEF PartyInv
<1> HIDE DEF id
<1> DEFINE a == AfterLeaving(party[id], p)
<1>4. /\ Kept(a)
      /\ a # Free => /\ Everyone(a) = Everyone(party[id]) \ {p}
                     /\ a.invitees = party[id].invitees
      /\ a = Free => \E q \in Companions :
                        Everyone(party[id]) \subseteq {p, q}
    BY <1>2, LeavingLeaves
<1>5. new = [party EXCEPT ![id] = a]
    OBVIOUS
<1> HIDE DEF a, new
<1>6. a \in Parties
    BY <1>4, FreeIsEmpty DEF Kept, Formed
<1>7. new \in [PartyIds -> Parties]
    BY <1>3, <1>5, <1>6
<1>8. Changed(new, p, TRUE, {})
    <2> SUFFICES ASSUME NEW k \in PartyIds
                 PROVE  /\ Kept(new[k])
                        /\ party[k] = Free => new[k] = Free
                        /\ new[k] # Free =>
                            /\ Everyone(new[k]) = Everyone(party[k]) \ {p}
                            /\ new[k].invitees = party[k].invitees
                        /\ new[k] = Free =>
                            \E q \in Companions, r \in Companions :
                                Everyone(party[k]) \subseteq {q, r}
        BY <1>7 DEF Changed
    <2>1. CASE k = id
        BY <2>1, <1>2, <1>3, <1>4, <1>5
    <2>2. CASE k # id
        <3>1. new[k] = party[k]
            BY <2>2, <1>3, <1>5
        <3>2. p \notin Everyone(party[k])
            BY <2>2, <1>3 DEF MembersPoint, id
        <3>3. party[k] = Free => Everyone(party[k]) = {}
            BY FreeIsEmpty
        <3> QED
            BY <3>1, <3>2, <3>3, <1>3
    <2> QED
        BY <2>1, <2>2
<1>9. AbsentAreAlone' /\ inGame' \subseteq Companions
    <2>1. \A q \in Companions : /\ partyOf'[q] \in {partyOf[q], NoParty}
                                /\ invitedTo'[q] \subseteq invitedTo[q]
        BY <1>1, <1>8, PublishKeeps
    <2> QED
        BY <2>1, <1>1 DEF PartyInv, AbsentAreAlone
<1> QED
    BY <1>1, <1>8, <1>9, PublishKeeps DEF PartyInv

\* revokeInvitation.
LEMMA RevokeKeepsInv ==
    ASSUME PartyInv, NEW p \in Companions, NEW q \in Companions,
           RevokeInvitation(p, q)
    PROVE  PartyInv' /\ NoneIsLost
<1> USE PartyAssumption
<1> DEFINE id == partyOf[p]
           new == [party EXCEPT ![id] = AfterRemoval(@, q)]
<1>1. /\ id # NoParty /\ Publish(new, q, FALSE, {id}) /\ inGame' = inGame
    BY DEF RevokeInvitation, IsInviting, Leads
<1>2. /\ id \in PartyIds /\ party[id] # Free
      /\ Formed(party[id]) /\ ~Empty(party[id])
    BY <1>1, PartyOfMember
<1>3. /\ party \in [PartyIds -> Parties]
      /\ \A k \in PartyIds : Kept(party[k])
    BY DEF PartyInv
<1> HIDE DEF id
<1> DEFINE a == AfterRemoval(party[id], q)
<1>4. /\ Kept(a)
      /\ a # Free => /\ Everyone(a) = Everyone(party[id])
                     /\ a.invitees = party[id].invitees \ {q}
      /\ a = Free => Everyone(party[id]) = {party[id].leader}
    BY <1>2, RemovalRemoves
<1>5. new = [party EXCEPT ![id] = a]
    OBVIOUS
<1> HIDE DEF a, new
<1>6. a \in Parties
    BY <1>4, FreeIsEmpty DEF Kept, Formed
<1>7. new \in [PartyIds -> Parties]
    BY <1>3, <1>5, <1>6
<1>8. Changed(new, q, FALSE, {id})
    <2> SUFFICES ASSUME NEW k \in PartyIds
                 PROVE  /\ Kept(new[k])
                        /\ party[k] = Free => new[k] = Free
                        /\ new[k] # Free =>
                            /\ Everyone(new[k]) = Everyone(party[k])
                            /\ new[k].invitees = party[k].invitees
                                    \ (IF k \in {id} THEN {q} ELSE {})
                        /\ new[k] = Free =>
                            \E s \in Companions, r \in Companions :
                                Everyone(party[k]) \subseteq {s, r}
        BY <1>7 DEF Changed
    <2>1. CASE k = id
        <3>1. party[id].leader \in Companions
            BY <1>2 DEF Formed
        <3> QED
            BY <3>1, <2>1, <1>2, <1>3, <1>4, <1>5
    <2>2. CASE k # id
        <3>1. new[k] = party[k]
            BY <2>2, <1>3, <1>5
        <3>2. party[k] = Free => Everyone(party[k]) = {}
            BY FreeIsEmpty
        <3> QED
            BY <3>1, <3>2, <2>2, <1>3
    <2> QED
        BY <2>1, <2>2
<1>9. {id} \in SUBSET PartyIds
    BY <1>2
<1>10. AbsentAreAlone' /\ inGame' \subseteq Companions
    <2>1. \A r \in Companions : /\ partyOf'[r] \in {partyOf[r], NoParty}
                                /\ invitedTo'[r] \subseteq invitedTo[r]
        BY <1>1, <1>8, <1>9, PublishKeeps
    <2> QED
        BY <2>1, <1>1 DEF PartyInv, AbsentAreAlone
<1> QED
    BY <1>1, <1>8, <1>9, <1>10, PublishKeeps DEF PartyInv

\* Who logs out leaves the own party and those it is invited to.
LEMMA LogoutCompanionKeepsInv ==
    ASSUME PartyInv, NEW p \in Companions, LogoutCompanion(p)
    PROVE  PartyInv' /\ NoneIsLost
<1> USE PartyAssumption
<1> DEFINE new == AfterLogout(p)
           ids == invitedTo[p]
<1>1. p \in inGame /\ Publish(new, p, TRUE, ids) /\ inGame' = inGame \ {p}
    BY DEF LogoutCompanion
<1>3. /\ party \in [PartyIds -> Parties]
      /\ \A k \in PartyIds : Kept(party[k])
      /\ MembersPoint /\ InvitationsAgree /\ NotInvitedHome
      /\ ids \in SUBSET PartyIds
    BY DEF PartyInv
<1>4. \A k \in PartyIds :
        new[k] = IF k = partyOf[p] THEN AfterLeaving(party[k], p)
                 ELSE IF k \in ids THEN AfterRemoval(party[k], p)
                 ELSE party[k]
    BY DEF AfterLogout
<1>5. ASSUME NEW k \in PartyIds
      PROVE  /\ Kept(new[k])
             /\ party[k] = Free => new[k] = Free
             /\ new[k] # Free =>
                 /\ Everyone(new[k]) = Everyone(party[k]) \ {p}
                 /\ new[k].invitees = party[k].invitees
                         \ (IF k \in ids THEN {p} ELSE {})
             /\ new[k] = Free =>
                 \E q \in Companions, r \in Companions :
                     Everyone(party[k]) \subseteq {q, r}
    <2>1. CASE k = partyOf[p]
        <3>1. /\ party[k] # Free
              /\ Formed(party[k]) /\ ~Empty(party[k])
              /\ p \in Everyone(party[k])
            BY <2>1, PartyOfMember
        <3>2. k \notin ids
            BY <2>1, <1>3 DEF NotInvitedHome
        <3> DEFINE a == AfterLeaving(party[k], p)
        <3>3. /\ Kept(a)
              /\ a # Free => /\ Everyone(a) = Everyone(party[k]) \ {p}
                             /\ a.invitees = party[k].invitees
              /\ a = Free => \E q \in Companions :
                                Everyone(party[k]) \subseteq {p, q}
            BY <3>1, LeavingLeaves
        <3>4. new[k] = a
            BY <2>1, <1>4
        <3> HIDE DEF a, new, ids
        <3> QED
            BY <3>1, <3>2, <3>3, <3>4
    <2>2. CASE k # partyOf[p] /\ k \in ids
        <3>1. p \in party[k].invitees
            BY <2>2, <1>3 DEF InvitationsAgree
        <3>2. party[k] # Free
            BY <3>1, FreeIsEmpty
        <3>3. Formed(party[k]) /\ ~Empty(party[k])
            BY <3>2, <1>3 DEF Kept
        <3> DEFINE a == AfterRemoval(party[k], p)
        <3>4. /\ Kept(a)
              /\ a # Free => /\ Everyone(a) = Everyone(party[k])
                             /\ a.invitees = party[k].invitees \ {p}
              /\ a = Free => Everyone(party[k]) = {party[k].leader}
            BY <3>3, RemovalRemoves
        <3>5. new[k] = a
            BY <2>2, <1>4
        <3>6. p \notin Everyone(party[k])
            BY <2>2, <1>3 DEF MembersPoint
        <3>7. party[k].leader \in Companions
            BY <3>3 DEF Formed
        <3> HIDE DEF a, new, ids
        <3> QED
            BY <3>2, <3>4, <3>5, <3>6, <3>7, <2>2
    <2>3. CASE k # partyOf[p] /\ k \notin ids
        <3>1. new[k] = party[k]
            BY <2>3, <1>4
        <3>2. p \notin Everyone(party[k])
            BY <2>3, <1>3 DEF MembersPoint
        <3>3. party[k] = Free => Everyone(party[k]) = {}
            BY FreeIsEmpty
        <3> HIDE DEF new, ids
        <3> QED
            BY <3>1, <3>2, <3>3, <2>3, <1>3
    <2> QED
        BY <2>1, <2>2, <2>3
<1>6. new \in [PartyIds -> Parties]
    <2>1. \A k \in PartyIds : new[k] \in Parties
        <3> HIDE DEF new
        <3> QED
            BY <1>5, FreeIsEmpty DEF Kept, Formed
    <2> QED
        BY <2>1 DEF AfterLogout
<1> HIDE DEF new
<1>7. Changed(new, p, TRUE, ids)
    BY <1>5, <1>6 DEF Changed
<1>8. /\ \A q \in Companions : /\ partyOf'[q] \in {partyOf[q], NoParty}
                               /\ invitedTo'[q] \subseteq invitedTo[q]
      /\ partyOf'[p] = NoParty /\ invitedTo'[p] \cap ids = {}
    BY <1>1, <1>3, <1>7, PublishKeeps
<1>9. AbsentAreAlone' /\ inGame' \subseteq Companions
    <2>1. invitedTo'[p] = {}
        BY <1>8
    <2> HIDE DEF ids
    <2> QED
        BY <2>1, <1>1, <1>8 DEF PartyInv, AbsentAreAlone
<1> QED
    BY <1>1, <1>3, <1>7, <1>9, PublishKeeps DEF PartyInv

\* A handler that changes one party only, and no player's
LEMMA OnlyOneParty ==
    ASSUME PartyInv, NEW id \in PartyIds, NEW a, Formed(a), ~Empty(a),
           Everyone(a) = Everyone(party[id]),
           a.invitees = party[id].invitees,
           party' = [party EXCEPT ![id] = a],
           UNCHANGED <<partyOf, invitedTo, inGame>>
    PROVE  PartyInv' /\ NoneIsLost
<1> USE PartyAssumption
<1>0. /\ party \in [PartyIds -> Parties]
      /\ \A k \in PartyIds : Kept(party[k])
      /\ MembersPoint /\ InvitationsAgree
    BY DEF PartyInv
<1>1. a \in Parties
    BY DEF Formed
<1>2. \A k \in PartyIds : /\ Kept(party'[k])
                          /\ Everyone(party'[k]) = Everyone(party[k])
                          /\ party'[k].invitees = party[k].invitees
    BY <1>0 DEF Kept
<1>3. party' \in [PartyIds -> Parties]
    BY <1>0, <1>1
<1>4. MembersPoint' /\ InvitationsAgree'
    BY <1>0, <1>2 DEF MembersPoint, InvitationsAgree
<1>5. NoneIsLost
    <2>1. \A S : S \ S \subseteq {id}
        OBVIOUS
    <2> QED
        BY <1>2, <2>1, OneIsOne DEF NoneIsLost
<1>6. NotInvitedHome' /\ AbsentAreAlone'
    BY DEF PartyInv, NotInvitedHome, AbsentAreAlone
<1> QED
    BY <1>2, <1>3, <1>4, <1>5, <1>6 DEF PartyInv

\* passPartyLeadership.
LEMMA PassLeadershipKeepsInv ==
    ASSUME PartyInv, NEW p \in Companions, NEW q \in Companions,
           PassLeadership(p, q)
    PROVE  PartyInv' /\ NoneIsLost
<1> DEFINE id == partyOf[p]
           r == party[id]
           a == Passed(r, q)
<1>1. /\ id # NoParty /\ r.leader = p /\ p # q /\ partyOf[q] = id
      /\ party' = [party EXCEPT ![id] = a]
      /\ UNCHANGED <<partyOf, invitedTo, inGame>>
    BY DEF PassLeadership, Leads
<1>2. /\ id \in PartyIds /\ Formed(r) /\ ~Empty(r)
    BY <1>1, PartyOfMember
<1>3. q \in Everyone(r)
    BY <1>1, PartyOfMember
<1>4. q \in Members(r)
    BY <1>1, <1>3 DEF Everyone
<1>5. /\ Formed(a) /\ Everyone(a) = Everyone(r)
      /\ Members(a) = (Members(r) \ {q}) \cup {r.leader}
      /\ a.invitees = r.invitees
    BY <1>2, <1>4, PassedIsFormed
<1>6. ~Empty(a)
    <2>1. Members(a) # {}
        BY <1>5
    <2> QED
        BY <2>1, EmptySeq DEF Empty, Members
<1> HIDE DEF a, id
<1> QED
    BY <1>1, <1>2, <1>5, <1>6, OnlyOneParty

\* setSharedExperience.
LEMMA EnableSharedKeepsInv ==
    ASSUME PartyInv, NEW p \in Companions, NEW on \in BOOLEAN,
           EnableShared(p, on)
    PROVE  PartyInv' /\ NoneIsLost
<1> DEFINE id == partyOf[p]
           a == Switched(party[id], on)
<1>1. /\ id # NoParty
      /\ party' = [party EXCEPT ![id] = a]
      /\ UNCHANGED <<partyOf, invitedTo, inGame>>
    BY DEF EnableShared, Leads
<1>2. id \in PartyIds /\ Formed(party[id]) /\ ~Empty(party[id])
    BY <1>1, PartyOfMember
<1>3. /\ Formed(a) /\ Everyone(a) = Everyone(party[id])
      /\ a.members = party[id].members /\ a.invitees = party[id].invitees
    BY <1>2, SwitchedIsFormed
<1>4. ~Empty(a)
    BY <1>2, <1>3 DEF Empty
<1> HIDE DEF a, id
<1> QED
    BY <1>1, <1>2, <1>3, <1>4, OnlyOneParty

\* updatePlayerTicks.
LEMMA HitOrHealKeepsInv ==
    ASSUME PartyInv, NEW p \in Companions, HitOrHeal(p)
    PROVE  PartyInv' /\ NoneIsLost
<1> DEFINE id == partyOf[p]
           a == Ticked(party[id], p)
<1>1. /\ id # NoParty
      /\ party' = [party EXCEPT ![id] = a]
      /\ UNCHANGED <<partyOf, invitedTo, inGame>>
    BY DEF HitOrHeal
<1>2. id \in PartyIds /\ Formed(party[id]) /\ ~Empty(party[id])
    BY <1>1, PartyOfMember
<1>3. /\ Formed(a) /\ Everyone(a) = Everyone(party[id])
      /\ a.members = party[id].members /\ a.invitees = party[id].invitees
    BY <1>2, TickedIsFormed
<1>4. ~Empty(a)
    BY <1>2, <1>3 DEF Empty
<1> HIDE DEF a, id
<1> QED
    BY <1>1, <1>2, <1>3, <1>4, OnlyOneParty

\* joinParty.
LEMMA JoinPartyKeepsInv ==
    ASSUME PartyInv, NEW p \in Companions, NEW l \in Companions,
           JoinParty(p, l)
    PROVE  PartyInv' /\ NoneIsLost
<1> USE PartyAssumption
<1> DEFINE id == partyOf[l]
           a == Joined(party[id], p)
<1>1. /\ id # NoParty /\ partyOf[p] = NoParty /\ p \in inGame
      /\ party' = [party EXCEPT ![id] = a]
      /\ partyOf' = [partyOf EXCEPT ![p] = id]
      /\ invitedTo' = [invitedTo EXCEPT ![p] = @ \ {id}]
      /\ inGame' = inGame
    BY DEF JoinParty, IsInviting, Leads
<1>2. id \in PartyIds /\ Formed(party[id]) /\ ~Empty(party[id])
    BY <1>1, PartyOfMember
<1>0. /\ party \in [PartyIds -> Parties]
      /\ \A k \in PartyIds : Kept(party[k])
      /\ partyOf \in [Companions -> PartyIds \cup {NoParty}]
      /\ invitedTo \in [Companions -> SUBSET PartyIds]
      /\ MembersPoint /\ InvitationsAgree /\ NotInvitedHome
      /\ AbsentAreAlone /\ inGame \subseteq Companions
    BY DEF PartyInv
<1>3. p \notin Everyone(party[id])
    BY <1>0, <1>1, <1>2 DEF MembersPoint
<1>4. /\ Formed(a) /\ ~Empty(a) /\ Everyone(a) = Everyone(party[id]) \cup {p}
      /\ a.invitees = party[id].invitees \ {p}
    BY <1>2, <1>3, JoinedIsFormed
<1> HIDE DEF a, id
<1>5. a \in Parties
    BY <1>4 DEF Formed
<1>6. party' \in [PartyIds -> Parties] /\ \A k \in PartyIds : Kept(party'[k])
    BY <1>0, <1>1, <1>4, <1>5 DEF Kept
<1>7. MembersPoint'
    <2> SUFFICES ASSUME NEW k \in PartyIds
                 PROVE  Everyone(party'[k]) = {q \in Companions :
                                                partyOf'[q] = k}
        BY DEF MembersPoint
    <2>0. Everyone(party[k]) = {q \in Companions : partyOf[q] = k}
        BY <1>0 DEF MembersPoint
    <2>1. CASE k = id
        <3>1. Everyone(party'[k]) = Everyone(party[k]) \cup {p}
            BY <2>1, <1>0, <1>1, <1>2, <1>4
        <3> QED
            BY <3>1, <2>0, <2>1, <1>0, <1>1
    <2>2. CASE k # id
        <3>1. party'[k] = party[k]
            BY <2>2, <1>0, <1>1
        <3> QED
            BY <3>1, <2>0, <2>2, <1>0, <1>1
    <2> QED
        BY <2>1, <2>2
<1>8. InvitationsAgree'
    <2> SUFFICES ASSUME NEW k \in PartyIds
                 PROVE  party'[k].invitees = {q \in Companions :
                                                k \in invitedTo'[q]}
        BY DEF InvitationsAgree
    <2>0. party[k].invitees = {q \in Companions : k \in invitedTo[q]}
        BY <1>0 DEF InvitationsAgree
    <2>1. CASE k = id
        <3>1. party'[k].invitees = party[k].invitees \ {p}
            BY <2>1, <1>0, <1>1, <1>2, <1>4
        <3> QED
            BY <3>1, <2>0, <2>1, <1>0, <1>1
    <2>2. CASE k # id
        <3>1. party'[k] = party[k]
            BY <2>2, <1>0, <1>1
        <3> QED
            BY <3>1, <2>0, <2>2, <1>0, <1>1
    <2> QED
        BY <2>1, <2>2
<1>9. NotInvitedHome'
    BY <1>0, <1>1 DEF NotInvitedHome
<1>10. AbsentAreAlone'
    BY <1>0, <1>1 DEF AbsentAreAlone
<1>11. NoneIsLost
    <2> SUFFICES ASSUME NEW k \in PartyIds
                 PROVE  OneGone(Everyone(party[k]), Everyone(party'[k]))
        BY DEF NoneIsLost
    <2>1. Everyone(party[k]) \ Everyone(party'[k]) \subseteq {p}
        BY <1>0, <1>1, <1>2, <1>4
    <2> QED
        BY <2>1, OneIsOne
<1>12. /\ partyOf' \in [Companions -> PartyIds \cup {NoParty}]
       /\ invitedTo' \in [Companions -> SUBSET PartyIds]
       /\ inGame' \subseteq Companions
    BY <1>0, <1>1, <1>2
<1> QED
    BY <1>6, <1>7, <1>8, <1>9, <1>10, <1>11, <1>12 DEF PartyInv

\* invitePlayer adds an invitee.
LEMMA InvitedIsFormed ==
    ASSUME NEW r, Formed(r), NEW q \in Companions
    PROVE  LET a == Invited(r, q) IN
           /\ Formed(a) /\ ~Empty(a) /\ Everyone(a) = Everyone(r)
           /\ a.invitees = r.invitees \cup {q}
<1> DEFINE a == Invited(r, q)
<1>0. r \in Parties
    BY DEF Formed
<1>1. /\ a \in Parties /\ a.leader = r.leader /\ a.members = r.members
      /\ a.ticks = r.ticks
      /\ a.sharedExpActive = r.sharedExpActive
      /\ a.sharedExpEnabled = r.sharedExpEnabled
    BY <1>0 DEF Parties, Invited
<1>2. a.invitees = r.invitees \cup {q}
    BY <1>0 DEF Parties, Invited
<1> HIDE DEF a
<1>3. Members(a) = Members(r) /\ Everyone(a) = Everyone(r)
    BY <1>1 DEF Members, Everyone
<1>4. CanEnable(a) = CanEnable(r)
    BY <1>1, <1>3 DEF CanEnable
<1>5. Formed(a)
    BY <1>1, <1>3, <1>4 DEF Formed, Shared
<1>6. ~Empty(a)
    BY <1>2 DEF Empty
<1> QED
    BY <1>2, <1>3, <1>5, <1>6 DEF a

\* A party is founded with a leader and nobody else.
LEMMA FoundedIsFormed ==
    ASSUME NEW p \in Companions
    PROVE  LET r == Founded(p) IN
           Formed(r) /\ Everyone(r) = {p} /\ r.invitees = {}
<1> DEFINE r == Founded(p)
<1>1. /\ r \in Parties /\ r.leader = p /\ r.members = <<>>
      /\ r.invitees = {} /\ ~r.sharedExpActive
    BY FreeIsEmpty DEF Founded, Parties, Free
<1> HIDE DEF r
<1>2. Members(r) = {} /\ Distinct(r.members)
    BY <1>1, EmptySeq DEF Members, Distinct
<1>3. Everyone(r) = {p}
    BY <1>1, <1>2 DEF Everyone
<1>4. Formed(r)
    BY <1>1, <1>2 DEF Formed, Shared
<1> QED
    BY <1>1, <1>3, <1>4 DEF r

\* The first invitation founds the party.
LEMMA InviteKeepsInv ==
    ASSUME PartyInv, NEW p \in Companions, NEW q \in Companions,
           InviteToParty(p, q)
    PROVE  PartyInv' /\ NoneIsLost
<1> USE PartyAssumption
<1>0. /\ party \in [PartyIds -> Parties]
      /\ \A k \in PartyIds : Kept(party[k])
      /\ partyOf \in [Companions -> PartyIds \cup {NoParty}]
      /\ invitedTo \in [Companions -> SUBSET PartyIds]
      /\ MembersPoint /\ InvitationsAgree /\ NotInvitedHome
      /\ AbsentAreAlone /\ inGame \subseteq Companions
    BY DEF PartyInv
<1>1. /\ p \in inGame /\ q \in inGame /\ p # q /\ partyOf[q] = NoParty
      /\ inGame' = inGame
    BY DEF InviteToParty, MayInvite
<1>2. ASSUME NEW id \in PartyIds, NEW r, Formed(r),
             Everyone(r) = Everyone(party[id]) \cup
                            (IF partyOf[p] = NoParty THEN {p} ELSE {}),
             r.invitees = party[id].invitees,
             party' = [party EXCEPT ![id] = Invited(r, q)],
             partyOf' = [partyOf EXCEPT ![p] = id],
             partyOf[p] \in {id, NoParty}, id \notin invitedTo[p],
             invitedTo' = [invitedTo EXCEPT ![q] = @ \cup {id}]
      PROVE  PartyInv' /\ NoneIsLost
    <2> DEFINE a == Invited(r, q)
    <2>1. /\ Formed(a) /\ ~Empty(a) /\ Everyone(a) = Everyone(r)
          /\ a.invitees = r.invitees \cup {q}
        BY <1>2, InvitedIsFormed
    <2>2. party' = [party EXCEPT ![id] = a]
        BY <1>2
    <2> HIDE DEF a
    <2>3. a \in Parties
        BY <2>1 DEF Formed
    <2>4. /\ party' \in [PartyIds -> Parties]
          /\ \A k \in PartyIds : Kept(party'[k])
        BY <1>0, <2>1, <2>2, <2>3 DEF Kept
    <2>5. MembersPoint'
        <3> SUFFICES ASSUME NEW k \in PartyIds
                     PROVE  Everyone(party'[k]) = {x \in Companions :
                                                    partyOf'[x] = k}
            BY DEF MembersPoint
        <3>0. Everyone(party[k]) = {x \in Companions : partyOf[x] = k}
            BY <1>0 DEF MembersPoint
        <3>1. CASE k = id
            <4>1. Everyone(party'[k]) = Everyone(party[k]) \cup {p}
                <5>1. Everyone(party'[k]) = Everyone(r)
                    BY <3>1, <1>0, <2>1, <2>2
                <5>2. partyOf[p] # NoParty => p \in Everyone(party[k])
                    BY <3>0, <3>1, <1>2
                <5> QED
                    BY <5>1, <5>2, <3>1, <1>2
            <4> QED
                BY <4>1, <3>0, <3>1, <1>0, <1>2
        <3>2. CASE k # id
            <4>1. party'[k] = party[k]
                BY <3>2, <1>0, <2>2
            <4>2. partyOf[p] # k
                BY <3>2, <1>2
            <4> QED
                BY <4>1, <4>2, <3>0, <3>2, <1>0, <1>2
        <3> QED
            BY <3>1, <3>2
    <2>6. InvitationsAgree'
        <3> SUFFICES ASSUME NEW k \in PartyIds
                     PROVE  party'[k].invitees = {x \in Companions :
                                                    k \in invitedTo'[x]}
            BY DEF InvitationsAgree
        <3>0. party[k].invitees = {x \in Companions : k \in invitedTo[x]}
            BY <1>0 DEF InvitationsAgree
        <3>1. CASE k = id
            <4>1. party'[k].invitees = party[k].invitees \cup {q}
                BY <3>1, <1>0, <1>2, <2>1, <2>2
            <4> QED
                BY <4>1, <3>0, <3>1, <1>0, <1>2
        <3>2. CASE k # id
            <4>1. party'[k] = party[k]
                BY <3>2, <1>0, <2>2
            <4> QED
                BY <4>1, <3>0, <3>2, <1>0, <1>2
        <3> QED
            BY <3>1, <3>2
    <2>7. NotInvitedHome'
        <3> SUFFICES ASSUME NEW x \in Companions
                     PROVE  partyOf'[x] \notin invitedTo'[x]
            BY DEF NotInvitedHome
        <3>1. CASE x = p
            BY <3>1, <1>0, <1>1, <1>2
        <3>2. CASE x = q
            BY <3>2, <1>0, <1>1, <1>2 DEF NotInvitedHome
        <3>3. CASE x # p /\ x # q
            BY <3>3, <1>0, <1>2 DEF NotInvitedHome
        <3> QED
            BY <3>1, <3>2, <3>3
    <2>8. AbsentAreAlone'
        BY <1>0, <1>1, <1>2 DEF AbsentAreAlone
    <2>9. NoneIsLost
        <3> SUFFICES ASSUME NEW k \in PartyIds
                     PROVE  OneGone(Everyone(party[k]), Everyone(party'[k]))
            BY DEF NoneIsLost
        <3>1. Everyone(party[k]) \ Everyone(party'[k]) \subseteq {p}
            BY <1>0, <1>2, <2>1, <2>2
        <3> QED
            BY <3>1, OneIsOne
    <2>10. /\ partyOf' \in [Companions -> PartyIds \cup {NoParty}]
           /\ invitedTo' \in [Companions -> SUBSET PartyIds]
           /\ inGame' \subseteq Companions
        BY <1>0, <1>1, <1>2
    <2> QED
        BY <2>4, <2>5, <2>6, <2>7, <2>8, <2>9, <2>10 DEF PartyInv
<1>3. CASE partyOf[p] = NoParty
    <2>1. PICK id \in PartyIds :
            /\ party[id] = Free
            /\ party' = [party EXCEPT ![id] = Invited(Founded(p), q)]
            /\ partyOf' = [partyOf EXCEPT ![p] = id]
            /\ invitedTo' = [invitedTo EXCEPT ![q] = @ \cup {id}]
        BY <1>3 DEF InviteToParty, Leads
    <2> DEFINE r == Founded(p)
    <2>2. Formed(r) /\ Everyone(r) = {p} /\ r.invitees = {}
        BY FoundedIsFormed
    <2>3. Everyone(party[id]) = {} /\ party[id].invitees = {}
        BY <2>1, FreeIsEmpty
    <2>4. id \notin invitedTo[p]
        BY <2>3, <1>0 DEF InvitationsAgree
    <2>5. party' = [party EXCEPT ![id] = Invited(r, q)]
        BY <2>1
    <2> HIDE DEF r
    <2> QED
        BY <1>2, <1>3, <2>1, <2>2, <2>3, <2>4, <2>5
<1>4. CASE partyOf[p] # NoParty
    <2> DEFINE id == partyOf[p]
    <2>1. /\ party' = [party EXCEPT ![id] = Invited(party[id], q)]
          /\ invitedTo' = [invitedTo EXCEPT ![q] = @ \cup {id}]
          /\ partyOf' = partyOf
        BY <1>4 DEF InviteToParty
    <2>2. id \in PartyIds /\ Formed(party[id])
        BY <1>4, PartyOfMember
    <2>3. partyOf' = [partyOf EXCEPT ![p] = id]
        BY <2>1, <1>0
    <2>4. id \notin invitedTo[p]
        BY <1>0 DEF NotInvitedHome
    <2>5. Everyone(party[id]) = Everyone(party[id]) \cup
                            (IF partyOf[p] = NoParty THEN {p} ELSE {})
        BY <1>4
    <2>6. partyOf[p] \in {id, NoParty}
        OBVIOUS
    <2> HIDE DEF id
    <2> QED
        BY <1>2, <2>1, <2>2, <2>3, <2>4, <2>5, <2>6
<1> QED
    BY <1>3, <1>4

\* Every step keeps the invariant of the parties, and none loses two.
LEMMA PartyInvIsKept ==
    ASSUME PartyInv, [PartyNext]_PartyVars
    PROVE  PartyInv' /\ NoneIsLost
<1>1. ASSUME UNCHANGED party PROVE NoneIsLost
    <2>1. \A S : S \ S \subseteq {party}
        OBVIOUS
    <2> QED
        BY <1>1, <2>1, OneIsOne DEF NoneIsLost
<1>2. CASE UNCHANGED PartyVars
    <2>1. PartyInv'
        BY <1>2 DEF PartyVars, PartyInv, MembersPoint, InvitationsAgree,
           NotInvitedHome, AbsentAreAlone
    <2> QED
        BY <2>1, <1>1, <1>2 DEF PartyVars
<1>3. ASSUME NEW p \in Companions, LoginCompanion(p)
      PROVE  PartyInv' /\ NoneIsLost
    <2>1. PartyInv'
        BY <1>3 DEF LoginCompanion, PartyInv, MembersPoint, InvitationsAgree,
           NotInvitedHome, AbsentAreAlone
    <2> QED
        BY <2>1, <1>1, <1>3 DEF LoginCompanion
<1>4. CASE PartyNext
    BY <1>3, <1>4, InviteKeepsInv, JoinPartyKeepsInv, RevokeKeepsInv,
       PassLeadershipKeepsInv, LeavePartyKeepsInv, EnableSharedKeepsInv,
       HitOrHealKeepsInv, LogoutCompanionKeepsInv
       DEF PartyNext
<1> QED
    BY <1>2, <1>4

-----------------------------------------------------------------------------
(* Chat channels and who hears them (Chat).                                *)

Worlds == [online : SUBSET Chatters, belongs : Belongings,
           channels : [ChannelIds -> Channels \cup {NoChannel}]]

\* One channel that is open
ProperChannel(online, c, ch) ==
    /\ ch.users \cup ch.invites \subseteq online
    /\ c[1] = "private" => /\ ch.owner \in ch.users
                           /\ ch.users \subseteq {ch.owner} \cup ch.invites

OneOwner(w) ==
    \A c, d \in ChannelIds :
        /\ Exists(w, c) /\ Exists(w, d) /\ c[1] = "private"
        /\ w.channels[c].owner = w.channels[d].owner
        => c = d

Normal == <<"normal", 1>>

ScriptsOwn(w) == Exists(w, Normal) /\ w.channels[Normal].owner = NoChannel

Orderly(w) ==
    /\ w \in Worlds
    /\ \A c \in ChannelIds :
        Exists(w, c) => ProperChannel(w.online, c, w.channels[c])
    /\ OneOwner(w) /\ ScriptsOwn(w)

ChatInv == Orderly(chat)

LEMMA FieldsOfWorlds ==
    ASSUME NEW w \in Worlds
    PROVE  /\ w.online \in SUBSET Chatters /\ w.belongs \in Belongings
           /\ w.channels \in [ChannelIds -> Channels \cup {NoChannel}]
BY DEF Worlds

LEMMA OpenIsChannel ==
    ASSUME NEW w \in Worlds, NEW c \in ChannelIds, Exists(w, c)
    PROVE  /\ w.channels[c] \in Channels
           /\ w.channels[c].users \in SUBSET Chatters
           /\ w.channels[c].invites \in SUBSET Chatters
           /\ w.channels[c].owner \in Chatters \cup {NoChannel}
<1>1. w.channels[c] \in Channels
    BY FieldsOfWorlds DEF Exists
<1> QED
    BY <1>1 DEF Channels

LEMMA NormalIsId == Normal \in ChannelIds
BY DEF Normal, ChannelIds

\* The invariant says that chat is sound.
LEMMA ChatInvIsSound == ChatInv => ChatSound
<1> SUFFICES ASSUME ChatInv PROVE ChatSound
    OBVIOUS
<1>0. /\ chat \in Worlds /\ OneOwner(chat)
      /\ \A c \in ChannelIds : Exists(chat, c) =>
            ProperChannel(chat.online, c, chat.channels[c])
    BY DEF ChatInv, Orderly
<1>1. ChatTypeOK
    BY <1>0 DEF ChatTypeOK, Worlds
<1>2. HearersInGame
    BY <1>0 DEF HearersInGame, OpenOnes, ProperChannel
<1>3. PrivateByInvitation
    <2> SUFFICES ASSUME NEW c \in ChannelIds, Exists(chat, c),
                        c[1] = "private"
                 PROVE  /\ chat.channels[c].owner \in chat.channels[c].users
                        /\ \A p \in chat.channels[c].users :
                                IsInvited(chat.channels[c], p)
                        /\ PrivateChannels(chat, chat.channels[c].owner) = {c}
        BY DEF PrivateByInvitation, OpenOnes
    <2>1. ProperChannel(chat.online, c, chat.channels[c])
        BY <1>0
    <2>2. PrivateChannels(chat, chat.channels[c].owner) = {c}
        BY <1>0 DEF PrivateChannels, OneOwner
    <2> QED
        BY <2>1, <2>2 DEF ProperChannel, IsInvited
<1> QED
    BY <1>1, <1>2, <1>3 DEF ChatSound

\* At the start there is the channel of the scripts only.
LEMMA ChatInvAtFirst == ChatInit => ChatInv
<1> SUFFICES ASSUME ChatInit PROVE ChatInv
    OBVIOUS
<1> USE ChatAssumption
<1> DEFINE n == New(NoChannel)
           channels == [c \in ChannelIds |->
                            IF c = <<"normal", 1>> THEN n ELSE NoChannel]
           belongs == [p \in Chatters |-> [k \in GroupKinds |-> NoGroup]]
<1>1. /\ n \in Channels /\ n.users = {} /\ n.invites = {}
      /\ n.owner = NoChannel
    BY DEF New, Channels
<1> HIDE DEF n
<1>2. channels \in [ChannelIds -> Channels \cup {NoChannel}]
    BY <1>1
<1>3. belongs \in Belongings
    BY DEF Belongings
<1>4. chat = [online |-> {}, belongs |-> belongs, channels |-> channels]
    BY DEF ChatInit, n
<1> HIDE DEF belongs, channels
<1>5. chat \in Worlds /\ chat.online = {} /\ chat.channels = channels
    BY <1>2, <1>3, <1>4 DEF Worlds
<1>6. \A c \in ChannelIds : Exists(chat, c) => c = Normal /\ channels[c] = n
    BY <1>5 DEF Exists, Normal, channels
<1>7. Normal[1] # "private"
    BY DEF Normal
<1>8. \A c \in ChannelIds : Exists(chat, c) =>
            ProperChannel(chat.online, c, chat.channels[c])
    BY <1>1, <1>5, <1>6, <1>7 DEF ProperChannel
<1>9. OneOwner(chat)
    BY <1>6 DEF OneOwner
<1>10. channels[Normal] = n /\ n # NoChannel
    BY <1>1, NormalIsId DEF channels, Normal
<1>11. ScriptsOwn(chat)
    BY <1>1, <1>5, <1>10 DEF ScriptsOwn, Exists
<1> QED
    BY <1>5, <1>8, <1>9, <1>11 DEF ChatInv, Orderly

\* What a step may do with a channel: one that is open stays with its owner,
\* one that is opened is not private.
LEMMA ChannelsStayOrderly ==
    ASSUME NEW w, Orderly(w), NEW v \in Worlds, Exists(v, Normal),
           \A c \in ChannelIds : Exists(v, c) =>
             /\ ProperChannel(v.online, c, v.channels[c])
             /\ \/ Exists(w, c) /\ v.channels[c].owner = w.channels[c].owner
                \/ c[1] # "private" /\ v.channels[c].owner = NoChannel
    PROVE  Orderly(v)
<1> USE ChatAssumption
<1>1. ASSUME NEW c \in ChannelIds, NEW d \in ChannelIds,
             Exists(v, c), Exists(v, d), c[1] = "private",
             v.channels[c].owner = v.channels[d].owner
      PROVE  c = d
    <2>1. Exists(w, c) /\ v.channels[c].owner = w.channels[c].owner
        BY <1>1
    <2>2. v.channels[c].owner \in v.channels[c].users
        BY <1>1 DEF ProperChannel
    <2>3. v.channels[c].owner # NoChannel
        BY <1>1, <2>2, OpenIsChannel
    <2>4. Exists(w, d) /\ v.channels[d].owner = w.channels[d].owner
        BY <1>1, <2>3
    <2> QED
        BY <1>1, <2>1, <2>4 DEF Orderly, OneOwner
<1>2. OneOwner(v)
    BY <1>1 DEF OneOwner
<1>3. ScriptsOwn(v)
    BY NormalIsId DEF Orderly, ScriptsOwn
<1> QED
    BY <1>2, <1>3 DEF Orderly

\* The channel c of w becomes ch.
LEMMA OneChannelChanged ==
    ASSUME NEW w \in Worlds, NEW c \in ChannelIds,
           NEW ch \in Channels \cup {NoChannel}, NEW v,
           v = [w EXCEPT !.channels = [w.channels EXCEPT ![c] = ch]]
    PROVE  /\ v \in Worlds /\ v.online = w.online
           /\ v.channels[c] = ch
           /\ \A d \in ChannelIds : d # c => v.channels[d] = w.channels[d]
<1>0. /\ w.online \in SUBSET Chatters /\ w.belongs \in Belongings
      /\ w.channels \in [ChannelIds -> Channels \cup {NoChannel}]
    BY FieldsOfWorlds
<1> DEFINE m == [w.channels EXCEPT ![c] = ch]
<1>1. /\ m \in [ChannelIds -> Channels \cup {NoChannel}]
      /\ m[c] = ch /\ \A d \in ChannelIds : d # c => m[d] = w.channels[d]
    BY <1>0
<1>2. v = [w EXCEPT !.channels = m]
    OBVIOUS
<1> HIDE DEF m
<1>3. v \in Worlds /\ v.online = w.online /\ v.channels = m
    BY <1>0, <1>1, <1>2 DEF Worlds
<1> QED
    BY <1>1, <1>3

\* A channel that loses users.
LEMMA FewerUsers ==
    ASSUME NEW ch \in Channels, NEW players
    PROVE  /\ NoUsers(ch, players) \in Channels
           /\ NoUsers(ch, players).users = ch.users \ players
           /\ NoUsers(ch, players).invites = ch.invites
           /\ NoUsers(ch, players).owner = ch.owner
BY DEF NoUsers, Channels

\* Everything of w but its channels is kept.
LEMMA ChannelsReplaced ==
    ASSUME NEW w \in Worlds,
           NEW m \in [ChannelIds -> Channels \cup {NoChannel}]
    PROVE  LET v == [w EXCEPT !.channels = m] IN
           /\ v \in Worlds /\ v.online = w.online /\ v.belongs = w.belongs
           /\ v.channels = m
BY FieldsOfWorlds DEF Worlds

\* Who leaves all channels is no user and no guest, and has none.
LEMMA LeavesAllChannels ==
    ASSUME NEW w, Orderly(w), NEW p \in Chatters
    PROVE  LET v == RemoveUserFromAllChannels(w, p) IN
           /\ Orderly(v) /\ v.online = w.online /\ v.belongs = w.belongs
           /\ \A c \in ChannelIds :
                Exists(v, c) =>
                    p \notin v.channels[c].users \cup v.channels[c].invites
<1> USE ChatAssumption
<1>0. w \in Worlds
    BY DEF Orderly
<1> DEFINE Rest(c) == [NoUsers(w.channels[c], {p}) EXCEPT !.invites = @ \ {p}]
           m == [c \in ChannelIds |->
                    IF ~Exists(w, c) \/ w.channels[c].owner = p THEN NoChannel
                    ELSE Rest(c)]
           v == RemoveUserFromAllChannels(w, p)
<1>1. ASSUME NEW c \in ChannelIds, Exists(w, c)
      PROVE  /\ Rest(c) \in Channels
             /\ Rest(c).users = w.channels[c].users \ {p}
             /\ Rest(c).invites = w.channels[c].invites \ {p}
             /\ Rest(c).owner = w.channels[c].owner
    <2>1. w.channels[c] \in Channels
        BY <1>0, <1>1, OpenIsChannel
    <2> DEFINE n == NoUsers(w.channels[c], {p})
    <2>2. /\ n \in Channels /\ n.users = w.channels[c].users \ {p}
          /\ n.invites = w.channels[c].invites
          /\ n.owner = w.channels[c].owner
        BY <2>1, FewerUsers
    <2> HIDE DEF n
    <2>3. LET r == [n EXCEPT !.invites = @ \ {p}] IN
          /\ r \in Channels /\ r.users = n.users
          /\ r.invites = n.invites \ {p} /\ r.owner = n.owner
        BY <2>2 DEF Channels
    <2> QED
        BY <2>2, <2>3 DEF n
<1> HIDE DEF Rest
<1>2. m \in [ChannelIds -> Channels \cup {NoChannel}]
    BY <1>1
<1>3. v = [w EXCEPT !.channels = m]
    BY DEF RemoveUserFromAllChannels, Rest
<1>4. \A c \in ChannelIds : m[c] = IF ~Exists(w, c) \/ w.channels[c].owner = p
                                   THEN NoChannel ELSE Rest(c)
    OBVIOUS
<1> HIDE DEF m, v
<1>5. /\ v \in Worlds /\ v.online = w.online /\ v.belongs = w.belongs
      /\ v.channels = m
    BY <1>0, <1>2, <1>3, ChannelsReplaced
<1>6. ASSUME NEW c \in ChannelIds, Exists(v, c)
      PROVE  /\ Exists(w, c) /\ w.channels[c].owner # p
             /\ v.channels[c] = Rest(c)
    BY <1>4, <1>5, <1>6 DEF Exists
<1>7. ASSUME NEW c \in ChannelIds, Exists(v, c)
      PROVE  ProperChannel(v.online, c, v.channels[c])
    <2>1. ProperChannel(w.online, c, w.channels[c])
        BY <1>6, <1>7 DEF Orderly
    <2> QED
        BY <1>1, <1>5, <1>6, <1>7, <2>1 DEF ProperChannel
<1>8. Exists(v, Normal)
    <2>1. Exists(w, Normal) /\ w.channels[Normal].owner = NoChannel
        BY DEF Orderly, ScriptsOwn
    <2>2. m[Normal] = Rest(Normal) /\ Rest(Normal) \in Channels
        BY <1>1, <1>4, <2>1, NormalIsId
    <2> QED
        BY <1>5, <2>2 DEF Exists
<1>9. Orderly(v)
    BY <1>1, <1>5, <1>6, <1>7, <1>8, ChannelsStayOrderly
<1> QED
    BY <1>1, <1>5, <1>6, <1>9 DEF v

\* Players lose their party.
LEMMA PartiesLeft ==
    ASSUME NEW w, Orderly(w), NEW players
    PROVE  LET v == WithoutParties(w, players) IN
           Orderly(v) /\ v.online = w.online
<1> USE ChatAssumption
<1>0. w \in Worlds
    BY DEF Orderly
<1> DEFINE b == [p \in Chatters |->
                    IF p \in players
                    THEN [w.belongs[p] EXCEPT !["party"] = NoGroup]
                    ELSE w.belongs[p]]
           left == [w EXCEPT !.belongs = b]
           leave(c) == {p \in players : InChannelOfParty(left, p, c)}
           m == [c \in ChannelIds |->
                    IF Exists(w, c) THEN NoUsers(w.channels[c], leave(c))
                    ELSE NoChannel]
           v == WithoutParties(w, players)
<1>1. b \in Belongings
    <2>1. w.belongs \in Belongings
        BY <1>0, FieldsOfWorlds
    <2>2. \A p \in Chatters :
            w.belongs[p] \in [GroupKinds -> GroupIds \cup {NoGroup}]
        BY <2>1 DEF Belongings
    <2>3. \A p \in Chatters : [w.belongs[p] EXCEPT !["party"] = NoGroup]
                                \in [GroupKinds -> GroupIds \cup {NoGroup}]
        BY <2>2
    <2> QED
        BY <2>2, <2>3 DEF Belongings
<1>2. /\ left \in Worlds /\ left.online = w.online
      /\ left.channels = w.channels
    <2> HIDE DEF b
    <2> QED
        BY <1>0, <1>1, FieldsOfWorlds DEF Worlds
<1>3. v = [left EXCEPT !.channels = m]
    BY DEF WithoutParties
<1> HIDE DEF left, leave
<1>4. ASSUME NEW c \in ChannelIds, Exists(w, c)
      PROVE  LET r == NoUsers(w.channels[c], leave(c)) IN
             /\ r \in Channels /\ r.users \subseteq w.channels[c].users
             /\ c[1] # "party" => r.users = w.channels[c].users
             /\ r.invites = w.channels[c].invites
             /\ r.owner = w.channels[c].owner
    <2>1. w.channels[c] \in Channels
        BY <1>0, <1>4, OpenIsChannel
    <2>2. c[1] # "party" => leave(c) = {}
        BY DEF leave, InChannelOfParty
    <2>3. LET r == NoUsers(w.channels[c], leave(c)) IN
          /\ r \in Channels /\ r.users = w.channels[c].users \ leave(c)
          /\ r.invites = w.channels[c].invites
          /\ r.owner = w.channels[c].owner
        BY <2>1, FewerUsers
    <2> QED
        BY <2>2, <2>3
<1>5. m \in [ChannelIds -> Channels \cup {NoChannel}]
    BY <1>4
<1>6. \A c \in ChannelIds : m[c] = IF Exists(w, c)
                                   THEN NoUsers(w.channels[c], leave(c))
                                   ELSE NoChannel
    OBVIOUS
<1> HIDE DEF m, v
<1>7. v \in Worlds /\ v.online = w.online /\ v.channels = m
    BY <1>2, <1>3, <1>5, ChannelsReplaced
<1>8. ASSUME NEW c \in ChannelIds, Exists(v, c)
      PROVE  Exists(w, c) /\ v.channels[c] = NoUsers(w.channels[c], leave(c))
    BY <1>6, <1>7, <1>8 DEF Exists
<1>9. ASSUME NEW c \in ChannelIds, Exists(v, c)
      PROVE  ProperChannel(v.online, c, v.channels[c])
    <2>1. ProperChannel(w.online, c, w.channels[c])
        BY <1>8, <1>9 DEF Orderly
    <2>2. LET r == v.channels[c] IN
          /\ r.users \subseteq w.channels[c].users
          /\ c[1] # "party" => r.users = w.channels[c].users
          /\ r.invites = w.channels[c].invites
          /\ r.owner = w.channels[c].owner
        BY <1>4, <1>8, <1>9
    <2> QED
        BY <1>7, <2>1, <2>2 DEF ProperChannel
<1>10. Exists(v, Normal)
    <2>1. Exists(w, Normal)
        BY DEF Orderly, ScriptsOwn
    <2>2. m[Normal] \in Channels
        BY <1>4, <1>6, <2>1, NormalIsId
    <2> QED
        BY <1>7, <2>2 DEF Exists
<1>11. \A c \in ChannelIds : Exists(v, c) =>
            Exists(w, c) /\ v.channels[c].owner = w.channels[c].owner
    BY <1>4, <1>8
<1>12. Orderly(v)
    BY <1>7, <1>9, <1>10, <1>11, ChannelsStayOrderly
<1> QED
    BY <1>7, <1>12 DEF v

\* The channel c becomes ch, which is proper and whose owner has not changed.
LEMMA ChannelStaysOrderly ==
    ASSUME NEW w, Orderly(w), NEW c \in ChannelIds, NEW ch \in Channels,
           NEW v, v = [w EXCEPT !.channels = [w.channels EXCEPT ![c] = ch]],
           ProperChannel(w.online, c, ch),
           \/ Exists(w, c) /\ ch.owner = w.channels[c].owner
           \/ c[1] # "private" /\ ch.owner = NoChannel
    PROVE  Orderly(v)
<1> USE ChatAssumption
<1>1. w \in Worlds
    BY DEF Orderly
<1>2. /\ v \in Worlds /\ v.online = w.online /\ v.channels[c] = ch
      /\ \A d \in ChannelIds : d # c => v.channels[d] = w.channels[d]
    BY <1>1, OneChannelChanged
<1>3. ASSUME NEW d \in ChannelIds, Exists(v, d)
      PROVE  /\ ProperChannel(v.online, d, v.channels[d])
             /\ \/ Exists(w, d) /\ v.channels[d].owner = w.channels[d].owner
                \/ d[1] # "private" /\ v.channels[d].owner = NoChannel
    <2>1. CASE d = c
        BY <1>2, <2>1
    <2>2. CASE d # c
        <3>1. v.channels[d] = w.channels[d]
            BY <1>2, <2>2
        <3>2. Exists(w, d)
            BY <1>3, <3>1 DEF Exists
        <3> QED
            BY <1>2, <3>1, <3>2 DEF Orderly
    <2> QED
        BY <2>1, <2>2
<1>4. Exists(v, Normal)
    <2>1. Exists(w, Normal) /\ ch # NoChannel
        BY DEF Orderly, ScriptsOwn
    <2> QED
        BY <1>2, <2>1, NormalIsId DEF Exists
<1> QED
    BY <1>2, <1>3, <1>4, ChannelsStayOrderly

\* The channel c, which is not that of the scripts, is closed.
LEMMA ClosedIsOrderly ==
    ASSUME NEW w, Orderly(w), NEW c \in ChannelIds, c # Normal,
           NEW v \in Worlds, v.online = w.online,
           v.channels = [w.channels EXCEPT ![c] = NoChannel]
    PROVE  Orderly(v)
<1>1. w \in Worlds
    BY DEF Orderly
<1>2. /\ v \in Worlds /\ v.online = w.online /\ v.channels[c] = NoChannel
      /\ \A d \in ChannelIds : d # c => v.channels[d] = w.channels[d]
    BY <1>1, FieldsOfWorlds
<1>3. ASSUME NEW d \in ChannelIds, Exists(v, d)
      PROVE  /\ ProperChannel(v.online, d, v.channels[d])
             /\ Exists(w, d) /\ v.channels[d].owner = w.channels[d].owner
    <2>1. d # c
        BY <1>2, <1>3 DEF Exists
    <2>2. v.channels[d] = w.channels[d]
        BY <1>2, <2>1
    <2>3. Exists(w, d)
        BY <1>3, <2>2 DEF Exists
    <2> QED
        BY <1>2, <2>2, <2>3 DEF Orderly
<1>4. Exists(v, Normal)
    BY <1>2, NormalIsId DEF Orderly, ScriptsOwn, Exists
<1>5. v \in Worlds
    BY <1>2
<1>6. \A d \in ChannelIds : Exists(v, d) =>
        /\ ProperChannel(v.online, d, v.channels[d])
        /\ \/ Exists(w, d) /\ v.channels[d].owner = w.channels[d].owner
           \/ d[1] # "private" /\ v.channels[d].owner = NoChannel
    BY <1>3
<1> QED
    BY <1>4, <1>5, <1>6, ChannelsStayOrderly

\* A channel with other users, ...
LEMMA UsersReplaced ==
    ASSUME NEW ch \in Channels, NEW users \in SUBSET Chatters
    PROVE  LET r == [ch EXCEPT !.users = users] IN
           /\ r \in Channels /\ r.users = users /\ r.invites = ch.invites
           /\ r.owner = ch.owner
BY DEF Channels

\* ... or other guests.
LEMMA InvitesReplaced ==
    ASSUME NEW ch \in Channels, NEW invites \in SUBSET Chatters
    PROVE  LET r == [ch EXCEPT !.invites = invites] IN
           /\ r \in Channels /\ r.invites = invites /\ r.users = ch.users
           /\ r.owner = ch.owner
BY DEF Channels

\* openChannel: only who may use the channel gets into it.
LEMMA AddUserIsOrderly ==
    ASSUME NEW w, Orderly(w), NEW p \in w.online, NEW c \in ChannelIds,
           GetChannel(w, p, c)
    PROVE  Orderly(AddUser(w, p, c))
<1>1. w \in Worlds /\ Exists(w, c) /\ p \in Chatters
    BY FieldsOfWorlds DEF Orderly, GetChannel
<1>2. /\ w.channels[c] \in Channels
      /\ w.channels[c].users \in SUBSET Chatters
    BY <1>1, OpenIsChannel
<1> DEFINE ch == [w.channels[c] EXCEPT !.users = w.channels[c].users \cup {p}]
           v == AddUser(w, p, c)
<1>3. /\ ch \in Channels /\ ch.users = w.channels[c].users \cup {p}
      /\ ch.invites = w.channels[c].invites
      /\ ch.owner = w.channels[c].owner
    BY <1>1, <1>2, UsersReplaced
<1>4. ProperChannel(w.online, c, w.channels[c])
    BY <1>1 DEF Orderly
<1>5. c[1] = "private" =>
        p = w.channels[c].owner \/ p \in w.channels[c].invites
    BY DEF GetChannel, IsInvited
<1>6. v = [w EXCEPT !.channels = [w.channels EXCEPT ![c] = ch]]
    BY DEF AddUser
<1> HIDE DEF ch, v
<1>7. ProperChannel(w.online, c, ch)
    BY <1>3, <1>4, <1>5 DEF ProperChannel
<1>8. Orderly(v)
    BY <1>1, <1>3, <1>6, <1>7, ChannelStaysOrderly
<1> QED
    BY <1>8 DEF v

\* Who is not the owner and not invited any more may leave.
LEMMA RemoveUserIsOrderly ==
    ASSUME NEW w, Orderly(w), NEW p, NEW c \in ChannelIds,
           c[1] = "private" => w.channels[c].owner # p
    PROVE  Orderly(RemoveUser(w, p, c))
<1>1. CASE ~Exists(w, c)
    BY <1>1 DEF RemoveUser
<1>2. CASE Exists(w, c)
    <2>1. w \in Worlds
        BY DEF Orderly
    <2>2. /\ w.channels[c] \in Channels
          /\ w.channels[c].users \in SUBSET Chatters
        BY <1>2, <2>1, OpenIsChannel
    <2> DEFINE ch == [w.channels[c] EXCEPT !.users = w.channels[c].users \ {p}]
               v == RemoveUser(w, p, c)
    <2>3. /\ ch \in Channels /\ ch.users = w.channels[c].users \ {p}
          /\ ch.invites = w.channels[c].invites
          /\ ch.owner = w.channels[c].owner
        BY <2>2, UsersReplaced
    <2>4. ProperChannel(w.online, c, w.channels[c])
        BY <1>2 DEF Orderly
    <2>5. v = [w EXCEPT !.channels = [w.channels EXCEPT ![c] = ch]]
        BY <1>2 DEF RemoveUser
    <2> HIDE DEF ch, v
    <2>6. ProperChannel(w.online, c, ch)
        BY <2>3, <2>4 DEF ProperChannel
    <2>7. Orderly(v)
        BY <1>2, <2>3, <2>5, <2>6, ChannelStaysOrderly
    <2> QED
        BY <2>7 DEF v
<1> QED
    BY <1>1, <1>2

\* closeChannel: the owner closes it for all.
LEMMA CloseIsOrderly ==
    ASSUME NEW w, Orderly(w), NEW p \in Chatters, NEW c \in ChannelIds
    PROVE  Orderly(RemoveUserFromChannel(w, p, c))
<1> USE ChatAssumption
<1>1. CASE ~GetChannel(w, p, c) \/ p \notin w.channels[c].users
    BY <1>1 DEF RemoveUserFromChannel
<1>2. CASE /\ GetChannel(w, p, c) /\ p \in w.channels[c].users
           /\ w.channels[c].owner = p
    <2>1. c # Normal
        BY <1>2 DEF Orderly, ScriptsOwn
    <2> DEFINE v == RemoveUserFromChannel(w, p, c)
    <2> DEFINE m == [w.channels EXCEPT ![c] = NoChannel]
    <2>2. w \in Worlds /\ m \in [ChannelIds -> Channels \cup {NoChannel}]
        BY FieldsOfWorlds DEF Orderly
    <2>3. v = [w EXCEPT !.channels = m]
        BY <1>2 DEF RemoveUserFromChannel
    <2> HIDE DEF v, m
    <2>4. v \in Worlds /\ v.online = w.online /\ v.channels = m
        BY <2>2, <2>3, ChannelsReplaced
    <2>5. v.channels = [w.channels EXCEPT ![c] = NoChannel]
        BY <2>4 DEF m
    <2>6. Orderly(v)
        BY <2>1, <2>4, <2>5, ClosedIsOrderly
    <2> QED
        BY <2>6 DEF v
<1>3. CASE /\ GetChannel(w, p, c) /\ p \in w.channels[c].users
           /\ w.channels[c].owner # p
    <2>1. Orderly(RemoveUser(w, p, c))
        BY <1>3, RemoveUserIsOrderly
    <2> QED
        BY <1>3, <2>1 DEF RemoveUserFromChannel
<1> QED
    BY <1>1, <1>2, <1>3

LEMMA OrderlyNext == ChatInv' <=> Orderly(chat')
BY DEF ChatInv, Orderly, OneOwner, ScriptsOwn, Exists, ProperChannel,
       Worlds, Belongings, Channels, ChannelIds, Normal

\* A player comes into the game.
LEMMA LoginIsOrderly ==
    ASSUME ChatInv, NEW p \in Chatters, LoginChatter(p)
    PROVE  ChatInv'
<1> USE ChatAssumption
<1>0. chat \in Worlds
    BY DEF ChatInv, Orderly
<1>1. /\ chat' \in Worlds /\ chat'.online = chat.online \cup {p}
      /\ chat'.channels = chat.channels
    BY <1>0, FieldsOfWorlds DEF LoginChatter, Worlds
<1>2. ASSUME NEW c \in ChannelIds, Exists(chat', c)
      PROVE  /\ ProperChannel(chat'.online, c, chat'.channels[c])
             /\ Exists(chat, c)
             /\ chat'.channels[c].owner = chat.channels[c].owner
    <2>1. Exists(chat, c)
        BY <1>1, <1>2 DEF Exists
    <2>2. ProperChannel(chat.online, c, chat.channels[c])
        BY <2>1 DEF ChatInv, Orderly
    <2> QED
        BY <1>1, <2>1, <2>2 DEF ProperChannel
<1>3. Exists(chat', Normal)
    BY <1>1 DEF ChatInv, Orderly, ScriptsOwn, Exists
<1>4. Orderly(chat')
    <2>1. \A c \in ChannelIds : Exists(chat', c) =>
            /\ ProperChannel(chat'.online, c, chat'.channels[c])
            /\ \/ /\ Exists(chat, c)
                  /\ chat'.channels[c].owner = chat.channels[c].owner
               \/ c[1] # "private" /\ chat'.channels[c].owner = NoChannel
        BY <1>2
    <2> DEFINE w == chat
               v == chat'
    <2>2. /\ Orderly(w) /\ v \in Worlds /\ Exists(v, Normal)
          /\ \A c \in ChannelIds : Exists(v, c) =>
                /\ ProperChannel(v.online, c, v.channels[c])
                /\ \/ Exists(w, c) /\ v.channels[c].owner = w.channels[c].owner
                   \/ c[1] # "private" /\ v.channels[c].owner = NoChannel
        BY <1>1, <1>3, <2>1 DEF ChatInv
    <2> HIDE DEF w, v
    <2>3. Orderly(v)
        BY <2>2, ChannelsStayOrderly
    <2> QED
        BY <2>3 DEF v
<1> QED
    BY <1>4, OrderlyNext

\* Who has left every channel may leave the game.
LEMMA GoneIsOrderly ==
    ASSUME NEW w, Orderly(w), NEW p,
           \A c \in ChannelIds : Exists(w, c) =>
                p \notin w.channels[c].users \cup w.channels[c].invites
    PROVE  Orderly([w EXCEPT !.online = @ \ {p}])
<1> USE ChatAssumption
<1> DEFINE v == [w EXCEPT !.online = @ \ {p}]
<1>0. w \in Worlds
    BY DEF Orderly
<1>1. /\ v \in Worlds /\ v.online = w.online \ {p}
      /\ v.channels = w.channels
    BY <1>0, FieldsOfWorlds DEF Worlds
<1> HIDE DEF v
<1>2. ASSUME NEW c \in ChannelIds, Exists(v, c)
      PROVE  /\ ProperChannel(v.online, c, v.channels[c])
             /\ Exists(w, c) /\ v.channels[c].owner = w.channels[c].owner
    <2>1. Exists(w, c)
        BY <1>1, <1>2 DEF Exists
    <2>2. ProperChannel(w.online, c, w.channels[c])
        BY <2>1 DEF Orderly
    <2> QED
        BY <1>1, <2>1, <2>2 DEF ProperChannel
<1>3. Exists(v, Normal)
    BY <1>1 DEF Orderly, ScriptsOwn, Exists
<1>4. \A c \in ChannelIds : Exists(v, c) =>
        /\ ProperChannel(v.online, c, v.channels[c])
        /\ \/ Exists(w, c) /\ v.channels[c].owner = w.channels[c].owner
           \/ c[1] # "private" /\ v.channels[c].owner = NoChannel
    BY <1>2
<1>5. Orderly(v)
    BY <1>1, <1>3, <1>4, ChannelsStayOrderly
<1> QED
    BY <1>5 DEF v

\* A player leaves the game.
LEMMA LogoutIsOrderly ==
    ASSUME ChatInv, NEW p \in Chatters, LogoutChatter(p)
    PROVE  ChatInv'
<1>1. PICK gone :
        chat' = [RemoveUserFromAllChannels(WithoutParties(chat, gone), p)
                    EXCEPT !.online = @ \ {p}]
    BY DEF LogoutChatter
<1> DEFINE u == WithoutParties(chat, gone)
           w == RemoveUserFromAllChannels(u, p)
<1>2. Orderly(u)
    BY PartiesLeft DEF ChatInv
<1> HIDE DEF u
<1>3. /\ Orderly(w)
      /\ \A c \in ChannelIds : Exists(w, c) =>
            p \notin w.channels[c].users \cup w.channels[c].invites
    BY <1>2, LeavesAllChannels
<1>4. chat' = [w EXCEPT !.online = @ \ {p}]
    BY <1>1 DEF u
<1> HIDE DEF w
<1>5. Orderly([w EXCEPT !.online = @ \ {p}])
    BY <1>3, GoneIsOrderly
<1> QED
    BY <1>4, <1>5, OrderlyNext

\* What somebody belongs to may change.
LEMMA BelongingIsOrderly ==
    ASSUME NEW w, Orderly(w), NEW b \in Belongings
    PROVE  Orderly([w EXCEPT !.belongs = b])
<1> DEFINE v == [w EXCEPT !.belongs = b]
<1>0. w \in Worlds
    BY DEF Orderly
<1>1. v \in Worlds /\ v.online = w.online /\ v.channels = w.channels
    BY <1>0, FieldsOfWorlds DEF Worlds
<1> HIDE DEF v
<1>2. Orderly(v)
    BY <1>1 DEF Orderly, OneOwner, ScriptsOwn, Exists
<1> QED
    BY <1>2 DEF v

\* A player gets a party ...
LEMMA PartyIsOrderly ==
    ASSUME ChatInv, NEW p \in Chatters, NEW id \in GroupIds,
           FoundOrJoinParty(p, id)
    PROVE  ChatInv'
<1>0. chat \in Worlds
    BY DEF ChatInv, Orderly
<1> DEFINE b == [chat.belongs EXCEPT ![p]["party"] = id]
<1>1. b \in Belongings
    BY <1>0, FieldsOfWorlds DEF Belongings, GroupKinds
<1>2. chat' = [chat EXCEPT !.belongs = b]
    BY DEF FoundOrJoinParty, SetParty
<1> HIDE DEF b
<1> QED
    BY <1>1, <1>2, BelongingIsOrderly, OrderlyNext DEF ChatInv

\* ... or a guild.
LEMMA GuildIsOrderly ==
    ASSUME ChatInv, NEW p \in Chatters, NEW id \in GroupIds \cup {NoGroup},
           SetGuild(p, id)
    PROVE  ChatInv'
<1>0. chat \in Worlds
    BY DEF ChatInv, Orderly
<1> DEFINE b == [chat.belongs EXCEPT ![p]["guild"] = id]
<1>1. b \in Belongings
    BY <1>0, FieldsOfWorlds DEF Belongings, GroupKinds
<1>2. chat' = [chat EXCEPT !.belongs = b]
    BY DEF SetGuild
<1> HIDE DEF b
<1> QED
    BY <1>1, <1>2, BelongingIsOrderly, OrderlyNext DEF ChatInv

LEMMA NewIsChannel ==
    ASSUME NEW owner \in Chatters \cup {NoChannel}
    PROVE  /\ New(owner) \in Channels
           /\ New(owner).users = {owner} \ {NoChannel}
           /\ New(owner).invites = {} /\ New(owner).owner = owner
BY DEF New, Channels

\* The channels of the party and of the guild are opened on request.
LEMMA RequestIsOrderly ==
    ASSUME ChatInv, NEW p \in Chatters, RequestChannels(p)
    PROVE  ChatInv'
<1> USE ChatAssumption
<1>0. chat \in Worlds /\ Orderly(chat)
    BY DEF ChatInv, Orderly
<1> DEFINE mine == {c \in ChannelIds :
                        c[1] \in topic \cap GroupKinds
                            /\ chat.belongs[p][c[1]] = c[2]}
           n == New(NoChannel)
           m == [c \in ChannelIds |->
                    IF c \in mine /\ chat.channels[c] = NoChannel
                    THEN n ELSE chat.channels[c]]
<1>1. chat' = [chat EXCEPT !.channels = m]
    BY DEF RequestChannels
<1>2. /\ n \in Channels /\ n.users = {} /\ n.invites = {}
      /\ n.owner = NoChannel
    BY NewIsChannel
<1>3. \A c \in mine : c[1] # "private"
    BY DEF GroupKinds
<1> HIDE DEF mine, n
<1>4. m \in [ChannelIds -> Channels \cup {NoChannel}]
    BY <1>0, <1>2, FieldsOfWorlds
<1>5. \A c \in ChannelIds :
        m[c] = IF c \in mine /\ chat.channels[c] = NoChannel
               THEN n ELSE chat.channels[c]
    OBVIOUS
<1> HIDE DEF m
<1> DEFINE w == chat
           v == [chat EXCEPT !.channels = m]
<1>6. v \in Worlds /\ v.online = w.online /\ v.channels = m
    BY <1>0, <1>4, ChannelsReplaced
<1>7. \A c \in ChannelIds : ~Exists(w, c) \/ m[c] = w.channels[c]
    BY <1>5 DEF Exists
<1>8. Orderly(w)
    BY <1>0
<1>9. ASSUME NEW c \in ChannelIds, ~Exists(w, c), Exists(v, c)
      PROVE  m[c] = n /\ c[1] # "private"
    BY <1>3, <1>5, <1>6, <1>9 DEF Exists
<1>10. chat' = v
    BY <1>1
<1> HIDE DEF w, v
<1>11. ASSUME NEW c \in ChannelIds, Exists(v, c)
       PROVE  /\ ProperChannel(v.online, c, v.channels[c])
              /\ \/ Exists(w, c) /\ v.channels[c].owner = w.channels[c].owner
                 \/ c[1] # "private" /\ v.channels[c].owner = NoChannel
    <2>1. CASE Exists(w, c)
        <3>1. ProperChannel(w.online, c, w.channels[c])
            BY <1>8, <2>1 DEF Orderly
        <3> QED
            BY <1>6, <1>7, <2>1, <3>1
    <2>2. CASE ~Exists(w, c)
        BY <1>2, <1>6, <1>9, <1>11, <2>2 DEF ProperChannel
    <2> QED
        BY <2>1, <2>2
<1>12. Exists(v, Normal)
    BY <1>6, <1>7, <1>8, NormalIsId DEF Orderly, ScriptsOwn, Exists
<1>13. v \in Worlds
    BY <1>6
<1>14. Orderly(v)
    BY <1>8, <1>11, <1>12, <1>13, ChannelsStayOrderly
<1> QED
    BY <1>10, <1>14, OrderlyNext

\* createChannel: who has no private channel gets the first free id.
LEMMA CreateIsOrderly ==
    ASSUME ChatInv, NEW p \in chat.online, CreatePrivateChannel(p)
    PROVE  ChatInv'
<1> USE ChatAssumption
<1>0. chat \in Worlds /\ Orderly(chat) /\ p \in Chatters
    BY FieldsOfWorlds DEF ChatInv, Orderly
<1>1. PICK id \in 1..MaxPrivate :
        /\ ~Exists(chat, <<"private", id>>)
        /\ chat' = [chat EXCEPT !.channels[<<"private", id>>] = New(p)]
    BY DEF CreatePrivateChannel
<1>2. \A d \in ChannelIds : Exists(chat, d) => chat.channels[d].owner # p
    BY DEF CreatePrivateChannel, PrivateChannels
<1> DEFINE c == <<"private", id>>
           ch == New(p)
           w == chat
           v == chat'
<1>3. c \in ChannelIds /\ c[1] = "private"
    BY DEF ChannelIds
<1>4. /\ ch \in Channels /\ ch.users = {p} /\ ch.invites = {}
      /\ ch.owner = p
    BY <1>0, NewIsChannel
<1>5. v = [w EXCEPT !.channels = [w.channels EXCEPT ![c] = ch]]
    BY <1>1
<1>6. /\ Orderly(w) /\ p \in w.online /\ ~Exists(w, c)
      /\ w \in Worlds
      /\ \A d \in ChannelIds : Exists(w, d) => w.channels[d].owner # p
    BY <1>0, <1>1, <1>2
<1> HIDE DEF c, ch, w, v
<1>7. /\ v \in Worlds /\ v.online = w.online /\ v.channels[c] = ch
      /\ \A d \in ChannelIds : d # c => v.channels[d] = w.channels[d]
    BY <1>3, <1>4, <1>5, <1>6, OneChannelChanged
<1>8. \A d \in ChannelIds : d # c /\ Exists(v, d) => Exists(w, d)
    BY <1>7 DEF Exists
<1>9. \A d \in ChannelIds :
        Exists(v, d) => ProperChannel(v.online, d, v.channels[d])
    <2> SUFFICES ASSUME NEW d \in ChannelIds, Exists(v, d)
                 PROVE  ProperChannel(v.online, d, v.channels[d])
        OBVIOUS
    <2>1. CASE d = c
        BY <1>4, <1>6, <1>7, <2>1 DEF ProperChannel
    <2>2. CASE d # c
        BY <1>6, <1>7, <1>8, <2>2 DEF Orderly
    <2> QED
        BY <2>1, <2>2
<1>10. OneOwner(v)
    <2> SUFFICES ASSUME NEW d \in ChannelIds, NEW e \in ChannelIds,
                        Exists(v, d), Exists(v, e), d[1] = "private",
                        v.channels[d].owner = v.channels[e].owner
                 PROVE  d = e
        BY DEF OneOwner
    <2>1. CASE d = c \/ e = c
        BY <1>4, <1>6, <1>7, <1>8, <2>1
    <2>2. CASE d # c /\ e # c
        BY <1>6, <1>7, <1>8, <2>2 DEF Orderly, OneOwner
    <2> QED
        BY <2>1, <2>2
<1>11. ScriptsOwn(v)
    <2>1. Normal # c
        BY <1>3 DEF Normal
    <2> QED
        BY <1>6, <1>7, <2>1, NormalIsId DEF Orderly, ScriptsOwn, Exists
<1>12. Orderly(v)
    BY <1>7, <1>9, <1>10, <1>11 DEF Orderly
<1> QED
    BY <1>12, OrderlyNext DEF v

\* The owner of a private channel invites ...
LEMMA InviteIsOrderly ==
    ASSUME ChatInv, NEW p \in Chatters, NEW q \in chat.online, Invite(p, q)
    PROVE  ChatInv'
<1>0. chat \in Worlds /\ Orderly(chat) /\ q \in Chatters
    BY FieldsOfWorlds DEF ChatInv, Orderly
<1>1. PICK c \in ChannelIds :
        /\ Exists(chat, c)
        /\ chat' = [chat EXCEPT !.channels[c].invites = @ \cup {q}]
    BY DEF Invite, PrivateChannels
<1>2. /\ chat.channels[c] \in Channels
      /\ chat.channels[c].invites \in SUBSET Chatters
    BY <1>0, <1>1, OpenIsChannel
<1> DEFINE i == chat.channels[c].invites \cup {q}
           ch == [chat.channels[c] EXCEPT !.invites = i]
           w == chat
           v == chat'
<1>3. /\ ch \in Channels /\ ch.invites = i
      /\ ch.users = chat.channels[c].users
      /\ ch.owner = chat.channels[c].owner
    <2>1. i \in SUBSET Chatters
        BY <1>0, <1>2
    <2> HIDE DEF i
    <2> QED
        BY <1>2, <2>1, InvitesReplaced
<1>4. ProperChannel(chat.online, c, chat.channels[c])
    BY <1>0, <1>1 DEF Orderly
<1>5. ProperChannel(chat.online, c, ch)
    <2> HIDE DEF ch
    <2> QED
        BY <1>3, <1>4 DEF ProperChannel
<1>6. v = [w EXCEPT !.channels = [w.channels EXCEPT ![c] = ch]]
    BY <1>1
<1>7. /\ Orderly(w) /\ Exists(w, c) /\ ProperChannel(w.online, c, ch)
      /\ ch.owner = w.channels[c].owner
    BY <1>0, <1>1, <1>3, <1>5
<1> HIDE DEF ch, w, v
<1>8. Orderly(v)
    BY <1>3, <1>6, <1>7, ChannelStaysOrderly
<1> QED
    BY <1>8, OrderlyNext DEF v

\* Who is excluded is no guest and no user.
LEMMA ExcludeIsOrderly ==
    ASSUME ChatInv, NEW p \in Chatters, NEW q \in chat.online, Exclude(p, q)
    PROVE  ChatInv'
<1> USE ChatAssumption
<1>0. chat \in Worlds /\ Orderly(chat)
    BY DEF ChatInv, Orderly
<1>1. PICK c \in ChannelIds :
        /\ Exists(chat, c) /\ chat.channels[c].owner = p /\ p # q
        /\ chat' = RemoveUser([chat EXCEPT !.channels[c].invites = @ \ {q}],
                              q, c)
    BY DEF Exclude, PrivateChannels
<1>2. /\ chat.channels[c] \in Channels
      /\ chat.channels[c].invites \in SUBSET Chatters
      /\ chat.channels[c].users \in SUBSET Chatters
    BY <1>0, <1>1, OpenIsChannel
<1> DEFINE i == chat.channels[c].invites \ {q}
           mid == [chat.channels[c] EXCEPT !.invites = i]
           us == chat.channels[c].users \ {q}
           ch == [mid EXCEPT !.users = us]
           u == [chat EXCEPT !.channels = [chat.channels EXCEPT ![c] = mid]]
           w == chat
           v == chat'
<1>3. /\ mid \in Channels /\ mid.invites = i
      /\ mid.users = chat.channels[c].users
      /\ mid.owner = chat.channels[c].owner
    <2>1. i \in SUBSET Chatters
        BY <1>2
    <2> HIDE DEF i
    <2> QED
        BY <1>2, <2>1, InvitesReplaced
<1>4. /\ ch \in Channels /\ ch.users = us /\ ch.invites = i
      /\ ch.owner = chat.channels[c].owner
    <2>1. us \in SUBSET Chatters
        BY <1>2
    <2> HIDE DEF us, mid
    <2> QED
        BY <1>3, <2>1, UsersReplaced
<1>5. ProperChannel(chat.online, c, chat.channels[c])
    BY <1>0, <1>1 DEF Orderly
<1>6. ProperChannel(chat.online, c, ch)
    <2> HIDE DEF ch
    <2> QED
        BY <1>1, <1>4, <1>5 DEF ProperChannel
<1>7. /\ u \in Worlds /\ u.channels[c] = mid
      /\ u = [chat EXCEPT !.channels = [chat.channels EXCEPT ![c] = mid]]
    <2> DEFINE m == [chat.channels EXCEPT ![c] = mid]
    <2> HIDE DEF mid
    <2>1. /\ m \in [ChannelIds -> Channels \cup {NoChannel}]
          /\ m[c] = mid
        BY <1>0, <1>3, FieldsOfWorlds
    <2>2. u = [chat EXCEPT !.channels = m]
        OBVIOUS
    <2> HIDE DEF m, u
    <2>3. u \in Worlds /\ u.channels = m
        BY <1>0, <2>1, <2>2, ChannelsReplaced
    <2> QED
        BY <2>1, <2>2, <2>3 DEF m
<1>8. chat' = RemoveUser(u, q, c)
    BY <1>1
<1>9. v = [w EXCEPT !.channels = [w.channels EXCEPT ![c] = ch]]
    <2>1. Exists(u, c)
        BY <1>3, <1>7 DEF Exists
    <2>2. chat' = [u EXCEPT !.channels =
                    [u.channels EXCEPT ![c] = [u.channels[c] EXCEPT !.users =
                                                u.channels[c].users \ {q}]]]
        BY <1>8, <2>1 DEF RemoveUser
    <2>3. chat' = [u EXCEPT !.channels = [u.channels EXCEPT ![c] = ch]]
        BY <1>3, <1>7, <2>2
    <2> HIDE DEF ch, mid
    <2>4. chat.channels \in [ChannelIds -> Channels \cup {NoChannel}]
        BY <1>0, FieldsOfWorlds
    <2>5. [[chat.channels EXCEPT ![c] = mid] EXCEPT ![c] = ch]
            = [chat.channels EXCEPT ![c] = ch]
        BY <2>4
    <2>6. u.channels = [chat.channels EXCEPT ![c] = mid]
        BY <1>0 DEF Worlds
    <2> DEFINE m == [chat.channels EXCEPT ![c] = mid]
               n == [chat.channels EXCEPT ![c] = ch]
    <2>7. chat' = [[chat EXCEPT !.channels = m] EXCEPT !.channels = n]
        BY <2>3, <2>5, <2>6
    <2> HIDE DEF m, n
    <2>8. chat' = [chat EXCEPT !.channels = n]
        BY <1>0, <2>7 DEF Worlds
    <2> QED
        BY <2>8 DEF n
<1>10. /\ Orderly(w) /\ Exists(w, c) /\ ProperChannel(w.online, c, ch)
       /\ ch.owner = w.channels[c].owner
    BY <1>0, <1>1, <1>4, <1>6
<1>11. ch \in Channels
    BY <1>4
<1> HIDE DEF ch, w, v
<1>12. Orderly(v)
    BY <1>9, <1>10, <1>11, ChannelStaysOrderly
<1> QED
    BY <1>12, OrderlyNext DEF v

\* The scripts of the channel are loaded again.
LEMMA ReloadIsOrderly ==
    ASSUME ChatInv, ReloadChannels
    PROVE  ChatInv'
<1>0. chat \in Worlds /\ Orderly(chat) /\ Exists(chat, Normal)
    BY DEF ChatInv, Orderly, ScriptsOwn
<1> DEFINE c == Normal
<1>1. PICK users \in SUBSET chat.channels[c].users :
        chat' = [chat EXCEPT !.channels[c].users = users]
    BY DEF ReloadChannels, Normal
<1>2. /\ chat.channels[c] \in Channels /\ users \in SUBSET Chatters
      /\ c \in ChannelIds /\ c[1] # "private"
    BY <1>0, <1>1, OpenIsChannel, NormalIsId DEF Normal
<1> DEFINE ch == [chat.channels[c] EXCEPT !.users = users]
           w == chat
           v == chat'
<1>3. /\ ch \in Channels /\ ch.users = users
      /\ ch.invites = chat.channels[c].invites
      /\ ch.owner = chat.channels[c].owner
    <2> HIDE DEF c
    <2> QED
        BY <1>2, UsersReplaced
<1>4. ProperChannel(chat.online, c, chat.channels[c])
    BY <1>0, <1>2 DEF Orderly
<1>5. ProperChannel(chat.online, c, ch)
    <2> HIDE DEF ch, c
    <2> QED
        BY <1>1, <1>2, <1>3, <1>4 DEF ProperChannel
<1>6. v = [w EXCEPT !.channels = [w.channels EXCEPT ![c] = ch]]
    BY <1>1
<1>7. /\ Orderly(w) /\ Exists(w, c) /\ ProperChannel(w.online, c, ch)
      /\ ch.owner = w.channels[c].owner /\ ch \in Channels
      /\ c \in ChannelIds
    BY <1>0, <1>2, <1>3, <1>5
<1> HIDE DEF c, ch, w, v
<1>8. Orderly(v)
    BY <1>6, <1>7, ChannelStaysOrderly
<1> QED
    BY <1>8, OrderlyNext DEF v

\* Every step keeps the channels orderly.
LEMMA ChatInvIsKept == ChatInv /\ [ChatNext]_ChatVars => ChatInv'
<1> SUFFICES ASSUME ChatInv, [ChatNext]_ChatVars PROVE ChatInv'
    OBVIOUS
<1>0. Orderly(chat) /\ chat.online \in SUBSET Chatters
    BY FieldsOfWorlds DEF ChatInv, Orderly
<1>1. CASE UNCHANGED ChatVars
    BY <1>0, <1>1, OrderlyNext DEF ChatVars
<1>2. ASSUME NEW p \in Chatters, LoginChatter(p) PROVE ChatInv'
    BY <1>2, LoginIsOrderly
<1>3. CASE ReloadChannels
    BY <1>3, ReloadIsOrderly
<1>4. ASSUME NEW p \in chat.online, InGame(p) PROVE ChatInv'
    <2>0. p \in Chatters
        BY <1>0
    <2>1. CASE Reconnect(p)
        BY <1>0, <2>0, <2>1, LeavesAllChannels, OrderlyNext DEF Reconnect
    <2>2. CASE LogoutChatter(p)
        BY <2>0, <2>2, LogoutIsOrderly
    <2>3. CASE QuitParty(p)
        BY <1>0, <2>3, PartiesLeft, OrderlyNext DEF QuitParty
    <2>4. CASE RequestChannels(p)
        BY <2>0, <2>4, RequestIsOrderly
    <2>5. CASE CreatePrivateChannel(p)
        BY <2>5, CreateIsOrderly
    <2>6. ASSUME NEW id \in GroupIds, FoundOrJoinParty(p, id) PROVE ChatInv'
        BY <2>0, <2>6, PartyIsOrderly
    <2>7. ASSUME NEW id \in GroupIds \cup {NoGroup}, SetGuild(p, id)
          PROVE  ChatInv'
        BY <2>0, <2>7, GuildIsOrderly
    <2>8. ASSUME NEW c \in ChannelIds, OpenChannel(p, c) PROVE ChatInv'
        BY <1>0, <2>8, AddUserIsOrderly, OrderlyNext DEF OpenChannel
    <2>9. ASSUME NEW c \in ChannelIds, CloseChannel(p, c) PROVE ChatInv'
        BY <1>0, <2>0, <2>9, CloseIsOrderly, OrderlyNext DEF CloseChannel
    <2>10. ASSUME NEW q \in chat.online, Invite(p, q) PROVE ChatInv'
        BY <2>0, <2>10, InviteIsOrderly
    <2>11. ASSUME NEW q \in chat.online, Exclude(p, q) PROVE ChatInv'
        BY <2>0, <2>11, ExcludeIsOrderly
    <2> QED
        BY <1>4, <2>1, <2>2, <2>3, <2>4, <2>5, <2>6, <2>7, <2>8, <2>9,
           <2>10, <2>11 DEF InGame
<1> QED
    BY <1>1, <1>2, <1>3, <1>4 DEF ChatNext

-----------------------------------------------------------------------------
(* Items and containers (Containers).                                      *)

Holders == Boxes \cup {NoThing}

(* The rank of an item is above that of its parent. *)
Ordered(p, rank) ==
    \A x \in Things : p[x] # NoThing => rank[p[x]] < rank[x]

Ranked(p) == \E rank \in [Things -> Nat] : Ordered(p, rank)

UpFrom(u, x) ==
    /\ u \in [0 .. Cardinality(Boxes) -> Things \cup {NoThing}]
    /\ u[0] = x
    /\ \A n \in 1 .. Cardinality(Boxes) :
          u[n] = IF u[n - 1] = NoThing THEN NoThing ELSE parent[u[n - 1]]

\* How many containers there are.
LEMMA SomeBoxes == Cardinality(Boxes) \in Nat \ {0}
<1>1. Cardinality(Boxes) \in Nat
  BY ContainersAssumption, FS_CardinalityType
<1>2. Cardinality(Boxes) # 0
  BY ContainersAssumption, FS_EmptySet
<1> QED
  BY <1>1, <1>2

\* What is above an item is a chain of parents.
LEMMA WithinIsChain ==
    ASSUME parent \in [Things -> Holders], NEW x \in Things
    PROVE  \E u : /\ UpFrom(u, x)
                  /\ Within(x) = {u[n] : n \in 0 .. Cardinality(Boxes)}
                                    \ {NoThing}
<1> DEFINE N == Cardinality(Boxes)
           D == Things \cup {NoThing}
           op == [a \in (1 .. N) \X D |->
                    IF a[2] = NoThing THEN NoThing ELSE parent[a[2]]]
           One(f, n) == IF n = 0 THEN x
                        ELSE IF f[n - 1] = NoThing THEN NoThing
                             ELSE parent[f[n - 1]]
           u == CHOOSE f : f = [n \in 0 .. N |-> One(f, n)]
<1>1. Within(x) = {u[n] : n \in 0 .. N} \ {NoThing}
  BY DEF Within
<1>2. op \in [(1 .. N) \X D -> D] /\ x \in D /\ N \in Nat
  BY SomeBoxes DEF Holders, Things
<1>3. \A n \in 1 .. N, y \in D :
        op[<<n, y>>] = IF y = NoThing THEN NoThing ELSE parent[y]
  OBVIOUS
<1> HIDE DEF op, D, N
<1>4. PICK f \in [0 .. N -> D] : StepByStep(f, N, x, op)
  BY <1>2, StepsExist
<1>5. ASSUME NEW n \in 0 .. N PROVE f[n] = One(f, n)
  <2>1. CASE n = 0
    BY <1>4, <2>1 DEF StepByStep
  <2>2. CASE n # 0
    <3>1. n \in 1 .. N /\ n - 1 \in 0 .. N
      BY <1>2, <2>2
    <3>2. f[n] = op[<<n, f[n - 1]>>] /\ f[n - 1] \in D
      BY <1>4, <3>1 DEF StepByStep
    <3> QED
      BY <1>3, <2>2, <3>1, <3>2
  <2> QED
    BY <2>1, <2>2
<1>6. f = [n \in 0 .. N |-> One(f, n)]
  <2> HIDE DEF One
  <2> QED
    BY <1>5
<1>7. u = [n \in 0 .. N |-> One(u, n)]
  <2> HIDE DEF One
  <2> QED
    BY <1>6
<1>8. \A n \in 0 .. N : u[n] = One(u, n)
  <2> HIDE DEF One, u
  <2> QED
    BY <1>7
<1>9. u[0] = x /\ \A n \in 1 .. N :
         u[n] = IF u[n - 1] = NoThing THEN NoThing ELSE parent[u[n - 1]]
  <2> HIDE DEF u
  <2> QED
    BY <1>2, <1>8
<1>10. u \in [0 .. N -> D]
  <2> DEFINE Good == {n \in Nat : n <= N => u[n] \in D}
  <2>1. ASSUME NEW n \in Nat, \A m \in Nat : m < n => m \in Good
        PROVE  n \in Good
    <3> SUFFICES ASSUME n <= N PROVE u[n] \in D
      OBVIOUS
    <3> HIDE DEF u
    <3>1. CASE n = 0
      BY <1>2, <1>9, <3>1
    <3>2. CASE n # 0
      <4>1. n - 1 \in Nat /\ n - 1 < n /\ n - 1 <= N /\ n \in 1 .. N
        BY <1>2, <3>2
      <4>2. u[n - 1] \in D
        BY <2>1, <4>1
      <4> QED
        BY <1>9, <4>1, <4>2 DEF D, Holders, Things
    <3> QED
      BY <3>1, <3>2
  <2>2. \A n \in Nat : n \in Good
    <3>1. Good \in SUBSET Nat
      OBVIOUS
    <3> HIDE DEF Good
    <3> QED
      BY <2>1, <3>1, AllNumbers
  <2>3. \A n \in 0 .. N : u[n] \in D
    <3> HIDE DEF u
    <3> QED
      BY <1>2, <2>2
  <2> HIDE DEF One, u
  <2> QED
    BY <1>7, <2>3
<1> HIDE DEF u
<1>11. UpFrom(u, x)
  BY <1>9, <1>10 DEF UpFrom, D, N
<1> QED
  BY <1>1, <1>11 DEF N

\* Going up from a container, one comes to an end before all containers are
\* passed twice.
LEMMA ChainEnds ==
    ASSUME parent \in [Things -> Holders], Ranked(parent),
           NEW x \in Boxes, NEW u, UpFrom(u, x)
    PROVE  u[Cardinality(Boxes)] = NoThing
<1> DEFINE N == Cardinality(Boxes)
<1>0. N \in Nat
  BY SomeBoxes
<1>1. PICK rank \in [Things -> Nat] : Ordered(parent, rank)
  BY DEF Ranked
<1>2. /\ u \in [0 .. N -> Things \cup {NoThing}] /\ u[0] = x
      /\ \A n \in 1 .. N :
           u[n] = IF u[n - 1] = NoThing THEN NoThing ELSE parent[u[n - 1]]
  BY DEF UpFrom
<1> HIDE DEF N
<1> DEFINE Good == {n \in Nat : n <= N /\ u[n] # NoThing =>
                        /\ u[n] \in Boxes
                        /\ \A m \in 0 .. N : m < n =>
                             u[m] # NoThing /\ rank[u[n]] < rank[u[m]]}
<1>3. ASSUME NEW n \in Nat, \A m \in Nat : m < n => m \in Good
      PROVE  n \in Good
  <2> SUFFICES ASSUME n <= N, u[n] # NoThing
               PROVE  /\ u[n] \in Boxes
                      /\ \A m \in 0 .. N : m < n =>
                             u[m] # NoThing /\ rank[u[n]] < rank[u[m]]
    OBVIOUS
  <2>1. CASE n = 0
    BY <1>2, <2>1
  <2>2. CASE n # 0
    <3> DEFINE k == n - 1
    <3>1. k \in Nat /\ k < n /\ k <= N /\ n \in 1 .. N /\ k \in 0 .. N
      BY <1>0, <2>2
    <3>2. u[k] # NoThing /\ u[n] = parent[u[k]] /\ u[k] \in Things
      BY <1>2, <3>1
    <3>3. u[n] \in Boxes /\ rank[u[n]] < rank[u[k]]
      BY <1>1, <3>2 DEF Ordered, Holders
    <3>4. k \in Good
      BY <1>3, <3>1
    <3>5. rank[u[n]] \in Nat /\ rank[u[k]] \in Nat
      BY <1>1, <3>2, <3>3 DEF Things
    <3>6. ASSUME NEW m \in 0 .. N, m < n
          PROVE  u[m] # NoThing /\ rank[u[n]] < rank[u[m]]
      <4>1. CASE m = k
        BY <3>2, <3>3, <4>1
      <4>2. CASE m # k
        <5>1. m < k
          BY <3>6, <4>2
        <5>2. u[m] # NoThing /\ rank[u[k]] < rank[u[m]]
          <6> HIDE DEF k
          <6> QED
            BY <3>1, <3>2, <3>4, <5>1
        <5>3. rank[u[m]] \in Nat
          BY <1>1, <1>2, <5>2
        <5> HIDE DEF k
        <5> QED
          BY <3>3, <3>5, <5>2, <5>3
      <4> QED
        BY <4>1, <4>2
    <3> QED
      BY <3>3, <3>6
  <2> QED
    BY <2>1, <2>2
<1>4. \A n \in Nat : n \in Good
  <2>1. Good \in SUBSET Nat
    OBVIOUS
  <2> HIDE DEF Good
  <2> QED
    BY <1>3, <2>1, AllNumbers
<1> SUFFICES ASSUME u[N] # NoThing PROVE FALSE
  BY DEF N
<1>5. ASSUME NEW n \in 0 .. N
      PROVE  /\ u[n] \in Boxes
             /\ \A m \in 0 .. N : m < n =>
                             u[m] # NoThing /\ rank[u[n]] < rank[u[m]]
  <2>1. N \in Good
    BY <1>0, <1>4
  <2>2. u[n] # NoThing
    BY <1>0, <2>1
  <2>3. n \in Good /\ n \in Nat /\ n <= N
    BY <1>0, <1>4
  <2> QED
    BY <2>2, <2>3
<1>6. u \in [0 .. N -> Boxes]
  BY <1>2, <1>5
<1>7. IsFiniteSet(0 .. N) /\ Cardinality(0 .. N) = N + 1
  BY <1>0, FS_Interval
<1>8. Cardinality(Boxes) < Cardinality(0 .. N) /\ IsFiniteSet(Boxes)
  BY <1>0, <1>7, ContainersAssumption DEF N
<1>9. PICK m, n \in 0 .. N : m # n /\ u[m] = u[n]
  BY <1>6, <1>7, <1>8, FS_PigeonHole
<1>10. rank[u[m]] \in Nat
  BY <1>1, <1>6 DEF Things
<1>11. m < n \/ n < m
  BY <1>0, <1>9
<1> QED
  BY <1>5, <1>9, <1>10, <1>11

\* What an item is in: itself, and what its parent is in.
LEMMA WithinIs ==
    ASSUME parent \in [Things -> Holders], Ranked(parent), NEW x \in Things
    PROVE  /\ Within(x) \subseteq Things
           /\ parent[x] = NoThing => Within(x) = {x}
           /\ parent[x] # NoThing => Within(x) = {x} \cup Within(parent[x])
<1> DEFINE N == Cardinality(Boxes)
<1>0. N \in Nat \ {0} /\ x # NoThing
  BY SomeBoxes, ContainersAssumption DEF Things
<1>1. PICK u : UpFrom(u, x) /\ Within(x) = {u[n] : n \in 0 .. N} \ {NoThing}
  BY WithinIsChain
<1>2. /\ u \in [0 .. N -> Things \cup {NoThing}] /\ u[0] = x
      /\ \A n \in 1 .. N :
           u[n] = IF u[n - 1] = NoThing THEN NoThing ELSE parent[u[n - 1]]
  BY <1>1 DEF UpFrom
<1> HIDE DEF N
<1>3. Within(x) \subseteq Things
  BY <1>1, <1>2
<1>4. ASSUME parent[x] = NoThing PROVE Within(x) = {x}
  <2> DEFINE Good == {n \in Nat : n # 0 /\ n <= N => u[n] = NoThing}
  <2>1. ASSUME NEW n \in Nat, \A m \in Nat : m < n => m \in Good
        PROVE  n \in Good
    <3> SUFFICES ASSUME n # 0, n <= N PROVE u[n] = NoThing
      OBVIOUS
    <3>1. n - 1 \in Nat /\ n - 1 < n /\ n - 1 <= N /\ n \in 1 .. N
      BY <1>0
    <3>2. n - 1 \in Good
      BY <2>1, <3>1
    <3>3. CASE n = 1
      BY <1>2, <1>4, <1>0, <3>1, <3>3
    <3>4. CASE n # 1
      BY <1>2, <3>1, <3>2, <3>4
    <3> QED
      BY <3>3, <3>4
  <2>2. \A n \in Nat : n \in Good
    <3>1. Good \in SUBSET Nat
      OBVIOUS
    <3> HIDE DEF Good
    <3> QED
      BY <2>1, <3>1, AllNumbers
  <2>3. \A n \in 0 .. N : u[n] = IF n = 0 THEN x ELSE NoThing
    BY <1>0, <1>2, <2>2
  <2>4. 0 \in 0 .. N
    BY <1>0
  <2> QED
    BY <1>0, <1>1, <2>3, <2>4
<1>5. ASSUME parent[x] # NoThing PROVE Within(x) = {x} \cup Within(parent[x])
  <2> DEFINE b == parent[x]
  <2>0. b \in Boxes /\ b \in Things
    BY <1>5 DEF Holders, Things
  <2>1. PICK v : UpFrom(v, b)
                 /\ Within(b) = {v[n] : n \in 0 .. N} \ {NoThing}
    BY <2>0, WithinIsChain DEF N
  <2>2. /\ v \in [0 .. N -> Things \cup {NoThing}] /\ v[0] = b
        /\ \A n \in 1 .. N :
           v[n] = IF v[n - 1] = NoThing THEN NoThing ELSE parent[v[n - 1]]
    BY <2>1 DEF UpFrom, N
  <2>3. v[N] = NoThing
    BY <2>0, <2>1, ChainEnds DEF N
  <2> DEFINE Good == {n \in Nat : n # 0 /\ n <= N => u[n] = v[n - 1]}
  <2>4. ASSUME NEW n \in Nat, \A m \in Nat : m < n => m \in Good
        PROVE  n \in Good
    <3> SUFFICES ASSUME n # 0, n <= N PROVE u[n] = v[n - 1]
      OBVIOUS
    <3>1. n - 1 \in Nat /\ n - 1 < n /\ n - 1 <= N /\ n \in 1 .. N
      BY <1>0
    <3>2. n - 1 \in Good
      BY <2>4, <3>1
    <3>3. CASE n = 1
      <4>1. u[1] = parent[u[0]]
        BY <1>0, <1>2, <3>1, <3>3
      <4> QED
        BY <1>2, <2>2, <3>3, <4>1
    <3>4. CASE n # 1
      <4> DEFINE k == n - 1
      <4>1. k \in 1 .. N /\ k - 1 \in 0 .. N /\ u[k] = v[k - 1]
        BY <1>0, <3>1, <3>2, <3>4
      <4> HIDE DEF b
      <4>2. v[k] = IF v[k - 1] = NoThing THEN NoThing ELSE parent[v[k - 1]]
        BY <2>2, <4>1
      <4>3. u[n] = IF u[k] = NoThing THEN NoThing ELSE parent[u[k]]
        BY <1>2, <3>1
      <4> QED
        BY <4>1, <4>2, <4>3
    <3> QED
      BY <3>3, <3>4
  <2>5. \A n \in Nat : n \in Good
    <3>1. Good \in SUBSET Nat
      OBVIOUS
    <3> HIDE DEF Good
    <3> QED
      BY <2>4, <3>1, AllNumbers
  <2>6. \A n \in 1 .. N : u[n] = v[n - 1]
    BY <1>0, <2>5
  <2> HIDE DEF b, Good
  <2>7. ASSUME NEW y \in Within(x) PROVE y \in {x} \cup Within(b)
    <3>1. PICK n \in 0 .. N : y = u[n] /\ y # NoThing
      BY <1>1
    <3>2. CASE n = 0
      BY <1>2, <3>1, <3>2
    <3>3. CASE n # 0
      <4>1. n \in 1 .. N /\ n - 1 \in 0 .. N
        BY <1>0, <3>3
      <4>2. y = v[n - 1]
        BY <2>6, <3>1, <4>1
      <4> QED
        BY <2>1, <3>1, <4>1, <4>2
    <3> QED
      BY <3>2, <3>3
  <2>8. ASSUME NEW y \in Within(b) PROVE y \in Within(x)
    <3>1. PICK n \in 0 .. N : y = v[n] /\ y # NoThing
      BY <2>1
    <3>2. n # N
      BY <2>3, <3>1
    <3>3. n + 1 \in 1 .. N /\ n + 1 \in 0 .. N /\ (n + 1) - 1 = n
      BY <1>0, <3>2
    <3>4. y = u[n + 1]
      BY <2>6, <3>1, <3>3
    <3> QED
      BY <1>1, <3>1, <3>3, <3>4
  <2>9. x \in Within(x)
    <3>1. 0 \in 0 .. N
      BY <1>0
    <3> QED
      BY <1>0, <1>1, <1>2, <3>1
  <2> QED
    BY <2>7, <2>8, <2>9 DEF b
<1> QED
  BY <1>3, <1>4, <1>5

Has(s, x) == \E i \in DOMAIN s : s[i] = x

OnceEach(s) == \A i, j \in DOMAIN s : s[i] = s[j] => i = j

\* An element is taken out of a sequence that has it once.
LEMMA FirstRemoved ==
    ASSUME NEW T, NEW s \in Seq(T), OnceEach(s), NEW x
    PROVE  /\ RemoveFirst(s, x) \in Seq(T)
           /\ OnceEach(RemoveFirst(s, x))
           /\ \A y : Has(RemoveFirst(s, x), y) <=> Has(s, y) /\ y # x
           /\ Len(RemoveFirst(s, x)) <= Len(s)
<1>1. CASE ~ Has(s, x)
  <2>1. RemoveFirst(s, x) = s
    BY <1>1 DEF RemoveFirst, Has
  <2> QED
    BY <1>1, <2>1
<1>2. CASE Has(s, x)
  <2> DEFINE I == {i \in 1 .. Len(s) : s[i] = x}
             k == Min(I)
             t == RemoveAt(s, k)
  <2>1. DOMAIN s = 1 .. Len(s) /\ Len(s) \in Nat
    OBVIOUS
  <2>2. PICK i \in 1 .. Len(s) : s[i] = x
    BY <1>2, <2>1 DEF Has
  <2>3. \A j \in 1 .. Len(s) : s[j] = x => j = i
    BY <2>1, <2>2 DEF OnceEach
  <2>4. I = {i}
    BY <2>2, <2>3
  <2>5. k = i
    BY <2>4 DEF Min
  <2>6. RemoveFirst(s, x) = t
    <3>1. \E j \in 1 .. Len(s) : s[j] = x
      BY <2>2
    <3>2. RemoveFirst(s, x) = RemoveAt(s, SelectInSeq(s, LAMBDA v : v = x))
      BY <3>1 DEF RemoveFirst
    <3>3. SelectInSeq(s, LAMBDA v : v = x) = k
      BY <2>4 DEF SelectInSeq
    <3> QED
      BY <3>2, <3>3
  <2> HIDE DEF I, k
  <2>7. /\ t \in Seq(T) /\ Len(t) = Len(s) - 1
        /\ \A j \in 1 .. Len(s) - 1 :
              t[j] = IF j < i THEN s[j] ELSE s[j + 1]
    BY <2>2, <2>5, RemovedFrom
  <2> HIDE DEF t
  <2>8. DOMAIN t = 1 .. Len(s) - 1
    BY <2>7
  <2>9. OnceEach(t)
    <3> SUFFICES ASSUME NEW m \in 1 .. Len(s) - 1, NEW n \in 1 .. Len(s) - 1,
                        t[m] = t[n]
                 PROVE  m = n
      BY <2>8 DEF OnceEach
    <3> DEFINE a == IF m < i THEN m ELSE m + 1
               b == IF n < i THEN n ELSE n + 1
    <3>1. a \in 1 .. Len(s) /\ b \in 1 .. Len(s) /\ s[a] = s[b]
      BY <2>1, <2>2, <2>7
    <3>2. a = b
      BY <2>1, <3>1 DEF OnceEach
    <3> QED
      BY <2>1, <2>2, <3>2
  <2>10. ASSUME NEW y PROVE Has(t, y) <=> Has(s, y) /\ y # x
    <3>1. ASSUME NEW m \in 1 .. Len(s) - 1 PROVE Has(s, t[m]) /\ t[m] # x
      <4> DEFINE a == IF m < i THEN m ELSE m + 1
      <4>1. a \in 1 .. Len(s) /\ t[m] = s[a] /\ a # i
        BY <2>1, <2>2, <2>7
      <4> HIDE DEF a
      <4> QED
        BY <2>1, <2>3, <4>1 DEF Has
    <3>2. ASSUME NEW m \in 1 .. Len(s), s[m] # x PROVE Has(t, s[m])
      <4> DEFINE a == IF m < i THEN m ELSE m - 1
      <4>1. m # i
        BY <2>2, <3>2
      <4>2. a \in 1 .. Len(s) - 1 /\ t[a] = s[m]
        BY <2>1, <2>2, <2>7, <4>1
      <4> HIDE DEF a
      <4> QED
        BY <2>8, <4>2 DEF Has
    <3> QED
      BY <2>1, <2>8, <3>1, <3>2 DEF Has
  <2> QED
    BY <2>1, <2>6, <2>7, <2>9, <2>10
<1> QED
  BY <1>1, <1>2

\* An element is put in front of a sequence that does not have it.
LEMMA FirstPut ==
    ASSUME NEW T, NEW s \in Seq(T), OnceEach(s), NEW x \in T, ~ Has(s, x)
    PROVE  /\ <<x>> \o s \in Seq(T)
           /\ OnceEach(<<x>> \o s)
           /\ \A y : Has(<<x>> \o s, y) <=> Has(s, y) \/ y = x
           /\ Len(<<x>> \o s) = Len(s) + 1
<1> DEFINE t == <<x>> \o s
<1>1. /\ t \in Seq(T) /\ Len(t) = Len(s) + 1 /\ Len(s) \in Nat
      /\ DOMAIN s = 1 .. Len(s) /\ DOMAIN t = 1 .. Len(s) + 1
  OBVIOUS
<1>2. t[1] = x /\ \A i \in 1 .. Len(s) : t[i + 1] = s[i]
  OBVIOUS
<1> HIDE DEF t
<1>3. \A i \in 1 .. Len(s) + 1 : i = 1 \/ (i - 1 \in 1 .. Len(s)
                                             /\ t[i] = s[i - 1])
  <2> TAKE i \in 1 .. Len(s) + 1
  <2>1. CASE i = 1
    BY <2>1
  <2>2. CASE i # 1
    <3> DEFINE j == i - 1
    <3>1. j \in 1 .. Len(s) /\ j + 1 = i
      BY <1>1, <2>2
    <3>2. t[j + 1] = s[j]
      BY <1>2, <3>1
    <3> QED
      BY <3>1, <3>2
  <2> QED
    BY <2>1, <2>2
<1>4. OnceEach(t)
  <2> SUFFICES ASSUME NEW i \in 1 .. Len(s) + 1, NEW j \in 1 .. Len(s) + 1,
                      t[i] = t[j]
               PROVE  i = j
    BY <1>1 DEF OnceEach
  <2>1. CASE i = 1 /\ j # 1
    BY <1>1, <1>2, <1>3, <2>1 DEF Has
  <2>2. CASE i # 1 /\ j = 1
    BY <1>1, <1>2, <1>3, <2>2 DEF Has
  <2>3. CASE i # 1 /\ j # 1
    <3>1. i - 1 = j - 1
      BY <1>1, <1>3, <2>3 DEF OnceEach
    <3> QED
      BY <3>1, <1>1
  <2> QED
    BY <2>1, <2>2, <2>3
<1>5. ASSUME NEW y PROVE Has(t, y) <=> Has(s, y) \/ y = x
  <2>1. ASSUME Has(t, y) PROVE Has(s, y) \/ y = x
    BY <1>1, <1>2, <1>3, <2>1 DEF Has
  <2>2. Has(t, x)
    <3>1. 1 \in DOMAIN t
      BY <1>1
    <3> QED
      BY <1>2, <3>1 DEF Has
  <2>3. ASSUME Has(s, y) PROVE Has(t, y)
    <3>1. PICK i \in 1 .. Len(s) : s[i] = y
      BY <1>1, <2>3 DEF Has
    <3>2. i + 1 \in DOMAIN t /\ t[i + 1] = y
      BY <1>1, <1>2, <3>1
    <3> QED
      BY <3>2 DEF Has
  <2> QED
    BY <2>1, <2>2, <2>3
<1> QED
  BY <1>1, <1>4, <1>5 DEF t

HeldStates == [list : [Boxes -> Seq(Things)], parent : [Things -> Holders],
         count : [Stacks -> 0 .. FullStack]]

(* Every list has what has its box as parent, once. *)
Listed(l, p) ==
    \A b \in Boxes :
        OnceEach(l[b]) /\ \A x \in Things : Has(l[b], x) <=> p[x] = b

(* What is in a container is in a root or in a container that is somewhere, *)
(* but for what is in y.                                                    *)
Rooted(p, y) ==
    /\ \A r \in Roots : p[r] = NoThing
    /\ \A x \in Things :
        p[x] # NoThing => p[x] \in Roots \/ p[p[x]] # NoThing \/ p[x] = y

FitsIn(l) == \A b \in Boxes \ {Locker} : Len(l[b]) <= Capacity

Shaped(w, y) ==
    /\ w \in HeldStates /\ Listed(w.list, w.parent)
    /\ Rooted(w.parent, y) /\ Ranked(w.parent) /\ FitsIn(w.list)

Counted(w) ==
    \A s \in Stacks : w.count[s] = 0 <=> w.parent[s] = NoThing

ContainersInv == Shaped(Now, NoThing) /\ Counted(Now)

\* What the fields of a state of containers are.
LEMMA FieldsOfKept ==
    ASSUME NEW w \in HeldStates
    PROVE  /\ w.list \in [Boxes -> Seq(Things)]
           /\ w.parent \in [Things -> Holders]
           /\ w.count \in [Stacks -> 0 .. FullStack]
BY DEF HeldStates

\* What erasing an item makes of the lists and parents.
LEMMA ErasedIs ==
    ASSUME NEW w, Shaped(w, NoThing), NEW x \in Things \ Roots,
           w.parent[x] # NoThing
    PROVE  /\ Shaped(Erased(w, x), x)
           /\ Erased(w, x).count = w.count
           /\ Erased(w, x).parent = [w.parent EXCEPT ![x] = NoThing]
           /\ \A b \in Boxes :
                Len(Erased(w, x).list[b]) <= Len(w.list[b])
<1> DEFINE p == w.parent
           l == w.list
           q == [p EXCEPT ![x] = NoThing]
           m == [l EXCEPT ![p[x]] = RemoveFirst(@, x)]
           v == Erased(w, x)
<1>0. /\ w \in HeldStates /\ l \in [Boxes -> Seq(Things)]
      /\ p \in [Things -> Holders] /\ p[x] \in Boxes
      /\ NoThing \notin Things
  BY FieldsOfKept, ContainersAssumption DEF Shaped, Holders, Things
<1>1. v = [w EXCEPT !.list = m, !.parent = q]
  BY DEF Erased
<1>2. /\ RemoveFirst(l[p[x]], x) \in Seq(Things)
      /\ OnceEach(RemoveFirst(l[p[x]], x))
      /\ \A y : Has(RemoveFirst(l[p[x]], x), y) <=> Has(l[p[x]], y) /\ y # x
      /\ Len(RemoveFirst(l[p[x]], x)) <= Len(l[p[x]])
  <2> DEFINE s == l[p[x]]
  <2>1. s \in Seq(Things) /\ OnceEach(s)
    BY <1>0 DEF Shaped, Listed
  <2> HIDE DEF s
  <2>2. /\ RemoveFirst(s, x) \in Seq(Things)
        /\ OnceEach(RemoveFirst(s, x))
        /\ \A y : Has(RemoveFirst(s, x), y) <=> Has(s, y) /\ y # x
        /\ Len(RemoveFirst(s, x)) <= Len(s)
    BY <2>1, FirstRemoved
  <2> QED
    BY <2>2 DEF s
<1> DEFINE t == RemoveFirst(l[p[x]], x)
<1>3. /\ m \in [Boxes -> Seq(Things)] /\ q \in [Things -> Holders]
      /\ m[p[x]] = t /\ \A b \in Boxes \ {p[x]} : m[b] = l[b]
      /\ q[x] = NoThing /\ \A y \in Things \ {x} : q[y] = p[y]
  <2> HIDE DEF t
  <2>1. m = [l EXCEPT ![p[x]] = t]
    BY DEF t
  <2>2. t \in Seq(Things)
    BY <1>2 DEF t
  <2> QED
    BY <1>0, <2>1, <2>2 DEF Holders
<1> HIDE DEF m, q, t
<1>4. v \in HeldStates /\ v.list = m /\ v.parent = q /\ v.count = w.count
  <2> HIDE DEF v, p, l
  <2> QED
    BY <1>0, <1>1, <1>3 DEF HeldStates
<1>5. /\ t \in Seq(Things) /\ OnceEach(t)
      /\ \A y : Has(t, y) <=> Has(l[p[x]], y) /\ y # x
      /\ Len(t) <= Len(l[p[x]])
  BY <1>2 DEF t
<1>6. /\ Listed(l, p) /\ Rooted(p, NoThing) /\ Ranked(p) /\ FitsIn(l)
  BY DEF Shaped
<1> HIDE DEF p, l
<1>7. Listed(m, q)
  <2> SUFFICES ASSUME NEW b \in Boxes
               PROVE  OnceEach(m[b])
                      /\ \A y \in Things : Has(m[b], y) <=> q[y] = b
    BY DEF Listed
  <2>1. OnceEach(l[b]) /\ \A y \in Things : Has(l[b], y) <=> p[y] = b
    BY <1>6 DEF Listed
  <2>2. b # NoThing
    BY ContainersAssumption
  <2>3. CASE b = p[x]
    BY <1>3, <1>5, <2>1, <2>2, <2>3
  <2>4. CASE b # p[x]
    BY <1>3, <2>1, <2>2, <2>4
  <2> QED
    BY <2>3, <2>4
<1>8. Rooted(q, x)
  <2>1. \A r \in Roots : q[r] = NoThing
    BY <1>3, <1>6, ContainersAssumption DEF Rooted, Things
  <2>2. ASSUME NEW y \in Things, q[y] # NoThing
        PROVE  q[y] \in Roots \/ q[q[y]] # NoThing \/ q[y] = x
    <3>1. y # x /\ q[y] = p[y] /\ p[y] \in Things
      BY <1>0, <1>3, <2>2 DEF Holders, Things
    <3>2. p[y] \in Roots \/ p[p[y]] # NoThing
      BY <1>0, <1>6, <2>2, <3>1 DEF Rooted
    <3> QED
      BY <1>3, <3>1, <3>2
  <2> QED
    BY <2>1, <2>2 DEF Rooted
<1>9. Ranked(q)
  <2>1. PICK rank \in [Things -> Nat] : Ordered(p, rank)
    BY <1>6 DEF Ranked
  <2>2. Ordered(q, rank)
    BY <1>3, <2>1 DEF Ordered
  <2> QED
    BY <2>1, <2>2 DEF Ranked
<1>10. \A b \in Boxes : Len(m[b]) <= Len(l[b]) /\ Len(m[b]) \in Nat
                        /\ Len(l[b]) \in Nat
  <2> TAKE b \in Boxes
  <2>1. l[b] \in Seq(Things) /\ m[b] \in Seq(Things)
    BY <1>0, <1>3
  <2>2. Len(l[b]) \in Nat /\ Len(m[b]) \in Nat
    BY <2>1
  <2>3. CASE b = p[x]
    BY <1>3, <1>5, <2>2, <2>3
  <2>4. CASE b # p[x]
    BY <1>3, <2>2, <2>4
  <2> QED
    BY <2>2, <2>3, <2>4
<1>11. FitsIn(m)
  BY <1>6, <1>10, ContainersAssumption DEF FitsIn
<1>12. Shaped(v, x)
  <2> HIDE DEF v
  <2> QED
    BY <1>4, <1>7, <1>8, <1>9, <1>11 DEF Shaped
<1> QED
  BY <1>4, <1>10, <1>12 DEF q, l, p

(* S has x and all that is below it. *)
BelowIs(S, x, p) ==
    /\ x \in S /\ S \subseteq Things
    /\ \A y \in Things \ {x} : p[y] # NoThing => (y \in S <=> p[y] \in S)

(* w with x in front of the list of b, and counts c *)
Put(w, x, b, c) ==
    [w EXCEPT !.list[b] = <<x>> \o @, !.parent[x] = b, !.count = c]

(* x, and S that is below it, may be put into b. *)
MayPut(w, x, b, S, c) ==
    /\ x \in Things \ Roots /\ Shaped(w, x) /\ w.parent[x] = NoThing
    /\ b \in Boxes /\ (b \in Roots \/ w.parent[b] # NoThing)
    /\ b = Locker \/ Len(w.list[b]) < Capacity
    /\ BelowIs(S, x, w.parent) /\ b \notin S
    /\ c \in [Stacks -> 0 .. FullStack]

IsPut(v, w, x, b, c) ==
    /\ Shaped(v, NoThing) /\ v.count = c
    /\ v.parent = [w.parent EXCEPT ![x] = b]

\* What putting an item in front of a list makes of lists and parents.
LEMMA PutIs ==
    ASSUME NEW w, NEW x, NEW b, NEW S, NEW c, MayPut(w, x, b, S, c)
    PROVE  IsPut(Put(w, x, b, c), w, x, b, c)
<1> DEFINE v == Put(w, x, b, c)
<1>a. /\ x \in Things \ Roots /\ Shaped(w, x) /\ w.parent[x] = NoThing
      /\ b \in Boxes /\ (b \in Roots \/ w.parent[b] # NoThing)
      /\ b = Locker \/ Len(w.list[b]) < Capacity
      /\ BelowIs(S, x, w.parent) /\ b \notin S
      /\ c \in [Stacks -> 0 .. FullStack]
  BY DEF MayPut
<1> DEFINE p == w.parent
           l == w.list
           q == [p EXCEPT ![x] = b]
           t == <<x>> \o l[b]
           m == [l EXCEPT ![b] = t]
<1> HIDE DEF v
<1>0. /\ w \in HeldStates /\ l \in [Boxes -> Seq(Things)]
      /\ p \in [Things -> Holders]
      /\ NoThing \notin Things /\ b # NoThing /\ b \in Things /\ b # x
  <2>1. w \in HeldStates
    BY <1>a DEF Shaped
  <2>2. NoThing \notin Things /\ b # NoThing /\ b \in Things
    BY <1>a, ContainersAssumption DEF Things
  <2>3. b # x
    BY <1>a DEF BelowIs
  <2> QED
    BY <1>a, <2>1, <2>2, <2>3, FieldsOfKept
<1>1. v = [w EXCEPT !.list = m, !.parent = q, !.count = c]
  BY DEF Put, v
<1>2. /\ Listed(l, p) /\ Rooted(p, x) /\ Ranked(p) /\ FitsIn(l)
  BY <1>a DEF Shaped
<1>3. /\ t \in Seq(Things) /\ OnceEach(t)
      /\ \A y : Has(t, y) <=> Has(l[b], y) \/ y = x
      /\ Len(t) = Len(l[b]) + 1
  <2> DEFINE s == l[b]
  <2>1. s \in Seq(Things) /\ OnceEach(s) /\ ~ Has(s, x)
    BY <1>a, <1>0, <1>2 DEF Listed
  <2> HIDE DEF s
  <2>2. /\ <<x>> \o s \in Seq(Things)
        /\ OnceEach(<<x>> \o s)
        /\ \A y : Has(<<x>> \o s, y) <=> Has(s, y) \/ y = x
        /\ Len(<<x>> \o s) = Len(s) + 1
    BY <1>a, <2>1, FirstPut
  <2> QED
    BY <1>a, <2>2 DEF s
<1> HIDE DEF t
<1>4. /\ m \in [Boxes -> Seq(Things)] /\ q \in [Things -> Holders]
      /\ m[b] = t /\ \A a \in Boxes \ {b} : m[a] = l[a]
      /\ q[x] = b /\ \A y \in Things \ {x} : q[y] = p[y]
  BY <1>a, <1>0, <1>3 DEF Holders
<1> HIDE DEF m, q
<1>5. v \in HeldStates /\ v.list = m /\ v.parent = q /\ v.count = c
  <2> HIDE DEF p, l
  <2> QED
    BY <1>a, <1>0, <1>1, <1>4 DEF HeldStates
<1> HIDE DEF p, l
<1>6. Listed(m, q)
  <2> SUFFICES ASSUME NEW a \in Boxes
               PROVE  OnceEach(m[a])
                      /\ \A y \in Things : Has(m[a], y) <=> q[y] = a
    BY <1>a DEF Listed
  <2>1. OnceEach(l[a]) /\ \A y \in Things : Has(l[a], y) <=> p[y] = a
    BY <1>a, <1>2 DEF Listed
  <2>2. a # NoThing /\ p[x] = NoThing
    BY <1>a, ContainersAssumption DEF p
  <2>3. CASE a = b
    BY <1>a, <1>3, <1>4, <2>1, <2>3
  <2>4. CASE a # b
    BY <1>a, <1>4, <2>1, <2>2, <2>4
  <2> QED
    BY <1>a, <2>3, <2>4
<1>7. Rooted(q, NoThing)
  <2>1. \A r \in Roots : q[r] = NoThing
    BY <1>a, <1>2, <1>4, ContainersAssumption DEF Rooted, Things
  <2>2. ASSUME NEW y \in Things, q[y] # NoThing
        PROVE  q[y] \in Roots \/ q[q[y]] # NoThing
    <3>1. CASE y = x
      <4>1. q[y] = b /\ q[b] = p[b]
        BY <1>a, <1>0, <1>4, <3>1
      <4> QED
        BY <1>a, <4>1 DEF p
    <3>2. CASE y # x
      <4>1. q[y] = p[y] /\ p[y] \in Things
        BY <1>a, <1>0, <1>4, <2>2, <3>2 DEF Holders, Things
      <4>2. p[y] \in Roots \/ p[p[y]] # NoThing \/ p[y] = x
        BY <1>a, <1>2, <2>2, <4>1 DEF Rooted
      <4>3. q[x] # NoThing
        BY <1>a, <1>0, <1>4
      <4> QED
        BY <1>a, <1>4, <4>1, <4>2, <4>3
    <3> QED
      BY <1>a, <3>1, <3>2
  <2> QED
    BY <1>a, <2>1, <2>2 DEF Rooted
<1>8. Ranked(q)
  <2>1. PICK rank \in [Things -> Nat] : Ordered(p, rank)
    BY <1>a, <1>2 DEF Ranked
  <2> DEFINE top == [y \in Things |-> IF y \in S THEN rank[y] + rank[b] + 1
                                      ELSE rank[y]]
  <2>2. top \in [Things -> Nat]
    BY <1>a, <1>0, <2>1
  <2>3. ASSUME NEW y \in Things, q[y] # NoThing
        PROVE  top[q[y]] < top[y]
    <3>0. rank[y] \in Nat /\ rank[b] \in Nat
      BY <1>a, <1>0, <2>1
    <3>1. CASE y = x
      <4>1. q[y] = b /\ y \in S
        BY <1>a, <1>4, <3>1 DEF BelowIs
      <4> QED
        BY <1>a, <1>0, <3>0, <4>1
    <3>2. CASE y # x
      <4>1. q[y] = p[y] /\ p[y] \in Things /\ y \in Things \ {x}
        BY <1>a, <1>0, <1>4, <2>3, <3>2 DEF Holders, Things
      <4>2. y \in S <=> p[y] \in S
        BY <1>a, <2>3, <4>1 DEF BelowIs, p
      <4>3. rank[p[y]] < rank[y] /\ rank[p[y]] \in Nat
        BY <1>a, <2>1, <2>3, <4>1 DEF Ordered
      <4> QED
        BY <1>a, <3>0, <4>1, <4>2, <4>3
    <3> QED
      BY <1>a, <3>1, <3>2
  <2>4. Ordered(q, top)
    <3> HIDE DEF top
    <3> QED
      BY <1>a, <2>3 DEF Ordered
  <2> HIDE DEF top
  <2> QED
    BY <1>a, <2>2, <2>4 DEF Ranked
<1>9. FitsIn(m)
  <2>1. ASSUME NEW a \in Boxes \ {Locker} PROVE Len(m[a]) <= Capacity
    <3>0. Len(l[a]) \in Nat /\ Len(l[a]) <= Capacity /\ Capacity \in Nat
      BY <1>a, <1>0, <1>2, ContainersAssumption DEF FitsIn
    <3>1. CASE a = b
      <4>1. Len(l[a]) < Capacity
        BY <1>a, <3>1 DEF l
      <4> QED
        BY <1>a, <1>3, <1>4, <3>0, <3>1, <4>1
    <3>2. CASE a # b
      BY <1>a, <1>4, <3>0, <3>2
    <3> QED
      BY <1>a, <3>1, <3>2
  <2> QED
    BY <1>a, <2>1 DEF FitsIn
<1>10. Shaped(v, NoThing)
  BY <1>a, <1>5, <1>6, <1>7, <1>8, <1>9 DEF Shaped
<1> QED
  BY <1>5, <1>10 DEF q, p, v, IsPut

(* e is c with n at s. *)
CountIs(c, e, s, n) == e = [c EXCEPT ![s] = n]

Recount(w, c) == [w EXCEPT !.count = c]

Refilled(w, s, n) == [w EXCEPT !.count[s] = @ + n]

\* Other counts do not change the shape.
LEMMA Recounted ==
    ASSUME NEW w, NEW y, Shaped(w, y), NEW c \in [Stacks -> 0 .. FullStack],
           NEW v, v = Recount(w, c)
    PROVE  Shaped(v, y) /\ v.list = w.list /\ v.parent = w.parent
           /\ v.count = c
<1>1. w \in HeldStates
  BY DEF Shaped
<1>2. /\ v \in HeldStates /\ v.list = w.list /\ v.parent = w.parent
      /\ v.count = c
  BY <1>1 DEF HeldStates, Recount
<1> QED
  BY <1>2 DEF Shaped

(* Where things can be put *)
Placed(p, b) == b \in Boxes /\ (b \in Roots \/ p[b] # NoThing)

\* Facts about kinds of things.
LEMMA Kinds ==
    /\ Roots \subseteq Boxes /\ Boxes \subseteq Things
    /\ Stacks \subseteq Things /\ Locker \in Boxes
    /\ NoThing \notin Things /\ \A s \in Stacks : s \notin Boxes
    /\ FullStack \in Nat \ {0} /\ Capacity \in Nat \ {0}
    /\ \A x \in Things : x \in Boxes \/ x \in Stacks
BY ContainersAssumption DEF Things

\* Taking pieces from a stack, or the stack as a whole.
LEMMA StackRemoved ==
    ASSUME NEW w, Shaped(w, NoThing), Counted(w), NEW s \in Stacks,
           w.parent[s] # NoThing, NEW m \in 1 .. w.count[s],
           NEW v, v = RemoveThing(w, s, m)
    PROVE  /\ Shaped(v, NoThing) /\ Counted(v)
           /\ CountIs(w.count, v.count, s, w.count[s] - m)
           /\ \A y \in Things \ {s} : v.parent[y] = w.parent[y]
           /\ \A b \in Boxes : Len(v.list[b]) <= Len(w.list[b])
<1> DEFINE c == [w.count EXCEPT ![s] = w.count[s] - m]
<1>0. /\ w \in HeldStates /\ w.list \in [Boxes -> Seq(Things)]
      /\ w.parent \in [Things -> Holders]
      /\ w.count \in [Stacks -> 0 .. FullStack]
  BY FieldsOfKept DEF Shaped
<1>1. w.count[s] \in 0 .. FullStack /\ m \in Nat /\ 1 <= m
      /\ m <= w.count[s]
  BY <1>0
<1>2. /\ c \in [Stacks -> 0 .. FullStack] /\ c[s] = w.count[s] - m
      /\ \A t \in Stacks \ {s} : c[t] = w.count[t]
  BY <1>0, <1>1, Kinds
<1>3. CASE m < w.count[s]
  <2>1. v = Recount(w, c)
    BY <1>3 DEF RemoveThing, Recount
  <2> HIDE DEF c
  <2>2. /\ Shaped(v, NoThing) /\ v.list = w.list /\ v.parent = w.parent
        /\ v.count = c
    BY <1>2, <2>1, Recounted
  <2>3. c[s] # 0
    BY <1>1, <1>2, <1>3
  <2>4. Counted(v)
    BY <1>2, <2>2, <2>3 DEF Counted
  <2>5. \A b \in Boxes : Len(w.list[b]) <= Len(w.list[b])
    <3> TAKE b \in Boxes
    <3>1. w.list[b] \in Seq(Things)
      BY <1>0
    <3>2. Len(w.list[b]) \in Nat
      BY <3>1
    <3> QED
      BY <3>2
  <2> QED
    BY <2>2, <2>4, <2>5 DEF c, CountIs
<1>4. CASE ~ (m < w.count[s])
  <2> DEFINE u == Erased(w, s)
  <2>0. s \in Things \ Roots
    BY Kinds
  <2>1. /\ Shaped(u, s) /\ u.count = w.count
        /\ u.parent = [w.parent EXCEPT ![s] = NoThing]
        /\ \A b \in Boxes : Len(u.list[b]) <= Len(w.list[b])
    BY <2>0, ErasedIs
  <2>2. c[s] = 0
    BY <1>1, <1>2, <1>4
  <2>3. v = [u EXCEPT !.count[s] = 0]
    BY <1>4 DEF RemoveThing
  <2> HIDE DEF u
  <2>4. [u.count EXCEPT ![s] = 0] = c
    BY <1>0, <1>1, <1>2, <2>1, <2>2
  <2>5. v = Recount(u, c)
    BY <2>3, <2>4 DEF Recount
  <2> HIDE DEF c
  <2>6. /\ Shaped(v, s) /\ v.list = u.list /\ v.parent = u.parent
        /\ v.count = c
    BY <1>2, <2>1, <2>5, Recounted
  <2>7. /\ v.parent[s] = NoThing
        /\ \A y \in Things \ {s} : v.parent[y] = w.parent[y]
    BY <1>0, <2>0, <2>1, <2>6
  <2>8. Counted(v)
    BY <1>2, <2>2, <2>6, <2>7, Kinds DEF Counted
  <2>9. Rooted(v.parent, NoThing)
    <3>1. Rooted(v.parent, s) /\ v \in HeldStates
      BY <2>6 DEF Shaped
    <3>2. v.parent \in [Things -> Holders]
      BY <3>1, FieldsOfKept
    <3>3. \A y \in Things : v.parent[y] # s
      BY <3>2, Kinds DEF Holders
    <3> QED
      BY <3>1, <3>3 DEF Rooted
  <2>10. Shaped(v, NoThing)
    BY <2>6, <2>9 DEF Shaped
  <2> QED
    BY <2>1, <2>6, <2>7, <2>8, <2>10 DEF c, CountIs
<1> QED
  BY <1>3, <1>4

\* Pieces that are merged with a stack.
LEMMA StackFilled ==
    ASSUME NEW w, Shaped(w, NoThing), Counted(w), NEW s \in Stacks,
           w.parent[s] # NoThing, NEW n \in Nat,
           w.count[s] + n <= FullStack,
           NEW v, v = Refilled(w, s, n)
    PROVE  /\ Shaped(v, NoThing) /\ Counted(v)
           /\ CountIs(w.count, v.count, s, w.count[s] + n)
           /\ v.parent = w.parent /\ v.list = w.list
<1> DEFINE c == [w.count EXCEPT ![s] = w.count[s] + n]
<1>0. /\ w \in HeldStates /\ w.count \in [Stacks -> 0 .. FullStack]
  BY FieldsOfKept DEF Shaped
<1>1. w.count[s] \in 0 .. FullStack /\ w.count[s] # 0
  BY <1>0 DEF Counted
<1>2. /\ c \in [Stacks -> 0 .. FullStack] /\ c[s] = w.count[s] + n
      /\ \A t \in Stacks \ {s} : c[t] = w.count[t]
  BY <1>0, <1>1, Kinds
<1>3. v = Recount(w, c)
  BY DEF Refilled, Recount
<1> HIDE DEF c
<1>4. /\ Shaped(v, NoThing) /\ v.list = w.list /\ v.parent = w.parent
      /\ v.count = c
  BY <1>2, <1>3, Recounted
<1>5. Counted(v)
  BY <1>1, <1>2, <1>4 DEF Counted
<1> QED
  BY <1>4, <1>5 DEF c, CountIs

\* A new stack that is put in front.
LEMMA StackAdded ==
    ASSUME NEW w, Shaped(w, NoThing), Counted(w), MayClone(w),
           NEW b, Placed(w.parent, b),
           b = Locker \/ Len(w.list[b]) < Capacity,
           NEW index, ~ (index >= Capacity), NEW k \in 1 .. FullStack,
           NEW v, v = AddThing(w, b, index, Fresh(w), k)
    PROVE  /\ Shaped(v, NoThing) /\ Counted(v)
           /\ Fresh(w) \in Stacks /\ w.count[Fresh(w)] = 0
           /\ CountIs(w.count, v.count, Fresh(w), k)
<1> DEFINE s == Fresh(w)
           c == [w.count EXCEPT ![s] = k]
<1>1. s \in Stacks /\ w.parent[s] = NoThing
  BY DEF MayClone, Fresh
<1> HIDE DEF s
<1>2. w.count[s] = 0
  BY <1>1 DEF Counted
<1>3. /\ w \in HeldStates /\ w.count \in [Stacks -> 0 .. FullStack]
      /\ w.parent \in [Things -> Holders] /\ Rooted(w.parent, NoThing)
  BY FieldsOfKept DEF Shaped
<1>4. c \in [Stacks -> 0 .. FullStack] /\ c[s] = k
      /\ \A t \in Stacks \ {s} : c[t] = w.count[t]
  BY <1>1, <1>3
<1>5. v = Put(w, s, b, c)
  BY <1>1 DEF AddThing, Put, s
<1> HIDE DEF c
<1>6. s \in Things \ Roots
  BY <1>1, Kinds
<1>7. Shaped(w, s)
  BY <1>3 DEF Shaped, Rooted
<1>8. BelowIs({s}, s, w.parent)
  <2>1. ASSUME NEW y \in Things \ {s}
        PROVE  y \notin {s} /\ w.parent[y] \notin {s}
    BY <1>1, <1>3, Kinds DEF Holders
  <2> QED
    BY <1>6, <2>1 DEF BelowIs
<1>9. b \in Boxes /\ (b \in Roots \/ w.parent[b] # NoThing) /\ b \notin {s}
  BY <1>1, Kinds DEF Placed
<1>10. /\ Shaped(v, NoThing) /\ v.count = c
       /\ v.parent = [w.parent EXCEPT ![s] = b]
  <2>1. MayPut(w, s, b, {s}, c)
    BY <1>1, <1>4, <1>6, <1>7, <1>8, <1>9 DEF MayPut
  <2>2. IsPut(v, w, s, b, c)
    BY <1>5, <2>1, PutIs
  <2> QED
    BY <2>2 DEF IsPut
<1>11. Counted(v)
  <2>1. v.parent[s] = b /\ \A y \in Things \ {s} : v.parent[y] = w.parent[y]
    BY <1>3, <1>6, <1>10
  <2>2. b # NoThing /\ k # 0
    BY <1>9, Kinds
  <2> QED
    BY <1>4, <1>6, <1>10, <2>1, <2>2, Kinds DEF Counted
<1> QED
  BY <1>1, <1>2, <1>10, <1>11 DEF s, c, CountIs

\* What is below an item.
LEMMA BelowAnItem ==
    ASSUME parent \in [Things -> Holders], Ranked(parent), NEW x \in Things,
           NEW p, \A y \in Things \ {x} : p[y] = parent[y]
    PROVE  BelowIs({y \in Things : x \in Within(y)}, x, p)
<1> DEFINE S == {y \in Things : x \in Within(y)}
<1>1. x \in S
  BY WithinIs
<1>2. ASSUME NEW y \in Things \ {x}, p[y] # NoThing
      PROVE  y \in S <=> p[y] \in S
  <2>1. p[y] = parent[y] /\ parent[y] \in Things
    BY <1>2, Kinds DEF Holders
  <2>2. Within(y) = {y} \cup Within(parent[y])
    BY <1>2, <2>1, WithinIs
  <2> QED
    BY <1>2, <2>1, <2>2
<1> QED
  BY <1>1, <1>2 DEF BelowIs

\* A container is put in front.
LEMMA BoxAdded ==
    ASSUME ContainersInv, NEW x \in Boxes \ Roots, NEW b, Placed(parent, b),
           x \notin Within(b),
           NEW w, Shaped(w, x), w.parent = [parent EXCEPT ![x] = NoThing],
           w.count = itemCount,
           b = Locker \/ Len(w.list[b]) < Capacity,
           NEW index, ~ (index >= Capacity),
           NEW v, v = AddThing(w, b, index, x, 1)
    PROVE  Shaped(v, NoThing) /\ Counted(v) /\ v.count = itemCount
<1>0. /\ Now \in HeldStates /\ Ranked(parent) /\ Counted(Now)
      /\ Now.parent = parent /\ Now.count = itemCount
  BY DEF ContainersInv, Shaped, Now
<1>1. /\ parent \in [Things -> Holders]
      /\ itemCount \in [Stacks -> 0 .. FullStack]
  BY <1>0, FieldsOfKept
<1> DEFINE S == {y \in Things : x \in Within(y)}
<1>2. x \in Things \ Roots /\ x \notin Stacks
  BY Kinds
<1>3. /\ w.parent[x] = NoThing
      /\ \A y \in Things \ {x} : w.parent[y] = parent[y]
  BY <1>1, <1>2
<1>4. BelowIs(S, x, w.parent)
  BY <1>0, <1>1, <1>2, <1>3, BelowAnItem
<1>5. b \in Things /\ b \notin S /\ b # x
  <2>1. b \in Boxes /\ x \in S
    BY <1>4 DEF Placed, BelowIs
  <2> QED
    BY <2>1, Kinds
<1>6. b \in Boxes /\ (b \in Roots \/ w.parent[b] # NoThing)
  BY <1>3, <1>5 DEF Placed
<1>7. v = Put(w, x, b, itemCount)
  <2>1. w \in HeldStates
    BY DEF Shaped
  <2> QED
    BY <1>2, <2>1 DEF AddThing, HeldStates, Put
<1> HIDE DEF S
<1>8. /\ Shaped(v, NoThing) /\ v.count = itemCount
      /\ v.parent = [w.parent EXCEPT ![x] = b]
  <2>1. MayPut(w, x, b, S, itemCount)
    BY <1>1, <1>2, <1>3, <1>4, <1>5, <1>6 DEF MayPut
  <2>2. IsPut(v, w, x, b, itemCount)
    BY <1>7, <2>1, PutIs
  <2> QED
    BY <2>2 DEF IsPut
<1>9. w.parent \in [Things -> Holders]
  BY FieldsOfKept DEF Shaped
<1>10. \A s \in Stacks : v.parent[s] = parent[s]
  BY <1>2, <1>3, <1>8, <1>9, Kinds
<1>11. Counted(v)
  BY <1>0, <1>8, <1>10 DEF Counted
<1> QED
  BY <1>8, <1>11

\* What the invariant says of the variables.
LEMMA InvFacts ==
    ASSUME ContainersInv
    PROVE  /\ itemlist \in [Boxes -> Seq(Things)]
           /\ parent \in [Things -> Holders]
           /\ itemCount \in [Stacks -> 0 .. FullStack]
           /\ Listed(itemlist, parent) /\ Rooted(parent, NoThing)
           /\ Ranked(parent) /\ FitsIn(itemlist)
           /\ \A s \in Stacks : itemCount[s] = 0 <=> parent[s] = NoThing
<1>1. /\ Now.list = itemlist /\ Now.parent = parent /\ Now.count = itemCount
  BY DEF Now
<1>2. Shaped(Now, NoThing) /\ Counted(Now)
  BY DEF ContainersInv
<1> QED
  BY <1>1, <1>2, FieldsOfKept DEF Shaped, Counted

\* The invariant of what the variables become.
LEMMA InvNext ==
    ASSUME NEW w, Shaped(w, NoThing), Counted(w), Becomes(w)
    PROVE  ContainersInv'
<1>1. Now' = w
  <2>1. w \in HeldStates
    BY DEF Shaped
  <2>2. w = [list |-> w.list, parent |-> w.parent, count |-> w.count]
    BY <2>1 DEF HeldStates
  <2> QED
    BY <2>2 DEF Becomes, Now
<1>2. Shaped(Now', NoThing) /\ Counted(Now')
  BY <1>1
<1> QED
  BY <1>2 DEF ContainersInv, Shaped, Counted

\* What is at an index of a container is in it.
LEMMA AtIsIn ==
    ASSUME ContainersInv, NEW b \in Boxes, NEW index \in Int
    PROVE  /\ At(b, index) \in Things \cup {NoThing}
           /\ At(b, index) \in Things => parent[At(b, index)] = b
<1>1. /\ itemlist[b] \in Seq(Things) /\ Listed(itemlist, parent)
  BY InvFacts
<1>2. CASE index \in 0 .. Size(b) - 1
  <2> DEFINE i == index + 1
  <2>1. i \in DOMAIN itemlist[b] /\ At(b, index) = itemlist[b][i]
    BY <1>1, <1>2 DEF At, Size
  <2> HIDE DEF i
  <2>2. itemlist[b][i] \in Things /\ Has(itemlist[b], itemlist[b][i])
    BY <1>1, <2>1 DEF Has
  <2> QED
    BY <1>1, <2>1, <2>2 DEF Listed
<1>3. CASE ~ (index \in 0 .. Size(b) - 1)
  BY <1>3, Kinds DEF At
<1> QED
  BY <1>2, <1>3

\* The first stack with room is at an index of the container.
LEMMA FirstRoomIs ==
    ASSUME ContainersInv, NEW b \in Boxes, NEW x
    PROVE  \/ FirstRoom(b, x) = Wherever
           \/ FirstRoom(b, x) \in 0 .. Size(b) - 1
<1> DEFINE fit == {i \in DOMAIN itemlist[b] :
                    itemlist[b][i] # x /\ Fillable(itemlist[b][i])}
           k == CHOOSE i \in fit : \A j \in fit : i <= j
<1>1. itemlist[b] \in Seq(Things)
  BY InvFacts
<1>2. DOMAIN itemlist[b] = 1 .. Size(b) /\ Size(b) \in Nat
  BY <1>1 DEF Size
<1>3. CASE fit = {}
  BY <1>3 DEF FirstRoom
<1>4. CASE fit # {}
  <2>1. fit \subseteq Nat /\ fit \subseteq 1 .. Size(b)
    BY <1>2
  <2>2. FirstRoom(b, x) = k - 1
    BY <1>4 DEF FirstRoom
  <2> HIDE DEF fit
  <2>3. \E m \in fit : \A j \in fit : m <= j
    BY <1>4, <2>1, HasLeast
  <2>4. k \in fit
    BY <2>3
  <2> HIDE DEF k
  <2>5. k - 1 \in 0 .. Size(b) - 1
    BY <1>2, <2>1, <2>4
  <2> QED
    BY <2>2, <2>5
<1> QED
  BY <1>3, <1>4

(* Where x may go *)
Destination(d, x) ==
    /\ Placed(parent, d.box)
    /\ d.index \in Int /\ d.index >= Wherever
    /\ d.item = At(d.box, d.index)
    /\ d.index >= Capacity => x \in Stacks /\ d.index < Size(d.box)

\* Going to stacks of the same container keeps the place.
LEMMA StackedIs ==
    ASSUME ContainersInv, NEW b, Placed(parent, b), NEW x \in Things,
           NEW index \in Int, index >= Wherever, index < Capacity
    PROVE  Destination(Stacked(b, index, x), x)
           /\ Stacked(b, index, x).box = b
<1>1. b \in Boxes /\ Size(b) \in Nat /\ Capacity \in Nat
  <2>1. b \in Boxes /\ itemlist[b] \in Seq(Things)
    BY InvFacts DEF Placed
  <2> QED
    BY <2>1, Kinds DEF Size
<1>2. CASE x \notin Stacks \/ parent[x] = b \/ Fillable(At(b, index))
              \/ FirstRoom(b, x) = Wherever
  <2>1. Stacked(b, index, x) = Place(b, index, At(b, index))
    BY <1>2 DEF Stacked
  <2> QED
    BY <1>1, <2>1 DEF Place, Destination
<1>3. CASE ~ (x \notin Stacks \/ parent[x] = b \/ Fillable(At(b, index))
              \/ FirstRoom(b, x) = Wherever)
  <2> DEFINE fit == FirstRoom(b, x)
  <2>1. Stacked(b, index, x) = Place(b, fit, At(b, fit))
    BY <1>3 DEF Stacked
  <2>2. fit \in 0 .. Size(b) - 1 /\ x \in Stacks
    BY <1>1, <1>3, FirstRoomIs
  <2> HIDE DEF fit
  <2> QED
    BY <1>1, <2>1, <2>2 DEF Place, Destination, Wherever
<1> QED
  BY <1>2, <1>3

\* Where a query leads is a place.
LEMMA DestinationIs ==
    ASSUME ContainersInv, NEW b, Placed(parent, b), NEW x \in Things,
           NEW index \in Indices
    PROVE  Destination(QueryDestination(b, index, x), x)
<1> DEFINE d == QueryDestination(b, index, x)
<1>0. /\ b \in Boxes /\ b \in Things /\ Capacity \in Nat \ {0}
      /\ parent \in [Things -> Holders] /\ Rooted(parent, NoThing)
      /\ itemlist \in [Boxes -> Seq(Things)]
  BY InvFacts, Kinds DEF Placed
<1>1. index \in Int /\ index >= Wherever
  BY <1>0 DEF Indices, Wherever, Up
<1>2. CASE index = Up
  <2>1. CASE parent[b] = NoThing
    <3>1. d = Place(b, Wherever, NoThing)
      BY <1>2, <2>1 DEF QueryDestination
    <3>2. At(b, Wherever) = NoThing
      <4>1. ~ (Wherever \in 0 .. Size(b) - 1)
        BY DEF Wherever
      <4> QED
        BY <4>1 DEF At
    <3> QED
      BY <1>0, <3>1, <3>2 DEF Place, Destination, Wherever
  <2>2. CASE parent[b] # NoThing
    <3>1. d = Stacked(parent[b], Wherever, x)
      BY <1>2, <2>2 DEF QueryDestination
    <3>2. Placed(parent, parent[b])
      BY <1>0, <2>2, Kinds DEF Placed, Rooted, Holders
    <3>3. Wherever \in Int /\ Wherever >= Wherever /\ Wherever < Capacity
      BY <1>0 DEF Wherever
    <3> QED
      BY <3>1, <3>2, <3>3, StackedIs
  <2> QED
    BY <2>1, <2>2
<1>3. CASE index # Up /\ At(b, index) \in Boxes /\ index < Capacity
  <2>1. d = Stacked(At(b, index), Wherever, x)
    BY <1>3 DEF QueryDestination
  <2>2. At(b, index) \in Boxes /\ parent[At(b, index)] = b
    BY <1>0, <1>1, <1>3, AtIsIn, Kinds
  <2>3. Placed(parent, At(b, index))
    BY <1>0, <2>2, Kinds DEF Placed
  <2>4. Wherever \in Int /\ Wherever >= Wherever /\ Wherever < Capacity
    BY <1>0 DEF Wherever
  <2> QED
    BY <2>1, <2>3, <2>4, StackedIs
<1>4. CASE index # Up /\ ~ (At(b, index) \in Boxes /\ index < Capacity)
  <2> DEFINE i == IF index >= Capacity THEN Wherever ELSE index
  <2>1. d = Stacked(b, i, x)
    BY <1>4 DEF QueryDestination
  <2>2. i \in Int /\ i >= Wherever /\ i < Capacity
    BY <1>0, <1>1 DEF Wherever
  <2> HIDE DEF i
  <2> QED
    BY <2>1, <2>2, StackedIs
<1> QED
  BY <1>2, <1>3, <1>4

\* The room of stacks is a number.
LEMMA RoomIsNat ==
    ASSUME ContainersInv, NEW d, d.box \in Boxes, d.index \in Int, NEW x
    PROVE  /\ RoomAt(d, x) \in Nat
           /\ \A s \in Stacks : Room(s) \in Nat
<1>1. \A s \in Stacks : Room(s) \in Nat
  BY InvFacts, Kinds DEF Room
<1> DEFINE fit == {s \in Stacks \ {x} : parent[s] = d.box /\ Fillable(s)}
           room == [s \in fit |-> Room(s)]
<1>2. IsFiniteSet(fit)
  BY ContainersAssumption, FS_Subset
<1>3. \A s \in fit : room[s] \in Nat
  BY <1>1
<1>4. SumOver(room, fit) \in Nat
  <2> HIDE DEF fit, room
  <2> QED
    BY <1>2, <1>3, SumNat
<1>5. CASE d.index = Wherever
  <2>1. RoomAt(d, x) = SumOver(room, fit)
    BY <1>5 DEF RoomAt, SumOver
  <2> QED
    BY <1>1, <1>4, <2>1
<1>6. CASE d.index # Wherever
  <2>1. RoomAt(d, x)
            = IF Fillable(At(d.box, d.index))
              THEN Room(At(d.box, d.index)) ELSE 0
    BY <1>6 DEF RoomAt
  <2> QED
    BY <1>1, <2>1 DEF Fillable
<1> QED
  BY <1>5, <1>6

Pieces == SumOver(itemCount, Stacks)

\* A container moves with everything in it.
LEMMA BoxMoved ==
    ASSUME ContainersInv, NEW x \in Boxes \ Roots, parent[x] # NoThing,
           NEW d, Destination(d, x),
           NEW noLimit \in BOOLEAN, noLimit => d.box = Locker,
           NEW count \in Nat \ {0}, MoveInto(d, x, count, noLimit)
    PROVE  ContainersInv' /\ itemCount' = itemCount
<1> DEFINE max == QueryMaxCount(d, x, count, noLimit)
           m == Least(count, max)
           w == Erased(Now, x)
           b == d.box
           v == AddThing(w, b, d.index, x, 1)
<1>0. /\ itemlist \in [Boxes -> Seq(Things)]
      /\ parent \in [Things -> Holders]
      /\ x \in Things \ Roots /\ x \notin Stacks /\ Capacity \in Nat
      /\ Shaped(Now, NoThing) /\ Now.list = itemlist
      /\ Now.parent = parent /\ Now.count = itemCount
  BY InvFacts, Kinds DEF ContainersInv, Now
<1>1. Placed(parent, b) /\ b \in Boxes /\ d.index \in Int
      /\ ~ (d.index >= Capacity)
  BY <1>0 DEF Destination, Placed
<1>2. QueryAdd(d, x, noLimit) /\ max > 0
  BY DEF MoveInto
<1>3. Becomes(v)
  <2>1. Merged(x, d.item, m) = 0
    BY <1>0 DEF Merged
  <2>2. RemoveThing(Now, x, m) = w
    BY <1>0 DEF RemoveThing
  <2> QED
    BY <1>0, <2>1, <2>2 DEF MoveInto
<1>4. x \notin Within(b)
  BY <1>2 DEF QueryAdd
<1>5. /\ Shaped(w, x) /\ w.count = itemCount
      /\ w.parent = [parent EXCEPT ![x] = NoThing]
      /\ \A a \in Boxes : Len(w.list[a]) <= Len(itemlist[a])
  BY <1>0, ErasedIs
<1>6. b = Locker \/ Len(w.list[b]) < Capacity
  <2>1. CASE noLimit
    BY <2>1
  <2>2. CASE ~ noLimit
    <3>1. Size(b) < Capacity
      BY <1>0, <1>2, <2>2 DEF QueryMaxCount, FreeSlots
    <3>2. Len(w.list[b]) <= Size(b)
      BY <1>1, <1>5 DEF Size
    <3>3. Size(b) \in Nat
      BY <1>0, <1>1 DEF Size
    <3>4. Len(w.list[b]) \in Nat
      <4>1. w.list \in [Boxes -> Seq(Things)]
        BY <1>5, FieldsOfKept DEF Shaped
      <4>2. w.list[b] \in Seq(Things)
        BY <1>1, <4>1
      <4> QED
        BY <4>2
    <3> QED
      BY <1>0, <3>1, <3>2, <3>3, <3>4
  <2> QED
    BY <2>1, <2>2
<1> HIDE DEF w, b, v
<1>7. Shaped(v, NoThing) /\ Counted(v) /\ v.count = itemCount
  BY <1>1, <1>4, <1>5, <1>6, BoxAdded DEF v
<1>8. ContainersInv'
  BY <1>3, <1>7, InvNext
<1>9. itemCount' = itemCount
  BY <1>3, <1>7 DEF Becomes
<1> QED
  BY <1>8, <1>9

\* What is added to and taken from the counts.
LEMMA CountChanged ==
    ASSUME NEW c \in [Stacks -> 0 .. FullStack], NEW s \in Stacks,
           NEW n \in Int, NEW e \in [Stacks -> 0 .. FullStack],
           CountIs(c, e, s, n)
    PROVE  /\ SumOver(e, Stacks) = SumOver(c, Stacks) - c[s] + n
           /\ SumOver(c, Stacks) \in Int /\ SumOver(e, Stacks) \in Int
<1>1. IsFiniteSet(Stacks)
  BY ContainersAssumption
<1>2. \A t \in Stacks : c[t] \in Int /\ e[t] \in Int
  BY Kinds
<1>3. e[s] = n /\ \A t \in Stacks \ {s} : e[t] = c[t]
  BY DEF CountIs
<1>4. SumOver(e, Stacks) = SumOver(c, Stacks) - c[s] + e[s]
  BY <1>1, <1>2, <1>3, SumOneChanged
<1>6. SumOver(c, Stacks) \in Int /\ SumOver(e, Stacks) \in Int
  BY <1>1, <1>2, SumLess
<1> QED
  BY <1>3, <1>4, <1>6

\* Some of a stack is taken, and merged with another.
LEMMA StackMerged ==
    ASSUME ContainersInv, NEW x \in Stacks, parent[x] # NoThing,
           NEW d, Destination(d, x), x # d.item, NEW m \in 1 .. itemCount[x],
           NEW n, n = Merged(x, d.item, m),
           NEW removed, removed = RemoveThing(Now, x, m),
           NEW updated,
           updated = IF n > 0 THEN Refilled(removed, d.item, n) ELSE removed
    PROVE  /\ n \in 0 .. m
           /\ Shaped(updated, NoThing) /\ Counted(updated)
           /\ SumOver(updated.count, Stacks) = Pieces - m + n
           /\ Pieces \in Int
           /\ \A b \in Boxes : /\ updated.parent[b] = parent[b]
                               /\ Len(updated.list[b]) <= Size(b)
<1> DEFINE s == d.item
<1>0. /\ itemlist \in [Boxes -> Seq(Things)]
      /\ parent \in [Things -> Holders]
      /\ itemCount \in [Stacks -> 0 .. FullStack]
      /\ Shaped(Now, NoThing) /\ Counted(Now) /\ Now.list = itemlist
      /\ Now.parent = parent /\ Now.count = itemCount
  BY InvFacts DEF ContainersInv, Now
<1>1. itemCount[x] \in 0 .. FullStack /\ m \in Nat /\ 1 <= m
      /\ m <= itemCount[x] /\ FullStack \in Nat
  BY <1>0, Kinds
<1>2. /\ Shaped(removed, NoThing) /\ Counted(removed)
      /\ CountIs(itemCount, removed.count, x, itemCount[x] - m)
      /\ \A y \in Things \ {x} : removed.parent[y] = parent[y]
      /\ \A b \in Boxes : Len(removed.list[b]) <= Len(itemlist[b])
  <2> DEFINE w == Now
  <2>1. /\ w.parent[x] # NoThing /\ m \in 1 .. w.count[x]
        /\ Shaped(w, NoThing) /\ Counted(w)
        /\ removed = RemoveThing(w, x, m)
    BY <1>0
  <2> HIDE DEF w
  <2>2. /\ Shaped(removed, NoThing) /\ Counted(removed)
        /\ CountIs(w.count, removed.count, x, w.count[x] - m)
        /\ \A y \in Things \ {x} : removed.parent[y] = w.parent[y]
        /\ \A b \in Boxes : Len(removed.list[b]) <= Len(w.list[b])
    BY <2>1, StackRemoved
  <2>3. w.count = itemCount /\ w.parent = parent /\ w.list = itemlist
    BY <1>0 DEF w
  <2> QED
    BY <2>2, <2>3
<1> DEFINE c == removed.count
<1>3. c \in [Stacks -> 0 .. FullStack]
  BY <1>2, FieldsOfKept DEF Shaped
<1>4. /\ SumOver(c, Stacks) = Pieces - m /\ Pieces \in Int
      /\ SumOver(c, Stacks) \in Int
  <2> DEFINE k == itemCount[x] - m
  <2>1. k \in Int /\ CountIs(itemCount, c, x, k)
    BY <1>1, <1>2
  <2> HIDE DEF c
  <2>2. k = itemCount[x] - m
    OBVIOUS
  <2> HIDE DEF k
  <2>3. /\ SumOver(c, Stacks) = SumOver(itemCount, Stacks) - itemCount[x] + k
        /\ SumOver(itemCount, Stacks) \in Int /\ SumOver(c, Stacks) \in Int
    BY <1>0, <1>3, <2>1, CountChanged
  <2> QED
    BY <1>1, <2>2, <2>3 DEF Pieces
<1>5. \A b \in Boxes : /\ removed.parent[b] = parent[b]
                       /\ Len(removed.list[b]) <= Size(b)
  <2> TAKE b \in Boxes
  <2>1. b \in Things \ {x}
    BY Kinds
  <2> QED
    BY <1>2, <2>1 DEF Size
<1>6. CASE s \notin Stacks
  <2>1. n = 0
    BY <1>6 DEF Merged
  <2>2. updated = removed
    BY <2>1
  <2> HIDE DEF c
  <2> QED
    BY <1>1, <1>2, <1>4, <1>5, <2>1, <2>2 DEF c
<1>7. CASE s \in Stacks
  <2>1. /\ parent[s] = d.box /\ d.box \in Boxes /\ parent[s] # NoThing
    BY <1>7, AtIsIn, Kinds DEF Destination, Placed
  <2>2. Room(s) = FullStack - itemCount[s] /\ itemCount[s] \in 0 .. FullStack
    BY <1>0, <1>7 DEF Room
  <2>3. n = Least(Room(s), m)
    BY <1>7 DEF Merged
  <2>4. n \in 0 .. m /\ n + itemCount[s] <= FullStack
    BY <1>1, <2>2, <2>3 DEF Least
  <2>5. CASE n = 0
    <3>1. updated = removed
      BY <2>5
    <3> HIDE DEF c
    <3> QED
      BY <1>1, <1>2, <1>4, <1>5, <2>4, <2>5, <3>1 DEF c
  <2>6. CASE n # 0
    <3>1. updated = Refilled(removed, s, n)
      BY <2>4, <2>6
    <3>2. c[s] = itemCount[s] /\ removed.parent[s] = parent[s] /\ s # x
      BY <1>0, <1>2, <1>7, Kinds DEF CountIs
    <3>3. n \in Nat /\ c[s] + n <= FullStack
      BY <1>1, <2>2, <2>4, <3>2
    <3> DEFINE k == c[s] + n
    <3>4. /\ Shaped(updated, NoThing) /\ Counted(updated)
          /\ CountIs(c, updated.count, s, k)
          /\ updated.parent = removed.parent
          /\ updated.list = removed.list
      <4>1. /\ removed.parent[s] # NoThing
            /\ removed.count[s] + n <= FullStack /\ n \in Nat
        BY <2>1, <3>2, <3>3
      <4> HIDE DEF s, c, k
      <4>2. /\ Shaped(updated, NoThing) /\ Counted(updated)
            /\ CountIs(removed.count, updated.count, s, removed.count[s] + n)
            /\ updated.parent = removed.parent
            /\ updated.list = removed.list
        BY <1>2, <1>7, <3>1, <4>1, StackFilled
      <4> QED
        BY <4>2 DEF c, k
    <3> DEFINE e == updated.count
    <3>5. e \in [Stacks -> 0 .. FullStack]
      BY <3>4, FieldsOfKept DEF Shaped
    <3>6. SumOver(e, Stacks) = SumOver(c, Stacks) + n
      <4>1. k \in Int /\ k = c[s] + n /\ CountIs(c, e, s, k)
            /\ c[s] \in Int
        BY <1>7, <2>2, <3>2, <3>3, <3>4
      <4> HIDE DEF c, e, k, s
      <4>2. /\ SumOver(e, Stacks) = SumOver(c, Stacks) - c[s] + k
        BY <1>3, <1>7, <3>5, <4>1, CountChanged
      <4> QED
        BY <1>4, <3>3, <4>1, <4>2
    <3>7. SumOver(e, Stacks) = Pieces - m + n
      <4> HIDE DEF c, e
      <4> QED
        BY <1>1, <1>4, <2>4, <3>6
    <3> QED
      BY <1>4, <1>5, <2>4, <3>4, <3>7
  <2> QED
    BY <2>5, <2>6
<1> QED
  BY <1>6, <1>7

\* A stack, or a part of one, moves.
LEMMA StackMoved ==
    ASSUME ContainersInv, NEW x \in Stacks, parent[x] # NoThing,
           NEW d, Destination(d, x),
           NEW noLimit \in BOOLEAN, noLimit => d.box = Locker,
           NEW count \in Nat \ {0}, noLimit => count <= itemCount[x],
           MoveInto(d, x, count, noLimit)
    PROVE  ContainersInv' /\ (Pieces' = Pieces \/ Size(Locker) > Capacity)
<1> DEFINE max == QueryMaxCount(d, x, count, noLimit)
           m == Least(count, max)
           n == Merged(x, d.item, m)
           removed == RemoveThing(Now, x, m)
           updated == IF n > 0 THEN Refilled(removed, d.item, n)
                      ELSE removed
           b == d.box
           s == Fresh(updated)
           v == AddThing(updated, b, d.index, s, m - n)
<1>0. /\ itemlist \in [Boxes -> Seq(Things)]
      /\ parent \in [Things -> Holders]
      /\ itemCount \in [Stacks -> 0 .. FullStack]
      /\ FullStack \in Nat \ {0} /\ Capacity \in Nat \ {0}
      /\ FitsIn(itemlist) /\ x \notin Boxes
  BY InvFacts, Kinds
<1>1. Placed(parent, b) /\ b \in Boxes /\ d.index \in Int
      /\ d.item = At(b, d.index)
      /\ (d.index >= Capacity => d.index < Size(b))
  BY DEF Destination, Placed
<1>2. /\ x # d.item /\ QueryAdd(d, x, noLimit) /\ max > 0
      /\ m <= itemCount[x]
      /\ m = n => Becomes(updated)
      /\ m # n => MayClone(updated) /\ Becomes(v)
  BY <1>0 DEF MoveInto, Refilled
<1>3. Size(b) \in Nat /\ FreeSlots(b) \in Nat
      /\ (FreeSlots(b) = 0 <=> Size(b) >= Capacity)
  <2>1. Size(b) \in Nat
    BY <1>0, <1>1 DEF Size
  <2> QED
    BY <1>0, <2>1 DEF FreeSlots
<1>4. RoomAt(d, x) \in Nat /\ \A t \in Stacks : Room(t) \in Nat
  BY <1>1, RoomIsNat
<1>5. max \in Nat
  <2>1. CASE noLimit
    BY <2>1 DEF QueryMaxCount
  <2>2. CASE ~ noLimit
    <3> DEFINE f == FreeSlots(b)
               r == RoomAt(d, x)
    <3>1. max = f * FullStack + r
      BY <2>2 DEF QueryMaxCount
    <3> HIDE DEF f, r, max
    <3>2. f * FullStack \in Nat
      BY <1>0, <1>3 DEF f
    <3> QED
      BY <1>4, <3>1, <3>2 DEF r
  <2> QED
    BY <2>1, <2>2
<1>6. m \in 1 .. itemCount[x] /\ itemCount[x] \in 0 .. FullStack
  <2>1. itemCount[x] \in 0 .. FullStack
    BY <1>0
  <2> HIDE DEF max
  <2> QED
    BY <1>0, <1>2, <1>5, <2>1 DEF Least
<1> HIDE DEF m, n, removed, updated
<1>7. /\ n \in 0 .. m
      /\ Shaped(updated, NoThing) /\ Counted(updated)
      /\ SumOver(updated.count, Stacks) = Pieces - m + n
      /\ Pieces \in Int
      /\ \A a \in Boxes : /\ updated.parent[a] = parent[a]
                          /\ Len(updated.list[a]) <= Size(a)
  BY <1>2, <1>6, StackMerged DEF n, removed, updated
<1>8. CASE m = n
  <2>1. Becomes(updated)
    BY <1>2, <1>8
  <2>2. ContainersInv'
    BY <1>7, <2>1, InvNext
  <2>3. itemCount' = updated.count
    BY <2>1 DEF Becomes
  <2>4. Pieces' = SumOver(updated.count, Stacks)
    BY <2>3 DEF Pieces
  <2>5. m \in Int
    BY <1>6
  <2> QED
    BY <1>7, <1>8, <2>2, <2>4, <2>5
<1>9. CASE m # n /\ d.index >= Capacity
  <2>1. v = updated
    BY <1>9 DEF AddThing
  <2>2. ContainersInv'
    <3> HIDE DEF v
    <3> QED
      BY <1>2, <1>7, <1>9, <2>1, InvNext
  <2>3. Size(b) > Capacity
    BY <1>0, <1>1, <1>3, <1>9
  <2>4. b = Locker
    BY <1>0, <1>1, <1>3, <2>3 DEF FitsIn, Size
  <2> QED
    BY <2>2, <2>3, <2>4
<1>10. CASE m # n /\ ~ (d.index >= Capacity)
  <2> DEFINE k == m - n
  <2>1. k \in 1 .. FullStack /\ k = m - n /\ m \in Int /\ n \in Int
    BY <1>0, <1>6, <1>7, <1>10
  <2>2. b = Locker \/ Size(b) < Capacity
    <3> SUFFICES ASSUME ~ noLimit, ~ (Size(b) < Capacity) PROVE FALSE
      OBVIOUS
    <3>1. d.index # Wherever
      BY <1>2 DEF QueryAdd
    <3>2. FreeSlots(b) = 0
      BY <1>0, <1>3
    <3>3. max = RoomAt(d, x)
      <4> DEFINE f == FreeSlots(b)
                 r == RoomAt(d, x)
      <4>1. max = f * FullStack + r
        BY DEF QueryMaxCount
      <4>2. f * FullStack = 0
        BY <1>0, <3>2
      <4> HIDE DEF f, r, max
      <4> QED
        BY <1>4, <4>1, <4>2 DEF r
    <3>4. Fillable(d.item) /\ max = Room(d.item)
      <4>1. RoomAt(d, x) = IF Fillable(d.item) THEN Room(d.item) ELSE 0
        BY <1>1, <3>1 DEF RoomAt
      <4> HIDE DEF max
      <4> QED
        BY <1>2, <3>3, <4>1
    <3>5. n = Least(max, m)
      BY <3>4 DEF n, Merged, Fillable
    <3>6. m <= max
      <4> HIDE DEF max
      <4> QED
        BY <1>2, <1>5 DEF Least, m
    <3> HIDE DEF max
    <3> QED
      BY <1>5, <1>10, <2>1, <3>5, <3>6 DEF Least
  <2>3. b = Locker \/ Len(updated.list[b]) < Capacity
    <3>1. Len(updated.list[b]) <= Size(b)
      BY <1>1, <1>7
    <3>2. Len(updated.list[b]) \in Nat
      <4>1. updated.list \in [Boxes -> Seq(Things)]
        BY <1>7, FieldsOfKept DEF Shaped
      <4>2. updated.list[b] \in Seq(Things)
        BY <1>1, <4>1
      <4> QED
        BY <4>2
    <3> QED
      BY <1>0, <1>3, <2>2, <3>1, <3>2
  <2>4. MayClone(updated) /\ Becomes(v) /\ v = AddThing(updated, b, d.index,
                                                         Fresh(updated), k)
    BY <1>2, <1>10
  <2>5. Placed(updated.parent, b)
    BY <1>1, <1>7 DEF Placed
  <2> HIDE DEF b, v, s, k
  <2>6. /\ Shaped(v, NoThing) /\ Counted(v)
        /\ Fresh(updated) \in Stacks /\ updated.count[Fresh(updated)] = 0
        /\ CountIs(updated.count, v.count, Fresh(updated), k)
    BY <1>7, <1>10, <2>1, <2>3, <2>4, <2>5, StackAdded
  <2>7. ContainersInv'
    BY <2>4, <2>6, InvNext
  <2>8. SumOver(v.count, Stacks) = Pieces
    <3> DEFINE c == updated.count
               e == v.count
               t == Fresh(updated)
    <3>1. c \in [Stacks -> 0 .. FullStack] /\ e \in [Stacks -> 0 .. FullStack]
      BY <1>7, <2>6, FieldsOfKept DEF Shaped
    <3>2. t \in Stacks /\ c[t] = 0 /\ CountIs(c, e, t, k) /\ k \in Int
      BY <2>1, <2>6
    <3>3. SumOver(c, Stacks) = Pieces - m + n
      BY <1>7
    <3> HIDE DEF c, e, t
    <3>4. SumOver(e, Stacks) = SumOver(c, Stacks) - c[t] + k
      BY <3>1, <3>2, CountChanged
    <3>5. SumOver(e, Stacks) = Pieces
      BY <1>7, <2>1, <3>2, <3>3, <3>4
    <3> QED
      BY <3>5 DEF e
  <2>9. Pieces' = Pieces
    <3>1. itemCount' = v.count
      BY <2>4 DEF Becomes
    <3> QED
      BY <2>8, <3>1 DEF Pieces
  <2> QED
    BY <2>7, <2>9
<1> QED
  BY <1>8, <1>9, <1>10

(* One stack of b takes what it has room for of what is left. *)
Poured(g, b, i) ==
    LET s == itemlist[b][i]
        k == IF Fillable(s) THEN Least(Room(s), g.left) ELSE 0 IN
    IF k = 0 THEN g
    ELSE [state |-> Refilled(g.state, s, k), left |-> g.left - k]

FilledFrom(f, b, n) ==
    /\ f[0] = [state |-> Now, left |-> n]
    /\ \A i \in 1 .. Size(b) : f[i] = Poured(f[i - 1], b, i)

\* A stack takes a number of pieces.
LEMMA PouredIs ==
    ASSUME ContainersInv, NEW b \in Boxes, NEW i \in 1 .. Size(b),
           NEW D, D = [state : [list : {itemlist}, parent : {parent},
                                count : [Stacks -> Int]], left : Int],
           NEW g \in D
    PROVE  Poured(g, b, i) \in D
<1> DEFINE s == itemlist[b][i]
           k == IF Fillable(s) THEN Least(Room(s), g.left) ELSE 0
           E == [list : {itemlist}, parent : {parent}, count : [Stacks -> Int]]
<1>1. g.left \in Int /\ g.state \in E
  OBVIOUS
<1>2. CASE k = 0
  BY <1>2 DEF Poured
<1>3. CASE k # 0
  <2>1. Fillable(s) /\ s \in Stacks
    BY <1>3 DEF Fillable
  <2>2. Room(s) \in Int
    BY <2>1, RoomIsNat, InvFacts, Kinds DEF Room
  <2>3. k \in Int
    BY <1>1, <2>1, <2>2 DEF Least
  <2>4. Poured(g, b, i) = [state |-> Refilled(g.state, s, k),
                           left |-> g.left - k]
    BY <1>3 DEF Poured
  <2> HIDE DEF k, s
  <2>5. Refilled(g.state, s, k) \in E
    BY <1>1, <2>1, <2>3 DEF Refilled
  <2> QED
    BY <1>1, <2>3, <2>4, <2>5
<1> QED
  BY <1>2, <1>3

\* Filling goes from stack to stack.
LEMMA FillIsChain ==
    ASSUME ContainersInv, NEW b \in Boxes, NEW n \in Nat
    PROVE  \E f : FilledFrom(f, b, n) /\ Fill(Now, b, n) = f[Size(b)]
<1> DEFINE N == Size(b)
           E == [list : {itemlist}, parent : {parent}, count : [Stacks -> Int]]
           D == [state : E, left : Int]
           base == [state |-> Now, left |-> n]
           op == [a \in (1 .. N) \X D |-> Poured(a[2], b, a[1])]
           One(f, i) == IF i = 0 THEN base ELSE Poured(f[i - 1], b, i)
           u == CHOOSE f : f = [i \in 0 .. N |-> One(f, i)]
<1>0. N \in Nat
  <2>1. itemlist[b] \in Seq(Things)
    BY InvFacts
  <2> QED
    BY <2>1 DEF Size
<1>1. Fill(Now, b, n) = u[N]
  BY DEF Fill, Poured, Refilled
<1>2. base \in D
  <2>1. itemCount \in [Stacks -> Int]
    BY InvFacts, Kinds
  <2>2. Now \in E
    BY <2>1 DEF Now
  <2> QED
    BY <2>2
<1>3. op \in [(1 .. N) \X D -> D]
  <2>1. \A i \in 1 .. N, g \in D : Poured(g, b, i) \in D
    BY PouredIs
  <2> HIDE DEF D, N
  <2> QED
    BY <2>1
<1>4. \A i \in 1 .. N, g \in D : op[<<i, g>>] = Poured(g, b, i)
  <2> HIDE DEF D, N
  <2> QED
    OBVIOUS
<1> HIDE DEF op, D, N, base
<1>5. PICK f \in [0 .. N -> D] : StepByStep(f, N, base, op)
  BY <1>0, <1>2, <1>3, StepsExist
<1>6. ASSUME NEW i \in 0 .. N PROVE f[i] = One(f, i)
  <2>1. CASE i = 0
    BY <1>5, <2>1 DEF StepByStep
  <2>2. CASE i # 0
    <3>1. i \in 1 .. N /\ i - 1 \in 0 .. N
      BY <1>0, <2>2
    <3>2. f[i] = op[<<i, f[i - 1]>>] /\ f[i - 1] \in D
      BY <1>5, <3>1 DEF StepByStep
    <3> QED
      BY <1>4, <2>2, <3>1, <3>2
  <2> QED
    BY <2>1, <2>2
<1>7. f = [i \in 0 .. N |-> One(f, i)]
  <2> HIDE DEF One
  <2> QED
    BY <1>6
<1>8. u = [i \in 0 .. N |-> One(u, i)]
  <2> HIDE DEF One
  <2> QED
    BY <1>7
<1>9. \A i \in 0 .. N : u[i] = One(u, i)
  <2> HIDE DEF One, u
  <2> QED
    BY <1>8
<1> HIDE DEF u
<1>10. FilledFrom(u, b, n)
  <2>1. u[0] = base
    BY <1>0, <1>9
  <2>2. \A i \in 1 .. N : u[i] = Poured(u[i - 1], b, i)
    BY <1>0, <1>9
  <2> QED
    BY <2>1, <2>2 DEF FilledFrom, N, base
<1> QED
  BY <1>1, <1>10 DEF N

FitIn(b) == {s \in Stacks \ {NoThing} : parent[s] = b /\ Fillable(s)}

RoomOf(b) == [s \in FitIn(b) |-> Room(s)]

(* Those of the first i places *)
FitTo(b, i) == {s \in FitIn(b) : \E j \in 1 .. i : itemlist[b][j] = s}

(* What holds when the first i stacks have been filled *)
FillInv(g, b, n, i) ==
    /\ g.left \in 0 .. n
    /\ Shaped(g.state, NoThing) /\ Counted(g.state)
    /\ g.state.parent = parent /\ g.state.list = itemlist
    /\ \A j \in i + 1 .. Size(b) : itemlist[b][j] \in Stacks =>
          g.state.count[itemlist[b][j]] = itemCount[itemlist[b][j]]
    /\ g.left = 0 \/ g.left + SumOver(RoomOf(b), FitTo(b, i)) = n

\* Filling one more stack keeps it.
LEMMA PouredFits ==
    ASSUME ContainersInv, NEW b \in Boxes, NEW n \in Nat,
           NEW i \in 1 .. Size(b), NEW g, FillInv(g, b, n, i - 1)
    PROVE  FillInv(Poured(g, b, i), b, n, i)
<1> DEFINE s == itemlist[b][i]
           S == FitTo(b, i)
           T == FitTo(b, i - 1)
           room == RoomOf(b)
           k == IF Fillable(s) THEN Least(Room(s), g.left) ELSE 0
           h == Poured(g, b, i)
<1>0. /\ itemlist[b] \in Seq(Things) /\ Listed(itemlist, parent)
      /\ parent \in [Things -> Holders]
      /\ itemCount \in [Stacks -> 0 .. FullStack]
      /\ \A t \in Stacks : itemCount[t] = 0 <=> parent[t] = NoThing
      /\ FullStack \in Nat /\ NoThing \notin Things
      /\ Stacks \subseteq Things /\ b # NoThing
  BY InvFacts, Kinds
<1>1. /\ Size(b) \in Nat /\ DOMAIN itemlist[b] = 1 .. Size(b)
      /\ s \in Things
  BY <1>0 DEF Size
<1>2. OnceEach(itemlist[b]) /\ parent[s] = b
  <2>1. Has(itemlist[b], s)
    BY <1>1 DEF Has
  <2> QED
    BY <1>0, <1>1, <2>1 DEF Listed
<1>3. /\ g.left \in 0 .. n
      /\ Shaped(g.state, NoThing) /\ Counted(g.state)
      /\ g.state.parent = parent /\ g.state.list = itemlist
      /\ \A j \in i .. Size(b) : itemlist[b][j] \in Stacks =>
            g.state.count[itemlist[b][j]] = itemCount[itemlist[b][j]]
      /\ g.left = 0 \/ g.left + SumOver(room, T) = n
  <2>1. i = (i - 1) + 1
    BY <1>1
  <2> QED
    BY <2>1 DEF FillInv
<1>4. /\ T \subseteq FitIn(b) /\ S \subseteq FitIn(b)
      /\ S = IF Fillable(s) THEN T \cup {s} ELSE T
      /\ s \notin T
  <2>1. Fillable(s) => s \in FitIn(b)
    BY <1>0, <1>2 DEF FitIn, Fillable
  <2>2. ASSUME NEW j \in 1 .. (i - 1) PROVE itemlist[b][j] # s
    <3>1. j \in DOMAIN itemlist[b] /\ i \in DOMAIN itemlist[b] /\ j # i
      BY <1>1
    <3> QED
      BY <1>2, <3>1 DEF OnceEach
  <2>3. T \cup {i} # {} /\ \A j : j \in 1 .. i <=> j \in 1 .. (i - 1) \/ j = i
    BY <1>1
  <2>4. ASSUME NEW t \in S PROVE t \in T \/ (t = s /\ Fillable(s))
    BY <2>3, <2>4 DEF FitTo, FitIn
  <2>5. T \subseteq S
    BY <2>3 DEF FitTo
  <2>6. Fillable(s) => s \in S
    BY <2>1, <2>3 DEF FitTo
  <2>7. s \notin T
    BY <2>2 DEF FitTo
  <2> QED
    BY <2>4, <2>5, <2>6, <2>7 DEF FitTo
<1>5. /\ IsFiniteSet(FitIn(b)) /\ IsFiniteSet(S) /\ IsFiniteSet(T)
  <2>1. IsFiniteSet(FitIn(b))
    BY ContainersAssumption, FS_Subset DEF FitIn
  <2> QED
    BY <1>4, <2>1, FS_Subset
<1>6. \A t \in FitIn(b) : room[t] = Room(t) /\ room[t] \in Nat
  <2>1. \A t \in FitIn(b) : itemCount[t] \in 0 .. FullStack
    BY <1>0 DEF FitIn
  <2> QED
    BY <1>0, <2>1 DEF RoomOf, Room
<1>7. /\ SumOver(room, T) \in Nat
      /\ ~ Fillable(s) => SumOver(room, S) = SumOver(room, T)
      /\ Fillable(s) => SumOver(room, S) = SumOver(room, T) + Room(s)
                        /\ Room(s) \in Nat
  <2> HIDE DEF room, S, T, s
  <2>1. /\ \A t \in S : room[t] \in Int
        /\ \A t \in T : room[t] \in Nat
    BY <1>4, <1>6
  <2>2. SumOver(room, T) \in Nat
    BY <1>5, <2>1, SumNat
  <2>3. ASSUME Fillable(s) PROVE SumOver(room, S) = SumOver(room, T) + Room(s)
                                 /\ Room(s) \in Nat
    <3>1. s \in S /\ S \ {s} = T
      BY <1>4, <2>3
    <3>2. SumOver(room, S) = SumOver(room, S \ {s}) + room[s]
      BY <1>5, <2>1, <3>1, SumLess
    <3>3. room[s] = Room(s) /\ room[s] \in Nat
      BY <1>4, <1>6, <3>1
    <3> QED
      BY <3>1, <3>2, <3>3
  <2> QED
    BY <1>4, <2>2, <2>3
<1>8. Fillable(s) => s \in Stacks /\ Room(s) \in Nat \ {0}
                     /\ Room(s) = FullStack - itemCount[s]
                     /\ itemCount[s] \in 0 .. FullStack
  BY <1>0 DEF Fillable, Room
<1> HIDE DEF S, T, room
<1>9. CASE k = 0
  <2>1. h = g
    BY <1>9 DEF Poured
  <2>2. g.left = 0 \/ g.left + SumOver(room, S) = n
    <3>1. CASE Fillable(s)
      <4>1. g.left = 0
        BY <1>3, <1>8, <1>9, <3>1 DEF Least
      <4> QED
        BY <4>1
    <3>2. CASE ~ Fillable(s)
      BY <1>3, <1>7, <3>2
    <3> QED
      BY <3>1, <3>2
  <2>3. \A j \in i + 1 .. Size(b) : j \in i .. Size(b)
    BY <1>1
  <2> QED
    BY <1>3, <2>1, <2>2, <2>3 DEF FillInv, room, S
<1>10. CASE k # 0
  <2>1. Fillable(s) /\ k = Least(Room(s), g.left)
    BY <1>10
  <2>2. h = [state |-> Refilled(g.state, s, k), left |-> g.left - k]
    BY <1>10 DEF Poured
  <2> DEFINE w == g.state
             v == Refilled(w, s, k)
             rest == g.left - k
  <2>3. h.state = v /\ h.left = rest
    BY <2>2
  <2>4. /\ k \in Nat /\ k <= Room(s) /\ k <= g.left
        /\ (k = Room(s) \/ k = g.left) /\ g.left \in 0 .. n
    <3> HIDE DEF k
    <3> QED
      BY <1>3, <1>8, <2>1 DEF Least
  <2> HIDE DEF k, h
  <2>5. /\ s \in Stacks /\ w.parent[s] # NoThing
        /\ w.count[s] = itemCount[s] /\ w.count[s] + k <= FullStack
    <3>1. i \in i .. Size(b) /\ s \in Stacks
      BY <1>1, <1>8, <2>1
    <3>2. w.count[s] = itemCount[s]
      BY <1>3, <3>1
    <3>3. w.count[s] + k <= FullStack
      BY <1>0, <1>8, <2>1, <2>4, <3>2
    <3> QED
      BY <1>0, <1>2, <1>3, <3>1, <3>2, <3>3
  <2>6. /\ Shaped(v, NoThing) /\ Counted(v)
        /\ CountIs(w.count, v.count, s, w.count[s] + k)
        /\ v.parent = w.parent /\ v.list = w.list
    <3>1. Shaped(w, NoThing) /\ Counted(w)
      BY <1>3
    <3> DEFINE x == Refilled(w, s, k)
    <3> HIDE DEF s, w, v
    <3>2. /\ Shaped(x, NoThing) /\ Counted(x)
          /\ CountIs(w.count, x.count, s, w.count[s] + k)
          /\ x.parent = w.parent /\ x.list = w.list
      <4> DEFINE y == x
      <4>1. y = Refilled(w, s, k)
        OBVIOUS
      <4> HIDE DEF x
      <4> QED
        BY <2>4, <2>5, <3>1, <4>1, StackFilled
    <3> QED
      BY <3>2 DEF v
  <2>7. ASSUME NEW j \in i + 1 .. Size(b), itemlist[b][j] \in Stacks
        PROVE  v.count[itemlist[b][j]] = itemCount[itemlist[b][j]]
    <3>1. j \in i .. Size(b) /\ j # i /\ j \in 1 .. Size(b)
      BY <1>1
    <3>2. itemlist[b][j] # s
      BY <1>1, <1>2, <3>1 DEF OnceEach
    <3>3. w.count[itemlist[b][j]] = itemCount[itemlist[b][j]]
      BY <1>3, <2>7, <3>1
    <3>4. w.count \in [Stacks -> 0 .. FullStack]
      BY <1>3, FieldsOfKept DEF Shaped
    <3>5. v.count[itemlist[b][j]] = w.count[itemlist[b][j]]
      <4> HIDE DEF v, w, s
      <4> QED
        BY <2>6, <2>7, <3>2, <3>4 DEF CountIs
    <3> QED
      BY <3>3, <3>5
  <2>8. rest \in 0 .. n
    BY <2>4
  <2>9. rest = 0 \/ rest + SumOver(room, S) = n
    <3> DEFINE q == SumOver(room, T)
               r == SumOver(room, S)
    <3>1. r = q + Room(s) /\ Room(s) \in Nat /\ q \in Nat
      BY <1>7, <2>1
    <3>2. g.left = 0 \/ g.left + q = n
      BY <1>3
    <3> HIDE DEF q, r, s
    <3>3. rest = 0 \/ rest + r = n
      BY <2>4, <3>1, <3>2
    <3> QED
      BY <3>3 DEF r
  <2>10. v.parent = parent /\ v.list = itemlist
    BY <1>3, <2>6
  <2> HIDE DEF v, rest
  <2>11. h.left = 0 \/ h.left + SumOver(RoomOf(b), FitTo(b, i)) = n
    BY <2>3, <2>9 DEF room, S
  <2>12. \A j \in i + 1 .. Size(b) : itemlist[b][j] \in Stacks =>
            h.state.count[itemlist[b][j]] = itemCount[itemlist[b][j]]
    BY <2>3, <2>7
  <2>13. /\ h.left \in 0 .. n /\ Shaped(h.state, NoThing)
         /\ Counted(h.state) /\ h.state.parent = parent
         /\ h.state.list = itemlist
    BY <2>3, <2>6, <2>8, <2>10
  <2> QED
    <3>1. FillInv(h, b, n, i)
      BY <2>11, <2>12, <2>13 DEF FillInv
    <3> QED
      BY <3>1 DEF h
<1> QED
  BY <1>9, <1>10

\* What becomes of a new stack that fills the stacks of a container.
LEMMA FillIs ==
    ASSUME ContainersInv, NEW b \in Boxes, NEW n \in Nat
    PROVE  FillInv(Fill(Now, b, n), b, n, Size(b))
<1>0. Size(b) \in Nat /\ itemlist[b] \in Seq(Things)
  <2>1. itemlist[b] \in Seq(Things)
    BY InvFacts
  <2> QED
    BY <2>1 DEF Size
<1>1. PICK f : FilledFrom(f, b, n) /\ Fill(Now, b, n) = f[Size(b)]
  BY FillIsChain
<1> DEFINE Good == {i \in Nat : i <= Size(b) => FillInv(f[i], b, n, i)}
<1>2. FillInv(f[0], b, n, 0)
  <2>1. f[0].state = Now /\ f[0].left = n
    BY <1>1 DEF FilledFrom
  <2>2. /\ Shaped(Now, NoThing) /\ Counted(Now) /\ Now.parent = parent
        /\ Now.list = itemlist /\ Now.count = itemCount
    BY DEF ContainersInv, Now
  <2>3. SumOver(RoomOf(b), FitTo(b, 0)) = 0
    <3>1. FitTo(b, 0) = {}
      BY DEF FitTo
    <3>2. IsFiniteSet({}) /\ \A t \in {} : RoomOf(b)[t] = 0
      BY FS_EmptySet
    <3>3. SumOver(RoomOf(b), {}) = 0
      BY <3>2, SumZero
    <3> QED
      BY <3>1, <3>3
  <2> QED
    BY <2>1, <2>2, <2>3 DEF FillInv
<1>3. ASSUME NEW i \in Nat, \A m \in Nat : m < i => m \in Good
      PROVE  i \in Good
  <2> SUFFICES ASSUME i <= Size(b) PROVE FillInv(f[i], b, n, i)
    OBVIOUS
  <2>1. CASE i = 0
    BY <1>2, <2>1
  <2>2. CASE i # 0
    <3>1. i - 1 \in Nat /\ i - 1 < i /\ i - 1 <= Size(b)
          /\ i \in 1 .. Size(b)
      BY <1>0, <2>2
    <3>2. FillInv(f[i - 1], b, n, i - 1)
      BY <1>3, <3>1
    <3>3. f[i] = Poured(f[i - 1], b, i)
      BY <1>1, <3>1 DEF FilledFrom
    <3> QED
      BY <3>1, <3>2, <3>3, PouredFits
  <2> QED
    BY <2>1, <2>2
<1>4. \A i \in Nat : i \in Good
  <2>1. Good \in SUBSET Nat
    OBVIOUS
  <2> HIDE DEF Good
  <2> QED
    BY <1>3, <2>1, AllNumbers
<1> QED
  BY <1>0, <1>1, <1>4

\* A new stack comes into a container.
LEMMA StackCame ==
    ASSUME ContainersInv, NEW b \in Boxes, NEW n \in 1 .. FullStack,
           AddStack(b, n)
    PROVE  ContainersInv'
<1> DEFINE all == Place(b, Wherever, NoThing)
           g == Fill(Now, b, n)
           w == g.state
           v == AddThing(w, b, Wherever, Fresh(w), g.left)
           N == Size(b)
           room == SumOver(RoomOf(b), FitIn(b))
<1>0. /\ itemlist \in [Boxes -> Seq(Things)] /\ FullStack \in Nat
      /\ Capacity \in Nat \ {0} /\ n \in Nat
      /\ Listed(itemlist, parent)
  BY InvFacts, Kinds
<1>1. /\ Placed(parent, b)
      /\ FreeSlots(b) * FullStack + RoomAt(all, NoThing) >= n
      /\ g.left = 0 => Becomes(w)
      /\ g.left # 0 => MayClone(w) /\ Becomes(v)
  BY DEF AddStack, Placed
<1>2. FillInv(g, b, n, N)
  BY <1>0, FillIs
<1> HIDE DEF g
<1>3. /\ g.left \in 0 .. n /\ Shaped(w, NoThing) /\ Counted(w)
      /\ w.parent = parent /\ w.list = itemlist
      /\ g.left = 0 \/ g.left + SumOver(RoomOf(b), FitTo(b, N)) = n
  BY <1>2 DEF FillInv
<1>4. CASE g.left = 0
  BY <1>1, <1>3, <1>4, InvNext
<1>5. CASE g.left # 0
  <2>1. FitTo(b, N) = FitIn(b)
    <3>1. ASSUME NEW s \in FitIn(b) PROVE \E j \in 1 .. N : itemlist[b][j] = s
      <4>1. s \in Things /\ parent[s] = b
        BY Kinds DEF FitIn
      <4>2. Has(itemlist[b], s)
        BY <1>0, <4>1 DEF Listed
      <4>3. DOMAIN itemlist[b] = 1 .. N
        <5>1. itemlist[b] \in Seq(Things)
          BY <1>0
        <5> QED
          BY <5>1 DEF Size
      <4> QED
        BY <4>2, <4>3 DEF Has
    <3> QED
      BY <3>1 DEF FitTo
  <2>2. RoomAt(all, NoThing) = room
    BY DEF RoomAt, Place, RoomOf, FitIn, SumOver
  <2>3. room \in Nat
    <3>1. all.box \in Boxes /\ all.index \in Int
      BY DEF Place, Wherever
    <3> QED
      BY <2>2, <3>1, RoomIsNat
  <2>4. Size(b) < Capacity
    <3> SUFFICES ASSUME ~ (Size(b) < Capacity) PROVE FALSE
      OBVIOUS
    <3>1. FreeSlots(b) = 0
      BY DEF FreeSlots
    <3>2. FreeSlots(b) * FullStack = 0
      BY <1>0, <3>1
    <3> DEFINE f == FreeSlots(b) * FullStack
    <3>3. f = 0 /\ f + room >= n /\ g.left + room = n
      BY <1>1, <1>3, <1>5, <2>1, <2>2, <3>2
    <3> HIDE DEF f, room
    <3> QED
      BY <1>0, <1>3, <1>5, <2>3, <3>3
  <2>5. /\ b = Locker \/ Len(w.list[b]) < Capacity
        /\ g.left \in 1 .. FullStack /\ ~ (Wherever >= Capacity)
        /\ Placed(w.parent, b) /\ MayClone(w)
    BY <1>0, <1>1, <1>3, <1>5, <2>4 DEF Size, Wherever
  <2> DEFINE k == g.left
             i == Wherever
  <2>6. k \in 1 .. FullStack /\ ~ (i >= Capacity)
        /\ v = AddThing(w, b, i, Fresh(w), k)
    BY <2>5
  <2> HIDE DEF w, v, k, i
  <2>7. Shaped(v, NoThing) /\ Counted(v)
    BY <1>3, <2>5, <2>6, StackAdded
  <2> QED
    BY <1>1, <1>5, <2>7, InvNext
<1> QED
  BY <1>4, <1>5

\* A new container comes into a container.
LEMMA BoxCame ==
    ASSUME ContainersInv, NEW b \in Boxes, NEW x \in Boxes, AddBox(b, x)
    PROVE  ContainersInv'
<1> DEFINE w == Now
           i == Wherever
           v == AddThing(w, b, i, x, 1)
<1>0. /\ itemlist \in [Boxes -> Seq(Things)]
      /\ parent \in [Things -> Holders]
      /\ Rooted(parent, NoThing)
      /\ Shaped(w, NoThing) /\ w.list = itemlist
      /\ w.parent = parent /\ w.count = itemCount
      /\ x \in Things /\ Capacity \in Nat \ {0}
  BY InvFacts, Kinds DEF ContainersInv, Now
<1>1. /\ Placed(parent, b) /\ x \in Boxes \ Roots /\ parent[x] = NoThing
      /\ Becomes(v) /\ x \notin Within(b) /\ Size(b) < Capacity
  BY DEF AddBox, Placed, QueryAdd, Place
<1>2. Shaped(w, x)
  BY <1>0 DEF Shaped, Rooted
<1>3. w.parent = [parent EXCEPT ![x] = NoThing]
  BY <1>0, <1>1
<1>4. ~ (i >= Capacity) /\ (b = Locker \/ Len(w.list[b]) < Capacity)
  BY <1>0, <1>1 DEF Size, Wherever
<1>5. v = AddThing(w, b, i, x, 1)
  OBVIOUS
<1> HIDE DEF w, i, v
<1>6. Shaped(v, NoThing) /\ Counted(v)
  BY <1>0, <1>1, <1>2, <1>3, <1>4, <1>5, BoxAdded
<1> QED
  BY <1>1, <1>6, InvNext

\* Pieces of a stack are removed.
LEMMA StackWent ==
    ASSUME ContainersInv, NEW s \in Stacks, NEW m \in 1 .. FullStack,
           RemoveStack(s, m)
    PROVE  ContainersInv'
<1> DEFINE w == Now
           v == RemoveThing(w, s, m)
<1>1. /\ Shaped(w, NoThing) /\ Counted(w) /\ w.parent[s] # NoThing
      /\ m \in 1 .. w.count[s] /\ Becomes(v)
  <2>1. w.parent = parent /\ w.count = itemCount
    BY DEF Now
  <2>2. m \in Nat /\ 1 <= m /\ m <= itemCount[s] /\ itemCount[s] \in Nat
    BY InvFacts, Kinds DEF RemoveStack
  <2> QED
    BY <2>1, <2>2 DEF RemoveStack, ContainersInv
<1>2. v = RemoveThing(w, s, m)
  OBVIOUS
<1> HIDE DEF w, v
<1>3. Shaped(v, NoThing) /\ Counted(v)
  BY <1>1, <1>2, StackRemoved
<1> QED
  BY <1>1, <1>3, InvNext

\* A container is removed with everything in it.
LEMMA BoxWent ==
    ASSUME ContainersInv, NEW x \in Boxes, RemoveBox(x)
    PROVE  ContainersInv'
<1> DEFINE gone == {y \in Things : x \in Within(y)}
           m == [b \in Boxes |-> IF b \in gone THEN <<>>
                                 ELSE RemoveFirst(itemlist[b], x)]
           q == [y \in Things |-> IF y \in gone THEN NoThing ELSE parent[y]]
           c == [s \in Stacks |-> IF s \in gone THEN 0 ELSE itemCount[s]]
           v == [list |-> m, parent |-> q, count |-> c]
<1>0. /\ itemlist \in [Boxes -> Seq(Things)]
      /\ parent \in [Things -> Holders]
      /\ itemCount \in [Stacks -> 0 .. FullStack]
      /\ Listed(itemlist, parent) /\ Rooted(parent, NoThing)
      /\ Ranked(parent) /\ FitsIn(itemlist)
      /\ \A s \in Stacks : itemCount[s] = 0 <=> parent[s] = NoThing
  BY InvFacts
<1>1. x \notin Roots /\ parent[x] # NoThing /\ Becomes(v) /\ x \in Things
  BY Kinds DEF RemoveBox
<1>2. /\ x \in gone /\ gone \subseteq Things
      /\ \A y \in Things \ {x} :
            parent[y] # NoThing => (y \in gone <=> parent[y] \in gone)
      /\ \A y \in gone \ {x} : parent[y] # NoThing
  <2>1. BelowIs(gone, x, parent)
    BY <1>0, <1>1, BelowAnItem
  <2>2. ASSUME NEW y \in gone \ {x} PROVE parent[y] # NoThing
    BY <1>0, <2>2, WithinIs
  <2> QED
    BY <2>1, <2>2 DEF BelowIs
<1> HIDE DEF gone
<1>3. \A b \in Boxes :
        /\ RemoveFirst(itemlist[b], x) \in Seq(Things)
        /\ OnceEach(RemoveFirst(itemlist[b], x))
        /\ \A y : Has(RemoveFirst(itemlist[b], x), y)
                    <=> Has(itemlist[b], y) /\ y # x
        /\ Len(RemoveFirst(itemlist[b], x)) <= Len(itemlist[b])
  <2> TAKE b \in Boxes
  <2> DEFINE s == itemlist[b]
  <2>1. s \in Seq(Things) /\ OnceEach(s)
    BY <1>0 DEF Listed
  <2> HIDE DEF s
  <2>2. /\ RemoveFirst(s, x) \in Seq(Things)
        /\ OnceEach(RemoveFirst(s, x))
        /\ \A y : Has(RemoveFirst(s, x), y) <=> Has(s, y) /\ y # x
        /\ Len(RemoveFirst(s, x)) <= Len(s)
    BY <2>1, FirstRemoved
  <2> QED
    BY <2>2 DEF s
<1>4. /\ m \in [Boxes -> Seq(Things)]
      /\ \A b \in Boxes : b \in gone => m[b] = <<>>
      /\ \A b \in Boxes : b \notin gone => m[b] = RemoveFirst(itemlist[b], x)
  BY <1>3
<1>5. /\ q \in [Things -> Holders]
      /\ \A y \in Things : q[y] = IF y \in gone THEN NoThing ELSE parent[y]
  BY <1>0 DEF Holders
<1>6. /\ c \in [Stacks -> 0 .. FullStack]
      /\ \A s \in Stacks : c[s] = IF s \in gone THEN 0 ELSE itemCount[s]
  BY <1>0, Kinds
<1> HIDE DEF m, q, c
<1>7. /\ v \in HeldStates /\ v.list = m /\ v.parent = q /\ v.count = c
  BY <1>4, <1>5, <1>6 DEF HeldStates
<1>8. Listed(m, q)
  <2> SUFFICES ASSUME NEW b \in Boxes
               PROVE  OnceEach(m[b])
                      /\ \A y \in Things : Has(m[b], y) <=> q[y] = b
    BY DEF Listed
  <2>0. b \in Things /\ b # NoThing /\ NoThing \notin Things
    BY Kinds
  <2>1. CASE b \in gone
    <3>1. m[b] = <<>> /\ DOMAIN m[b] = {}
      BY <1>4, <2>1
    <3>2. ASSUME NEW y \in Things PROVE q[y] # b
      <4>1. CASE y \in gone
        BY <1>5, <2>0, <4>1
      <4>2. CASE y \notin gone
        BY <1>2, <1>5, <2>0, <2>1, <4>2
      <4> QED
        BY <4>1, <4>2
    <3> QED
      BY <3>1, <3>2 DEF OnceEach, Has
  <2>2. CASE b \notin gone
    <3>1. /\ OnceEach(m[b])
          /\ \A y : Has(m[b], y) <=> Has(itemlist[b], y) /\ y # x
      BY <1>3, <1>4, <2>2
    <3>2. \A y \in Things : Has(itemlist[b], y) <=> parent[y] = b
      BY <1>0 DEF Listed
    <3>3. ASSUME NEW y \in Things
          PROVE  q[y] = b <=> parent[y] = b /\ y # x
      <4>1. CASE y = x
        BY <1>2, <1>5, <2>0, <4>1
      <4>2. CASE y # x
        BY <1>2, <1>5, <2>0, <2>2, <4>2
      <4> QED
        BY <4>1, <4>2
    <3> QED
      BY <3>1, <3>2, <3>3
  <2> QED
    BY <2>1, <2>2
<1>9. Rooted(q, NoThing)
  <2>0. NoThing \notin Things /\ Roots \subseteq Things
    BY Kinds
  <2>1. \A r \in Roots : q[r] = NoThing
    BY <1>0, <1>5, <2>0 DEF Rooted
  <2>2. ASSUME NEW y \in Things, q[y] # NoThing
        PROVE  q[y] \in Roots \/ q[q[y]] # NoThing
    <3>1. y \notin gone /\ q[y] = parent[y] /\ parent[y] \in Things
      BY <1>0, <1>5, <2>2, Kinds DEF Holders
    <3>2. parent[y] \in Roots \/ parent[parent[y]] # NoThing
      BY <1>0, <2>2, <3>1 DEF Rooted
    <3>3. parent[y] \notin gone
      BY <1>2, <2>0, <3>1
    <3> QED
      BY <1>5, <3>1, <3>2, <3>3
  <2> QED
    BY <2>1, <2>2 DEF Rooted
<1>10. Ranked(q)
  <2>1. PICK rank \in [Things -> Nat] : Ordered(parent, rank)
    BY <1>0 DEF Ranked
  <2>2. Ordered(q, rank)
    BY <1>5, <2>1 DEF Ordered
  <2> QED
    BY <2>1, <2>2 DEF Ranked
<1>11. FitsIn(m)
  <2> SUFFICES ASSUME NEW b \in Boxes \ {Locker} PROVE Len(m[b]) <= Capacity
    BY DEF FitsIn
  <2>1. Capacity \in Nat /\ Len(itemlist[b]) <= Capacity
    BY <1>0, Kinds DEF FitsIn
  <2>2. CASE b \in gone
    <3>1. Len(m[b]) = 0
      BY <1>4, <2>2
    <3> QED
      BY <2>1, <3>1
  <2>3. CASE b \notin gone
    <3> DEFINE t == RemoveFirst(itemlist[b], x)
    <3>1. m[b] = t /\ t \in Seq(Things) /\ Len(t) <= Len(itemlist[b])
      BY <1>3, <1>4, <2>3
    <3>2. itemlist[b] \in Seq(Things)
      BY <1>0
    <3> HIDE DEF t
    <3>3. Len(t) \in Nat /\ Len(itemlist[b]) \in Nat
      BY <3>1, <3>2
    <3> QED
      BY <2>1, <3>1, <3>3
  <2> QED
    BY <2>2, <2>3
<1>12. \A s \in Stacks : c[s] = 0 <=> q[s] = NoThing
  BY <1>0, <1>5, <1>6, Kinds
<1> HIDE DEF v
<1>13. Shaped(v, NoThing)
  BY <1>7, <1>8, <1>9, <1>10, <1>11 DEF Shaped
<1>14. Counted(v)
  BY <1>7, <1>12 DEF Counted
<1> QED
  BY <1>1, <1>13, <1>14, InvNext

\* At the start there is nothing.
LEMMA ContainersInvAtFirst == ContainersInit => ContainersInv
<1> SUFFICES ASSUME ContainersInit PROVE ContainersInv
  OBVIOUS
<1>1. /\ \A b \in Boxes : itemlist[b] = <<>>
      /\ \A x \in Things : parent[x] = NoThing
      /\ \A s \in Stacks : itemCount[s] = 0
  BY Kinds DEF ContainersInit
<1>2. /\ itemlist \in [Boxes -> Seq(Things)]
      /\ parent \in [Things -> Holders]
      /\ itemCount \in [Stacks -> 0 .. FullStack]
  BY Kinds DEF ContainersInit, Holders
<1>3. Now \in HeldStates /\ Now.list = itemlist /\ Now.parent = parent
      /\ Now.count = itemCount
  BY <1>2 DEF Now, HeldStates
<1>4. Listed(itemlist, parent)
  <2> SUFFICES ASSUME NEW b \in Boxes
               PROVE  OnceEach(itemlist[b])
                      /\ \A x \in Things : Has(itemlist[b], x)
                                              <=> parent[x] = b
    BY DEF Listed
  <2>1. DOMAIN itemlist[b] = {} /\ b # NoThing
    BY <1>1, Kinds
  <2> QED
    BY <1>1, <2>1 DEF OnceEach, Has
<1>5. Rooted(parent, NoThing)
  BY <1>1, Kinds DEF Rooted
<1>6. Ranked(parent)
  <2> DEFINE rank == [x \in Things |-> 0]
  <2>1. rank \in [Things -> Nat] /\ Ordered(parent, rank)
    BY <1>1 DEF Ordered
  <2> QED
    BY <2>1 DEF Ranked
<1>7. FitsIn(itemlist)
  BY <1>1, Kinds DEF FitsIn
<1>8. Counted(Now)
  BY <1>1, <1>3, Kinds DEF Counted
<1> QED
  BY <1>3, <1>4, <1>5, <1>6, <1>7, <1>8 DEF ContainersInv, Shaped

\* Where the total of the pieces may change
Total == \/ Pieces' = Pieces \/ Size(Locker) > Capacity
         \/ Receive \/ Discard

\* Every step keeps the invariant.
LEMMA ContainersInvIsKept ==
    ASSUME ContainersInv, ContainersNext
    PROVE  ContainersInv' /\ Total
<1>1. ASSUME NEW b \in Boxes, NEW n \in 1 .. FullStack, AddStack(b, n)
      PROVE  ContainersInv' /\ Total
  BY <1>1, StackCame DEF Total, Receive
<1>2. ASSUME NEW b \in Boxes, NEW x \in Boxes, AddBox(b, x)
      PROVE  ContainersInv' /\ Total
  BY <1>2, BoxCame DEF Total, Receive
<1>3. ASSUME NEW x \in Things \ Roots, parent[x] # NoThing,
             NEW d, Destination(d, x),
             NEW noLimit \in BOOLEAN, noLimit => d.box = Locker,
             NEW count \in Nat \ {0},
             noLimit /\ x \in Stacks => count <= itemCount[x],
             MoveInto(d, x, count, noLimit)
      PROVE  ContainersInv' /\ Total
  <2>1. CASE x \in Boxes
    <3>1. ContainersInv' /\ itemCount' = itemCount
      BY <1>3, <2>1, BoxMoved
    <3> QED
      BY <3>1 DEF Total, Pieces
  <2>2. CASE x \in Stacks
    BY <1>3, <2>2, StackMoved DEF Total
  <2> QED
    BY <2>1, <2>2, Kinds
<1>4. ASSUME NEW b \in Boxes, NEW x \in Things \ Roots,
             NEW index \in Indices, NEW count \in 1 .. FullStack,
             MoveContained(x, b, index, count)
      PROVE  ContainersInv' /\ Total
  <2> DEFINE d == QueryDestination(b, index, x)
  <2>1. /\ parent[x] # NoThing /\ Placed(parent, b)
        /\ MoveInto(d, x, count, FALSE)
    BY <1>4 DEF MoveContained, Placed
  <2>2. Destination(d, x) /\ count \in Nat \ {0}
    BY <2>1, DestinationIs, Kinds
  <2> HIDE DEF d
  <2> QED
    BY <1>3, <2>1, <2>2
<1>5. ASSUME NEW x \in Things \ Roots, MoveToLocker(x)
      PROVE  ContainersInv' /\ Total
  <2> DEFINE d == QueryDestination(Locker, Wherever, x)
             count == IF x \in Stacks THEN itemCount[x] ELSE 1
  <2>1. /\ parent[x] # NoThing /\ MoveInto(d, x, count, TRUE)
    BY <1>5 DEF MoveToLocker
  <2>2. Locker \in Roots /\ Placed(parent, Locker) /\ Wherever \in Indices
    BY ContainersAssumption DEF Placed, Indices
  <2>3. Destination(d, x)
    BY <2>2, DestinationIs
  <2>4. d.box = Locker
    <3>1. Wherever # Up /\ ~ (Wherever \in 0 .. Size(Locker) - 1)
      BY DEF Wherever, Up
    <3>2. At(Locker, Wherever) \notin Boxes
      BY <3>1, Kinds DEF At
    <3>3. ~ (Wherever >= Capacity) /\ Wherever \in Int
          /\ Wherever >= Wherever /\ Wherever < Capacity
      BY Kinds DEF Wherever
    <3>4. d = Stacked(Locker, Wherever, x)
      BY <3>1, <3>2, <3>3 DEF QueryDestination
    <3> QED
      BY <2>2, <3>3, <3>4, StackedIs
  <2>5. count \in Nat \ {0} /\ (x \in Stacks => count <= itemCount[x])
    <3>1. CASE x \in Stacks
      <4>1. itemCount[x] \in 0 .. FullStack /\ itemCount[x] # 0
        BY <2>1, <3>1, InvFacts
      <4> QED
        BY <3>1, <4>1, Kinds
    <3>2. CASE x \notin Stacks
      BY <3>2
    <3> QED
      BY <3>1, <3>2
  <2> HIDE DEF d, count
  <2> QED
    BY <1>3, <2>1, <2>3, <2>4, <2>5
<1>6. ASSUME NEW s \in Stacks, NEW m \in 1 .. FullStack, RemoveStack(s, m)
      PROVE  ContainersInv' /\ Total
  BY <1>6, StackWent DEF Total, Discard
<1>7. ASSUME NEW x \in Boxes, RemoveBox(x) PROVE ContainersInv' /\ Total
  BY <1>7, BoxWent DEF Total, Discard
<1> QED
  BY <1>1, <1>2, <1>4, <1>5, <1>6, <1>7 DEF ContainersNext

\* What the invariant says of the variables is that containers are sound.
LEMMA ContainersInvIsSound == ContainersInv => ContainersSound
<1> SUFFICES ASSUME ContainersInv PROVE ContainersSound
  OBVIOUS
<1>0. /\ itemlist \in [Boxes -> Seq(Things)]
      /\ parent \in [Things -> Holders]
      /\ itemCount \in [Stacks -> 0 .. FullStack]
      /\ Listed(itemlist, parent) /\ Rooted(parent, NoThing)
      /\ Ranked(parent) /\ FitsIn(itemlist)
      /\ \A s \in Stacks : itemCount[s] = 0 <=> parent[s] = NoThing
  BY InvFacts
<1>1. ContainersTypeOK
  BY <1>0 DEF ContainersTypeOK, Holders
<1>2. ParentsMatchLists
  <2> SUFFICES ASSUME NEW b \in Boxes, NEW x \in Things
               PROVE  Cardinality({i \in DOMAIN itemlist[b] :
                                       itemlist[b][i] = x})
                        = IF parent[x] = b THEN 1 ELSE 0
    BY DEF ParentsMatchLists
  <2> DEFINE I == {i \in DOMAIN itemlist[b] : itemlist[b][i] = x}
  <2>1. OnceEach(itemlist[b]) /\ (Has(itemlist[b], x) <=> parent[x] = b)
    BY <1>0 DEF Listed
  <2>2. CASE parent[x] = b
    <3>1. PICK i \in DOMAIN itemlist[b] : itemlist[b][i] = x
      BY <2>1, <2>2 DEF Has
    <3>2. I = {i}
      BY <2>1, <3>1 DEF OnceEach
    <3>3. Cardinality({i}) = 1
      BY FS_Singleton
    <3> QED
      BY <2>2, <3>2, <3>3
  <2>3. CASE parent[x] # b
    <3>1. I = {}
      BY <2>1, <2>3 DEF Has
    <3>2. Cardinality({}) = 0
      BY FS_EmptySet
    <3> QED
      BY <2>3, <3>1, <3>2
  <2> QED
    BY <2>2, <2>3
<1>3. InARoot
  <2>1. PICK rank \in [Things -> Nat] : Ordered(parent, rank)
    BY <1>0 DEF Ranked
  <2> DEFINE In(x) == \E r \in Roots : r \in Within(x)
             Good == {n \in Nat : \A x \in Things :
                        rank[x] = n /\ parent[x] # NoThing => In(x)}
  <2>2. ASSUME NEW n \in Nat, \A k \in Nat : k < n => k \in Good
        PROVE  n \in Good
    <3> SUFFICES ASSUME NEW x \in Things, rank[x] = n, parent[x] # NoThing
                 PROVE  In(x)
      OBVIOUS
    <3> DEFINE b == parent[x]
    <3>1. b \in Things /\ rank[b] \in Nat /\ rank[b] < n
      BY <1>0, <2>1, Kinds DEF Ordered, Holders
    <3>2. Within(x) = {x} \cup Within(b)
      BY <1>0, WithinIs
    <3>3. b \in Roots \/ parent[b] # NoThing
      BY <1>0 DEF Rooted
    <3>4. CASE b \in Roots
      <4>1. b \in Within(b)
        BY <1>0, <3>1, WithinIs
      <4> QED
        BY <3>2, <3>4, <4>1
    <3>5. CASE parent[b] # NoThing
      <4>1. rank[b] \in Good
        BY <2>2, <3>1
      <4>2. In(b)
        <5> HIDE DEF In
        <5> QED
          BY <3>1, <3>5, <4>1
      <4> QED
        BY <3>2, <4>2
    <3> QED
      BY <3>3, <3>4, <3>5
  <2>3. \A n \in Nat : n \in Good
    <3>1. Good \in SUBSET Nat
      OBVIOUS
    <3> HIDE DEF Good
    <3> QED
      BY <2>2, <3>1, AllNumbers
  <2>4. \A x \in Things : rank[x] \in Nat
    BY <2>1
  <2> HIDE DEF In
  <2>5. \A x \in Things : parent[x] # NoThing => In(x)
    BY <2>3, <2>4
  <2> QED
    BY <2>5 DEF InARoot, In
<1>4. WithinCapacity
  BY <1>0 DEF FitsIn, WithinCapacity, Size
<1> QED
  BY <1>1, <1>2, <1>3, <1>4 DEF ContainersSound

-----------------------------------------------------------------------------
(* Agreements: in a behaviour of one component the others stay as they     *)
(* begin.                                                                  *)

AllVars == <<TradeVars, PartyVars, ChatVars, ContainersVars, part>>

OneSteps == TradeStep \/ PartyStep \/ ChatStep \/ ContainersStep

LEMMA OnlyOneMoves ==
    ASSUME [OneSteps]_AllVars
    PROVE  /\ [TradeNext]_TradeVars /\ [PartyNext]_PartyVars
           /\ [ChatNext]_ChatVars /\ [ContainersNext]_ContainersVars
BY DEF AllVars, OneSteps, TradeStep, PartyStep, ChatStep, ContainersStep

LEMMA TradeInvHolds == Spec => []TradeInv
<1>1. Init => TradeInv
    BY TradeInvAtFirst DEF Init
<1>2. TradeInv /\ [OneSteps]_AllVars => TradeInv'
    BY OnlyOneMoves, TradeInvIsKept
<1> QED
    BY <1>1, <1>2, PTL DEF Spec, OneSteps, AllVars

\* The two players of a trade are each other's partners, what they offer is
\* registered and in their reach, and no item is in two offers, not even
\* inside another (game.cpp, player.cpp); for any players and items.
THEOREM TradesAreSound == Spec => []TradeSound
BY TradeInvHolds, TradeInvIsTradeSound, PTL

\* When both have accepted, each gets the item of the other, or no item moves
\* (game.cpp, playerAcceptTrade).
THEOREM TradesMoveBothOrNothing == Spec => BothOrNothing
<1>1. TradeInv /\ [OneSteps]_AllVars =>
        [\A p \in TradePlayers : AcceptTransfer(p) =>
            LET q == tradePartner[p]
                moved == {i \in TradeItems : holder'[i] # holder[i]} IN
            \/ moved = {}
            \/ /\ moved = {tradeItem[p], tradeItem[q]}
               /\ holder'[tradeItem[p]] = q /\ holder'[tradeItem[q]] = p
        ]_TradeVars
    BY TransferMovesBoth
<1> QED
    BY <1>1, TradeInvHolds, PTL DEF Spec, OneSteps, AllVars, BothOrNothing

LEMMA PartyInvHolds == Spec => []PartyInv
<1>1. Init => PartyInv
    BY PartyInvAtFirst DEF Init
<1>2. PartyInv /\ [OneSteps]_AllVars => PartyInv'
    BY OnlyOneMoves, PartyInvIsKept
<1> QED
    BY <1>1, <1>2, PTL DEF Spec, OneSteps, AllVars

\* A party knows its members and invitees as they know it, shares experience
\* only while all of its members may, and is freed when nobody is left
\* (party.cpp); for any players and parties.
THEOREM PartiesAreSound == Spec => []PartySound
BY PartyInvHolds, PartyInvIsSound, PTL

\* Nobody loses a party but who leaves it, or by its end with the last two.
THEOREM PartiesLast == Spec => PartiesOutliveLeavers
<1>1. PartyInv /\ [OneSteps]_AllVars =>
        [\A id \in PartyIds :
            LET before == Everyone(party[id])
                after == Everyone(party'[id]) IN
            \/ Cardinality(before \ after) <= 1
            \/ after = {} /\ Cardinality(before) = 2]_PartyVars
    BY OnlyOneMoves, PartyInvIsKept DEF NoneIsLost, OneGone
<1> QED
    BY <1>1, PartyInvHolds, PTL
       DEF Spec, OneSteps, AllVars, PartiesOutliveLeavers

LEMMA ChatInvHolds == Spec => []ChatInv
<1>1. Init => ChatInv
    BY ChatInvAtFirst DEF Init
<1>2. ChatInv /\ [OneSteps]_AllVars => ChatInv'
    BY OnlyOneMoves, ChatInvIsKept
<1> QED
    BY <1>1, <1>2, PTL DEF Spec, OneSteps, AllVars

\* Who hears a channel is in the game, and a private one is heard by its owner
\* and the invited only, nobody owning two (chat.cpp); for any players, ids
\* and number of private channels.
THEOREM ChatIsSound == Spec => []ChatSound
BY ChatInvHolds, ChatInvIsSound, PTL

\* A step of a component, or none.
LEMMA ContainersStayOrChange ==
    ContainersInv /\ [ContainersNext]_ContainersVars
        => ContainersInv' /\ [Total]_ContainersVars
<1> SUFFICES ASSUME ContainersInv, [ContainersNext]_ContainersVars
             PROVE  ContainersInv' /\ [Total]_ContainersVars
    OBVIOUS
<1>1. CASE ContainersNext
    BY <1>1, ContainersInvIsKept
<1>2. CASE UNCHANGED ContainersVars
    <2>1. Now' = Now
        BY <1>2 DEF ContainersVars, Now
    <2>2. ContainersInv'
        BY <2>1 DEF ContainersInv, Shaped, Counted
    <2> QED
        BY <1>2, <2>2
<1> QED
    BY <1>1, <1>2

\* Their invariant holds always.
LEMMA ContainersInvHolds == Spec => []ContainersInv
<1>1. Init => ContainersInv
    BY ContainersInvAtFirst DEF Init
<1>2. ContainersInv /\ [OneSteps]_AllVars => ContainersInv'
    BY OnlyOneMoves, ContainersStayOrChange
<1> QED
    BY <1>1, <1>2, PTL DEF Spec, OneSteps, AllVars

\* However items are moved, added and removed, an item is in the list of its
\* parent and in no other, no container comes to be inside itself, all that is
\* anywhere is in a root, and none but the locker is overfull (game.cpp,
\* container.cpp); for any containers, stacks and sizes.
THEOREM ContainersAreSound == Spec => []ContainersSound
BY ContainersInvHolds, ContainersInvIsSound, PTL

\* Moving makes no pieces of a stack and loses none (internalMoveItem), as
\* long as the locker is not overfull; for any containers, stacks and sizes.
THEOREM PiecesAreConserved == Spec => PiecesConserved
<1>1. ContainersInv /\ [OneSteps]_AllVars =>
        [\/ FoldFunctionOnSet(+, 0, itemCount', Stacks)
                = FoldFunctionOnSet(+, 0, itemCount, Stacks)
         \/ Size(Locker) > Capacity
         \/ Receive \/ Discard]_ContainersVars
    <2>1. Total => \/ FoldFunctionOnSet(+, 0, itemCount', Stacks)
                        = FoldFunctionOnSet(+, 0, itemCount, Stacks)
                   \/ Size(Locker) > Capacity
                   \/ Receive \/ Discard
        <3>1. \A c : SumOver(c, Stacks) = FoldFunctionOnSet(+, 0, c, Stacks)
            BY DEF SumOver
        <3>2. Pieces = SumOver(itemCount, Stacks)
            BY DEF Pieces
        <3>3. Pieces' = SumOver(itemCount', Stacks)
            <4> DEFINE c == itemCount'
            <4>1. itemCount' = c
                OBVIOUS
            <4> HIDE DEF c
            <4>2. Pieces' = SumOver(c, Stacks)
                BY <4>1 DEF Pieces
            <4> QED
                BY <4>2 DEF c
        <3> QED
            BY <3>1, <3>2, <3>3 DEF Total
    <2> QED
        BY <2>1, OnlyOneMoves, ContainersStayOrChange
<1> QED
    BY <1>1, ContainersInvHolds, PTL
       DEF Spec, OneSteps, AllVars, PiecesConserved
=============================================================================
