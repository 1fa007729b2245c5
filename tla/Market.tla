------------------------------- MODULE Market ------------------------------
(***************************************************************************)
(* The market (playerCreateMarketOffer, playerCancelMarketOffer and        *)
(* playerAcceptMarketOffer of game.cpp; iomarket.cpp).  Offers are rows of *)
(* a table.  The dispatcher's thread creates, accepts and cancels them     *)
(* with synchronous queries; the database thread looks for expired ones,   *)
(* and its result is a copy that the dispatcher processes later, when the  *)
(* rows may have changed.                                                  *)
(*                                                                         *)
(* A trader's gold is cash and bank together, goods are what lies in the   *)
(* depot: both are saved when the trader logs out.  What the market hands  *)
(* out goes into the inbox, and inboxes are neither saved nor loaded.      *)
(* Goods are "stack"able or "single"; which stackable or single ones they  *)
(* are is not told apart, but for a sale of another item than the one      *)
(* offered.  Queries that change a row succeed: the code does not look at  *)
(* their results (iomarket.cpp:266-277 and its callers in game.cpp), so    *)
(* that a failed one would lose what was taken, or give it twice; this is  *)
(* outside of the accounts below.                                          *)
(***************************************************************************)
EXTENDS Integers, Sequences, FiniteSets, Functions

CONSTANTS
    Traders, OfferIds,
    StartGold, StartGoods,   \* what each trader begins with
    Prices, Amounts, Fee,    \* Fee: 1% of the price within bounds
    MaxResults,              \* bound: results of expiry queries in flight
    NoOffer

Kinds == {"stack", "single"}
Offers == [owner : Traders, type : {"BUY", "SELL"}, kind : Kinds,
           amount : Nat \ {0}, price : Nat \ {0}]

ASSUME MarketAssumption ==
    /\ IsFiniteSet(Traders) /\ IsFiniteSet(OfferIds)
    /\ OfferIds \subseteq Nat \ {0} /\ NoOffer \notin Offers
    /\ {StartGold, StartGoods, Fee, MaxResults} \subseteq Nat
    /\ Prices \cup Amounts \subseteq Nat \ {0}

Rows == [id : OfferIds, offer : Offers]

VARIABLES
    online,          \* the traders whose Player is in the game
    gold, goods,     \* of each trader
    inbox,           \* goods in the inbox of each trader
    offers,          \* the table market_offers
    created,         \* how many rows were ever inserted: the last id
    expired,         \* the rows older than the duration of an offer
    results,         \* what the database thread found, not yet processed
    burned, vanished,       \* history: gold and goods the market swallowed
    swapped,                \* history: pieces offered that were not taken
    overpaid, overgiven     \* history: and what it gave that nobody put in

history == <<burned, vanished, swapped, overpaid, overgiven>>
MarketVars ==
    <<online, gold, goods, inbox, offers, created, expired, results, history>>

MarketTypeOK ==
    /\ gold \in [Traders -> Nat]
    /\ online \subseteq Traders
    /\ {goods, inbox} \subseteq [Traders -> [Kinds -> Nat]]
    /\ offers \in [OfferIds -> Offers \cup {NoOffer}]
    /\ created \in Nat
    /\ expired \subseteq OfferIds
    /\ results \in Seq(SUBSET Rows)
    /\ {burned, vanished, swapped, overpaid, overgiven} \subseteq Nat

MarketInit ==
    /\ gold = [p \in Traders |-> StartGold]
    /\ online = Traders
    /\ goods = [p \in Traders |-> [k \in Kinds |-> StartGoods]]
    /\ inbox = [p \in Traders |-> [k \in Kinds |-> 0]]
    /\ offers = [o \in OfferIds |-> NoOffer]
    /\ created = 0
    /\ expired = {}
    /\ results = <<>>
    /\ burned = 0 /\ vanished = 0 /\ swapped = 0
    /\ overpaid = 0 /\ overgiven = 0

-----------------------------------------------------------------------------
Open(o) == offers[o] # NoOffer

Insert(offer) ==
    /\ created + 1 \in OfferIds       \* bound
    /\ created' = created + 1
    /\ offers' = [offers EXCEPT ![created + 1] = offer]

Afford(p, sum) == gold[p] >= sum

(* A single item is offered by itself. *)
Offerable(k, n) == k = "single" => n = 1

(* getMarketItemList looks for n pieces in the depot and in the inbox, and *)
(* d of those it lists are from the depot.                                 *)
Available(p, k, n) ==
    {d \in 0 .. n : d <= goods[p][k] /\ n - d <= inbox[p][k]}

FromDepot(p, k, d) == [goods EXCEPT ![p][k] = @ - d]

FromInbox(p, k, i) == [inbox EXCEPT ![p][k] = @ - i]

(* Goods for p: into the inbox, which is lost with the Player object of a  *)
(* trader who is loaded only for this.                                     *)
ToInbox(ib, p, k, n) ==
    IF p \in online THEN [ib EXCEPT ![p][k] = @ + n] ELSE ib

Unsaved(p, n) == IF p \in online THEN 0 ELSE n

CreateBuyOffer(p, k, n, price) ==
    /\ p \in online
    /\ Offerable(k, n)
    /\ Afford(p, price * n + Fee)
    /\ gold' = [gold EXCEPT ![p] = @ - (price * n + Fee)]
    /\ burned' = burned + Fee
    /\ Insert([owner |-> p, type |-> "BUY", kind |-> k, amount |-> n,
               price |-> price])
    /\ UNCHANGED <<online, goods, inbox, expired, results, vanished, swapped,
                   overpaid, overgiven>>

(* A sale: the fee is taken in any case.  Of stackable goods no row is     *)
(* ever inserted: createOffer is called for single items and for BUY only. *)
SellStack(p, n) ==
    \E d \in Available(p, "stack", n) :
        /\ goods' = FromDepot(p, "stack", d)
        /\ inbox' = FromInbox(p, "stack", n - d)
        /\ vanished' = vanished + n
        /\ UNCHANGED <<offers, created, swapped>>

(* What lies in the depot of p by itself and can be taken at once: a stack *)
(* of so many pieces, a single item, or a container with all that is in it *)
(* (which is a single item as well).                                       *)
PiecesIn(lot) == lot["stack"] + lot["single"]

Lots(p) ==
    {lot \in [Kinds -> 0 .. goods[p]["stack"] + goods[p]["single"]] :
        /\ \A k \in Kinds : lot[k] <= goods[p][k]
        /\ PiecesIn(lot) > 0}

(* A single item is looked for by the id that the client sent, among what  *)
(* lies in the depot itself, and neither its kind nor its count is         *)
(* compared with the offer: the row is one piece of the kind asked for,    *)
(* what is removed is that lot, as a whole.  An item in the inbox or in a  *)
(* container passes the test but is not found.                             *)
SellSingle(p, price) ==
    \/ /\ Insert([owner |-> p, type |-> "SELL", kind |-> "single",
                  amount |-> 1, price |-> price])
       /\ \E lot \in Lots(p), other \in {0, 1} :
             /\ other = 0 => lot["single"] > 0    \* it is among them
             /\ goods' = [goods EXCEPT ![p] =
                            [k \in Kinds |-> goods[p][k] - lot[k]]]
             /\ vanished' = vanished + (PiecesIn(lot) - 1 + other)
             /\ swapped' = swapped + other
       /\ UNCHANGED inbox
    \/ UNCHANGED <<offers, created, goods, inbox, vanished, swapped>>

CreateSellOffer(p, k, n, price) ==
    /\ p \in online
    /\ Offerable(k, n)
    /\ Afford(p, Fee)
    /\ Available(p, k, n) # {}
    /\ gold' = [gold EXCEPT ![p] = @ - Fee]
    /\ burned' = burned + Fee
    /\ IF k = "stack" THEN SellStack(p, n) ELSE SellSingle(p, price)
    /\ UNCHANGED <<online, expired, results, overpaid, overgiven>>

(* The unsold goods of a SELL offer *)
Returned(offer) ==
    inbox' = ToInbox(inbox, offer.owner, offer.kind, offer.amount)

CancelOffer(p, o) ==
    /\ Open(o) /\ offers[o].owner = p /\ p \in online
    /\ IF offers[o].type = "BUY"
       THEN /\ gold' = [gold EXCEPT ![p] =
                            @ + offers[o].price * offers[o].amount]
            /\ UNCHANGED inbox
       ELSE Returned(offers[o]) /\ UNCHANGED gold
    /\ offers' = [offers EXCEPT ![o] = NoOffer]
    /\ UNCHANGED <<online, goods, created, expired, results, history>>

(* Accepting n pieces: the owner of a BUY offer has paid when it was made, *)
(* the owner of a SELL offer has given the goods then.                     *)
BuyerPaysTwiceMutant(p, offer, n) ==
    IF offer.type = "BUY"
    THEN [gold EXCEPT ![p] = @ + offer.price * n,
                      ![offer.owner] = @ - offer.price * n]
    ELSE [gold EXCEPT ![p] = @ - offer.price * n,
                      ![offer.owner] = @ + offer.price * n]

GoldAfter(p, offer, n) ==
    IF offer.type = "BUY"
    THEN [gold EXCEPT ![p] = @ + offer.price * n]
    ELSE [gold EXCEPT ![p] = @ - offer.price * n,
                      ![offer.owner] = @ + offer.price * n]

Deliver(p, offer, n) ==
    LET k == offer.kind IN
    IF offer.type = "BUY"
    THEN \E d \in Available(p, k, n) :
            /\ goods' = FromDepot(p, k, d)
            /\ inbox' = ToInbox(FromInbox(p, k, n - d), offer.owner, k, n)
            /\ vanished' = vanished + Unsaved(offer.owner, n)
    ELSE /\ inbox' = ToInbox(inbox, p, k, n)
         /\ UNCHANGED <<goods, vanished>>

AcceptOffer(p, o, n) ==
    LET offer == offers[o] IN
    /\ Open(o) /\ offer.owner # p /\ p \in online
    /\ n <= offer.amount
    /\ offer.type = "SELL" => Afford(p, offer.price * n)
    /\ gold' = GoldAfter(p, offer, n)
    /\ Deliver(p, offer, n)
    /\ offers' = [offers EXCEPT ![o] =
                    IF n = offer.amount THEN NoOffer
                    ELSE [offer EXCEPT !.amount = @ - n]]
    /\ UNCHANGED <<online, created, expired, results, burned, swapped,
                   overpaid, overgiven>>

(* savePlayer stores everything but the inbox, loadPlayer likewise. *)
LogoutOwner(p) ==
    /\ p \in online
    /\ online' = online \ {p}
    /\ inbox' = [inbox EXCEPT ![p] = [k \in Kinds |-> 0]]
    /\ vanished' = vanished + inbox[p]["stack"] + inbox[p]["single"]
    /\ UNCHANGED <<gold, goods, offers, created, expired, results, burned,
                   swapped, overpaid, overgiven>>

LoginOwner(p) ==
    /\ p \notin online
    /\ online' = online \cup {p}
    /\ UNCHANGED <<gold, goods, inbox, offers, created, expired, results,
                   history>>

(* MARKET_OFFER_DURATION passes. *)
PassDuration(o) ==
    /\ Open(o) /\ o \notin expired
    /\ expired' = expired \cup {o}
    /\ UNCHANGED <<online, gold, goods, inbox, offers, created, results,
                   history>>

(* The database thread runs the query of checkExpiredOffers, which is      *)
(* repeated for ever; with nothing found there is nothing to process.      *)
FindExpired ==
    /\ Len(results) < MaxResults
    /\ results' = Append(results,
            {[id |-> o, offer |-> offers[o]] :
                o \in {e \in expired : Open(e)}})
    /\ UNCHANGED <<online, gold, goods, inbox, offers, created, expired,
                   history>>

(* processExpiredOffers: moveOfferToHistory deletes the row and says       *)
(* whether it was still there; what is given back is what the result says. *)
AnyRowMutant(rows) == rows

StillThere(rows) == {r \in rows : Open(r.id)}

Total(f, S) == FoldFunctionOnSet(+, 0, f, S)

GoldBack(rows, p) ==
    LET back == [r \in rows |-> r.offer.price * r.offer.amount] IN
    Total(back, {r \in rows : r.offer.owner = p /\ r.offer.type = "BUY"})

GoodsBack(rows, p, k) ==
    LET back == [r \in rows |-> r.offer.amount] IN
    Total(back, {r \in rows : /\ r.offer.owner = p /\ r.offer.kind = k
                              /\ r.offer.type = "SELL"})

(* The part of a row that was accepted after the query had seen it. *)
AcceptedSince(r) ==
    IF Open(r.id) THEN r.offer.amount - offers[r.id].amount
    ELSE 0

ProcessExpired ==
    /\ results # <<>>
    /\ results' = Tail(results)
    /\ LET rows == StillThere(Head(results))
           Of(type) == {r \in rows : r.offer.type = type}
           pieces == [r \in rows |-> AcceptedSince(r)]
           worth == [r \in rows |-> r.offer.price * AcceptedSince(r)]
           unsaved == [r \in rows |-> Unsaved(r.offer.owner, r.offer.amount)]
       IN
        /\ offers' = [o \in OfferIds |->
              IF \E r \in rows : r.id = o THEN NoOffer ELSE offers[o]]
        /\ gold' = [p \in Traders |-> gold[p] + GoldBack(rows, p)]
        /\ inbox' = [p \in Traders |-> [k \in Kinds |->
              IF p \in online THEN inbox[p][k] + GoodsBack(rows, p, k)
              ELSE inbox[p][k]]]
        /\ vanished' = vanished + Total(unsaved, Of("SELL"))
        /\ overpaid' = overpaid + Total(worth, Of("BUY"))
        /\ overgiven' = overgiven + Total(pieces, Of("SELL"))
    /\ UNCHANGED <<online, goods, created, expired, burned, swapped>>

-----------------------------------------------------------------------------
CreateOffer(p) ==
    \E k \in Kinds, n \in Amounts, price \in Prices :
        CreateBuyOffer(p, k, n, price) \/ CreateSellOffer(p, k, n, price)

ByTrader(p) ==
    \/ CreateOffer(p)
    \/ \E o \in OfferIds : CancelOffer(p, o)
    \/ LogoutOwner(p)
    \/ \E o \in OfferIds, n \in Amounts : AcceptOffer(p, o, n)

MarketNext ==
    \/ \E p \in Traders : CreateOffer(p)
    \/ \E p \in Traders, o \in OfferIds : CancelOffer(p, o)
    \/ \E p \in Traders, o \in OfferIds, n \in Amounts : AcceptOffer(p, o, n)
    \/ \E p \in Traders : LogoutOwner(p) \/ LoginOwner(p)
    \/ \E o \in OfferIds : PassDuration(o)
    \/ FindExpired
    \/ ProcessExpired

(* The expiry check is an event that schedules itself again, and both      *)
(* threads serve their queues.                                             *)
MarketSpec ==
    /\ MarketInit /\ [][MarketNext]_MarketVars
    /\ WF_MarketVars(FindExpired) /\ WF_MarketVars(ProcessExpired)

-----------------------------------------------------------------------------
(* Gold is never made or lost in the market: what the traders have, what   *)
(* stands in the BUY offers and the fees are what they began with, but for *)
(* the pieces bought between the query of an expired offer and its refund, *)
(* which are paid back although they were delivered.                       *)
GoldAccounted ==
    LET standing == [o \in OfferIds |->
            IF Open(o) /\ offers[o].type = "BUY"
            THEN offers[o].price * offers[o].amount ELSE 0] IN
    Total(gold, Traders) + Total(standing, OfferIds) + burned
        = Total([p \in Traders |-> StartGold], Traders) + overpaid

(* Goods are lost or made only where the code does not keep them: lost are *)
(* the stackable goods of a sale, for which no offer is inserted, what is  *)
(* in an inbox when its Player object ends, and what a sale of a single    *)
(* item removed beside the piece offered; made are the pieces offered      *)
(* where another lot was removed, one at most for each row ever inserted.  *)
(* No expiry makes any: a SELL offer is of one piece, of which none was    *)
(* accepted while it is still there.                                       *)
GoodsAccounted ==
    LET owned == [p \in Traders |->
            goods[p]["stack"] + goods[p]["single"]
            + inbox[p]["stack"] + inbox[p]["single"]]
        standing == [o \in OfferIds |->
            IF Open(o) /\ offers[o].type = "SELL"
            THEN offers[o].amount ELSE 0] IN
    /\ Total(owned, Traders) + Total(standing, OfferIds) + vanished
        = Total([p \in Traders |-> 2 * StartGoods], Traders) + swapped
    /\ swapped <= created
    /\ overgiven = 0

(* The market is sound: its offers are counted up to what was paid in, and *)
(* gold and goods come from nowhere or vanish in the named cases only.     *)
MarketSound == MarketTypeOK /\ GoldAccounted /\ GoodsAccounted

(* A trader loses gold or goods by what the trader does, never because     *)
(* somebody accepts the offer: its owner has given everything beforehand.  *)
OwnersPaidInAdvance ==
    [][\A p \in Traders :
        \/ gold'[p] < gold[p]
        \/ \E k \in Kinds : goods'[p][k] + inbox'[p][k]
                                < goods[p][k] + inbox[p][k]
        => ByTrader(p)]_MarketVars

(* An offer that expired comes to an end, as long as the queries for them  *)
(* are repeated and their results processed.                               *)
ExpiredOffersEnd ==
    \A o \in OfferIds : o \in expired ~> ~Open(o)
=============================================================================
