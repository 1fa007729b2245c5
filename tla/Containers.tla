----------------------------- MODULE Containers -----------------------------
(***************************************************************************)
(* Containers and the stacks in them (internalMoveItem, internalAddItem    *)
(* and internalRemoveItem of game.cpp, container.cpp).  A container shows  *)
(* its items by index; to move an item is to ask the target where it would *)
(* go, whether it may and how much of it, and then to take it out, merge   *)
(* it with a stack and put in what is left.                                *)
(*                                                                         *)
(* Stacks are of one kind and equal.  Roots stand on the ground or in a    *)
(* depot and are never moved.  What a house loses is moved to the locker   *)
(* without a limit.  Weight, scripts, houses and locked containers may     *)
(* refuse any move, which then is not made.                                *)
(***************************************************************************)
EXTENDS Integers, SequencesExt

CONSTANTS
    Boxes,       \* containers
    Roots,       \* those that are not moved
    Locker,      \* the root that takes what a house loses
    Stacks,      \* stacks, existing and to come
    FullStack,   \* 100
    Capacity,
    NoThing

ASSUME ContainersAssumption ==
    /\ Locker \in Roots /\ Roots \subseteq Boxes
    /\ NoThing \notin Boxes \cup Stacks /\ Boxes \cap Stacks = {}
    /\ IsFiniteSet(Boxes) /\ IsFiniteSet(Stacks)
    /\ {FullStack, Capacity} \subseteq Nat \ {0}

Things == Boxes \cup Stacks
Wherever == -1
Up == 254
Indices == {Wherever, Up} \cup 0 .. Capacity

VARIABLES
    itemlist,    \* of each container
    parent,      \* of each item
    itemCount    \* of each stack; 0 is one that does not exist

ContainersVars == <<itemlist, parent, itemCount>>

ContainersTypeOK ==
    /\ itemlist \in [Boxes -> Seq(Things)]
    /\ parent \in [Things -> Boxes \cup {NoThing}]
    /\ itemCount \in [Stacks -> 0 .. FullStack]
    /\ \A s \in Stacks : itemCount[s] = 0 <=> parent[s] = NoThing

ContainersInit ==
    /\ itemlist = [b \in Boxes |-> <<>>]
    /\ parent = [x \in Things |-> NoThing]
    /\ itemCount = [s \in Stacks |-> 0]

-----------------------------------------------------------------------------
Least(m, n) == IF m <= n THEN m ELSE n

Size(b) == Len(itemlist[b])

At(b, index) ==
    IF index \in 0 .. Size(b) - 1 THEN itemlist[b][index + 1] ELSE NoThing

Fillable(s) == s \in Stacks /\ itemCount[s] < FullStack

Room(s) == FullStack - itemCount[s]

(* The first stack of b with room, as an index *)
FirstRoom(b, x) ==
    LET fit == {i \in DOMAIN itemlist[b] :
                    itemlist[b][i] # x /\ Fillable(itemlist[b][i])} IN
    IF fit = {} THEN Wherever
    ELSE (CHOOSE i \in fit : \A j \in fit : i <= j) - 1

(* What x is in, and x itself *)
Within(x) ==
    LET up[n \in 0 .. Cardinality(Boxes)] ==
            IF n = 0 THEN x
            ELSE IF up[n - 1] = NoThing THEN NoThing ELSE parent[up[n - 1]]
    IN  {up[n] : n \in 0 .. Cardinality(Boxes)} \ {NoThing}

(* queryDestination: x goes to a box, at an index, to be merged with item. *)
Place(b, index, item) == [box |-> b, index |-> index, item |-> item]

Stacked(b, index, x) ==
    LET item == At(b, index)
        fit == FirstRoom(b, x) IN
    IF x \notin Stacks \/ parent[x] = b \/ Fillable(item) \/ fit = Wherever
    THEN Place(b, index, item)
    ELSE Place(b, fit, At(b, fit))

QueryDestination(b, index, x) ==
    IF index = Up
    THEN IF parent[b] = NoThing THEN Place(b, Wherever, NoThing)
         ELSE Stacked(parent[b], Wherever, x)
    ELSE IF At(b, index) \in Boxes /\ index < Capacity
    THEN Stacked(At(b, index), Wherever, x)
    ELSE Stacked(b, IF index >= Capacity THEN Wherever ELSE index, x)

IntoItselfMutant(d, x, noLimit) ==
    ~noLimit /\ d.index = Wherever => Size(d.box) < Capacity

QueryAdd(d, x, noLimit) ==
    /\ x \notin Within(d.box)
    /\ ~noLimit /\ d.index = Wherever => Size(d.box) < Capacity

(* How many pieces the stacks with room take in any case *)
RoomAt(d, x) ==
    IF d.index = Wherever
    THEN LET fit == {s \in Stacks \ {x} : parent[s] = d.box /\ Fillable(s)}
             room == [s \in fit |-> Room(s)] IN
         FoldFunctionOnSet(+, 0, room, fit)
    ELSE IF Fillable(At(d.box, d.index)) THEN Room(At(d.box, d.index)) ELSE 0

FreeSlots(b) == IF Size(b) < Capacity THEN Capacity - Size(b) ELSE 0

QueryMaxCount(d, x, count, noLimit) ==
    IF noLimit THEN count
    ELSE IF x \in Stacks THEN FreeSlots(d.box) * FullStack + RoomAt(d, x)
    ELSE FreeSlots(d.box)

-----------------------------------------------------------------------------
(* What the lists, parents and counts become, step by step *)
Now == [list |-> itemlist, parent |-> parent, count |-> itemCount]

Becomes(w) ==
    /\ itemlist' = w.list
    /\ parent' = w.parent
    /\ itemCount' = w.count

Erased(w, x) ==
    [w EXCEPT !.list[w.parent[x]] = RemoveFirst(@, x),
              !.parent[x] = NoThing]

KeptInListMutant(w, x, m) ==
    IF x \in Stacks /\ m < w.count[x] THEN [w EXCEPT !.count[x] = @ - m]
    ELSE [w EXCEPT !.parent[x] = NoThing]

(* removeThing *)
RemoveThing(w, x, m) ==
    IF x \in Stacks /\ m < w.count[x] THEN [w EXCEPT !.count[x] = @ - m]
    ELSE IF x \in Stacks THEN [Erased(w, x) EXCEPT !.count[x] = 0]
    ELSE Erased(w, x)

(* addThing: an index behind the last slot is ignored, and so is the item. *)
AddThing(w, b, index, x, count) ==
    IF index >= Capacity THEN w
    ELSE [w EXCEPT !.list[b] = <<x>> \o @, !.parent[x] = b,
                   !.count = IF x \in Stacks THEN [@ EXCEPT ![x] = count]
                             ELSE @]

Fresh(w) == CHOOSE s \in Stacks : w.parent[s] = NoThing

MayClone(w) == \E s \in Stacks : w.parent[s] = NoThing

(* How much of m pieces goes to the stack they are merged with *)
Merged(x, item, m) ==
    IF {x, item} \subseteq Stacks THEN Least(Room(item), m) ELSE 0

(* internalMoveItem.  Bound: no more stacks than there are in Stacks.      *)
MoveInto(d, x, count, noLimit) ==
    LET max == QueryMaxCount(d, x, count, noLimit)
        m == Least(count, max)
        n == Merged(x, d.item, m)
        removed == RemoveThing(Now, x, m)
        updated == IF n > 0 THEN [removed EXCEPT !.count[d.item] = @ + n]
                   ELSE removed
    IN  /\ x # d.item
        /\ QueryAdd(d, x, noLimit)
        /\ max > 0
        /\ x \in Stacks => m <= itemCount[x]
        /\ IF x \in Boxes
           THEN Becomes(AddThing(updated, d.box, d.index, x, 1))
           ELSE IF m = n THEN Becomes(updated)
           ELSE /\ MayClone(updated)
                /\ Becomes(AddThing(updated, d.box, d.index,
                                    Fresh(updated), m - n))

MoveContained(x, b, index, count) ==
    /\ parent[x] # NoThing
    /\ b \in Roots \/ parent[b] # NoThing
    /\ MoveInto(QueryDestination(b, index, x), x, count, FALSE)

(* transferToDepot.  A container that is met on the way ends the licence.  *)
MoveToLocker(x) ==
    /\ parent[x] # NoThing
    /\ LET d == QueryDestination(Locker, Wherever, x) IN
       MoveInto(d, x, IF x \in Stacks THEN itemCount[x] ELSE 1, TRUE)

(* internalAddItem of a new stack: it fills the stacks that are there, one *)
(* after the other, and the rest is put in front.                          *)
Fill(w, b, n) ==
    LET filled[i \in 0 .. Size(b)] ==
            IF i = 0 THEN [state |-> w, left |-> n]
            ELSE LET s == itemlist[b][i]
                     g == filled[i - 1]
                     k == IF Fillable(s) THEN Least(Room(s), g.left) ELSE 0 IN
                 IF k = 0 THEN g
                 ELSE [state |-> [g.state EXCEPT !.count[s] = @ + k],
                       left |-> g.left - k]
    IN  filled[Size(b)]

AddStack(b, n) ==
    LET d == Place(b, FirstRoom(b, NoThing), NoThing)
        all == Place(b, Wherever, NoThing)
        filled == Fill(Now, b, n)
    IN  /\ b \in Roots \/ parent[b] # NoThing
        /\ QueryAdd(d, NoThing, FALSE)
        /\ FreeSlots(b) * FullStack + RoomAt(all, NoThing) >= n
        /\ IF filled.left = 0 THEN Becomes(filled.state)
           ELSE /\ MayClone(filled.state)
                /\ Becomes(AddThing(filled.state, b, Wherever,
                                    Fresh(filled.state), filled.left))

AddBox(b, x) ==
    /\ b \in Roots \/ parent[b] # NoThing
    /\ x \notin Roots /\ parent[x] = NoThing
    /\ QueryAdd(Place(b, Wherever, NoThing), x, FALSE)
    /\ Becomes(AddThing(Now, b, Wherever, x, 1))

(* internalRemoveItem, of a part of a stack, or of an item with everything *)
(* in it                                                                   *)
RemoveStack(s, m) ==
    /\ parent[s] # NoThing /\ m <= itemCount[s]
    /\ Becomes(RemoveThing(Now, s, m))

RemoveBox(x) ==
    LET gone == {y \in Things : x \in Within(y)} IN
    /\ x \notin Roots /\ parent[x] # NoThing
    /\ Becomes([list |-> [b \in Boxes |->
                    IF b \in gone THEN <<>>
                    ELSE RemoveFirst(itemlist[b], x)],
                parent |-> [y \in Things |-> IF y \in gone THEN NoThing
                                             ELSE parent[y]],
                count |-> [s \in Stacks |-> IF s \in gone THEN 0
                                            ELSE itemCount[s]]])

Receive ==
    \E b \in Boxes :
        \/ \E n \in 1 .. FullStack : AddStack(b, n)
        \/ \E x \in Boxes : AddBox(b, x)

Discard ==
    \/ \E s \in Stacks, m \in 1 .. FullStack : RemoveStack(s, m)
    \/ \E x \in Boxes : RemoveBox(x)

ContainersNext ==
    \/ \E b \in Boxes :
        \/ \E n \in 1 .. FullStack : AddStack(b, n)
        \/ \E x \in Boxes : AddBox(b, x)
        \/ \E x \in Things \ Roots, index \in Indices,
              count \in 1 .. FullStack : MoveContained(x, b, index, count)
    \/ \E x \in Things \ Roots : MoveToLocker(x)
    \/ \E s \in Stacks, m \in 1 .. FullStack : RemoveStack(s, m)
    \/ \E x \in Boxes : RemoveBox(x)

ContainersSpec == ContainersInit /\ [][ContainersNext]_ContainersVars

-----------------------------------------------------------------------------
(* An item is in the list of its parent, once, and in no other list. *)
ParentsMatchLists ==
    \A b \in Boxes, x \in Things :
        Cardinality({i \in DOMAIN itemlist[b] : itemlist[b][i] = x})
            = IF parent[x] = b THEN 1 ELSE 0

(* No container is inside itself, by whatever sequence of moves, and what  *)
(* is in a container is in a root in the end.                              *)
InARoot ==
    \A x \in Things :
        parent[x] # NoThing => \E r \in Roots : r \in Within(x)

(* No container but the locker holds more than its capacity. *)
WithinCapacity == \A b \in Boxes \ {Locker} : Size(b) <= Capacity

(* Containers are sound: parents and lists agree, form a tree below the    *)
(* roots, and none but the locker is overfull.                             *)
ContainersSound ==
    ContainersTypeOK /\ ParentsMatchLists /\ InARoot /\ WithinCapacity

(* Moving makes no pieces and loses none, whatever is merged, split or     *)
(* moved in part, as long as the locker is not overfull.                   *)
PiecesConserved ==
    [][\/ FoldFunctionOnSet(+, 0, itemCount', Stacks)
            = FoldFunctionOnSet(+, 0, itemCount, Stacks)
       \/ Size(Locker) > Capacity
       \/ Receive \/ Discard]_ContainersVars
=============================================================================
