------------------------------- MODULE Tiles --------------------------------
(***************************************************************************)
(* A tile of the map (tile.cpp): its ground, its list of items, the down   *)
(* items first and the top items after them, its creatures, and the flags  *)
(* and the height it keeps of what lies on it, which decide who may enter. *)
(* An item is its type here, and is named by its place: 0 is the ground, k *)
(* the k-th item of the list.  Game::transformItem changes items in place. *)
(***************************************************************************)
EXTENDS Integers, Sequences, SequencesExt, FiniteSetsExt

CONSTANTS
    MaxItems,    \* the list takes no more items (65535 in the code)
    MaxStanding, \* creatures on the tile
    NoItem

ASSUME TilesAssumption == {MaxItems, MaxStanding} \subseteq Nat \ {0}

VARIABLE tile

TilesVars == tile

(* The item types: where an item goes, how it is sorted among top items,   *)
(* the group that decides whether it can be changed in place, what is      *)
(* asked of the whole tile (props), what only one item is expected to be   *)
(* (marks), and whether one stands on it (hasHeight).                      *)
Solid == {"BLOCKSOLID", "BLOCKPATH", "NOFIELDBLOCKPATH"}
Immovable == Solid \cup {"IMMOVABLEBLOCKSOLID", "IMMOVABLENOFIELDBLOCKPATH"}

ItemType(slot, order, type, props, marks, hasHeight) ==
    [slot |-> slot, order |-> order, type |-> type,
     props |-> props, marks |-> marks, hasHeight |-> hasHeight]

ItemTypes == {
    ItemType("ground", 0, "none", {}, {}, 0),
    ItemType("ground", 0, "none", Immovable, {"FLOORCHANGE"}, 0),
    ItemType("top", 1, "none", {}, {"FLOORCHANGE"}, 1),
    ItemType("top", 2, "none", Immovable, {}, 0),
    ItemType("top", 2, "splash", {}, {}, 0),
    ItemType("down", 0, "none", Solid, {}, 1),
    ItemType("down", 0, "field", {"BLOCKPATH"}, {"MAGICFIELD"}, 0),
    ItemType("down", 0, "lasting field",
             {"BLOCKPATH", "BLOCKSOLID", "IMMOVABLEBLOCKSOLID"},
             {"MAGICFIELD"}, 0)}

ASSUME NoItemAssumption == NoItem \notin ItemTypes

(* Teleports, mailboxes, trash holders, beds, depots and what supports     *)
(* hangable things are marks as fields are.                                *)
Marks == {"FLOORCHANGE", "MAGICFIELD"}

OnTop(x) == x.slot = "top"
IsField(x) == x.type \in {"field", "lasting field"}

Top(t) == Len(t.items) - t.down
Places(t) == (IF t.ground = NoItem THEN {} ELSE {0}) \cup DOMAIN t.items
At(t, k) == IF k = 0 THEN t.ground ELSE t.items[k]
Others(t, k) == {At(t, j) : j \in Places(t) \ {k}}
On(t) == Others(t, -1)

(* everTwo remembers the marks of which two lay on the tile at a time.     *)
TilesTypeOK ==
    /\ tile.ground \in ItemTypes \cup {NoItem}
    /\ tile.items \in Seq(ItemTypes) /\ Len(tile.items) <= MaxItems
    /\ tile.down \in 0..Len(tile.items)
    /\ tile.creatures \in 0..MaxStanding
    /\ tile.flags \subseteq Immovable \cup Marks
    /\ tile.height \in 0..MaxItems + 1
    /\ tile.everTwo \subseteq Marks
    /\ tile.loading \in BOOLEAN

TilesInit ==
    tile = [ground |-> NoItem, items |-> <<>>, down |-> 0, creatures |-> 0,
            flags |-> {}, height |-> 0, everTwo |-> {}, loading |-> TRUE]

-----------------------------------------------------------------------------
SetTileFlags(t, x) ==
    [t EXCEPT !.flags = @ \cup x.props \cup x.marks,
              !.height = @ + x.hasHeight]

ResetTileFlagsAlwaysMutant(t, x, others) ==
    [t EXCEPT !.flags = @ \ (x.props \cup x.marks),
              !.height = IF @ > 0 THEN @ - x.hasHeight ELSE @]

(* What is asked of the tile is reset if no other item gives it, a mark    *)
(* whatever else lies there.                                               *)
ResetTileFlags(t, x, others) ==
    LET lost == {p \in x.props : \A y \in others : p \notin y.props} IN
    [t EXCEPT !.flags = @ \ (lost \cup x.marks),
              !.height = IF @ > 0 THEN @ - x.hasHeight ELSE @]

RemoveThing(t, k) ==
    LET x == At(t, k)
        without == IF k = 0 THEN [t EXCEPT !.ground = NoItem]
                   ELSE [t EXCEPT !.items = RemoveAt(@, k),
                                  !.down = IF OnTop(x) THEN @ ELSE @ - 1]
    IN  ResetTileFlags(without, x, On(without))

NewGround(t, x) ==
    LET put == [t EXCEPT !.ground = x]
        reset == IF t.ground = NoItem THEN put
                 ELSE ResetTileFlags(put, t.ground, On(put))
    IN  SetTileFlags(reset, x)

TopPlaces(t) == t.down + 1..Len(t.items)

(* Before the first of some top items, or behind them all.                 *)
InsertTop(t, x, later) ==
    LET k == Min(later \cup {Len(t.items) + 1}) IN
    SetTileFlags([t EXCEPT !.items = InsertAt(@, k, x)], x)

InsertDown(t, x) ==
    SetTileFlags([t EXCEPT !.items = <<x>> \o @, !.down = @ + 1], x)

(* An old splash makes way for a new one, and so does an old field, if it  *)
(* can be replaced; otherwise it is the new field that is gone.            *)
WithoutSplash(t) ==
    LET splashes == {k \in TopPlaces(t) : t.items[k].type = "splash"} IN
    IF splashes = {} THEN t ELSE RemoveThing(t, Min(splashes))

AddThing(t, x) ==
    LET dried == IF x.type = "splash" THEN WithoutSplash(t) ELSE t
        fields == {k \in 1..t.down : IsField(t.items[k])}
    IN  IF Len(t.items) >= MaxItems THEN t
        ELSE IF x.slot = "ground" THEN NewGround(t, x)
        ELSE IF OnTop(x)
        THEN InsertTop(dried, x, {k \in TopPlaces(dried) :
                                    x.order <= dried.items[k].order})
        ELSE IF ~IsField(x) \/ fields = {} THEN InsertDown(t, x)
        ELSE IF t.items[Min(fields)].type = "field"
        THEN InsertDown(RemoveThing(t, Min(fields)), x) ELSE t

(* When the map is loaded nothing makes way.                               *)
InternalAddThing(t, x) ==
    IF x.slot = "ground"
    THEN IF t.ground = NoItem THEN NewGround(t, x) ELSE t
    ELSE IF Len(t.items) >= MaxItems THEN t
    ELSE IF OnTop(x)
    THEN InsertTop(t, x, {k \in TopPlaces(t) : t.items[k].order > x.order})
    ELSE InsertDown(t, x)

Put(t, k, x) ==
    IF k = 0 THEN [t EXCEPT !.ground = x] ELSE [t EXCEPT !.items[k] = x]

UpdateThing(t, k, x) ==
    SetTileFlags(Put(ResetTileFlags(t, At(t, k), Others(t, k)), k, x), x)

-----------------------------------------------------------------------------
(* The index of a thing counts the ground, the top items, the creatures    *)
(* and the down items; a thing is <<"creature", n>> or <<"item", place>>.  *)
Things(t) == ({"item"} \X Places(t)) \cup ({"creature"} \X (1..t.creatures))

First(t) == IF t.ground = NoItem THEN 0 ELSE 1

GetThingIndex(t, thing) ==
    LET n == thing[2] IN
    IF thing = <<"item", 0>> THEN 0
    ELSE IF thing[1] = "creature" THEN First(t) + Top(t) + n - 1
    ELSE IF OnTop(At(t, n)) THEN First(t) + n - t.down - 1
    ELSE First(t) + Top(t) + t.creatures + n - 1

GetThing(t, index) ==
    LET n == index - First(t)
        c == n - Top(t)
        d == c - t.creatures
    IN  IF n < 0 THEN <<"item", 0>>
        ELSE IF n < Top(t) THEN <<"item", t.down + n + 1>>
        ELSE IF c < t.creatures THEN <<"creature", c + 1>>
        ELSE <<"item", d + 1>>

ReplaceThing(t, index, x) ==
    LET k == GetThing(t, index)[2]
        put == Put(t, k, x)
    IN  IF GetThing(t, index)[1] = "creature" THEN t
        ELSE SetTileFlags(ResetTileFlags(put, At(t, k), On(put)), x)

(* An item that goes from the down items to the top items is removed and   *)
(* added again; one of the same group is changed, any other replaced.      *)
TransformItem(t, k, x) ==
    LET old == At(t, k) IN
    IF old = x THEN t
    ELSE IF OnTop(old) # OnTop(x) THEN AddThing(RemoveThing(t, k), x)
    ELSE IF old.type = x.type THEN UpdateThing(t, k, x)
    ELSE ReplaceThing(t, GetThingIndex(t, <<"item", k>>), x)

-----------------------------------------------------------------------------
Bears(t, m) == {k \in Places(t) : m \in At(t, k).marks}

TileBecomes(t) ==
    tile' = [t EXCEPT !.everTwo =
                @ \cup {m \in Marks : Cardinality(Bears(t, m)) > 1}]

LoadItem(x) == tile.loading /\ TileBecomes(InternalAddThing(tile, x))

MapLoaded == tile.loading /\ TileBecomes([tile EXCEPT !.loading = FALSE])

AddItem(x) == ~tile.loading /\ TileBecomes(AddThing(tile, x))

RemoveItem(k) == ~tile.loading /\ TileBecomes(RemoveThing(tile, k))

ChangeItem(k, x) == ~tile.loading /\ TileBecomes(TransformItem(tile, k, x))

Enter ==
    /\ ~tile.loading /\ tile.creatures < MaxStanding
    /\ TileBecomes([tile EXCEPT !.creatures = @ + 1])

Leave ==
    /\ tile.creatures > 0
    /\ TileBecomes([tile EXCEPT !.creatures = @ - 1])

TilesNext ==
    \/ \E x \in ItemTypes : LoadItem(x) \/ AddItem(x)
    \/ MapLoaded \/ Enter \/ Leave
    \/ \E k \in Places(tile) :
        RemoveItem(k) \/ \E x \in ItemTypes : ChangeItem(k, x)

TilesSpec == TilesInit /\ [][TilesNext]_TilesVars

-----------------------------------------------------------------------------
(* What is asked of the whole tile when somebody wants to walk, push or    *)
(* find a way over it, is answered as if its items were asked one by one,  *)
(* however they were added, changed, replaced and removed.                 *)
FlagsExact ==
    \A p \in Immovable :
        p \in tile.flags <=> \E x \in On(tile) : p \in x.props

HeightExact ==
    tile.height = Cardinality({k \in Places(tile) : At(tile, k).hasHeight = 1})

(* A mark is set only while an item bears it, and while one does, unless   *)
(* two of them were there at a time and one was removed.                   *)
MarksExact ==
    \A m \in Marks :
        /\ m \in tile.flags => Bears(tile, m) # {}
        /\ m \notin tile.everTwo /\ Bears(tile, m) # {} => m \in tile.flags

(* The down items are the first ones of the list.                          *)
SplitAtDown ==
    \A k \in DOMAIN tile.items : k <= tile.down <=> ~OnTop(tile.items[k])

(* The index of a thing leads back to it, with creatures in between.       *)
IndexLeadsBack ==
    \A thing \in Things(tile) :
        GetThing(tile, GetThingIndex(tile, thing)) = thing

(* Tiles are sound: what is kept in numbers and flags is what lies there.  *)
TilesSound ==
    /\ TilesTypeOK /\ FlagsExact /\ HeightExact /\ MarksExact
    /\ SplitAtDown /\ IndexLeadsBack
=============================================================================
