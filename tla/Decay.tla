-------------------------------- MODULE Decay -------------------------------
(***************************************************************************)
(* The decay of items (startDecay, internalDecayItem, checkDecay, cleanup  *)
(* of game.cpp, and the places that transform, add and move items).  Items *)
(* that decay are in a list of new ones or in one of four buckets, one of  *)
(* which is looked at every 250 ms; an entry holds a reference.            *)
(*                                                                         *)
(* The unit of time is 125 ms.  A "lit" item is of a type that decays; an  *)
(* item that is "out" does not decay (taken off, put out, or burnt down).  *)
(* The order of entries within a list does not matter, so that a list is   *)
(* the number of entries it has for each item.                             *)
(***************************************************************************)
EXTENDS Integers

CONSTANTS
    Decaying,       \* items
    Durations,      \* durations, in units of 125 ms
    MaxEntries      \* bound: entries of one item

\* A bucket is visited with two entries of one item at most.
ASSUME DecayAssumption ==
    Durations \subseteq Nat \ {0} /\ MaxEntries \in 1 .. 2

EVENT_DECAYINTERVAL == 2
EVENT_DECAY_BUCKETS == 4
Round == EVENT_DECAYINTERVAL * EVENT_DECAY_BUCKETS
BucketIds == 0 .. EVENT_DECAY_BUCKETS - 1

VARIABLES
    item,           \* each item, with its entries in the lists
    lastBucket

DecayVars == <<item, lastBucket>>

ItemRecords ==
    [kind : {"none", "lit", "out", "removed"},
     duration : Nat,
     decaying : BOOLEAN,        \* DECAYING_TRUE
     stages : 0 .. 1,           \* types that decay still to follow
     burnsDown : BOOLEAN,       \* what is left after the last: an item
     stopTime : BOOLEAN,        \* keeps its duration while it is out
     references : Nat,
     toDecay : 0 .. MaxEntries,
     decayItems : [BucketIds -> 0 .. MaxEntries],
     toRelease : Nat,
     left : Int,                \* history: time it should still last, ...
     touched : BOOLEAN]         \* history: ... unless somebody put it out

DecayTypeOK ==
    /\ item \in [Decaying -> ItemRecords]
    /\ lastBucket \in BucketIds

DecayInit ==
    /\ \E burnsDown, stopTime \in BOOLEAN, stages \in 0 .. 1 :
        item = [i \in Decaying |->
            [kind |-> "none", duration |-> 0, decaying |-> FALSE,
             stages |-> stages, burnsDown |-> burnsDown, stopTime |-> stopTime,
             references |-> 0,
             toDecay |-> 0, decayItems |-> [b \in BucketIds |-> 0],
             toRelease |-> 0, left |-> 0, touched |-> FALSE]]
    /\ lastBucket = 0

-----------------------------------------------------------------------------
Entries(r) ==
    r.toDecay + r.decayItems[0] + r.decayItems[1] + r.decayItems[2]
    + r.decayItems[3]

CanDecay(r) == r.kind = "lit"

Push(r) ==
    [r EXCEPT !.references = @ + 1, !.decaying = TRUE, !.toDecay = @ + 1]

(* Items that came to their end become something else, which may decay as  *)
(* well, or are removed; this is internalDecayItem.                        *)
Decayed(r, d) ==
    IF r.stages > 0
    THEN Push([r EXCEPT !.duration = d, !.left = d, !.stages = @ - 1])
    ELSE IF r.burnsDown
    THEN [r EXCEPT !.kind = "out", !.duration = 0, !.decaying = FALSE]
    ELSE [r EXCEPT !.kind = "removed", !.toRelease = @ + 1]

StartDecay(r, d) ==
    IF ~CanDecay(r) \/ r.decaying THEN r
    ELSE IF r.duration > 0 THEN Push(r)
    ELSE Decayed(r, d)

NewBucket(b, duration) ==
    (b + (duration + EVENT_DECAYINTERVAL \div 2) \div Round)
        % EVENT_DECAY_BUCKETS

NotErasedMutant(r, b) == r

Without(r, b) == [r EXCEPT !.decayItems[b] = @ - 1]

ReleaseItem(r) == [r EXCEPT !.toRelease = @ + 1]

StopsDecaying(r) == [r EXCEPT !.decaying = FALSE]

DecreaseTime(r) == IF r.duration < Round THEN r.duration ELSE Round

(* What checkDecay makes of an entry of bucket b.                          *)
Visited(r, b, d) ==
    LET duration == r.duration - DecreaseTime(r)
        burned == [r EXCEPT !.duration = duration] IN
    IF ~CanDecay(r) THEN Without(ReleaseItem(StopsDecaying(r)), b)
    ELSE IF duration <= 0 \/ (duration < Round /\ NewBucket(b, duration) = b)
    THEN ReleaseItem(Decayed(Without(burned, b), d))
    ELSE IF duration < Round
    THEN [Without(burned, b) EXCEPT !.decayItems[NewBucket(b, duration)] =
            @ + 1]
    ELSE burned

VisitedAll(r, b, d) ==
    CASE r.decayItems[b] = 0 -> r
      [] r.decayItems[b] = 1 -> Visited(r, b, d)
      [] OTHER -> Visited(Visited(r, b, d), b, d)

(* cleanup puts the new entries in a bucket: b was the last one visited. *)
BucketOfNextMutant(r, b) == (b + 1) % EVENT_DECAY_BUCKETS

BucketOf(r, b) ==
    IF r.duration >= Round THEN b
    ELSE (b + 1 + r.duration \div Round) % EVENT_DECAY_BUCKETS

CleanedUp(r, b) ==
    [r EXCEPT !.references = @ - r.toRelease, !.toRelease = 0,
              !.decayItems[BucketOf(r, b)] = @ + r.toDecay, !.toDecay = 0]

Elapsed(r) ==
    IF CanDecay(r) /\ ~r.touched /\ r.left > - EVENT_DECAYINTERVAL
    THEN [r EXCEPT !.left = @ - EVENT_DECAYINTERVAL] ELSE r

-----------------------------------------------------------------------------
(* internalAddItem of a new item, which may be of either kind *)
NewItem(r, kind, d) ==
    Push([r EXCEPT !.kind = kind, !.duration = d, !.left = d,
                   !.references = 1, !.touched = kind = "out"])

AddItem(i, kind, d) ==
    /\ item[i].kind = "none"
    /\ item' = [item EXCEPT ![i] = NewItem(@, kind, d)]
    /\ UNCHANGED lastBucket

(* internalMoveItem *)
MoveItem(i) ==
    /\ item[i].kind \in {"lit", "out"}
    /\ item[i].duration > 0 /\ ~item[i].decaying
    /\ Entries(item[i]) < MaxEntries        \* bound
    /\ item' = [item EXCEPT ![i] = Push(@)]
    /\ UNCHANGED lastBucket

(* transformItem to a type that does not decay: setID takes the duration   *)
(* and the decay state away, or leaves both.                               *)
TurnedOff(r) ==
    LET off == [r EXCEPT !.kind = "out", !.touched = TRUE, !.left = 0] IN
    IF r.stopTime THEN off
    ELSE [off EXCEPT !.duration = 0, !.decaying = FALSE]

PutOut(i) ==
    /\ item[i].kind = "lit"
    /\ item' = [item EXCEPT ![i] = TurnedOff(@)]
    /\ UNCHANGED lastBucket

(* transformItem back to the type that decays, and startDecay *)
TurnedOn(r, d) ==
    LET on == [r EXCEPT !.kind = "lit", !.touched = TRUE, !.left = 0] IN
    IF r.stopTime /\ r.duration > 0 THEN on
    ELSE [on EXCEPT !.duration = d, !.decaying = FALSE]

Light(i, d) ==
    /\ item[i].kind = "out"
    /\ Entries(item[i]) < MaxEntries        \* bound
    /\ item' = [item EXCEPT ![i] = StartDecay(TurnedOn(@, d), d)]
    /\ UNCHANGED lastBucket

(* internalRemoveItem; no entry is taken out of a list. *)
RemoveItem(i) ==
    /\ item[i].kind \in {"lit", "out"}
    /\ item' = [item EXCEPT ![i] = ReleaseItem([@ EXCEPT !.kind = "removed"])]
    /\ UNCHANGED lastBucket

(* checkDecay, 250 ms after the one before; cleanup is its end. *)
CheckDecay(d) ==
    LET bucket == (lastBucket + 1) % EVENT_DECAY_BUCKETS IN
    /\ lastBucket' = bucket
    /\ item' = [i \in Decaying |->
            CleanedUp(VisitedAll(Elapsed(item[i]), bucket, d), bucket)]

(* cleanup at the end of checkCreatures *)
CleanupItems ==
    /\ item' = [i \in Decaying |-> CleanedUp(item[i], lastBucket)]
    /\ UNCHANGED lastBucket

DecayNext ==
    \/ \E i \in Decaying, d \in Durations, kind \in {"lit", "out"} :
        AddItem(i, kind, d)
    \/ \E i \in Decaying : MoveItem(i)
    \/ \E i \in Decaying : PutOut(i)
    \/ \E i \in Decaying, d \in Durations : Light(i, d)
    \/ \E i \in Decaying : RemoveItem(i)
    \/ \E d \in Durations : CheckDecay(d)
    \/ CleanupItems

(* checkDecay is an event that schedules itself again. *)
DecaySpec ==
    /\ DecayInit /\ [][DecayNext]_DecayVars
    /\ WF_DecayVars(\E d \in Durations : CheckDecay(d))

-----------------------------------------------------------------------------
(* The references of an item are those of its owner, of its entries and of *)
(* what is to be released, so that no list ever has an item that is freed. *)
ReferencesMatchEntries ==
    \A i \in Decaying :
        LET r == item[i] IN
        r.references = Entries(r) + r.toRelease
                       + IF r.kind \in {"lit", "out"} THEN 1 ELSE 0

(* An item that should decay is in one of the lists, or it never would.    *)
ListedWhileLit ==
    \A i \in Decaying : item[i].kind = "lit" => Entries(item[i]) > 0

(* An item that nobody puts out or lights has one entry only; with two it  *)
(* would decay twice as fast.                                              *)
ListedOnce ==
    \A i \in Decaying : ~item[i].touched => Entries(item[i]) <= 1

(* An item that was left alone decays at most one interval too late, ...   *)
NeverLate ==
    \A i \in Decaying :
        item[i].kind = "lit" => item[i].left > - EVENT_DECAYINTERVAL

(* The lists of decaying items are sound: as many entries as references,   *)
(* as an item should have, and looked at in time.                          *)
DecaySound ==
    /\ DecayTypeOK /\ ReferencesMatchEntries /\ ListedWhileLit
    /\ ListedOnce /\ NeverLate

(* ... and less than a round too early.                                    *)
EndsInTime ==
    \A i \in Decaying :
        LET before == item[i]
            after == item'[i] IN
        before.kind = "lit" /\ ~after.touched
        /\ (after.stages < before.stages \/ after.kind = "out")
            => before.left - EVENT_DECAYINTERVAL < Round

NotTooEarly == [][EndsInTime]_DecayVars

(* An item that was left alone does not stay for ever. *)
DecaysInTheEnd ==
    \A i \in Decaying :
        item[i].kind = "lit" ~> item[i].kind # "lit" \/ item[i].touched

(* What was left alone decays when it should.                              *)
DecaysOnTime == NotTooEarly /\ DecaysInTheEnd
=============================================================================
