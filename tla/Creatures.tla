----------------------------- MODULE Creatures -----------------------------
(***************************************************************************)
(* Who keeps a creature in memory, and who wakes a monster (creature.cpp,  *)
(* monster.cpp, game.cpp).  A creature is freed when its reference counter *)
(* reaches zero.  References are held by its tile, the check list that     *)
(* makes it think, the friend and target lists of the monsters that see    *)
(* it, its master, and the list of creatures to release; the creature that *)
(* another one attacks is a bare pointer.                                  *)
(*                                                                         *)
(* Two creatures see each other when they are in the same room.  There are *)
(* ten check lists, and each of the few creatures is in one of its own: a  *)
(* task of the dispatcher visits one creature.  Left out: zones,           *)
(* invisibility, party partners, scripts that remove a creature while it   *)
(* appears, the creature that is followed (treated as the one attacked,    *)
(* line by line), and the extra reference while a tile is notified, which  *)
(* the same cleanup gives back.  No player has the flag IgnoredByMonsters  *)
(* (monster.cpp:522), and no monster an aggressive condition, which would  *)
(* keep it awake with nobody in view (monster.cpp:738-743).                *)
(* removeOnDespawn is on, as it is by default.                             *)
(***************************************************************************)
EXTENDS Naturals, FiniteSets, SequencesExt

CONSTANTS Humans, Monsters, Rooms, NoCreature

ASSUME CreaturesAssumption ==
    /\ Humans \cap Monsters = {} /\ NoCreature \notin Humans \cup Monsters
    /\ IsFiniteSet(Humans) /\ IsFiniteSet(Monsters)

Beings == Humans \cup Monsters

VARIABLES
    creature      \* what is stored in every creature

CreaturesVars == <<creature>>

CreaturesTypeOK ==
    /\ creature.life \in [Beings -> {"unborn", "placed", "removed", "freed"}]
    /\ creature.room \in [Beings -> Rooms \cup {NoCreature}]
    /\ creature.healthy \in [Beings -> BOOLEAN]
    /\ creature.master \in [Beings -> Beings \cup {NoCreature}]
    /\ creature.attacked \in [Beings -> Beings \cup {NoCreature}]
    /\ creature.friends \in [Monsters -> SUBSET Beings]
    /\ creature.targets \in [Monsters -> SUBSET Beings]
    /\ creature.isIdle \in [Monsters -> BOOLEAN]
    /\ creature.check \in [Beings -> {"none", "thinks", "leaves"}]
    /\ creature.references \in [Beings -> Nat]
    /\ creature.toRelease \in [Beings -> 0..2]

CreaturesInit ==
    /\ creature = [life |-> [c \in Beings |-> "unborn"],
               room |-> [c \in Beings |-> NoCreature],
               healthy |-> [c \in Beings |-> TRUE],
               master |-> [c \in Beings |-> NoCreature],
               attacked |-> [c \in Beings |-> NoCreature],
               friends |-> [m \in Monsters |-> {}],
               targets |-> [m \in Monsters |-> {}],
               isIdle |-> [m \in Monsters |-> TRUE],
               check |-> [c \in Beings |-> "none"],
               references |-> [c \in Beings |-> 0],
               toRelease |-> [c \in Beings |-> 0]]

-----------------------------------------------------------------------------
Sees(b, x, y) == b.room[x] = b.room[y]

Placed(b) == {c \in Beings : b.life[c] = "placed"}

IsSummon(b, m) == b.master[m] # NoCreature

Summons(b, c) == {s \in Monsters : b.master[s] = c}

Ref(b, c) == [b EXCEPT !.references[c] = @ + 1]

Unref(b, c) == [b EXCEPT !.references[c] = @ - 1]

SetMaster(b, s, master) ==
    LET left == IF IsSummon(b, s) THEN Unref(b, s) ELSE b
        taken == IF master # NoCreature THEN Ref(left, s) ELSE left
    IN  [taken EXCEPT !.master[s] = master]

(* setAttackedCreature: a master's summons attack with it, those that see. *)
SetAttacked(b, c, target) ==
    LET Heeds(x) == x = c \/ b.master[x] = c
        Aim(x) == IF target # NoCreature /\ Sees(b, x, target)
                  THEN target ELSE NoCreature
    IN  [b EXCEPT !.attacked =
            [x \in Beings |-> IF Heeds(x) THEN Aim(x) ELSE @[x]]]

ClearedReference(b, m, c) ==
    Cardinality({i \in {1} : c \in b.friends[m]})
        + Cardinality({i \in {1} : c \in b.targets[m]})

(* clearTargetList and clearFriendList *)
ClearLists(b, m) ==
    [b EXCEPT !.references =
                [c \in Beings |-> @[c] - ClearedReference(b, m, c)],
              !.friends[m] = {}, !.targets[m] = {}]

AddFriend(b, m, c) ==
    IF c \in b.friends[m] THEN b
    ELSE [Ref(b, c) EXCEPT !.friends[m] = @ \cup {c}]

AddTarget(b, m, c) ==
    IF c \in b.targets[m] THEN b
    ELSE [Ref(b, c) EXCEPT !.targets[m] = @ \cup {c}]

RemoveFriend(b, m, c) ==
    IF c \notin b.friends[m] THEN b
    ELSE [Unref(b, c) EXCEPT !.friends[m] = @ \ {c}]

RemoveTarget(b, m, c) ==
    IF c \notin b.targets[m] THEN b
    ELSE [Unref(b, c) EXCEPT !.targets[m] = @ \ {c}]

(* A summon of a player is a friend of its master and of its master's      *)
(* other summons, and hunts everybody but its master; others are friends   *)
(* of wild monsters and hunt players and their summons.                    *)
IsFriend(b, m, c) ==
    IF b.master[m] \in Humans
    THEN c = b.master[m] \/ b.master[c] = b.master[m]
    ELSE c \in Monsters /\ ~IsSummon(b, c)

IsOpponent(b, m, c) ==
    IF b.master[m] \in Humans THEN c # b.master[m]
    ELSE c \in Humans \/ b.master[c] \in Humans

AddCheck(b, c) ==
    IF b.check[c] = "none"
    THEN [Ref(b, c) EXCEPT !.check[c] = "thinks"]
    ELSE [b EXCEPT !.check[c] = "thinks"]

RemoveCheck(b, c) ==
    [b EXCEPT !.check[c] = IF @ = "none" THEN @ ELSE "leaves"]

SetIdle(b, m, idle) ==
    IF b.life[m] = "removed" \/ ~b.healthy[m] THEN b
    ELSE LET slept == [b EXCEPT !.isIdle[m] = idle]
         IN  IF idle THEN RemoveCheck(ClearLists(slept, m), m)
             ELSE AddCheck(slept, m)

UpdateIdle(b, m) == SetIdle(b, m, ~IsSummon(b, m) /\ b.targets[m] = {})

(* Who comes into view does not wake it. *)
FoundAsleepMutant(b, m, c) ==
    IF Sees(b, m, c) /\ IsOpponent(b, m, c) THEN AddTarget(b, m, c) ELSE b

Found(b, m, c) ==
    IF ~Sees(b, m, c) THEN b
    ELSE LET met == IF IsFriend(b, m, c) THEN AddFriend(b, m, c) ELSE b
             faced == IF IsOpponent(b, m, c) THEN AddTarget(met, m, c)
                      ELSE met
         IN  UpdateIdle(faced, m)

(* onCreatureLeave: what the creature is to m is asked when it leaves. *)
Left(b, m, c) ==
    LET parted == IF IsFriend(b, m, c) THEN RemoveFriend(b, m, c) ELSE b
    IN  IF IsOpponent(b, m, c) THEN UpdateIdle(RemoveTarget(parted, m, c), m)
        ELSE parted

(* selectTarget, of a hostile monster *)
SelectTarget(b, m, c) ==
    IF c \in b.targets[m] /\ b.life[c] = "placed" /\ Sees(b, m, c)
    THEN SetAttacked(b, m, c) ELSE b

(* Spectators are told in the order of the map; here it is always the      *)
(* same.                                                                   *)
Order == SetToSeq(Beings)

-----------------------------------------------------------------------------
(* The dead and those out of sight are dropped, then everybody around is   *)
(* found.                                                                  *)
UpdateTargetList(b, m) ==
    LET Lost(c) == ~b.healthy[c] \/ ~Sees(b, m, c)
        Drop(w, c) == IF Lost(c) THEN RemoveTarget(RemoveFriend(w, m, c), m, c)
                      ELSE w
        Find(w, c) == IF c # m /\ c \in Placed(w) THEN Found(w, m, c) ELSE w
    IN  FoldLeft(Find, FoldLeft(Drop, b, Order), Order)

LookAround(b, m) == UpdateIdle(UpdateTargetList(b, m), m)

Disappeared(b, x, c) ==
    IF b.attacked[x] = c THEN SetAttacked(b, x, NoCreature) ELSE b

(* onRemoveCreature, called for everybody who saw c and for c itself. *)
OnRemove(b, x, c) ==
    LET lost == Disappeared(b, x, c)
        Lives == b.life[b.master[c]] # "removed"
        freed == IF x = c /\ IsSummon(b, c) /\ Lives
                 THEN SetMaster(lost, c, NoCreature) ELSE lost
    IN  IF x \in Humans THEN freed
        ELSE IF x = c THEN SetIdle(freed, c, TRUE)
        ELSE Left(freed, x, c)

(* removeCreature without its summons *)
RemoveOne(b, c) ==
    LET seeing == {x \in Placed(b) : Sees(b, x, c)}
        Tell(w, x) == IF x \in seeing THEN OnRemove(w, x, c) ELSE w
        told == FoldLeft(Tell, b, Order)
    IN  IF c \notin Placed(b) THEN b
        ELSE RemoveCheck([told EXCEPT !.life[c] = "removed",
                                      !.toRelease[c] = @ + 1], c)

RemoveCreature(b, c) ==
    LET first == RemoveOne(b, c)
        Follow(w, s) == IF first.master[s] = c THEN RemoveOne(w, s)
                        ELSE w
    IN  IF c \in Placed(b) THEN FoldLeft(Follow, first, Order) ELSE b

(* placeCreature *)
PlaceCreature(b, c, r) ==
    LET put == [Ref(b, c) EXCEPT !.life[c] = "placed", !.room[c] = r]
        Appear(w, x) ==
            IF x \in Humans \/ x \notin Placed(w) THEN w
            ELSE IF x = c THEN LookAround(w, c)
            ELSE IF Sees(w, x, c) THEN Found(w, x, c) ELSE w
    IN  AddCheck(FoldLeft(Appear, put, Order), c)

(* onCreatureMove, called for whoever saw c before or sees it now. *)
OnMove(b, x, c, from) ==
    LET lostSight == b.attacked[x] # NoCreature /\ (x = c \/ b.attacked[x] = c)
                        /\ ~Sees(b, x, b.attacked[x])
        seen == IF lostSight THEN SetAttacked(b, x, NoCreature) ELSE b
        met == IF Sees(seen, x, c) /\ b.room[x] # from THEN Found(seen, x, c)
               ELSE IF ~Sees(seen, x, c) THEN Left(seen, x, c) ELSE seen
        awake == UpdateIdle(met, x)
    IN  IF x \in Humans THEN seen
        ELSE IF x = c THEN LookAround(seen, c)
        ELSE IF ~IsSummon(awake, x) /\ awake.attacked[x] = NoCreature
                    /\ IsOpponent(awake, x, c)
        THEN SelectTarget(awake, x, c) ELSE awake

(* Map::moveCreature.  A master that went too far loses its summons. *)
MoveCreature(b, c, r, far) ==
    LET from == b.room[c]
        moved == [b EXCEPT !.room[c] = r]
        seeing == {x \in Placed(b) : b.room[x] \in {from, r}}
        Leave(w, s) == IF moved.master[s] = c /\ ~Sees(w, s, c) /\ far
                       THEN RemoveOne(w, s) ELSE w
        Tell(w, x) ==
            IF x \notin seeing THEN w
            ELSE OnMove(IF x = c THEN FoldLeft(Leave, w, Order) ELSE w,
                        x, c, from)
    IN  FoldLeft(Tell, moved, Order)

(* ~Creature and ~Monster *)
Freed(b, c) ==
    LET own == IF c \in Monsters THEN ClearLists(b, c) ELSE b
        Owned(s) == own.master[s] = c
    IN  [own EXCEPT !.life[c] = "freed", !.room[c] = NoCreature,
                    !.healthy[c] = TRUE, !.attacked =
            [x \in Beings |-> IF Owned(x) \/ x = c THEN NoCreature ELSE @[x]],
            !.master =
                [x \in Beings |-> IF Owned(x) THEN NoCreature ELSE @[x]],
            !.references = [x \in Beings |-> IF Owned(x) THEN @[x] - 1
                                             ELSE @[x]]]

(* What nobody refers to is freed, which may leave others unreferred. *)
Settled(b) ==
    LET Unreferred(w, c) == w.life[c] = "removed" /\ w.references[c] = 0
        Free(w, c) == IF Unreferred(w, c) THEN Freed(w, c) ELSE w
        Again(w, c) == FoldLeft(Free, w, Order)
    IN  IF \E c \in Beings : Unreferred(b, c)
        THEN FoldLeft(Again, b, Order) ELSE b

(* cleanup *)
CleanedUp(b) ==
    [b EXCEPT !.references = [c \in Beings |-> @[c] - b.toRelease[c]],
              !.toRelease = [c \in Beings |-> 0]]

Becomes(b) == creature' = Settled(b)

-----------------------------------------------------------------------------
(* A player logs in, a spawn or a raid places a monster. *)
Place(c, r) ==
    /\ creature.life[c] = "unborn"
    /\ Becomes(PlaceCreature(creature, c, r))

(* A script summons a monster: it is placed wild, then gets its master. *)
Summon(p, s) ==
    /\ p \in Placed(creature) /\ creature.life[s] = "unborn"
    /\ LET wild == PlaceCreature(creature, s, creature.room[p])
           still == SetAttacked(wild, s, NoCreature)
       IN  Becomes(SetMaster(still, s, p))

(* A step, within sight or out of it, or a teleport. *)
Move(c, r, far) ==
    /\ c \in Placed(creature)
    /\ far => r # creature.room[c] /\ Summons(creature, c) # {}
    /\ Becomes(MoveCreature(creature, c, r, far))

(* playerSetAttackedCreature; without a target the attack ends. *)
Attack(p, target) ==
    /\ p \in Placed(creature) /\ target # p
    /\ target # NoCreature =>
            target \in Placed(creature) /\ Sees(creature, p, target)
    /\ Becomes(SetAttacked(creature, p, target))

(* Health falls to zero; executeDeath is queued, and does nothing for a    *)
(* creature that was removed in the meantime.                              *)
LoseHealth(c) ==
    /\ c \in Placed(creature) /\ creature.healthy[c]
    /\ creature' = [creature EXCEPT !.healthy[c] = FALSE]

(* Monster::death: its summons die with it. *)
Died(b, c) ==
    LET calm == SetAttacked(b, c, NoCreature)
        Owned(s) == b.master[s] = c
    IN  ClearLists([calm EXCEPT
            !.healthy = [x \in Beings |-> @[x] /\ ~Owned(x)],
            !.master = [x \in Beings |-> IF Owned(x) THEN NoCreature
                                         ELSE @[x]],
            !.references = [x \in Beings |-> IF Owned(x) THEN @[x] - 1
                                             ELSE @[x]]], c)

ExecuteDeath(c) ==
    LET dead == IF c \in Monsters THEN Died(creature, c) ELSE creature
    IN  /\ c \in Placed(creature) /\ ~creature.healthy[c]
        /\ Becomes(RemoveCreature(SetMaster(dead, c, NoCreature), c))

(* A logout, or a script that removes a monster. *)
Disappear(c) ==
    /\ c \in Placed(creature)
    /\ Becomes(RemoveCreature(creature, c))

(* What thinks out of its range is removed; so is a player whose           *)
(* connection was silent too long.                                         *)
ThinksAndGoes(b, c) == RemoveCreature(b, c)

(* goToFollowCreature finds no path: a summon no longer hunts what it      *)
(* follows.                                                                *)
NoPath(b, m) ==
    LET followed == IF b.attacked[m] # NoCreature THEN b.attacked[m]
                    ELSE b.master[m]
    IN  IF IsSummon(b, m) THEN RemoveTarget(b, m, followed) ELSE b

(* Monster::onThink, with the prey that a wild one picks. *)
Thinks(b, m, prey, path) ==
    LET awake == UpdateIdle(b, m)
        called == IF IsSummon(awake, m) THEN awake.attacked[awake.master[m]]
                  ELSE prey
        hunting == IF awake.attacked[m] = NoCreature /\ called # NoCreature
                   THEN SelectTarget(awake, m, called) ELSE awake
    IN  IF awake.isIdle[m] THEN awake
        ELSE IF path THEN hunting ELSE NoPath(hunting, m)

(* checkCreatures: c is visited, then everything is cleaned up. *)
Visited(c, thought) ==
    /\ creature.check[c] = "thinks"
    /\ Becomes(CleanedUp(thought))

ThinkOfPlayer(p) == Visited(p, creature)

ThinkOfMonster(m, prey, path) ==
    /\ IF IsSummon(creature, m) THEN prey = NoCreature
       ELSE path /\ prey \in creature.targets[m] \cup {NoCreature}
    /\ Visited(m, IF creature.healthy[m] THEN Thinks(creature, m, prey, path)
                  ELSE creature)

ThinkAndGo(c) ==
    /\ c \in Monsters /\ creature.healthy[c]
    /\ Visited(c, ThinksAndGoes(creature, c))

(* onThinkDefense: a wild monster that is awake calls another one. *)
ThinkAndSummon(m, s) ==
    /\ creature.healthy[m] /\ ~IsSummon(creature, m) /\ ~creature.isIdle[m]
    /\ creature.life[s] = "unborn"
    /\ LET called == PlaceCreature(creature, s, creature.room[m])
       IN  Visited(m, SetMaster(called, s, m))

Dropped(b, c) == [b EXCEPT !.check[c] = "none", !.toRelease[c] = @ + 1]

(* What need not think any more leaves the list. *)
Drop(c) ==
    /\ creature.check[c] = "leaves"
    /\ Becomes(CleanedUp(Dropped(creature, c)))

(* checkDecay and checkCreatureWalk clean up too. *)
CleanupCreatures ==
    /\ creature.toRelease # [c \in Beings |-> 0]
    /\ Becomes(CleanedUp(creature))

CreaturesNext ==
    \/ \E c \in Beings : LoseHealth(c)
    \/ CleanupCreatures
    \/ \E c \in Beings :
        \/ ExecuteDeath(c) \/ Disappear(c) \/ ThinkAndGo(c) \/ Drop(c)
        \/ \E r \in Rooms :
            \/ Place(c, r)
            \/ \E far \in BOOLEAN : Move(c, r, far)
    \/ \E p \in Humans, target \in Beings \cup {NoCreature} :
        Attack(p, target)
    \/ \E p \in Humans, s \in Monsters : Summon(p, s)
    \/ \E p \in Humans : ThinkOfPlayer(p)
    \/ \E m \in Monsters, prey \in Beings \cup {NoCreature} :
        \E path \in BOOLEAN : ThinkOfMonster(m, prey, path)
    \/ \E m, s \in Monsters : ThinkAndSummon(m, s)

CreaturesSpec == CreaturesInit /\ [][CreaturesNext]_CreaturesVars

-----------------------------------------------------------------------------
(* The references counted by hand, in eight places of three files, are the *)
(* ones that exist: on the map, in a check list, to be released, in the    *)
(* lists of monsters, and with a master.  One too many is never freed, one *)
(* too few is freed while in use.                                          *)
Held(c) ==
    (IF creature.life[c] = "placed" THEN 1 ELSE 0)
        + (IF creature.check[c] # "none" THEN 1 ELSE 0)
        + (IF creature.master[c] # NoCreature THEN 1 ELSE 0)
        + creature.toRelease[c]
        + Cardinality({m \in Monsters : c \in creature.friends[m]})
        + Cardinality({m \in Monsters : c \in creature.targets[m]})

CreatureReferencesExact == \A c \in Beings : creature.references[c] = Held(c)

(* The creature one attacks is a bare pointer, cleared by whoever sees it  *)
(* leave: it is always one on the map and in view, however both moved,     *)
(* died or were removed, and whoever gave the order to attack.             *)
AttackedInView ==
    \A c \in Placed(creature) : creature.attacked[c] # NoCreature =>
        /\ creature.life[creature.attacked[c]] = "placed"
        /\ Sees(creature, c, creature.attacked[c])

(* A monster that is awake thinks: it is in a check list and not about to  *)
(* leave it.  What is removed thinks no more.                              *)
AwakeThink ==
    \A c \in Beings :
        /\ c \in Placed(creature) /\ creature.healthy[c]
                /\ (c \in Humans \/ ~creature.isIdle[c])
            => creature.check[c] = "thinks"
        /\ creature.life[c] \in {"removed", "freed"}
            => creature.check[c] # "thinks"

(* A wild monster is awake as long as it sees a player. *)
Watchful ==
    \A m \in Monsters \cap Placed(creature),
       p \in Humans \cap Placed(creature) :
        creature.healthy[m] /\ ~IsSummon(creature, m) /\ Sees(creature, m, p)
            => ~creature.isIdle[m]

(* Whoever has a master is on the map only while its master is. *)
SummonsGoWithMaster ==
    \A s \in Placed(creature) : IsSummon(creature, s) =>
        creature.master[s] \in Placed(creature)

(* Whoever was removed is freed in the end: when nothing waits to be       *)
(* visited or released any more, only a monster that was removed while its *)
(* death was queued keeps its lists, and itself with them.                 *)
OnlyTheDyingStay ==
    LET Settling(c) == \/ creature.life[c] = "placed"
                       \/ creature.check[c] # "none"
                       \/ creature.toRelease[c] > 0
        Remain == {c \in Beings : creature.life[c] = "removed"}
    IN  Remain = {} \/ (\E c \in Beings : Settling(c))
            \/ \E m \in Remain : ~creature.healthy[m]

(* Creatures are sound: what is counted by hand, remembered as a bare      *)
(* pointer, kept awake or bound to a master is so exactly when it should,  *)
(* in whatever order they come, move, attack, die and are removed.         *)
CreaturesSound ==
    /\ CreaturesTypeOK /\ CreatureReferencesExact /\ AttackedInView
    /\ AwakeThink /\ Watchful /\ SummonsGoWithMaster /\ OnlyTheDyingStay
=============================================================================
