------------------------------- MODULE Spawn -------------------------------
(***************************************************************************)
(* One spawn (spawn.cpp): blocks that each want a monster, the multimap    *)
(* spawnedMap of the monsters it has placed, and the event that looks for  *)
(* what is missing.  A monster that walked out of the spawn is listed      *)
(* under 0 from the next check on, and its block may be filled again.      *)
(* Players standing by, scripts and occupied tiles may refuse a monster at *)
(* any time.  Bodies are used again once nothing refers to them; when all  *)
(* of them are in use a block stays as it is.                              *)
(***************************************************************************)
EXTENDS Naturals, FiniteSets

CONSTANTS
    Blocks,      \* spawnMap: 1..n
    Bodies,
    RateSpawn    \* monsters placed by one check

Unlisted == 99

ASSUME SpawnAssumption ==
    /\ Blocks \subseteq 1..(Unlisted - 1)
    /\ IsFiniteSet(Blocks) /\ IsFiniteSet(Bodies)
    /\ Cardinality(Blocks) <= Cardinality(Bodies)
    /\ RateSpawn \in Nat \ {0}

VARIABLES
    stands,       \* where a monster is
    spawnedAs,    \* its key in spawnedMap
    rested,       \* blocks whose interval has passed since lastSpawn
    checkEvent,   \* checkSpawnEvent # 0
    everChecked   \* a check was scheduled since the start

SpawnVars == <<stands, spawnedAs, rested, checkEvent, everChecked>>

SpawnTypeOK ==
    /\ stands \in [Bodies -> {"nowhere", "home", "away", "removed"}]
    /\ spawnedAs \in [Bodies -> Blocks \cup {0, Unlisted}]
    /\ \A m \in Bodies : (spawnedAs[m] = Unlisted) <=> (stands[m] = "nowhere")
    /\ rested \subseteq Blocks
    /\ checkEvent \in BOOLEAN /\ everChecked \in BOOLEAN
    /\ checkEvent => everChecked

-----------------------------------------------------------------------------
Listed(key) == {m \in Bodies : key[m] # Unlisted}

Unfilled(key) == {b \in Blocks : \A m \in Bodies : key[m] # b}

(* cleanup: the removed are forgotten, those who walked away keep no block. *)
CleanedUpSpawn(key) ==
    [m \in Bodies |->
        IF stands[m] = "removed" THEN Unlisted
        ELSE IF stands[m] = "away" /\ key[m] \in Blocks THEN 0
        ELSE key[m]]

Vacated(key) == {b \in Blocks : \E m \in Bodies :
                    stands[m] = "removed" /\ key[m] = b}

(* It does not look whether the block has its monster. *)
WantingAllMutant(key) == rested \ Vacated(spawnedAs)

(* The blocks a check finds empty and rested. *)
Wanting(key) == Unfilled(key) \cap (rested \ Vacated(spawnedAs))

(* Those in "willing" take a monster.  The check goes by block and ends    *)
(* when RateSpawn of them have one.                                        *)
Filled(wanting, willing) ==
    {b \in wanting \cap willing :
        Cardinality({c \in wanting \cap willing : c < b}) < RateSpawn}

(* spawnMonster: every block in "filled" takes a body of its own. *)
Inhabitants(filled, free) ==
    CHOOSE f \in [filled -> free] :
        \A b, c \in filled : b # c => f[b] # f[c]

WithMonsters(key, f) ==
    [m \in Bodies |-> IF \E b \in DOMAIN f : f[b] = m
                      THEN CHOOSE b \in DOMAIN f : f[b] = m ELSE key[m]]

(* A body that is listed no more is not given back. *)
Standing(key, f) ==
    [m \in Bodies |-> IF \E b \in DOMAIN f : f[b] = m THEN "home"
                      ELSE IF key[m] = Unlisted THEN "nowhere" ELSE stands[m]]

(* Those who walked away do not count, so that a check follows for ever. *)
(* Whether another check is needed is a matter of numbers: somebody who    *)
(* walked away counts for the block that is empty.                         *)
Missing(key) == Cardinality(Listed(key)) < Cardinality(Blocks)

SpawnInit ==
    /\ \E filled \in SUBSET Blocks :
        /\ spawnedAs = WithMonsters([m \in Bodies |-> Unlisted],
                                    Inhabitants(filled, Bodies))
        /\ rested = Blocks \ filled
    /\ stands = [m \in Bodies |->
                    IF spawnedAs[m] = Unlisted THEN "nowhere" ELSE "home"]
    /\ checkEvent = FALSE /\ everChecked = FALSE

(* startSpawnCheck *)
StartSpawnCheck == checkEvent' = TRUE /\ everChecked' = TRUE

(* A monster walks out of the spawn or back. *)
Wander(m, place) ==
    /\ stands[m] \in {"home", "away"} \ {place}
    /\ stands' = [stands EXCEPT ![m] = place]
    /\ UNCHANGED <<spawnedAs, rested, checkEvent, everChecked>>

(* onRemoveCreature of a monster that belongs to the spawn *)
RemoveSpawned(m) ==
    /\ stands[m] \in {"home", "away"}
    /\ stands' = [stands EXCEPT ![m] = "removed"]
    /\ StartSpawnCheck
    /\ UNCHANGED <<spawnedAs, rested>>

(* The interval of a block passes. *)
Rest(b) ==
    /\ b \notin rested /\ rested' = rested \cup {b}
    /\ UNCHANGED <<stands, spawnedAs, checkEvent, everChecked>>

CheckSpawn(willing) ==
    LET key == CleanedUpSpawn(spawnedAs)
        wanting == Wanting(key)
        free == Bodies \ Listed(key)
        filled == Filled(wanting, willing)
        full == Cardinality(filled) = RateSpawn
        tried == {b \in wanting : full => \E c \in filled : b <= c}
    IN  /\ checkEvent /\ Cardinality(filled) <= Cardinality(free)
        /\ LET f == Inhabitants(filled, free)
               after == WithMonsters(key, f)
           IN  /\ spawnedAs' = after
               /\ stands' = Standing(key, f)
               /\ checkEvent' = Missing(after)
        /\ rested' = rested \ (Vacated(spawnedAs) \cup tried)
        /\ UNCHANGED everChecked

SpawnNext ==
    \/ \E m \in Bodies : RemoveSpawned(m) \/ Wander(m, "away")
                            \/ Wander(m, "home")
    \/ \E b \in Blocks : Rest(b)
    \/ \E willing \in SUBSET Blocks : CheckSpawn(willing)

Wanted == Wanting(CleanedUpSpawn(spawnedAs)) # {}

(* Intervals pass, checks are made, and what is wanted again and again is  *)
(* not refused for ever.                                                   *)
SpawnSpec ==
    /\ SpawnInit /\ [][SpawnNext]_SpawnVars
    /\ \A b \in Blocks : WF_SpawnVars(Rest(b))
    /\ WF_SpawnVars(\E willing \in SUBSET Blocks : CheckSpawn(willing))
    /\ SF_SpawnVars(Wanted /\ CheckSpawn(Blocks))

-----------------------------------------------------------------------------
(* A block has never two monsters, although the one that walked away may   *)
(* come back after its place was taken.                                    *)
OneMonsterPerBlock ==
    \A m, n \in Bodies :
        m # n /\ spawnedAs[m] \in Blocks => spawnedAs[m] # spawnedAs[n]

(* What was removed is looked for: as long as the spawn lists a removed    *)
(* monster, whose reference it holds, a check is scheduled.                *)
RemovedAwaitCheck ==
    (\E m \in Bodies : stands[m] = "removed") => checkEvent

(* Once monsters were removed, the spawn only rests with as many monsters  *)
(* as it has blocks, those that walked away included.                      *)
RestsOnlyWhenFull ==
    everChecked /\ ~checkEvent =>
        Cardinality(Listed(spawnedAs)) >= Cardinality(Blocks)

(* Spawns are sound: no block is taken twice, and none is forgotten while  *)
(* its monster is gone.                                                    *)
SpawnSound ==
    /\ SpawnTypeOK /\ OneMonsterPerBlock /\ RemovedAwaitCheck
    /\ RestsOnlyWhenFull

(* The checks come to an end, with every monster replaced, unless monsters *)
(* keep being removed.                                                     *)
ReplacedInTheEnd ==
    checkEvent ~> (~checkEvent \/ \E m \in Bodies : stands[m] = "removed")
=============================================================================
