----------------------------- MODULE Conditions -----------------------------
(***************************************************************************)
(* The conditions of a player (condition.cpp, creature.cpp): each changes  *)
(* the player when it starts and has to take exactly that back when it     *)
(* ends, although it may be merged with another one, put off until the     *)
(* player has done its step, cut short, or noticed late to have expired.   *)
(* Conditions have a type and an id, which is a slot for those of items.   *)
(* No type is suppressed, and none has a subId: hasCondition finds no      *)
(* condition of a suppressed type, and of others that of its subId         *)
(* (creature.cpp:1394-1402).                                               *)
(***************************************************************************)
EXTENDS Integers, Sequences, FiniteSets, FiniteSetsExt, SequencesExt

CONSTANTS
    MaxTicks,     \* durations, in intervals of executeConditions
    MaxDeferred,  \* events of forceAddCondition and forceRemoveCondition
    NoCondition

ASSUME ConditionsAssumption ==
    /\ {MaxTicks, MaxDeferred} \subseteq Nat
    /\ NoCondition \notin [left : Nat, value : Int]

VARIABLES
    conditions,
    affected,   \* what they changed
    deferred,   \* events to come
    skill,      \* the player's own level in a skill
    renewed,    \* one that had expired was renewed before it was executed
    met         \* the conditions of this behaviour

ConditionsVars == <<conditions, affected, deferred, skill, renewed, met>>

(* Endless stands for ticks of -1; 0 is an end time that has passed.       *)
Endless == MaxTicks + 1

Types == {"HASTE", "PARALYZE", "ATTRIBUTES", "INVISIBLE", "DRUNK", "OUTFIT"}
Keys == Types \X {1, 2}
Speeds == {"HASTE", "PARALYZE"} \X {1, 2}
OfType(type) == {k \in Keys : k[1] = type}

(* A haste or a paralysis has a speedDelta, attributes a change of a skill *)
(* that may be a percentage, and those that lower it disable the defense;  *)
(* drunkenness has a strength and an outfit its look.                      *)
Doubled == 0

Values(type) ==
    CASE type = "HASTE" -> {1, 2}
      [] type = "PARALYZE" -> {-1, -2}
      [] type = "ATTRIBUTES" -> {-1, 2, Doubled}
      [] type = "INVISIBLE" -> {1}
      [] OTHER -> {1, 2}

Disables(c) == c.value < 0

(* Types that can be on a player together and have to do with each other.  *)
Meetings == {Speeds \ {<<"PARALYZE", 2>>}} \cup {OfType(t) : t \in Types}

Present == {k \in Keys : conditions[k] # NoCondition}

ConditionsTypeOK ==
    /\ \A k \in Present :
        /\ conditions[k].left \in 0..Endless
        /\ conditions[k].value \in -2..2
        /\ k \in met
    /\ affected.varSpeed \in Int /\ affected.varSkill \in Int
    /\ affected.useDefense \in BOOLEAN /\ affected.visible \in BOOLEAN
    /\ affected.drunkenness \in 0..2 /\ affected.outfit \in 0..2
    /\ Len(deferred) <= MaxDeferred
    /\ skill \in 1..2 /\ renewed \in BOOLEAN

ConditionsInit ==
    /\ conditions = [k \in Keys |-> NoCondition]
    /\ affected = [varSpeed |-> 0, varSkill |-> 0, useDefense |-> TRUE,
                   visible |-> TRUE, drunkenness |-> 0, outfit |-> 0]
    /\ deferred = <<>> /\ skill = 1 /\ renewed = FALSE
    /\ met \in Meetings

-----------------------------------------------------------------------------
(* The player is w: its conditions and what they changed.                  *)
Has(w, type) ==
    \E k \in OfType(type) : /\ w.conditions[k] # NoCondition
                            /\ w.conditions[k].left > 0

StartCondition(a, type, c) ==
    CASE type \in {"HASTE", "PARALYZE"} -> [a EXCEPT !.varSpeed = @ + c.value]
      [] type = "ATTRIBUTES" ->
            [a EXCEPT !.varSkill = @ + c.value, !.useDefense = ~Disables(c)]
      [] type = "INVISIBLE" -> [a EXCEPT !.visible = FALSE]
      [] type = "DRUNK" -> [a EXCEPT !.drunkenness = c.value]
      [] OTHER -> [a EXCEPT !.outfit = c.value]

(* The condition is not in the list any more when it ends.                 *)
EndCondition(w, type, c) ==
    LET a == w.affected
        Another == \E k \in OfType(type) : w.conditions[k] # NoCondition
    IN CASE type \in {"HASTE", "PARALYZE"} ->
                [a EXCEPT !.varSpeed = @ - c.value]
         [] type = "ATTRIBUTES" ->
                [a EXCEPT !.varSkill = @ - c.value,
                          !.useDefense = @ \/ Disables(c)]
         [] type = "INVISIBLE" -> [a EXCEPT !.visible = ~Another]
         [] type = "DRUNK" -> [a EXCEPT !.drunkenness = 0]
         [] OTHER -> [a EXCEPT !.outfit = 0]

EndOne(w, k) ==
    LET without == [w EXCEPT !.conditions[k] = NoCondition] IN
    [without EXCEPT !.affected = EndCondition(without, k[1], w.conditions[k])]

EndAll(w, keys) ==
    FoldSet(LAMBDA k, x : IF x.conditions[k] = NoCondition THEN x
                          ELSE EndOne(x, k), w, keys)

(* A step that is not finished puts off the end of a paralysis.            *)
RemoveCondition(w, type, delayed) ==
    IF type = "PARALYZE" /\ delayed
            /\ \E k \in OfType(type) : w.conditions[k] # NoCondition
    THEN [w EXCEPT !.deferred = Append(@, <<"remove", type>>)]
    ELSE EndAll(w, OfType(type))

OnlyHasteEndsMutant(w, type, delayed) ==
    IF type = "PARALYZE" THEN RemoveCondition(w, "HASTE", delayed) ELSE w

(* Haste and paralysis end each other.                                     *)
OnAddCondition(w, type, delayed) ==
    IF type = "PARALYZE" /\ Has(w, "HASTE")
    THEN RemoveCondition(w, "HASTE", delayed)
    ELSE IF type = "HASTE" /\ Has(w, "PARALYZE")
    THEN RemoveCondition(w, "PARALYZE", delayed) ELSE w

(* Whether the one that comes replaces what is there.                      *)
UpdateCondition(type, old, new) ==
    CASE type \in {"HASTE", "PARALYZE"} -> old.left < Endless
                                              \/ new.left = Endless
      [] type = "DRUNK" -> new.value > old.value
      [] OTHER -> new.left >= old.left

(* addCondition of a condition, called with the one that comes.  Attributes*)
(* end what was and apply what comes; drunkenness does not keep how strong *)
(* the new one is.                                                         *)
Merged(w, k, new) ==
    LET old == w.conditions[k]
        a == w.affected
        ended == EndCondition(w, k[1], old)
        changed ==
            CASE k[1] \in {"HASTE", "PARALYZE"} ->
                    [a EXCEPT !.varSpeed = @ + (new.value - old.value)]
              [] k[1] = "ATTRIBUTES" ->
                    [ended EXCEPT !.varSkill = @ + new.value]
              [] k[1] = "INVISIBLE" -> a
              [] k[1] = "DRUNK" -> [a EXCEPT !.drunkenness = new.value]
              [] OTHER -> [a EXCEPT !.outfit = new.value]
        kept == IF k[1] = "DRUNK" THEN old.value ELSE new.value
    IN  IF ~UpdateCondition(k[1], old, new) THEN w
        ELSE [w EXCEPT !.affected = changed,
                       !.renewed = @ \/ old.left = 0,
                       !.conditions[k] = [left |-> new.left, value |-> kept]]

AddCondition(w, k, c, delayed, force) ==
    LET started == [w EXCEPT !.conditions[k] = c,
                             !.affected = StartCondition(@, k[1], c)] IN
    IF ~force /\ k[1] = "HASTE" /\ Has(w, "PARALYZE") /\ delayed
    THEN [w EXCEPT !.deferred = Append(@, <<"add", k, c>>)]
    ELSE IF w.conditions[k] # NoCondition THEN Merged(w, k, c)
    ELSE OnAddCondition(started, k[1], delayed)

-----------------------------------------------------------------------------
Now == [conditions |-> conditions, affected |-> affected,
        deferred |-> deferred, renewed |-> renewed]

PlayerBecomes(w) ==
    /\ conditions' = w.conditions /\ affected' = w.affected
    /\ deferred' = w.deferred /\ renewed' = w.renewed
    /\ UNCHANGED <<skill, met>>

Add(k, left, value, delayed) ==
    LET v == IF value = Doubled THEN skill ELSE value IN
    /\ Len(deferred) < MaxDeferred
    /\ PlayerBecomes(AddCondition(Now, k, [left |-> left, value |-> v],
                            delayed, FALSE))

RemoveType(type, delayed) ==
    /\ Len(deferred) < MaxDeferred
    /\ PlayerBecomes(RemoveCondition(Now, type, delayed))

(* A spell removes what has a type one by one; if the player may not act   *)
(* yet, it is only cut to the time that is left until then.                *)
Dispel(k, delayed) ==
    /\ k \in Present /\ Len(deferred) < MaxDeferred
    /\ PlayerBecomes(IF k[1] = "PARALYZE" /\ delayed
               THEN RemoveCondition(Now, k[1], TRUE) ELSE EndOne(Now, k))

CutShort(k, left) ==
    /\ k \in Present
    /\ PlayerBecomes([Now EXCEPT !.renewed = @ \/ conditions[k].left = 0,
                           !.conditions[k].left = left])

(* The timers of forceAddCondition and forceRemoveCondition.               *)
Fire(i, delayed) ==
    LET event == deferred[i]
        w == [Now EXCEPT !.deferred = RemoveAt(@, i)]
    IN  PlayerBecomes(IF event[1] = "add"
                THEN AddCondition(w, event[2], event[3], delayed, TRUE)
                ELSE RemoveCondition(w, event[2], FALSE))

PassTime ==
    /\ conditions' =
            [k \in Keys |->
                IF k \in Present /\ conditions[k].left \in 1..MaxTicks
                THEN [conditions[k] EXCEPT !.left = @ - 1] ELSE conditions[k]]
    /\ UNCHANGED <<affected, deferred, skill, renewed, met>>

ExecuteConditions ==
    PlayerBecomes(EndAll(Now, {k \in Present : conditions[k].left = 0}))

Advance ==
    /\ skill' = 3 - skill
    /\ UNCHANGED <<conditions, affected, deferred, renewed, met>>

ConditionsNext ==
    \/ \E k \in met, left \in 1..Endless, delayed \in BOOLEAN :
        \E value \in Values(k[1]) : Add(k, left, value, delayed)
    \/ \E type \in Types, delayed \in BOOLEAN :
        RemoveType(type, delayed)
    \/ \E k \in met, delayed \in BOOLEAN : Dispel(k, delayed)
    \/ \E k \in met, left \in 0..1 : CutShort(k, left)
    \/ \E i \in DOMAIN deferred, delayed \in BOOLEAN : Fire(i, delayed)
    \/ PassTime \/ ExecuteConditions \/ Advance

ConditionsSpec == ConditionsInit /\ [][ConditionsNext]_ConditionsVars

-----------------------------------------------------------------------------
Sum(keys) ==
    FoldSet(LAMBDA k, n : n + conditions[k].value, 0, keys \cap Present)

(* The player is as fast and as skilled as the conditions it has make it,  *)
(* whichever of them were merged, replaced or ended before, and although   *)
(* its own skill changed meanwhile.                                        *)
ChangesAddUp ==
    /\ affected.varSpeed = Sum(Speeds)
    /\ affected.varSkill = Sum(OfType("ATTRIBUTES"))

(* What is not counted is as it was when no condition of its type is left. *)
NothingStays ==
    /\ affected.visible <=> OfType("INVISIBLE") \cap Present = {}
    /\ affected.drunkenness # 0 => OfType("DRUNK") \cap Present # {}
    /\ affected.outfit # 0 => OfType("OUTFIT") \cap Present # {}
    /\ ~affected.useDefense =>
        \E k \in OfType("ATTRIBUTES") \cap Present : Disables(conditions[k])

(* Nobody is hasted and paralysed, but until the step is done for which    *)
(* the end of the paralysis was put off, or because a condition that had   *)
(* expired unnoticed was renewed.                                          *)
HasteOrParalysis ==
    Has(Now, "HASTE") /\ Has(Now, "PARALYZE") =>
        renewed \/ \E i \in DOMAIN deferred :
                        deferred[i] = <<"remove", "PARALYZE">>

(* Conditions are sound: what they changed is what is there, no more.      *)
ConditionsSound ==
    ConditionsTypeOK /\ ChangesAddUp /\ NothingStays /\ HasteOrParalysis
=============================================================================
