----------------------------- MODULE TurnsProofs -----------------------------
(***************************************************************************)
(* Theorems about Turns and the components it puts side by side: the       *)
(* raids, the global events, the timers of scripts and the waiting list,   *)
(* for any number of them, any limit of loads, of event numbers and of     *)
(* players.                                                                *)
(***************************************************************************)
EXTENDS Turns, FoldLemmas, FiniteSetTheorems, SequenceTheorems, TLAPS

-----------------------------------------------------------------------------
(* Chains.                                                                 *)

LEMMA ChainFacts ==
    ASSUME NEW c \in Chains
    PROVE  /\ Coming(c) \in Nat
           /\ c.others \in Nat /\ c.due \in Nat
           /\ c.others + c.due <= Coming(c)
           /\ Coming(c) = 0 => c.id # "pending" /\ c.due = 0 /\ c.others = 0
BY DEF Chains, Coming, ByName

LEMMA NoEventsFacts == NoEvents \in Chains /\ Coming(NoEvents) = 0
BY DEF Chains, Coming, ByName, NoEvents

\* What adding to a chain, stopping it, the expiry of one of its events and
\* the run of an expired one do to the number of its events to come.
LEMMA ChainAddFacts ==
    ASSUME NEW c \in Chains
    PROVE  /\ ChainAdd(c) \in Chains
           /\ Coming(ChainAdd(c)) = Coming(c) + 1
           /\ ChainAdd(c).id = "pending" /\ ChainAdd(c).due = c.due
           /\ c.id # "pending" => ChainAdd(c).others = c.others
BY DEF ChainAdd, Chains, Coming, ByName

LEMMA ChainStopFacts ==
    ASSUME NEW c \in Chains
    PROVE  /\ ChainStop(c) \in Chains
           /\ Coming(ChainStop(c)) = c.others + c.due
           /\ ChainStop(c).id = "zero" /\ ChainStop(c).due = c.due
           /\ ChainStop(c).others = c.others
<1> DEFINE d == ChainStop(c)
<1>1. c.others \in Nat /\ c.due \in Nat
  BY DEF Chains
<1>2. d = [id |-> "zero", others |-> c.others, due |-> c.due]
  BY <1>1 DEF ChainStop, Chains
<1> HIDE DEF d
<1> QED
  BY <1>1, <1>2 DEF Chains, Coming, ByName, d

LEMMA ChainExpirationFacts ==
    ASSUME NEW c \in Chains, NEW d \in ChainExpirations(c)
    PROVE  /\ d \in Chains /\ Coming(d) = Coming(c)
           /\ d.id = "zero" <=> c.id = "zero"
           /\ d.others <= c.others
<1>1. c.id \in {"zero", "pending", "gone"} /\ c.others \in Nat
      /\ c.due \in Nat
  BY DEF Chains
<1>2. CASE c.id = "pending" /\ d = NamedExpires(c)
  BY <1>1, <1>2 DEF NamedExpires, Chains, Coming, ByName
<1>3. CASE c.others > 0 /\ d = OtherExpires(c)
  BY <1>1, <1>3 DEF OtherExpires, Chains, Coming, ByName
<1> QED
  BY <1>2, <1>3 DEF ChainExpirations

LEMMA ChainRunFacts ==
    ASSUME NEW c \in Chains, c.due > 0
    PROVE  /\ ChainRun(c) \in Chains /\ Coming(ChainRun(c)) = Coming(c) - 1
           /\ ChainRun(c).id = c.id /\ ChainRun(c).others = c.others
           /\ ChainRun(c).due = c.due - 1
           /\ Coming(c) > 0
<1> DEFINE d == ChainRun(c)
<1>1. c.id \in {"zero", "pending", "gone"} /\ c.others \in Nat
      /\ c.due \in Nat
  BY DEF Chains
<1>2. d = [id |-> c.id, others |-> c.others, due |-> c.due - 1]
  BY DEF ChainRun, Chains
<1> HIDE DEF d
<1> QED
  BY <1>1, <1>2 DEF Chains, Coming, ByName, d

-----------------------------------------------------------------------------
(* GlobalEvents.  Registering, reloading and running keep the chain of a   *)
(* kind alone, and serve what they register.                               *)

\* What OneChain rests on: one event, which the id names until it expires.
Single(chain) ==
    /\ chain.others = 0 /\ Coming(chain) <= 1
    /\ chain.id = "zero" => chain.due = 0

\* What Served rests on: a chain that is not begun again is not needed.
Serving(events, chain) ==
    IF events = {} THEN chain.id = "zero" ELSE Coming(chain) > 0

GlobalsInv ==
    /\ GlobalsTypeOK
    /\ \A k \in EventKinds :
        /\ ~globals.overtaken[k] => Single(globals.chain[k])
        /\ ~globals.silent[k] => Serving(globals.events[k], globals.chain[k])

LEMMA GlobalsBegin == GlobalsInit => GlobalsInv
BY NoEventsFacts DEF GlobalsInit, GlobalsInv, GlobalsTypeOK, Single, Serving,
   NoEvents, Chains, Coming, ByName

GlobalStates ==
    [events : [EventKinds -> SUBSET (GlobalNames \X Origins)],
     chain : [EventKinds -> Chains],
     overtaken : [EventKinds -> BOOLEAN],
     silent : [EventKinds -> BOOLEAN]]

\* What w comes to have of a kind when something may be registered: nothing
\* new, or new events, which the chain of the kind serves from now on.
Registered(events, chain, events1, chain1) ==
    \/ events1 = events /\ chain1 = chain
    \/ /\ events1 # events /\ events1 # {}
       /\ chain1 = IF chain.id = "zero" THEN ChainAdd(chain) ELSE chain

\* v is w with some of the names registered for k.
RegisterDoes(v, w, k, names) ==
    /\ v \in GlobalStates
    /\ \A o \in EventKinds :
        o # k => v.events[o] = w.events[o] /\ v.chain[o] = w.chain[o]
    /\ v.overtaken = w.overtaken /\ v.silent = w.silent
    /\ Registered(w.events[k], w.chain[k], v.events[k], v.chain[k])
    /\ names # {} => v.events[k] # {}

LEMMA RegisterFacts ==
    ASSUME NEW w \in GlobalStates, NEW k \in EventKinds,
           NEW names \in SUBSET GlobalNames, NEW from \in Origins
    PROVE  RegisterDoes(Register(w, k, names, from), w, k, names)
<1>0. PICK v : v = Register(w, k, names, from)
  OBVIOUS
<1> DEFINE new == names \ Names(w.events[k])
           events == [w.events EXCEPT ![k] = @ \cup (new \X {from})]
           chain == [w.chain EXCEPT ![k] = IF new # {} /\ @.id = "zero"
                                           THEN ChainAdd(@) ELSE @]
<1>1. v.overtaken = w.overtaken /\ v.silent = w.silent
  BY <1>0 DEF Register, GlobalStates
<1>2. v.events = events
  BY <1>0 DEF Register, GlobalStates
<1>3. v.chain = chain
  BY <1>0 DEF Register, GlobalStates
<1>4. w.chain[k] \in Chains
  BY DEF GlobalStates
<1>5. chain \in [EventKinds -> Chains]
  BY <1>4, ChainAddFacts DEF GlobalStates
<1>6. events \in [EventKinds -> SUBSET (GlobalNames \X Origins)]
  BY DEF GlobalStates
<1>7. /\ new # {} => events[k] # w.events[k] /\ events[k] # {}
      /\ new = {} => events[k] = w.events[k]
      /\ names # {} => events[k] # {}
  <2>1. ASSUME NEW name \in new
        PROVE  events[k] # w.events[k] /\ events[k] # {}
    <3>1. <<name, from>> \in events[k]
      BY DEF GlobalStates
    <3>2. <<name, from>> \notin w.events[k]
      BY DEF Names
    <3> QED
      BY <3>1, <3>2
  <2>2. new = {} => events[k] = w.events[k]
    BY DEF GlobalStates
  <2>3. ASSUME new = {}, NEW name \in names
        PROVE  events[k] # {}
    <3>1. \E e \in w.events[k] : e[1] = name
      BY <2>3 DEF Names
    <3> QED
      BY <2>2, <2>3, <3>1
  <2> QED
    BY <2>1, <2>2, <2>3
<1>8. \A o \in EventKinds \ {k} :
        events[o] = w.events[o] /\ chain[o] = w.chain[o]
  BY DEF GlobalStates
<1>9. /\ new = {} => chain[k] = w.chain[k]
      /\ new # {} => chain[k] = IF w.chain[k].id = "zero"
                                THEN ChainAdd(w.chain[k]) ELSE w.chain[k]
  BY DEF GlobalStates
<1> HIDE DEF events, chain
<1>10. v \in GlobalStates
  BY <1>0, <1>5, <1>6 DEF Register, GlobalStates, events, chain
<1> HIDE DEF new
<1> QED
  BY <1>0, <1>1, <1>2, <1>3, <1>7, <1>8, <1>9, <1>10
     DEF Registered, RegisterDoes

LEMMA ClearGlobalsFacts ==
    ASSUME NEW w \in GlobalStates, NEW from \in Origins
    PROVE  LET v == ClearGlobals(w, from)
           IN  /\ v \in GlobalStates
               /\ v.chain = [k \in EventKinds |-> ChainStop(w.chain[k])]
               /\ v.overtaken = w.overtaken /\ v.silent = w.silent
<1>1. \A k \in EventKinds : ChainStop(w.chain[k]) \in Chains
  BY ChainStopFacts DEF GlobalStates
<1> QED
  BY <1>1 DEF ClearGlobals, GlobalStates

\* A reload begins the chains of the kinds of which it brings something, and
\* leaves the others without.
LEMMA ReloadKeeps ==
    ASSUME GlobalsInv, NEW from \in Origins, Reload(from)
    PROVE  GlobalsInv'
<1> PICK think \in SUBSET GlobalNames, timer \in SUBSET GlobalNames :
        LET kept == ClearGlobals(globals, from)
            w == Register(Register(kept, "think", think, from),
                          "timer", timer, from)
        IN  globals' =
            [w EXCEPT
                !.overtaken = [k \in EventKinds |->
                    \/ globals.overtaken[k]
                    \/ globals.chain[k].due + globals.chain[k].others > 0],
                !.silent = [k \in EventKinds |->
                    w.events[k] = kept.events[k] /\ w.events[k] # {}]]
  BY DEF Reload
<1> DEFINE kept == ClearGlobals(globals, from)
           v == Register(kept, "think", think, from)
           w == Register(v, "timer", timer, from)
<1>1. globals \in GlobalStates
  BY DEF GlobalsInv, GlobalsTypeOK, GlobalStates
<1>2. /\ kept \in GlobalStates
      /\ kept.chain = [k \in EventKinds |-> ChainStop(globals.chain[k])]
  BY <1>1, ClearGlobalsFacts
<1>3. "think" \in EventKinds /\ "timer" \in EventKinds
  BY DEF EventKinds
<1> HIDE DEF kept
<1>4. /\ v \in GlobalStates
      /\ v.events["timer"] = kept.events["timer"]
      /\ v.chain["timer"] = kept.chain["timer"]
      /\ Registered(kept.events["think"], kept.chain["think"],
                    v.events["think"], v.chain["think"])
  <2>1. RegisterDoes(v, kept, "think", think)
    BY <1>2, <1>3, RegisterFacts
  <2> QED
    BY <1>3, <2>1 DEF RegisterDoes
<1> HIDE DEF v
<1>5. /\ w \in GlobalStates
      /\ w.events["think"] = v.events["think"]
      /\ w.chain["think"] = v.chain["think"]
      /\ Registered(v.events["timer"], v.chain["timer"],
                    w.events["timer"], w.chain["timer"])
  <2>1. RegisterDoes(w, v, "timer", timer)
    BY <1>3, <1>4, RegisterFacts
  <2> QED
    BY <1>3, <2>1 DEF RegisterDoes
<1> HIDE DEF w
<1>6. \A k \in EventKinds :
        Registered(kept.events[k], ChainStop(globals.chain[k]),
                   w.events[k], w.chain[k])
  BY <1>2, <1>4, <1>5 DEF EventKinds
<1>7. /\ globals' \in GlobalStates
      /\ globals'.events = w.events /\ globals'.chain = w.chain
      /\ globals'.overtaken = [k \in EventKinds |->
                    \/ globals.overtaken[k]
                    \/ globals.chain[k].due + globals.chain[k].others > 0]
      /\ globals'.silent = [k \in EventKinds |->
                    w.events[k] = kept.events[k] /\ w.events[k] # {}]
  BY <1>5 DEF GlobalStates, w, v, kept
<1> SUFFICES ASSUME NEW k \in EventKinds
             PROVE  /\ ~globals'.overtaken[k] => Single(w.chain[k])
                    /\ ~globals'.silent[k] => Serving(w.events[k], w.chain[k])
  BY <1>7 DEF GlobalsInv, GlobalsTypeOK, GlobalStates
<1> DEFINE c == ChainStop(globals.chain[k])
<1>8. globals.chain[k] \in Chains
  BY <1>1 DEF GlobalStates
<1>9. /\ c \in Chains /\ c.id = "zero" /\ Coming(c) = c.others + c.due
      /\ c.others \in Nat /\ c.due \in Nat
      /\ ~globals'.overtaken[k] => c.others = 0 /\ c.due = 0
  BY <1>7, <1>8, ChainStopFacts, ChainFacts
<1> HIDE DEF c
<1>10. ~globals'.silent[k] => w.events[k] # kept.events[k] \/ w.events[k] = {}
  BY <1>7
<1>11. CASE w.events[k] = kept.events[k] /\ w.chain[k] = c
  BY <1>9, <1>10, <1>11 DEF Single, Serving
<1>12. CASE w.chain[k] = ChainAdd(c) /\ w.events[k] # {}
  <2>1. /\ ChainAdd(c).id = "pending" /\ Coming(ChainAdd(c)) = Coming(c) + 1
        /\ ChainAdd(c).others = c.others
    BY <1>9, ChainAddFacts
  <2> QED
    BY <1>9, <1>12, <2>1 DEF Single, Serving
<1> QED
  BY <1>6, <1>9, <1>11, <1>12 DEF Registered, c

\* What one kind does leaves the other alone.
LEMMA OneKind ==
    ASSUME GlobalsInv, NEW k \in EventKinds,
           globals' \in GlobalStates,
           \A o \in EventKinds \ {k} :
              /\ globals'.events[o] = globals.events[o]
              /\ globals'.chain[o] = globals.chain[o]
              /\ globals'.overtaken[o] = globals.overtaken[o]
              /\ globals'.silent[o] = globals.silent[o],
           ~globals'.overtaken[k] => Single(globals'.chain[k]),
           ~globals'.silent[k] =>
                Serving(globals'.events[k], globals'.chain[k])
    PROVE  GlobalsInv'
BY DEF GlobalsInv, GlobalsTypeOK, GlobalStates

LEMMA RegisterLaterKeeps ==
    ASSUME GlobalsInv, NEW k \in EventKinds, NEW name \in GlobalNames,
           RegisterLater(k, name)
    PROVE  GlobalsInv'
<1> DEFINE c == globals.chain[k]
<1>0. PICK w : w = Register(globals, k, {name}, "lua")
  OBVIOUS
<1>1. /\ globals \in GlobalStates /\ "lua" \in Origins
      /\ c \in Chains
      /\ ~globals.overtaken[k] => Single(c)
      /\ ~globals.silent[k] => Serving(globals.events[k], c)
  BY DEF GlobalsInv, GlobalsTypeOK, GlobalStates, Origins
<1>2. /\ w \in GlobalStates
      /\ \A o \in EventKinds : o = k \/
            (w.events[o] = globals.events[o] /\ w.chain[o] = globals.chain[o])
      /\ w.overtaken = globals.overtaken /\ w.silent = globals.silent
      /\ Registered(globals.events[k], c, w.events[k], w.chain[k])
      /\ w.events[k] # {}
  <2> DEFINE names == {name}
             from == "lua"
  <2>1. names \in SUBSET GlobalNames /\ names # {}
    OBVIOUS
  <2>2. /\ w = Register(globals, k, names, from)
        /\ globals \in GlobalStates /\ from \in Origins
    BY <1>0, <1>1
  <2> HIDE DEF names, from
  <2>3. RegisterDoes(w, globals, k, names)
    BY <2>1, <2>2, RegisterFacts
  <2> QED
    BY <2>1, <2>3 DEF RegisterDoes
<1>3. globals' = [w EXCEPT !.silent[k] = @ /\ Coming(w.chain[k]) = 0]
  BY <1>0 DEF RegisterLater
<1>4. /\ globals' \in GlobalStates
      /\ globals'.events = w.events /\ globals'.chain = w.chain
      /\ globals'.overtaken = w.overtaken
      /\ globals'.silent = [w.silent EXCEPT
                                ![k] = @ /\ Coming(w.chain[k]) = 0]
  BY <1>2, <1>3 DEF GlobalStates
<1>5. /\ ~globals'.silent[k] => ~globals.silent[k] \/ Coming(w.chain[k]) # 0
      /\ \A o \in EventKinds \ {k} : globals'.silent[o] = globals.silent[o]
  BY <1>2, <1>4 DEF GlobalStates
<1>6. Coming(c) \in Nat /\ Coming(w.chain[k]) \in Nat
  BY <1>1, <1>2, ChainFacts DEF GlobalStates
<1>7. CASE w.chain[k] = c /\ (w.events[k] = globals.events[k] \/ c.id # "zero")
  <2>1. ~globals'.silent[k] => Coming(c) > 0
    BY <1>1, <1>2, <1>5, <1>6, <1>7 DEF Serving
  <2> QED
    BY <1>1, <1>2, <1>4, <1>5, <1>7, <2>1, OneKind DEF Serving
<1>8. CASE w.chain[k] = ChainAdd(c) /\ c.id = "zero"
  <2>1. /\ ChainAdd(c).id = "pending" /\ ChainAdd(c).others = c.others
        /\ Coming(ChainAdd(c)) = Coming(c) + 1
    BY <1>1, <1>8, ChainAddFacts
  <2>2. ~globals.overtaken[k] => c.others = 0 /\ Coming(c) = 0
    BY <1>1, <1>8 DEF Single, Coming, ByName
  <2>3. /\ ~globals.overtaken[k] => Single(w.chain[k])
        /\ Serving(w.events[k], w.chain[k])
    BY <1>2, <1>6, <1>8, <2>1, <2>2 DEF Single, Serving
  <2> QED
    BY <1>2, <1>4, <1>5, <2>3, OneKind
<1> QED
  BY <1>2, <1>7, <1>8 DEF Registered

\* An event runs, and the next one is scheduled if anything is left.
LEMMA RunFacts ==
    ASSUME NEW c \in Chains, c.due > 0, NEW left, NEW next,
           next = IF left = {} THEN ChainRun(c) ELSE ChainAdd(ChainRun(c))
    PROVE  /\ next \in Chains
           /\ Single(c) => Single(next)
           /\ left # {} \/ c.id = "zero" => Serving(left, next)
<1> PICK ran : ran = ChainRun(c)
  OBVIOUS
<1>1. /\ ran \in Chains /\ Coming(ran) = Coming(c) - 1 /\ ran.id = c.id
      /\ ran.others = c.others /\ ran.due = c.due - 1 /\ Coming(c) > 0
      /\ c.due \in Nat /\ c.others \in Nat /\ Coming(c) \in Nat
  BY ChainRunFacts, ChainFacts
<1>2. /\ ChainAdd(ran).id = "pending" /\ ChainAdd(ran) \in Chains
      /\ Coming(ChainAdd(ran)) = Coming(ran) + 1
      /\ c.id # "pending" => ChainAdd(ran).others = ran.others
  BY <1>1, ChainAddFacts
<1>3. Single(c) => c.id # "pending" /\ c.id # "zero"
  <2>1. c.id = "pending" => Coming(c) = 1 + c.others + c.due
    BY DEF Coming, ByName
  <2> QED
    BY <1>1, <2>1 DEF Single
<1>4. CASE left # {}
  BY <1>1, <1>2, <1>3, <1>4 DEF Single, Serving
<1>5. CASE left = {}
  BY <1>1, <1>3, <1>5 DEF Single, Serving
<1> QED
  BY <1>4, <1>5

LEMMA RunTimersKeeps == ASSUME GlobalsInv, RunTimers PROVE GlobalsInv'
<1> DEFINE c == globals.chain["timer"]
           events == globals.events["timer"]
<1> PICK failed \in SUBSET events :
        LET left == events \ failed
            ran == ChainRun(c)
        IN  globals' =
            [globals EXCEPT
                !.events["timer"] = left,
                !.chain["timer"] = IF left = {} THEN ran ELSE ChainAdd(ran),
                !.silent["timer"] =
                    IF left # {} THEN FALSE
                    ELSE @ \/ globals.events["timer"] # {}]
  BY DEF RunTimers
<1> DEFINE left == events \ failed
           silent == IF left # {} THEN FALSE
                     ELSE globals.silent["timer"] \/ events # {}
<1> PICK next :
        next = IF left = {} THEN ChainRun(c) ELSE ChainAdd(ChainRun(c))
  OBVIOUS
<1>1. /\ globals \in GlobalStates /\ "timer" \in EventKinds
      /\ c \in Chains /\ c.due > 0
      /\ ~globals.overtaken["timer"] => Single(c)
      /\ ~globals.silent["timer"] => Serving(events, c)
  BY DEF GlobalsInv, GlobalsTypeOK, GlobalStates, EventKinds, RunTimers
<1>2. /\ next \in Chains
      /\ ~globals.overtaken["timer"] => Single(next)
      /\ left # {} \/ c.id = "zero" => Serving(left, next)
  BY <1>1, RunFacts
<1>3. ~silent => left # {} \/ c.id = "zero"
  BY <1>1 DEF Serving
<1>4. silent \in BOOLEAN
  BY <1>1 DEF GlobalStates
<1>5. /\ globals'.events = [globals.events EXCEPT !["timer"] = left]
      /\ globals'.chain = [globals.chain EXCEPT !["timer"] = next]
      /\ globals'.silent = [globals.silent EXCEPT !["timer"] = silent]
      /\ globals'.overtaken = globals.overtaken
  BY <1>1 DEF GlobalStates
<1>6. globals' \in GlobalStates
  BY <1>1, <1>2, <1>4 DEF GlobalStates
<1> HIDE DEF left, silent
<1>7. /\ globals'.events["timer"] = left /\ globals'.chain["timer"] = next
      /\ globals'.silent["timer"] = silent
      /\ globals'.overtaken["timer"] = globals.overtaken["timer"]
  BY <1>1, <1>5 DEF GlobalStates
<1>8. \A o \in EventKinds \ {"timer"} :
              /\ globals'.events[o] = globals.events[o]
              /\ globals'.chain[o] = globals.chain[o]
              /\ globals'.overtaken[o] = globals.overtaken[o]
              /\ globals'.silent[o] = globals.silent[o]
  BY <1>1, <1>5 DEF GlobalStates
<1> QED
  BY <1>1, <1>2, <1>3, <1>6, <1>7, <1>8, OneKind

LEMMA RunThinksKeeps == ASSUME GlobalsInv, RunThinks PROVE GlobalsInv'
<1> DEFINE c == globals.chain["think"]
           events == globals.events["think"]
           silent == globals.silent["think"] /\ events = {}
<1> PICK next :
        next = IF events = {} THEN ChainRun(c) ELSE ChainAdd(ChainRun(c))
  OBVIOUS
<1>1. /\ globals \in GlobalStates /\ "think" \in EventKinds
      /\ c \in Chains /\ c.due > 0
      /\ ~globals.overtaken["think"] => Single(c)
      /\ ~globals.silent["think"] => Serving(events, c)
  BY DEF GlobalsInv, GlobalsTypeOK, GlobalStates, EventKinds, RunThinks
<1>2. /\ next \in Chains
      /\ ~globals.overtaken["think"] => Single(next)
      /\ events # {} \/ c.id = "zero" => Serving(events, next)
  BY <1>1, RunFacts
<1>3. ~silent => events # {} \/ c.id = "zero"
  BY <1>1 DEF Serving
<1>5. /\ globals'.events = globals.events
      /\ globals'.chain = [globals.chain EXCEPT !["think"] = next]
      /\ globals'.silent = [globals.silent EXCEPT !["think"] = silent]
      /\ globals'.overtaken = globals.overtaken
  BY <1>1 DEF GlobalStates, RunThinks
<1>6. globals' \in GlobalStates
  BY <1>1, <1>2 DEF GlobalStates, RunThinks
<1> HIDE DEF silent
<1>7. /\ globals'.events["think"] = events
      /\ globals'.chain["think"] = next
      /\ globals'.silent["think"] = silent
      /\ globals'.overtaken["think"] = globals.overtaken["think"]
  BY <1>1, <1>5 DEF GlobalStates
<1>8. \A o \in EventKinds \ {"think"} :
              /\ globals'.events[o] = globals.events[o]
              /\ globals'.chain[o] = globals.chain[o]
              /\ globals'.overtaken[o] = globals.overtaken[o]
              /\ globals'.silent[o] = globals.silent[o]
  BY <1>1, <1>5 DEF GlobalStates
<1> QED
  BY <1>1, <1>2, <1>3, <1>6, <1>7, <1>8, OneKind

LEMMA GlobalEventDueKeeps ==
    ASSUME GlobalsInv, NEW k \in EventKinds, GlobalEventDue(k)
    PROVE  GlobalsInv'
<1> PICK d \in ChainExpirations(globals.chain[k]) :
        globals' = [globals EXCEPT !.chain[k] = d]
  BY DEF GlobalEventDue
<1> DEFINE c == globals.chain[k]
<1>1. /\ globals \in GlobalStates /\ c \in Chains
      /\ ~globals.overtaken[k] => Single(c)
      /\ ~globals.silent[k] => Serving(globals.events[k], c)
  BY DEF GlobalsInv, GlobalsTypeOK, GlobalStates
<1>2. /\ d \in Chains /\ Coming(d) = Coming(c)
      /\ d.id = "zero" <=> c.id = "zero"
      /\ d.others \in Nat /\ d.others <= c.others /\ c.others \in Nat
  BY <1>1, ChainExpirationFacts, ChainFacts
<1>3. /\ globals' \in GlobalStates
      /\ globals'.events = globals.events
      /\ globals'.chain = [globals.chain EXCEPT ![k] = d]
      /\ globals'.silent = globals.silent
      /\ globals'.overtaken = globals.overtaken
  BY <1>1, <1>2 DEF GlobalStates
<1>4. Single(c) => Single(d)
  <2>1. Single(c) /\ c.id = "zero" => Coming(c) = 0
    BY DEF Single, Coming, ByName
  <2>2. Coming(d) = 0 => d.due = 0
    BY <1>2, ChainFacts
  <2> QED
    BY <1>2, <2>1, <2>2 DEF Single
<1>5. Serving(globals.events[k], c) => Serving(globals.events[k], d)
  BY <1>2 DEF Serving
<1> QED
  BY <1>1, <1>3, <1>4, <1>5, OneKind DEF GlobalStates

LEMMA GlobalsKept == GlobalsInv /\ [GlobalsNext]_globals => GlobalsInv'
<1> SUFFICES ASSUME GlobalsInv, [GlobalsNext]_globals PROVE GlobalsInv'
  OBVIOUS
<1>1. CASE UNCHANGED globals
  BY <1>1 DEF GlobalsInv, GlobalsTypeOK
<1> QED
  BY <1>1, ReloadKeeps, RegisterLaterKeeps, RunTimersKeeps, RunThinksKeeps,
     GlobalEventDueKeeps DEF GlobalsNext

LEMMA GlobalsInvSuffices == GlobalsInv => GlobalsSound
BY DEF GlobalsInv, Single, Serving, GlobalsSound, Served, OneChain

-----------------------------------------------------------------------------
(* Raids.                                                                  *)

RaidStates ==
    [list : SUBSET Raids, running : Raids \cup {NoRaid},
     started : BOOLEAN, load : 1..MaxLoads, checks : Chains,
     events : [Raids -> Chains], nextEvent : [Raids -> 0..MaxRaidEvents],
     file : [RaidNames -> 0..MaxRaidEvents], outlived : BOOLEAN]

\* The raids of the list, and the one that runs, are of the last load; the
\* raids of loads to come have not begun.
LoadsInv ==
    /\ \A r \in raids.list : r[2] = raids.load
    /\ \A r \in Raids :
        r[2] > raids.load =>
            raids.nextEvent[r] = 0 /\ Coming(raids.events[r]) = 0

\* A raid is between two of its events only while one is to come, or when it
\* was stopped by a load.
BetweenEvents ==
    \A r \in Raids :
        raids.nextEvent[r] > 0 =>
            /\ raids.nextEvent[r] < Length(r)
            /\ r[2] >= raids.load => Coming(raids.events[r]) > 0

\* What outlived a load is still to come.
OutlivedInv ==
    raids.outlived => \E r \in Raids : Coming(raids.events[r]) > 0

RaidsInv ==
    RaidsSound /\ LoadsInv /\ BetweenEvents /\ OutlivedInv

LEMMA RaidsFacts ==
    /\ NoRaid \notin Raids
    /\ \A r \in Raids : r[1] \in RaidNames /\ r[2] \in 1..MaxLoads
    /\ MaxRaidEvents \in Nat \ {0} /\ MaxLoads \in Nat \ {0}
BY RaidsAssumption DEF Raids

LEMMA RaidsBegin == RaidsInit => RaidsInv
<1> SUFFICES ASSUME NEW file \in [RaidNames -> 0..MaxRaidEvents],
                    raids = [list |-> Loaded(1), running |-> NoRaid,
                        started |-> TRUE, load |-> 1,
                        checks |-> ChainAdd(NoEvents),
                        events |-> [r \in Raids |-> NoEvents],
                        nextEvent |-> [r \in Raids |-> 0],
                        file |-> file,
                        outlived |-> FALSE]
             PROVE  RaidsInv
  BY DEF RaidsInit
<1>1. /\ ChainAdd(NoEvents) \in Chains /\ Coming(ChainAdd(NoEvents)) = 1
      /\ NoEvents \in Chains /\ Coming(NoEvents) = 0
  BY NoEventsFacts, ChainAddFacts
<1>2. /\ Loaded(1) \in SUBSET Raids /\ \A r \in Loaded(1) : r[2] = 1
      /\ 1 \in 1..MaxLoads /\ 0 \in 0..MaxRaidEvents
  BY RaidsFacts DEF Loaded
<1>3. RaidsTypeOK
  BY <1>1, <1>2 DEF RaidsTypeOK
<1>4. CheckToCome /\ RunningIsAlive /\ OneRaidAtATime
  BY <1>1, RaidsFacts DEF CheckToCome, RunningIsAlive, OneRaidAtATime
<1>5. LoadsInv /\ BetweenEvents /\ OutlivedInv
  BY <1>1, <1>2 DEF LoadsInv, BetweenEvents, OutlivedInv
<1> QED
  BY <1>3, <1>4, <1>5 DEF RaidsInv, RaidsSound

\* What Become(w) makes of w.
BecomeDoes(w) ==
    /\ raids' \in RaidStates
    /\ raids'.list = w.list /\ raids'.running = w.running
    /\ raids'.started = w.started /\ raids'.load = w.load
    /\ raids'.checks = w.checks /\ raids'.events = w.events
    /\ raids'.nextEvent = w.nextEvent /\ raids'.file = w.file
    /\ raids'.outlived <=>
            \/ w.load # raids.load /\ \E r \in Raids : OutOfReach(r)
            \/ raids.outlived /\ Executing(w) # {}

LEMMA BecomeFacts ==
    ASSUME NEW w \in RaidStates, w.outlived = raids.outlived, Become(w)
    PROVE  BecomeDoes(w)
<1> DEFINE outlived == \/ w.load # raids.load /\ \E r \in Raids : OutOfReach(r)
                       \/ w.outlived /\ Executing(w) # {}
<1>1. raids' = [w EXCEPT !.outlived = outlived]
  BY DEF Become
<1>2. outlived \in BOOLEAN
  BY DEF RaidStates
<1> HIDE DEF outlived
<1>3. /\ raids' \in RaidStates
      /\ raids'.list = w.list /\ raids'.running = w.running
      /\ raids'.started = w.started /\ raids'.load = w.load
      /\ raids'.checks = w.checks /\ raids'.events = w.events
      /\ raids'.nextEvent = w.nextEvent /\ raids'.file = w.file
      /\ raids'.outlived = outlived
  BY <1>1, <1>2 DEF RaidStates
<1> QED
  BY <1>3 DEF BecomeDoes, outlived

\* What changes when the running raid has nothing to do with it.
LEMMA QuietKeeps ==
    ASSUME RaidsInv, raids' \in RaidStates,
           raids'.list = raids.list, raids'.running = raids.running,
           raids'.load = raids.load, raids'.nextEvent = raids.nextEvent,
           raids'.file = raids.file,
           \A r \in Raids : Coming(raids'.events[r]) = Coming(raids.events[r]),
           raids'.outlived <=> raids.outlived /\ Executing(raids') # {},
           CheckToCome'
    PROVE  RaidsInv'
<1>1. raids.outlived => Executing(raids') # {}
  BY DEF RaidsInv, OutlivedInv, Executing
<1>2. RaidsTypeOK' /\ RunningIsAlive' /\ LoadsInv' /\ BetweenEvents'
  BY DEF RaidsInv, RaidsSound, RaidsTypeOK, RaidStates, RunningIsAlive,
     LoadsInv, BetweenEvents, Length
<1>3. OneRaidAtATime' /\ OutlivedInv'
  BY <1>1 DEF RaidsInv, RaidsSound, OneRaidAtATime, OutlivedInv, Length
<1> QED
  BY <1>2, <1>3 DEF RaidsInv, RaidsSound

\* The chain of a raid goes on if its next event is one of the file's.
StartRaidDoes(v, w, r) ==
    /\ v \in RaidStates
    /\ v.list = w.list /\ v.running = w.running
    /\ v.started = w.started /\ v.load = w.load
    /\ v.checks = w.checks
    /\ v.nextEvent = w.nextEvent /\ v.file = w.file
    /\ v.outlived = w.outlived
    /\ \A o \in Raids : o # r => v.events[o] = w.events[o]
    /\ Coming(v.events[r]) = Coming(w.events[r])
                                + IF w.nextEvent[r] < Length(r) THEN 1 ELSE 0

LEMMA StartRaidFacts ==
    ASSUME NEW w \in RaidStates, NEW r \in Raids
    PROVE  StartRaidDoes(StartRaid(w, r), w, r)
<1>1. w.events[r] \in Chains /\ Coming(w.events[r]) \in Nat
  BY ChainFacts DEF RaidStates
<1>2. /\ ChainAdd(w.events[r]) \in Chains
      /\ Coming(ChainAdd(w.events[r])) = Coming(w.events[r]) + 1
  BY <1>1, ChainAddFacts
<1>3. CASE w.nextEvent[r] < Length(r)
  <2>1. PICK v : v = [w EXCEPT !.events[r] = ChainAdd(w.events[r])]
    OBVIOUS
  <2>2. v = StartRaid(w, r)
    BY <1>3, <2>1 DEF StartRaid
  <2>3. v \in RaidStates
    BY <1>2, <2>1 DEF RaidStates
  <2>4. /\ v.list = w.list /\ v.running = w.running
        /\ v.started = w.started /\ v.load = w.load
        /\ v.checks = w.checks
        /\ v.nextEvent = w.nextEvent /\ v.file = w.file
        /\ v.outlived = w.outlived
        /\ v.events = [w.events EXCEPT ![r] = ChainAdd(w.events[r])]
    BY <2>1 DEF RaidStates
  <2>5. /\ \A o \in Raids : o # r => v.events[o] = w.events[o]
        /\ Coming(v.events[r]) = Coming(w.events[r]) + 1
    BY <1>2, <2>4 DEF RaidStates
  <2> QED
    BY <1>3, <2>2, <2>3, <2>4, <2>5 DEF StartRaidDoes
<1>4. CASE ~(w.nextEvent[r] < Length(r))
  BY <1>1, <1>4 DEF StartRaid, StartRaidDoes
<1> QED
  BY <1>3, <1>4

\* A raid of the list begins while none runs.
LEMMA BeginKeeps ==
    ASSUME RaidsInv, NEW r \in raids.list, raids.running = NoRaid,
           raids' \in RaidStates,
           raids'.list \subseteq raids.list, raids'.running = r,
           raids'.load = raids.load, raids'.nextEvent = raids.nextEvent,
           raids'.file = raids.file,
           \A o \in Raids : o # r => raids'.events[o] = raids.events[o],
           Coming(raids'.events[r]) = Coming(raids.events[r])
                + IF raids.nextEvent[r] < Length(r) THEN 1 ELSE 0,
           raids'.outlived <=> raids.outlived /\ Executing(raids') # {},
           CheckToCome'
    PROVE  RaidsInv'
<1>1. /\ raids \in RaidStates /\ r \in Raids /\ r[2] = raids.load
      /\ r # NoRaid /\ \A o \in Raids : Coming(raids.events[o]) \in Nat
      /\ Length(r) \in Nat /\ raids.nextEvent[r] \in Nat
  BY RaidsFacts, ChainFacts
     DEF RaidsInv, RaidsSound, RaidsTypeOK, RaidStates, LoadsInv, Length
<1>2. \A o \in Raids :
        Coming(raids.events[o]) > 0 => Coming(raids'.events[o]) > 0
  BY <1>1
<1>3. raids'.outlived <=> raids.outlived
  BY <1>2 DEF RaidsInv, OutlivedInv, Executing
<1>4. RaidsTypeOK' /\ RunningIsAlive' /\ LoadsInv'
  <2>1. ~(r[2] > raids.load)
    BY <1>1, RaidsFacts DEF RaidStates
  <2> QED
    BY <1>1, <2>1 DEF RaidsInv, RaidsSound, RaidsTypeOK, RaidStates,
       RunningIsAlive, LoadsInv
<1>5. BetweenEvents' /\ OutlivedInv'
  BY <1>2, <1>3 DEF RaidsInv, BetweenEvents, OutlivedInv, Length
<1>6. OneRaidAtATime'
  <2> SUFFICES ASSUME ~raids.outlived, NEW o \in Raids
               PROVE  /\ Coming(raids'.events[o]) =
                            IF o = r /\ Length(o) > 0 THEN 1 ELSE 0
                      /\ o[2] = raids.load /\ o # r => raids.nextEvent[o] = 0
    BY <1>3 DEF OneRaidAtATime, Length
  <2>1. /\ Coming(raids.events[o]) = 0
        /\ o[2] = raids.load => raids.nextEvent[o] = 0
    BY RaidsFacts DEF RaidsInv, RaidsSound, OneRaidAtATime
  <2> QED
    BY <1>1, <2>1
<1> QED
  BY <1>4, <1>5, <1>6 DEF RaidsInv, RaidsSound

LEMMA CheckRaidsKeeps == ASSUME RaidsInv, CheckRaids PROVE RaidsInv'
<1>1. raids \in RaidStates /\ raids.checks \in Chains /\ raids.checks.due > 0
  BY DEF RaidsInv, RaidsSound, RaidsTypeOK, RaidStates, CheckRaids
<1>2. PICK checks : checks = ChainAdd(ChainRun(raids.checks))
  OBVIOUS
<1>3. checks \in Chains /\ Coming(checks) > 0
  BY <1>1, <1>2, ChainRunFacts, ChainAddFacts, ChainFacts
<1>4. PICK again : again = [raids EXCEPT !.checks = checks]
  OBVIOUS
<1>5. /\ again \in RaidStates
      /\ again.list = raids.list /\ again.running = raids.running
      /\ again.started = raids.started /\ again.load = raids.load
      /\ again.checks = checks /\ again.events = raids.events
      /\ again.nextEvent = raids.nextEvent /\ again.file = raids.file
      /\ again.outlived = raids.outlived
  BY <1>1, <1>3, <1>4 DEF RaidStates
<1>6. CASE Become(again)
  <2>1. BecomeDoes(again)
    BY <1>5, <1>6, BecomeFacts
  <2> QED
    BY <1>3, <1>5, <2>1, QuietKeeps DEF BecomeDoes, Executing, CheckToCome
<1>7. ASSUME NEW r \in raids.list, raids.running = NoRaid,
             Become(StartRaid([again EXCEPT !.running = r,
                        !.list = IF r[1] \in OnlyOnce THEN @ \ {r}
                                ELSE @], r))
      PROVE  RaidsInv'
  <2>1. PICK list : list = IF r[1] \in OnlyOnce THEN raids.list \ {r}
                           ELSE raids.list
    OBVIOUS
  <2>2. PICK w : w = [again EXCEPT !.running = r, !.list = list]
    OBVIOUS
  <2>3. list \subseteq raids.list /\ r \in Raids /\ list \in SUBSET Raids
    BY <1>1, <2>1 DEF RaidStates
  <2>4. /\ w \in RaidStates
        /\ w.list = list /\ w.running = r
        /\ w.started = raids.started /\ w.load = raids.load
        /\ w.checks = checks /\ w.events = raids.events
        /\ w.nextEvent = raids.nextEvent /\ w.file = raids.file
        /\ w.outlived = raids.outlived
    BY <1>5, <2>2, <2>3 DEF RaidStates
  <2>5. PICK v : v = StartRaid(w, r)
    OBVIOUS
  <2>6. StartRaidDoes(v, w, r)
    BY <2>3, <2>4, <2>5, StartRaidFacts
  <2>7. Become(v)
    BY <1>5, <1>7, <2>1, <2>2, <2>5
  <2>8. BecomeDoes(v)
    BY <2>4, <2>6, <2>7, BecomeFacts DEF StartRaidDoes
  <2>9. /\ raids' \in RaidStates
        /\ raids'.list \subseteq raids.list /\ raids'.running = r
        /\ raids'.load = raids.load /\ raids'.nextEvent = raids.nextEvent
        /\ raids'.file = raids.file
        /\ raids'.outlived <=> raids.outlived /\ Executing(raids') # {}
        /\ CheckToCome'
    BY <1>3, <2>3, <2>4, <2>6, <2>8
       DEF BecomeDoes, StartRaidDoes, Executing, CheckToCome
  <2>10. /\ \A o \in Raids : o # r => raids'.events[o] = raids.events[o]
         /\ Coming(raids'.events[r]) = Coming(raids.events[r])
                + IF raids.nextEvent[r] < Length(r) THEN 1 ELSE 0
    BY <2>4, <2>6, <2>8 DEF BecomeDoes, StartRaidDoes
  <2> QED
    BY <1>7, <2>9, <2>10, BeginKeeps
<1> QED
  BY <1>2, <1>4, <1>6, <1>7 DEF CheckRaids

LEMMA StartByScriptKeeps ==
    ASSUME RaidsInv, NEW r \in Raids, StartByScript(r)
    PROVE  RaidsInv'
<1>1. raids \in RaidStates /\ r \in raids.list /\ raids.running = NoRaid
  BY DEF RaidsInv, RaidsSound, RaidsTypeOK, RaidStates, StartByScript
<1>2. PICK w : w = [raids EXCEPT !.running = r]
  OBVIOUS
<1>3. /\ w \in RaidStates
      /\ w.list = raids.list /\ w.running = r
      /\ w.started = raids.started /\ w.load = raids.load
      /\ w.checks = raids.checks /\ w.events = raids.events
      /\ w.nextEvent = raids.nextEvent /\ w.file = raids.file
      /\ w.outlived = raids.outlived
  BY <1>1, <1>2 DEF RaidStates
<1>4. PICK v : v = StartRaid(w, r)
  OBVIOUS
<1>5. StartRaidDoes(v, w, r)
  BY <1>3, <1>4, StartRaidFacts
<1>6. Become(v)
  BY <1>2, <1>4 DEF StartByScript
<1>7. BecomeDoes(v)
  BY <1>3, <1>5, <1>6, BecomeFacts DEF StartRaidDoes
<1>8. /\ raids' \in RaidStates
      /\ raids'.list \subseteq raids.list /\ raids'.running = r
      /\ raids'.load = raids.load /\ raids'.nextEvent = raids.nextEvent
      /\ raids'.file = raids.file
      /\ raids'.outlived <=> raids.outlived /\ Executing(raids') # {}
      /\ CheckToCome'
  BY <1>3, <1>5, <1>7 DEF RaidsInv, RaidsSound, BecomeDoes, StartRaidDoes,
     Executing, CheckToCome
<1>9. /\ \A o \in Raids : o # r => raids'.events[o] = raids.events[o]
      /\ Coming(raids'.events[r]) = Coming(raids.events[r])
                + IF raids.nextEvent[r] < Length(r) THEN 1 ELSE 0
  BY <1>3, <1>5, <1>7 DEF BecomeDoes, StartRaidDoes
<1> QED
  BY <1>1, <1>8, <1>9, BeginKeeps

\* An event of a raid was not the last one.
LEMMA GoOnKeeps ==
    ASSUME RaidsInv, NEW r \in Raids, Coming(raids.events[r]) > 0,
           raids' \in RaidStates,
           raids'.list = raids.list, raids'.running = raids.running,
           raids'.load = raids.load, raids'.file = raids.file,
           raids.nextEvent[r] + 1 < Length(r),
           raids'.nextEvent =
                [raids.nextEvent EXCEPT ![r] = raids.nextEvent[r] + 1],
           \A o \in Raids : Coming(raids'.events[o]) = Coming(raids.events[o]),
           raids'.outlived <=> raids.outlived /\ Executing(raids') # {},
           CheckToCome'
    PROVE  RaidsInv'
<1>1. raids.outlived => Executing(raids') # {}
  BY DEF RaidsInv, OutlivedInv, Executing
<1>2. /\ raids \in RaidStates /\ raids.nextEvent[r] \in Nat
      /\ raids'.nextEvent[r] = raids.nextEvent[r] + 1
      /\ \A o \in Raids : o # r => raids'.nextEvent[o] = raids.nextEvent[o]
  BY DEF RaidsInv, RaidsSound, RaidsTypeOK, RaidStates
<1>3. ~(r[2] > raids.load)
  BY DEF RaidsInv, LoadsInv
<1>4. RaidsTypeOK' /\ RunningIsAlive' /\ LoadsInv'
  BY <1>2, <1>3 DEF RaidsInv, RaidsSound, RaidsTypeOK, RaidStates,
     RunningIsAlive, LoadsInv
<1>5. BetweenEvents' /\ OutlivedInv'
  BY <1>1, <1>2 DEF RaidsInv, BetweenEvents, OutlivedInv, Length
<1>6. OneRaidAtATime'
  <2> SUFFICES ASSUME ~raids.outlived PROVE OneRaidAtATime'
    BY <1>1 DEF OneRaidAtATime
  <2>1. r = raids.running
    BY DEF RaidsInv, RaidsSound, OneRaidAtATime
  <2> QED
    BY <1>2, <2>1 DEF RaidsInv, RaidsSound, OneRaidAtATime, Length
<1> QED
  BY <1>4, <1>5, <1>6 DEF RaidsInv, RaidsSound

\* The last event of a raid, or one that failed, resets it.
LEMMA ResetKeeps ==
    ASSUME RaidsInv, NEW r \in Raids, Coming(raids.events[r]) > 0,
           raids' \in RaidStates,
           raids'.list = raids.list, raids'.running = NoRaid,
           raids'.load = raids.load, raids'.file = raids.file,
           raids'.nextEvent = [raids.nextEvent EXCEPT ![r] = 0],
           \A o \in Raids : o # r => raids'.events[o] = raids.events[o],
           Coming(raids'.events[r]) = Coming(raids.events[r]) - 1,
           raids'.outlived <=> raids.outlived /\ Executing(raids') # {},
           CheckToCome'
    PROVE  RaidsInv'
<1>1. /\ raids \in RaidStates
      /\ raids'.nextEvent[r] = 0
      /\ \A o \in Raids : o # r => raids'.nextEvent[o] = raids.nextEvent[o]
      /\ \A o \in Raids : /\ Coming(raids.events[o]) \in Nat
                          /\ Coming(raids'.events[o]) \in Nat
                          /\ raids.nextEvent[o] \in Nat
  BY ChainFacts DEF RaidsInv, RaidsSound, RaidsTypeOK, RaidStates
<1>2. ~(r[2] > raids.load)
  BY DEF RaidsInv, LoadsInv
<1>3. RaidsTypeOK' /\ RunningIsAlive' /\ LoadsInv'
  BY <1>1, <1>2 DEF RaidsInv, RaidsSound, RaidsTypeOK, RaidStates,
     RunningIsAlive, LoadsInv
<1>4. BetweenEvents'
  BY <1>1 DEF RaidsInv, BetweenEvents, Length
<1>5. OutlivedInv'
  BY <1>1 DEF OutlivedInv, Executing
<1>6. OneRaidAtATime'
  <2> SUFFICES ASSUME ~raids'.outlived, NEW o \in Raids
               PROVE  /\ Coming(raids'.events[o]) = 0
                      /\ o[2] = raids'.load => raids'.nextEvent[o] = 0
    BY RaidsFacts DEF OneRaidAtATime
  <2>1. CASE raids.outlived
    <3>1. Coming(raids'.events[o]) = 0
      BY <1>1, <2>1 DEF Executing
    <3>2. raids'.nextEvent[o] > 0 => ~(o[2] >= raids'.load)
      BY <1>4, <3>1 DEF BetweenEvents
    <3>3. o[2] = raids'.load => o[2] >= raids'.load
      BY <1>1, RaidsFacts DEF RaidStates
    <3>4. raids'.nextEvent[o] \in Nat
      BY DEF RaidStates
    <3> QED
      BY <3>1, <3>2, <3>3, <3>4
  <2>2. CASE ~raids.outlived
    <3>1. r = raids.running /\ Coming(raids.events[r]) = 1
      BY <2>2 DEF RaidsInv, RaidsSound, OneRaidAtATime
    <3>2. o # r => /\ Coming(raids.events[o]) = 0
                   /\ o[2] = raids.load => raids.nextEvent[o] = 0
      BY <2>2, <3>1 DEF RaidsInv, RaidsSound, OneRaidAtATime
    <3> QED
      BY <1>1, <3>1, <3>2
  <2> QED
    BY <2>1, <2>2
<1> QED
  BY <1>3, <1>4, <1>5, <1>6 DEF RaidsInv, RaidsSound

LEMMA ExecuteRaidEventKeeps ==
    ASSUME RaidsInv, NEW r \in Raids, NEW success \in BOOLEAN,
           ExecuteRaidEvent(r, success)
    PROVE  RaidsInv'
<1>1. /\ raids \in RaidStates /\ raids.events[r] \in Chains
      /\ raids.events[r].due > 0
      /\ raids.nextEvent[r] \in 0..MaxRaidEvents
  BY DEF RaidsInv, RaidsSound, RaidsTypeOK, RaidStates, ExecuteRaidEvent
<1>2. /\ Coming(raids.events[r]) > 0 /\ Coming(raids.events[r]) \in Nat
      /\ ChainRun(raids.events[r]) \in Chains
      /\ Coming(ChainRun(raids.events[r])) = Coming(raids.events[r]) - 1
  BY <1>1, ChainRunFacts, ChainFacts
<1>3. raids.nextEvent[r] + 1 \in 0..MaxRaidEvents
  <2>1. Length(r) \in 0..MaxRaidEvents
    BY <1>1, RaidsFacts DEF RaidStates, Length
  <2> QED
    BY <1>1, <2>1, RaidsFacts DEF RaidsInv, BetweenEvents
<1>4. PICK now : now = [raids EXCEPT !.events[r] = ChainRun(@)]
  OBVIOUS
<1>5. /\ now \in RaidStates
      /\ now.list = raids.list /\ now.running = raids.running
      /\ now.started = raids.started /\ now.load = raids.load
      /\ now.checks = raids.checks
      /\ now.nextEvent = raids.nextEvent /\ now.file = raids.file
      /\ now.outlived = raids.outlived
      /\ now.events = [raids.events EXCEPT ![r] = ChainRun(raids.events[r])]
  BY <1>1, <1>2, <1>4 DEF RaidStates
<1>6. PICK next : next = [now EXCEPT !.nextEvent[r] = @ + 1]
  OBVIOUS
<1>7. /\ next \in RaidStates
      /\ next.list = raids.list /\ next.running = raids.running
      /\ next.started = raids.started /\ next.load = raids.load
      /\ next.checks = raids.checks /\ next.file = raids.file
      /\ next.outlived = raids.outlived
      /\ next.nextEvent =
            [raids.nextEvent EXCEPT ![r] = raids.nextEvent[r] + 1]
      /\ next.events = now.events
  BY <1>3, <1>5, <1>6 DEF RaidStates
<1>8. /\ \A o \in Raids : o # r => next.events[o] = raids.events[o]
      /\ Coming(next.events[r]) = Coming(raids.events[r]) - 1
      /\ next.nextEvent[r] = raids.nextEvent[r] + 1
  BY <1>1, <1>2, <1>5, <1>7 DEF RaidStates
<1>9. Become(IF success /\ next.nextEvent[r] < Length(r)
             THEN StartRaid(next, r) ELSE ResetRaid(next, r))
  BY <1>4, <1>6 DEF ExecuteRaidEvent
<1>10. CASE success /\ next.nextEvent[r] < Length(r)
  <2>1. PICK v : v = StartRaid(next, r)
    OBVIOUS
  <2>2. StartRaidDoes(v, next, r)
    BY <1>7, <2>1, StartRaidFacts
  <2>3. Become(v)
    BY <1>9, <1>10, <2>1
  <2>4. BecomeDoes(v)
    BY <1>7, <2>2, <2>3, BecomeFacts DEF StartRaidDoes
  <2>5. /\ raids' \in RaidStates
        /\ raids'.list = raids.list /\ raids'.running = raids.running
        /\ raids'.load = raids.load /\ raids'.file = raids.file
        /\ raids'.nextEvent =
                [raids.nextEvent EXCEPT ![r] = raids.nextEvent[r] + 1]
        /\ raids'.outlived <=> raids.outlived /\ Executing(raids') # {}
        /\ CheckToCome'
    BY <1>7, <2>2, <2>4 DEF RaidsInv, RaidsSound, BecomeDoes, StartRaidDoes,
       Executing, CheckToCome
  <2>6. \A o \in Raids : Coming(raids'.events[o]) = Coming(raids.events[o])
    BY <1>2, <1>8, <1>10, <2>2, <2>4 DEF BecomeDoes, StartRaidDoes
  <2> QED
    BY <1>2, <1>8, <1>10, <2>5, <2>6, GoOnKeeps
<1>11. CASE ~(success /\ next.nextEvent[r] < Length(r))
  <2>1. PICK v : v = ResetRaid(next, r)
    OBVIOUS
  <2>2. /\ v \in RaidStates
        /\ v.list = raids.list /\ v.running = NoRaid
        /\ v.started = raids.started /\ v.load = raids.load
        /\ v.checks = raids.checks /\ v.file = raids.file
        /\ v.outlived = raids.outlived
        /\ v.nextEvent = [next.nextEvent EXCEPT ![r] = 0]
        /\ v.events = next.events
    <3>1. 0 \in 0..MaxRaidEvents /\ NoRaid \in Raids \cup {NoRaid}
      BY RaidsFacts
    <3>2. v = [next EXCEPT !.nextEvent[r] = 0, !.running = NoRaid]
      BY <2>1 DEF ResetRaid
    <3>3. v \in RaidStates
      BY <1>7, <3>1, <3>2 DEF RaidStates
    <3>4. /\ v.list = next.list /\ v.running = NoRaid
          /\ v.started = next.started /\ v.load = next.load
          /\ v.checks = next.checks /\ v.file = next.file
          /\ v.outlived = next.outlived
          /\ v.nextEvent = [next.nextEvent EXCEPT ![r] = 0]
          /\ v.events = next.events
      BY <1>7, <3>2 DEF RaidStates
    <3> QED
      BY <1>7, <3>3, <3>4
  <2>3. v.nextEvent = [raids.nextEvent EXCEPT ![r] = 0]
    BY <1>1, <1>7, <2>2 DEF RaidStates
  <2>4. Become(v)
    BY <1>9, <1>11, <2>1
  <2>5. BecomeDoes(v)
    BY <2>2, <2>4, BecomeFacts
  <2>6. /\ raids' \in RaidStates
        /\ raids'.list = raids.list /\ raids'.running = NoRaid
        /\ raids'.load = raids.load /\ raids'.file = raids.file
        /\ raids'.nextEvent = [raids.nextEvent EXCEPT ![r] = 0]
        /\ raids'.outlived <=> raids.outlived /\ Executing(raids') # {}
        /\ CheckToCome'
    BY <2>2, <2>3, <2>5 DEF RaidsInv, RaidsSound, BecomeDoes, Executing,
       CheckToCome
  <2>7. /\ \A o \in Raids : o # r => raids'.events[o] = raids.events[o]
        /\ Coming(raids'.events[r]) = Coming(raids.events[r]) - 1
    BY <1>8, <2>2, <2>5 DEF BecomeDoes
  <2> QED
    BY <1>2, <2>6, <2>7, ResetKeeps
<1> QED
  BY <1>10, <1>11

\* A load ends what it can reach, and what it cannot is known to outlive it.
LEMMA ReloadRaidsKeeps == ASSUME RaidsInv, ReloadRaids PROVE RaidsInv'
<1>1. /\ raids \in RaidStates /\ raids.checks \in Chains
      /\ \A r \in Raids : /\ raids.events[r] \in Chains
                          /\ Coming(raids.events[r]) \in Nat
      /\ raids.load + 1 \in 1..MaxLoads
  BY RaidsFacts, ChainFacts
     DEF RaidsInv, RaidsSound, RaidsTypeOK, RaidStates, ReloadRaids
<1>2. PICK events : events = [r \in Raids |->
            IF r \in raids.list THEN ChainStop(raids.events[r])
            ELSE raids.events[r]]
  OBVIOUS
<1>3. PICK checks : checks = ChainStop(raids.checks)
  OBVIOUS
<1>4. /\ events \in [Raids -> Chains] /\ checks \in Chains
      /\ \A r \in Raids :
            /\ Coming(events[r]) <= Coming(raids.events[r])
            /\ r \in raids.list => Coming(events[r]) =
                        raids.events[r].others + raids.events[r].due
            /\ r \notin raids.list =>
                        Coming(events[r]) = Coming(raids.events[r])
  BY <1>1, <1>2, <1>3, ChainStopFacts, ChainFacts
<1>5. PICK w : w = [ClearedRaids(raids) EXCEPT !.load = @ + 1]
  OBVIOUS
<1>6. /\ w \in RaidStates
      /\ w.list = {} /\ w.running = NoRaid
      /\ w.started = FALSE /\ w.load = raids.load + 1
      /\ w.checks = checks /\ w.file = raids.file
      /\ w.outlived = raids.outlived
      /\ w.nextEvent = raids.nextEvent /\ w.events = events
  <2>1. PICK v : v = ClearedRaids(raids)
    OBVIOUS
  <2>2. v = [raids EXCEPT !.checks = checks, !.list = {}, !.running = NoRaid,
                          !.started = FALSE, !.events = events]
    BY <1>2, <1>3, <2>1 DEF ClearedRaids
  <2>3. v \in RaidStates
    BY <1>1, <1>4, <2>2 DEF RaidStates
  <2>4. /\ v.list = {} /\ v.running = NoRaid
        /\ v.started = FALSE /\ v.load = raids.load
        /\ v.checks = checks /\ v.file = raids.file
        /\ v.outlived = raids.outlived
        /\ v.nextEvent = raids.nextEvent /\ v.events = events
    BY <1>1, <2>2 DEF RaidStates
  <2>5. w = [v EXCEPT !.load = v.load + 1]
    BY <1>5, <2>1
  <2> QED
    BY <1>1, <2>3, <2>4, <2>5 DEF RaidStates
<1>7. PICK v : /\ Become(v)
               /\ v = w \/ v = [w EXCEPT !.list = Loaded(w.load),
                                         !.started = TRUE,
                                         !.checks = ChainAdd(checks)]
  BY <1>5, <1>6 DEF ReloadRaids
<1>8. /\ v \in RaidStates
      /\ v.list \subseteq Loaded(v.load) /\ v.running = NoRaid
      /\ v.started => Coming(v.checks) > 0
      /\ v.load = raids.load + 1
      /\ v.file = raids.file /\ v.outlived = raids.outlived
      /\ v.nextEvent = raids.nextEvent /\ v.events = events
  <2>1. CASE v = w
    BY <1>6, <2>1
  <2>2. CASE v = [w EXCEPT !.list = Loaded(w.load), !.started = TRUE,
                           !.checks = ChainAdd(checks)]
    <3>1. /\ ChainAdd(checks) \in Chains /\ Coming(ChainAdd(checks)) > 0
          /\ Loaded(w.load) \in SUBSET Raids
      BY <1>4, ChainAddFacts, ChainFacts DEF Loaded
    <3>2. v \in RaidStates
      BY <1>6, <2>2, <3>1 DEF RaidStates
    <3>3. /\ v.list = Loaded(w.load) /\ v.running = w.running
          /\ v.checks = ChainAdd(checks) /\ v.load = w.load
          /\ v.file = w.file /\ v.outlived = w.outlived
          /\ v.nextEvent = w.nextEvent /\ v.events = w.events
      BY <1>6, <2>2 DEF RaidStates
    <3> QED
      BY <1>6, <3>1, <3>2, <3>3
  <2> QED
    BY <1>7, <2>1, <2>2
<1>9. /\ raids' \in RaidStates
      /\ raids'.list \subseteq Loaded(raids'.load) /\ raids'.running = NoRaid
      /\ raids'.started => Coming(raids'.checks) > 0
      /\ raids'.load = raids.load + 1 /\ raids'.file = raids.file
      /\ raids'.nextEvent = raids.nextEvent /\ raids'.events = events
      /\ raids'.outlived <=>
            \/ \E r \in Raids : OutOfReach(r)
            \/ raids.outlived /\ Executing(raids') # {}
  <2>1. BecomeDoes(v)
    BY <1>7, <1>8, BecomeFacts
  <2>2. raids.load + 1 # raids.load
    BY <1>1 DEF RaidStates
  <2> QED
    BY <1>8, <2>1, <2>2 DEF BecomeDoes, Executing
<1>10. \A r \in Raids :
        r[2] >= raids.load + 1 =>
            r[2] > raids.load /\ raids.nextEvent[r] = 0
  BY <1>1, RaidsFacts DEF RaidsInv, LoadsInv, RaidStates
<1>11. RaidsTypeOK' /\ CheckToCome' /\ RunningIsAlive'
  BY <1>9 DEF RaidsTypeOK, RaidStates, CheckToCome, RunningIsAlive
<1>12. LoadsInv'
  <2> SUFFICES ASSUME NEW r \in Raids, r[2] > raids.load + 1
               PROVE  raids.nextEvent[r] = 0 /\ Coming(events[r]) = 0
    BY <1>9 DEF LoadsInv, Loaded
  <2>1. r[2] > raids.load
    BY <1>1, RaidsFacts DEF RaidStates
  <2>2. /\ raids.nextEvent[r] = 0 /\ Coming(raids.events[r]) = 0
    BY <2>1 DEF RaidsInv, LoadsInv
  <2> QED
    BY <1>1, <1>4, <2>2, ChainFacts
<1>13. BetweenEvents'
  <2> SUFFICES ASSUME NEW r \in Raids, raids.nextEvent[r] > 0
               PROVE  raids.nextEvent[r] < Length(r)
                      /\ ~(r[2] >= raids.load + 1)
    BY <1>9 DEF BetweenEvents, Length
  <2> QED
    BY <1>10 DEF RaidsInv, BetweenEvents
<1>14. OutlivedInv'
  <2>1. ASSUME NEW r \in Raids, OutOfReach(r)
        PROVE  Coming(events[r]) > 0
    BY <1>1, <1>4, <2>1, ChainFacts DEF OutOfReach, Executing
  <2> QED
    BY <1>9, <2>1 DEF OutlivedInv, Executing
<1>15. OneRaidAtATime'
  <2> SUFFICES ASSUME ~raids'.outlived, NEW r \in Raids
               PROVE  /\ Coming(events[r]) = 0
                      /\ r[2] = raids.load + 1 => raids.nextEvent[r] = 0
    BY <1>9, RaidsFacts DEF OneRaidAtATime
  <2>1. ~OutOfReach(r)
    BY <1>9
  <2>2. Coming(events[r]) = 0
    BY <1>1, <1>4, <2>1, ChainFacts DEF OutOfReach, Executing
  <2>3. r[2] = raids.load + 1 => r[2] >= raids.load + 1
    BY <1>1, RaidsFacts DEF RaidStates
  <2> QED
    BY <1>10, <2>2, <2>3
<1> QED
  BY <1>11, <1>12, <1>13, <1>14, <1>15 DEF RaidsInv, RaidsSound

LEMMA CheckRaidsDueKeeps == ASSUME RaidsInv, CheckRaidsDue PROVE RaidsInv'
<1>1. raids \in RaidStates /\ raids.checks \in Chains
  BY DEF RaidsInv, RaidsSound, RaidsTypeOK, RaidStates
<1>2. PICK c \in ChainExpirations(raids.checks) :
        Become([raids EXCEPT !.checks = c])
  BY DEF CheckRaidsDue
<1>3. c \in Chains /\ Coming(c) = Coming(raids.checks)
  BY <1>1, ChainExpirationFacts
<1>4. PICK w : w = [raids EXCEPT !.checks = c]
  OBVIOUS
<1>5. /\ w \in RaidStates
      /\ w.list = raids.list /\ w.running = raids.running
      /\ w.started = raids.started /\ w.load = raids.load
      /\ w.checks = c /\ w.events = raids.events
      /\ w.nextEvent = raids.nextEvent /\ w.file = raids.file
      /\ w.outlived = raids.outlived
  BY <1>1, <1>3, <1>4 DEF RaidStates
<1>6. BecomeDoes(w)
  BY <1>2, <1>4, <1>5, BecomeFacts
<1>7. /\ raids' \in RaidStates
      /\ raids'.list = raids.list /\ raids'.running = raids.running
      /\ raids'.load = raids.load /\ raids'.nextEvent = raids.nextEvent
      /\ raids'.file = raids.file /\ raids'.events = raids.events
      /\ raids'.outlived <=> raids.outlived /\ Executing(raids') # {}
      /\ CheckToCome'
  BY <1>3, <1>5, <1>6 DEF RaidsInv, RaidsSound, BecomeDoes, Executing,
     CheckToCome
<1> QED
  BY <1>7, QuietKeeps

LEMMA RaidEventDueKeeps ==
    ASSUME RaidsInv, NEW r \in Raids, RaidEventDue(r)
    PROVE  RaidsInv'
<1>1. raids \in RaidStates /\ raids.events[r] \in Chains
  BY DEF RaidsInv, RaidsSound, RaidsTypeOK, RaidStates
<1>2. PICK c \in ChainExpirations(raids.events[r]) :
        Become([raids EXCEPT !.events[r] = c])
  BY DEF RaidEventDue
<1>3. c \in Chains /\ Coming(c) = Coming(raids.events[r])
  BY <1>1, ChainExpirationFacts
<1>4. PICK w : w = [raids EXCEPT !.events[r] = c]
  OBVIOUS
<1>5. /\ w \in RaidStates
      /\ w.list = raids.list /\ w.running = raids.running
      /\ w.started = raids.started /\ w.load = raids.load
      /\ w.checks = raids.checks /\ w.events = [raids.events EXCEPT ![r] = c]
      /\ w.nextEvent = raids.nextEvent /\ w.file = raids.file
      /\ w.outlived = raids.outlived
  BY <1>1, <1>3, <1>4 DEF RaidStates
<1>6. BecomeDoes(w)
  BY <1>2, <1>4, <1>5, BecomeFacts
<1>7. /\ raids' \in RaidStates
      /\ raids'.list = raids.list /\ raids'.running = raids.running
      /\ raids'.load = raids.load /\ raids'.nextEvent = raids.nextEvent
      /\ raids'.file = raids.file
      /\ raids'.outlived <=> raids.outlived /\ Executing(raids') # {}
      /\ CheckToCome'
  BY <1>5, <1>6 DEF RaidsInv, RaidsSound, BecomeDoes, Executing, CheckToCome
<1>8. \A o \in Raids : Coming(raids'.events[o]) = Coming(raids.events[o])
  BY <1>1, <1>3, <1>5, <1>6 DEF RaidStates, BecomeDoes
<1> QED
  BY <1>7, <1>8, QuietKeeps

LEMMA RaidsKept == RaidsInv /\ [RaidsNext]_raids => RaidsInv'
<1> SUFFICES ASSUME RaidsInv, [RaidsNext]_raids PROVE RaidsInv'
  OBVIOUS
<1>1. CASE UNCHANGED raids
  BY <1>1 DEF RaidsInv, RaidsSound, RaidsTypeOK, CheckToCome, RunningIsAlive,
     OneRaidAtATime, LoadsInv, BetweenEvents, OutlivedInv, Length
<1>2. CASE RaidsNext
  BY <1>2, CheckRaidsKeeps, StartByScriptKeeps, ExecuteRaidEventKeeps,
     ReloadRaidsKeeps, CheckRaidsDueKeeps, RaidEventDueKeeps
     DEF RaidsNext, RaidGoesOn, RunRaidEvent
<1> QED
  BY <1>1, <1>2


-----------------------------------------------------------------------------
(* ScriptTimers.                                                           *)

Active(t) == timers.event[t] \in {"pending", "due"}

\* What is kept under a number is a callback whose event has that number.
EntriesInv ==
    \A n \in Numbers :
        timers.entry[n] # NoCallback =>
            /\ timers.entry[n] \in Callbacks
            /\ timers.number[timers.entry[n]] = n
            /\ Active(timers.entry[n])
            /\ timers.fate[timers.entry[n]] = "kept"

\* Fates agree with events, numbers and references.
FatesInv ==
    \A t \in Callbacks :
        /\ timers.event[t] = "none" <=> timers.fate[t] = "new"
        /\ timers.fate[t] = "kept" => timers.entry[timers.number[t]] = t
        /\ t \in timers.references <=> timers.fate[t] \in {"kept", "lost"}

\* Until the numbers come round no two events have the same.
NumbersInv ==
    timers.cameRound \/
        /\ \A t, u \in Callbacks :
            Active(t) /\ Active(u) /\ timers.number[t] = timers.number[u]
                => t = u
        /\ \A t \in Callbacks : timers.fate[t] \notin {"early", "lost"}

TimersInv == TimersTypeOK /\ EntriesInv /\ FatesInv /\ NumbersInv

LEMMA NumbersFacts ==
    /\ 0 \in Numbers /\ 1 % NumberLimit \in Numbers
    /\ \A n \in Numbers : (n + 1) % NumberLimit \in Numbers
    /\ NoCallback \notin Callbacks
BY ScriptTimersAssumption DEF Numbers

LEMMA TimersBegin == TimersInit => TimersInv
BY NumbersFacts DEF TimersInit, TimersInv, TimersTypeOK, EntriesInv, FatesInv,
   NumbersInv, Active, Fates

\* The callback under a number ends: by its event, by another's, by stopEvent.
LEMMA EndedKeeps ==
    ASSUME TimersInv, NEW n \in Numbers, timers.entry[n] # NoCallback,
           NEW fate \in {"ran", "stopped", "early"},
           NEW event \in [Callbacks -> {"none", "pending", "due", "over"}],
           \A t \in Callbacks :
              \/ event[t] = timers.event[t]
              \/ /\ event[t] = "over" /\ Active(t)
                 /\ t = timers.entry[n] \/ timers.fate[t] # "kept",
           timers' = [Ended(timers, n, fate) EXCEPT !.event = event],
           fate = "early" => timers.cameRound
    PROVE  TimersInv'
<1> DEFINE t == timers.entry[n]
<1>1. t \in Callbacks /\ timers.fate[t] = "kept" /\ timers.number[t] = n
      /\ Active(t)
  BY DEF TimersInv, EntriesInv
<1>2. /\ timers' \in [last : Numbers,
                entry : [Numbers -> Callbacks \cup {NoCallback}],
                event : [Callbacks -> {"none", "pending", "due", "over"}],
                number : [Callbacks -> Numbers],
                references : SUBSET Callbacks,
                fate : [Callbacks -> Fates],
                cameRound : BOOLEAN]
      /\ timers'.entry = [timers.entry EXCEPT ![n] = NoCallback]
      /\ timers'.event = event
      /\ timers'.number = timers.number
      /\ timers'.references = timers.references \ {t}
      /\ timers'.fate = [timers.fate EXCEPT ![t] = fate]
      /\ timers'.cameRound = timers.cameRound
  BY <1>1 DEF TimersInv, TimersTypeOK, Ended, Fates
<1>3. EntriesInv'
  BY <1>1, <1>2 DEF TimersInv, TimersTypeOK, EntriesInv, FatesInv, Active
<1>4. FatesInv'
  BY <1>1, <1>2 DEF TimersInv, TimersTypeOK, EntriesInv, FatesInv, Active
<1>5. NumbersInv'
  BY <1>1, <1>2 DEF TimersInv, TimersTypeOK, NumbersInv, Active
<1> QED
  BY <1>2, <1>3, <1>4, <1>5 DEF TimersInv, TimersTypeOK
LEMMA AddTimerKeeps ==
    ASSUME TimersInv, NEW t \in Callbacks, AddTimer(t)
    PROVE  TimersInv'
<1> DEFINE n == timers.last
           free == timers.entry[n] = NoCallback
<1>1. timers.event[t] = "none" /\ timers.fate[t] = "new" /\ n \in Numbers
      /\ (n + 1) % NumberLimit \in Numbers
  BY NumbersFacts DEF AddTimer, TimersInv, FatesInv, TimersTypeOK
<1>2. timers.entry[n] # t
  BY <1>1, NumbersFacts DEF TimersInv, TimersTypeOK, EntriesInv, Active
<1>3. /\ TimersTypeOK'
      /\ timers'.event = [timers.event EXCEPT ![t] = "pending"]
      /\ timers'.number = [timers.number EXCEPT ![t] = n]
      /\ timers'.entry = [timers.entry EXCEPT ![n] = IF free THEN t ELSE @]
      /\ timers'.references = timers.references \cup {t}
      /\ timers'.fate = [timers.fate EXCEPT
                            ![t] = IF free THEN "kept" ELSE "lost"]
      /\ timers'.cameRound = (timers.cameRound \/ \E u \in Callbacks :
                timers.number[u] = n /\ timers.event[u] \in {"pending", "due"})
  BY ZenonT(30), <1>1 DEF AddTimer, TimersInv, TimersTypeOK, Fates
<1>4. EntriesInv'
  BY <1>1, <1>2, <1>3 DEF TimersInv, TimersTypeOK, EntriesInv, Active
<1>5. FatesInv'
  BY <1>1, <1>2, <1>3, NumbersFacts
     DEF TimersInv, TimersTypeOK, EntriesInv, FatesInv
<1>6. NumbersInv'
  <2>1. ~free => timers'.cameRound
    <3>1. CASE free
      BY <3>1
    <3>2. CASE ~free
      <4>1. /\ timers.entry[n] \in Callbacks
            /\ timers.number[timers.entry[n]] = n
            /\ timers.event[timers.entry[n]] \in {"pending", "due"}
        BY <1>1, <3>2 DEF TimersInv, EntriesInv, Active
      <4> QED
        BY <1>3, <4>1
    <3> QED
      BY <3>1, <3>2
  <2> QED
    BY <1>1, <1>3, <2>1 DEF TimersInv, TimersTypeOK, NumbersInv, Active
<1> QED
  BY <1>3, <1>4, <1>5, <1>6 DEF TimersInv

LEMMA ExecuteTimerEventKeeps ==
    ASSUME TimersInv, NEW t \in Callbacks, ExecuteTimerEvent(t)
    PROVE  TimersInv'
<1> DEFINE n == timers.number[t]
           found == timers.entry[n]
           event == [timers.event EXCEPT ![t] = "over"]
<1>1. n \in Numbers /\ timers.event[t] = "due"
      /\ event \in [Callbacks -> {"none", "pending", "due", "over"}]
  BY DEF ExecuteTimerEvent, TimersInv, TimersTypeOK
<1>2. CASE found = NoCallback
  <2>1. timers' = [timers EXCEPT !.event = event] /\ timers.fate[t] # "kept"
    BY <1>1, <1>2, NumbersFacts
       DEF ExecuteTimerEvent, TimersInv, FatesInv, TimersTypeOK
  <2>2. /\ TimersTypeOK'
        /\ timers'.event = event
        /\ timers'.entry = timers.entry /\ timers'.number = timers.number
        /\ timers'.references = timers.references
        /\ timers'.fate = timers.fate
        /\ timers'.cameRound = timers.cameRound
    BY <1>1, <2>1 DEF TimersInv, TimersTypeOK
  <2> QED
    BY SMTT(20), <1>1, <2>1, <2>2
       DEF TimersInv, TimersTypeOK, EntriesInv, FatesInv, NumbersInv, Active
<1>3. CASE found # NoCallback
  <2> DEFINE fate == IF found = t THEN "ran" ELSE "early"
  <2>1. timers' = [Ended(timers, n, fate) EXCEPT !.event = event]
    BY <1>1, <1>3 DEF ExecuteTimerEvent, TimersInv, TimersTypeOK, Ended
  <2>2. found # t => timers.fate[t] # "kept" /\ timers.cameRound
    BY <1>1, <1>3 DEF TimersInv, TimersTypeOK, EntriesInv, FatesInv,
       NumbersInv, Active
  <2>3. \A u \in Callbacks :
            \/ event[u] = timers.event[u]
            \/ /\ event[u] = "over" /\ Active(u)
               /\ u = found \/ timers.fate[u] # "kept"
    BY <1>1, <2>2 DEF TimersInv, TimersTypeOK, Active
  <2>4. fate \in {"ran", "stopped", "early"}
        /\ (fate = "early" => timers.cameRound)
    BY <2>2
  <2> HIDE DEF event, fate
  <2> QED
    BY <1>1, <1>3, <2>1, <2>3, <2>4, EndedKeeps
<1> QED
  BY <1>2, <1>3

LEMMA StopTimerKeeps ==
    ASSUME TimersInv, NEW n \in Numbers, StopTimer(n)
    PROVE  TimersInv'
<1> DEFINE t == timers.entry[n]
           event == [timers.event EXCEPT
                        ![t] = IF @ = "pending" THEN "over" ELSE @]
<1>1. t # NoCallback /\ t \in Callbacks
      /\ event \in [Callbacks -> {"none", "pending", "due", "over"}]
  BY DEF StopTimer, TimersInv, TimersTypeOK, EntriesInv
<1>2. timers' = [Ended(timers, n, "stopped") EXCEPT !.event = event]
  BY <1>1 DEF StopTimer, TimersInv, TimersTypeOK, Ended
<1>3. \A u \in Callbacks :
            \/ event[u] = timers.event[u]
            \/ event[u] = "over" /\ Active(u) /\ u = t
  BY <1>1 DEF TimersInv, TimersTypeOK, Active
<1> HIDE DEF event
<1> QED
  BY <1>1, <1>2, <1>3, EndedKeeps

LEMMA TimerDueKeeps ==
    ASSUME TimersInv, NEW t \in Callbacks, TimerDue(t)
    PROVE  TimersInv'
<1>1. /\ TimersTypeOK'
      /\ timers.event[t] = "pending"
      /\ timers'.event = [timers.event EXCEPT ![t] = "due"]
      /\ timers'.entry = timers.entry /\ timers'.number = timers.number
      /\ timers'.references = timers.references
      /\ timers'.fate = timers.fate
      /\ timers'.cameRound = timers.cameRound
  BY DEF TimerDue, TimersInv, TimersTypeOK
<1> QED
  BY <1>1 DEF TimersInv, TimersTypeOK, EntriesInv, FatesInv, NumbersInv, Active

LEMMA CloseLuaKeeps ==
    ASSUME TimersInv, CloseLua
    PROVE  TimersInv'
<1>1. \A t \in Callbacks : t \in Kept <=> timers.fate[t] = "kept"
  BY NumbersFacts DEF TimersInv, TimersTypeOK, EntriesInv, FatesInv, Kept
<1>2. /\ TimersTypeOK'
      /\ timers'.entry = [n \in Numbers |-> NoCallback]
      /\ timers'.event = timers.event /\ timers'.number = timers.number
      /\ timers'.references = timers.references \ Kept
      /\ timers'.fate = [t \in Callbacks |->
                            IF t \in Kept THEN "closed" ELSE timers.fate[t]]
      /\ timers'.cameRound = timers.cameRound
  BY DEF CloseLua, TimersInv, TimersTypeOK, Fates
<1> QED
  BY <1>1, <1>2 DEF TimersInv, TimersTypeOK, EntriesInv, FatesInv,
     NumbersInv, Active

LEMMA TimersInvKept == TimersInv /\ [TimersNext]_timers => TimersInv'
<1> SUFFICES ASSUME TimersInv, [TimersNext]_timers PROVE TimersInv'
  OBVIOUS
<1>1. CASE UNCHANGED timers
  BY <1>1 DEF TimersInv, TimersTypeOK, EntriesInv, FatesInv, NumbersInv, Active
<1> QED
  BY <1>1, AddTimerKeeps, TimerDueKeeps, ExecuteTimerEventKeeps,
     StopTimerKeeps, CloseLuaKeeps DEF TimersNext

LEMMA TimersInvSuffices == TimersInv => TimersSound
BY NumbersFacts DEF TimersInv, TimersTypeOK, EntriesInv, FatesInv, NumbersInv,
   Active, TimersSound, ReferencesGivenBack, EventForEach, EachByItsEvent, Kept

\* Every callback put off runs once, or was stopped or closed and never runs,
\* and holds its references exactly as long as it waits, until the numbers
\* come round; for any number of callbacks and any limit.
THEOREM TimersAreSound == TimersSpec => []TimersSound
<1>1. TimersSpec => []TimersInv
  BY TimersBegin, TimersInvKept, PTL DEF TimersSpec
<1> QED
  BY <1>1, TimersInvSuffices, PTL

-----------------------------------------------------------------------------
(* The waiting list.                                                       *)

\* What cleanupList has kept of the first places of a list.
KeptFrom(g, list, s) ==
    IF s = {} THEN <<>> ELSE GoOn(g[s \ {Latest(s)}], list[Latest(s)])

\* Cleaning a list is a fold from the left.
LEMMA CleanupUnfolds ==
  ASSUME NEW list
  PROVE  CleanupList(list) =
            (CHOOSE g : g = [s \in SUBSET DOMAIN list |->
                                KeptFrom(g, list, s)])[DOMAIN list]
<1> DEFINE S == DOMAIN list
           Once(g, s) == IF s = {} THEN <<>>
                         ELSE GoOn(g[s \ {Max(s)}], list[Max(s)])
<1>1. CleanupList(list) = (CHOOSE g : g = [s \in SUBSET S |-> Once(g, s)])[S]
  BY DEF CleanupList, FoldLeft, MapThenFoldSet
<1>2. \A g : [s \in SUBSET S |-> Once(g, s)]
             = [s \in SUBSET S |-> KeptFrom(g, list, s)]
  BY DEF KeptFrom, Latest, Max
<1>3. S = DOMAIN list
  OBVIOUS
<1> HIDE DEF Once, S
<1>4. CleanupList(list) =
            (CHOOSE g : g = [s \in SUBSET S |-> KeptFrom(g, list, s)])[S]
  BY <1>1, <1>2
<1> QED
  BY <1>3, <1>4

\* The entries a list may hold.
EntryRecords == [left : 0 .. GetTimeout(MaxEntries),
                 guid : Players \cup {Overwritten}]

\* r has the entries of the first i places of list whose time has not run
\* out, in their order: h says from which places they are.
KeptBy(h, r, list, i) ==
    /\ h \in [1 .. Len(r) -> 1 .. i]
    /\ \A j \in 1 .. Len(r) : r[j] = list[h[j]] /\ list[h[j]].left > 0
    /\ \A j, l \in 1 .. Len(r) : j < l => h[j] < h[l]
    /\ \A j \in 1 .. i : list[j].left > 0 => \E l \in 1 .. Len(r) : h[l] = j

KeptOf(r, list, i) == \E h \in [1 .. Len(r) -> 1 .. i] : KeptBy(h, r, list, i)

\* One entry more.
LEMMA GoneOn ==
  ASSUME NEW list \in Seq(EntryRecords), NEW i \in 1 .. Len(list),
         NEW r \in Seq(EntryRecords), KeptOf(r, list, i - 1)
  PROVE  /\ GoOn(r, list[i]) \in Seq(EntryRecords)
         /\ KeptOf(GoOn(r, list[i]), list, i)
<1>1. PICK h \in [1 .. Len(r) -> 1 .. (i - 1)] : KeptBy(h, r, list, i - 1)
  BY DEF KeptOf
<1>2. /\ list[i] \in EntryRecords /\ Len(r) \in Nat /\ i \in Nat
      /\ Len(list) \in Nat
  BY LenProperties, ElementOfSeq
<1>3. CASE ~(list[i].left > 0)
  <2>1. GoOn(r, list[i]) = r
    BY <1>3 DEF GoOn
  <2>2. h \in [1 .. Len(r) -> 1 .. i]
    BY <1>2
  <2>3. KeptBy(h, r, list, i)
    <3>1. \A j \in 1 .. i : j = i \/ j \in 1 .. (i - 1)
      BY <1>2
    <3> QED
      BY <1>1, <1>3, <2>2, <3>1 DEF KeptBy
  <2> QED
    BY <2>1, <2>2, <2>3 DEF KeptOf
<1>4. CASE list[i].left > 0
  <2> DEFINE n == Append(r, list[i])
             m == Len(r)
             g == [j \in 1 .. (m + 1) |-> IF j = m + 1 THEN i ELSE h[j]]
  <2>1. /\ GoOn(r, list[i]) = n /\ n \in Seq(EntryRecords)
        /\ Len(n) = m + 1 /\ n[m + 1] = list[i]
        /\ \A j \in 1 .. m : n[j] = r[j]
    BY <1>2, <1>4, AppendProperties DEF GoOn
  <2>0. /\ m \in Nat /\ m + 1 \in 1 .. (m + 1)
        /\ \A j \in 1 .. (m + 1) : j = m + 1 \/ j \in 1 .. m
        /\ \A j \in 1 .. i : j = i \/ j \in 1 .. (i - 1)
        /\ \A j \in 1 .. m : j \in 1 .. (m + 1) /\ j # m + 1
        /\ i \in 1 .. i /\ \A j \in 1 .. (i - 1) : j \in 1 .. i /\ j < i
    BY <1>2
  <2>2. /\ \A j \in 1 .. m : g[j] = h[j] /\ h[j] \in 1 .. (i - 1)
        /\ g[m + 1] = i
    <3> HIDE DEF m
    <3>1. \A j \in 1 .. m : h[j] \in 1 .. (i - 1)
      BY DEF m
    <3>2. \A j \in 1 .. (m + 1) : g[j] = IF j = m + 1 THEN i ELSE h[j]
      OBVIOUS
    <3> HIDE DEF g
    <3> QED
      BY <2>0, <3>1, <3>2
  <2>3. g \in [1 .. (m + 1) -> 1 .. i]
    BY <2>0, <2>2
  <2> HIDE DEF n, g
  <2>4. /\ \A j \in 1 .. m : r[j] = list[h[j]] /\ list[h[j]].left > 0
        /\ \A j, l \in 1 .. m : j < l => h[j] < h[l]
        /\ \A j \in 1 .. (i - 1) : list[j].left > 0 =>
                                        \E l \in 1 .. m : h[l] = j
    BY <1>1 DEF KeptBy
  <2>5. \A j \in 1 .. (m + 1) : n[j] = list[g[j]] /\ list[g[j]].left > 0
    BY <1>4, <2>0, <2>1, <2>2, <2>4
  <2>6. \A j, l \in 1 .. (m + 1) : j < l => g[j] < g[l]
    <3> SUFFICES ASSUME NEW j \in 1 .. (m + 1), NEW l \in 1 .. (m + 1), j < l
                 PROVE  g[j] < g[l]
      OBVIOUS
    <3>1. j \in 1 .. m
      BY <2>0
    <3>2. CASE l = m + 1
      BY <2>0, <2>2, <3>1, <3>2
    <3>3. CASE l \in 1 .. m
      BY <2>0, <2>2, <2>4, <3>1, <3>3
    <3> QED
      BY <2>0, <3>2, <3>3
  <2>7. \A j \in 1 .. i : list[j].left > 0 =>
                                \E l \in 1 .. (m + 1) : g[l] = j
    BY <2>0, <2>2, <2>4
  <2>8. KeptBy(g, n, list, i)
    BY <2>1, <2>3, <2>5, <2>6, <2>7 DEF KeptBy
  <2> QED
    BY <2>1, <2>3, <2>8 DEF KeptOf
<1> QED
  BY <1>3, <1>4

\* What cleanupList leaves of a list.
LEMMA CleanupKeeps ==
  ASSUME NEW list \in Seq(EntryRecords)
  PROVE  /\ CleanupList(list) \in Seq(EntryRecords)
         /\ KeptOf(CleanupList(list), list, Len(list))
<1> DEFINE n == Len(list)
           D == Seq(EntryRecords)
<1>0. /\ n \in Nat /\ DOMAIN list = 1 .. n /\ <<>> \in D
      /\ \A i \in 1 .. n : list[i] \in EntryRecords
  BY LenProperties, ElementOfSeq
<1>1. \A i \in 1 .. n, r \in D : GoOn(r, list[i]) \in D
  BY <1>0, AppendProperties DEF GoOn
<1> DEFINE S == 1 .. n
<1>1a. S = 1 .. n
  OBVIOUS
<1> HIDE DEF n, D, S
<1> DEFINE op == [a \in S \X D |-> GoOn(a[2], list[a[1]])]
<1>2. op \in [S \X D -> D] /\ \A i \in S, r \in D :
                                        op[<<i, r>>] = GoOn(r, list[i])
  BY <1>1, <1>1a
<1> HIDE DEF op
<1>3. PICK h \in [SUBSET S -> D] :
            \A s \in SUBSET S : h[s] = FromLeft(h, s, <<>>, op)
  <2> DEFINE nothing == <<>>
  <2>1. nothing \in D
    BY <1>0
  <2> HIDE DEF nothing
  <2>1a. op \in [S \X D -> D]
    BY <1>2
  <2>2. \E h \in [SUBSET S -> D] : FoldedFromLeft(h, S, nothing, op)
    BY <1>0, <1>1a, <2>1, <2>1a, LeftExists
  <2> QED
    BY <2>2 DEF nothing, FoldedFromLeft
<1>4. ASSUME NEW s \in SUBSET S PROVE h[s] = KeptFrom(h, list, s)
  <2>1. CASE s = {}
    BY <1>3, <2>1 DEF FromLeft, KeptFrom
  <2>2. CASE s # {}
    <3>1. Latest(s) \in S /\ s \ {Latest(s)} \in SUBSET S
      BY <1>0, <1>1a, <2>2, LatestIs
    <3>2. h[s \ {Latest(s)}] \in D
      BY <3>1
    <3>3. h[s] = op[<<Latest(s), h[s \ {Latest(s)}]>>]
      BY <1>3, <2>2 DEF FromLeft
    <3> QED
      BY <1>2, <2>2, <3>1, <3>2, <3>3 DEF KeptFrom
  <2> QED
    BY <2>1, <2>2
<1> DEFINE f == CHOOSE g : g = [s \in SUBSET (1 .. n) |->
                                    KeptFrom(g, list, s)]
<1>5. f = [s \in SUBSET (1 .. n) |-> KeptFrom(f, list, s)]
  <2>1. h = [s \in SUBSET (1 .. n) |-> KeptFrom(h, list, s)]
    BY <1>1a, <1>4
  <2> QED
    BY <2>1
<1>6. CleanupList(list) = f[1 .. n]
  BY <1>0, CleanupUnfolds
<1> HIDE DEF f
<1>6a. \A s \in SUBSET (1 .. n) : f[s] = KeptFrom(f, list, s)
  BY <1>5
<1> DEFINE E == [i \in 0 .. n |-> {r \in D : KeptOf(r, list, i)}]
<1>7. f[{}] \in E[0]
  <2>0. f[{}] = KeptFrom(f, list, {})
    BY <1>6a
  <2>1. f[{}] = <<>> /\ 0 \in 0 .. n
    BY <1>0, <2>0 DEF KeptFrom
  <2> DEFINE g == [j \in 1 .. 0 |-> j]
  <2>2. Len(<<>>) = 0 /\ 1 .. 0 = {} /\ g \in [1 .. 0 -> 1 .. 0]
    OBVIOUS
  <2> HIDE DEF g
  <2>3. KeptBy(g, <<>>, list, 0)
    BY <2>2 DEF KeptBy
  <2>4. KeptOf(<<>>, list, 0)
    BY <2>2, <2>3 DEF KeptOf
  <2> QED
    BY <1>0, <2>1, <2>4
<1>8. ASSUME NEW i \in 1 .. n, f[1 .. (i - 1)] \in E[i - 1]
      PROVE  f[1 .. i] \in E[i]
  <2>1. i - 1 \in 0 .. n /\ i \in 0 .. n /\ i \in Nat /\ i # 0
    BY <1>0
  <2>1a. (1 .. i) \in SUBSET (1 .. n) /\ 1 .. i # {}
    <3>1. /\ \A j \in 1 .. i : j \in 1 .. n
          /\ i \in 1 .. i
      BY <1>0, <2>1
    <3> QED
      BY <3>1
  <2>2. f[1 .. (i - 1)] \in D /\ KeptOf(f[1 .. (i - 1)], list, i - 1)
    BY <1>8, <2>1
  <2>3. Latest(1 .. i) = i /\ (1 .. i) \ {i} = 1 .. (i - 1)
    BY <2>1, LatestOfFirst
  <2>4. f[1 .. i] = GoOn(f[1 .. (i - 1)], list[i])
    BY <1>6a, <2>1, <2>1a, <2>3 DEF KeptFrom
  <2>5. f[1 .. i] \in D /\ KeptOf(f[1 .. i], list, i)
    BY <2>2, <2>4, GoneOn DEF D, n
  <2> QED
    BY <2>1, <2>5
<1>9. f[1 .. n] \in E[n]
  <2> HIDE DEF E
  <2> QED
    BY <1>0, <1>7, <1>8, LeftFits
<1>10. n \in 0 .. n
  BY <1>0
<1> QED
  BY <1>6, <1>9, <1>10 DEF D, n

\* n has no entry of a player that list has not, and each of them once.
LessBy(g, n, list) ==
    /\ \A j \in 1 .. Len(n) :
            /\ g[j] \in 1 .. Len(list)
            /\ n[j].guid \in {list[g[j]].guid, Overwritten}
    /\ \A j, l \in 1 .. Len(n) : j # l => g[j] # g[l]

Less(n, list) ==
    /\ n \in Seq(EntryRecords) /\ Len(n) <= Len(list)
    /\ \E g : LessBy(g, n, list)

\* What maps the first m numbers into the first k, increasing, has room.
LEMMA NoLonger ==
  ASSUME NEW m \in Nat, NEW k \in Nat, NEW h \in [1 .. m -> 1 .. k],
         \A j, l \in 1 .. m : j < l => h[j] < h[l]
  PROVE  m <= k
<1> DEFINE Good == {j \in Nat : j \in 1 .. m => j <= h[j]}
<1>1. ASSUME NEW j \in Nat, \A i \in Nat : i < j => i \in Good
      PROVE  j \in Good
  <2> SUFFICES ASSUME j \in 1 .. m PROVE j <= h[j]
    OBVIOUS
  <2>1. h[j] \in 1 .. k
    OBVIOUS
  <2>2. CASE j = 1
    BY <2>1, <2>2
  <2>3. CASE j # 1
    <3>1. j - 1 \in 1 .. m /\ j - 1 \in Nat /\ j - 1 < j
      BY <2>3
    <3>2. j - 1 \in Good
      <4> HIDE DEF Good
      <4> QED
        BY <1>1, <3>1
    <3>3. j - 1 <= h[j - 1] /\ h[j - 1] < h[j] /\ h[j - 1] \in 1 .. k
      BY <3>1, <3>2
    <3> QED
      BY <2>1, <3>3
  <2> QED
    BY <2>2, <2>3
<1>2. Good \in SUBSET Nat
  OBVIOUS
<1>3. \A j \in Nat : j \in Good
  <2> HIDE DEF Good
  <2> QED
    BY <1>1, <1>2, AllNumbers
<1>4. CASE m = 0
  BY <1>4
<1>5. CASE m # 0
  <2>1. m \in 1 .. m
    BY <1>5
  <2>2. m <= h[m] /\ h[m] \in 1 .. k
    BY <1>3, <2>1
  <2> QED
    BY <2>2
<1> QED
  BY <1>4, <1>5

\* A list that was cleaned is less, and empty if all the times have run out.
LEMMA CleanedIsLess ==
  ASSUME NEW list \in Seq(EntryRecords)
  PROVE  /\ CleanupList(list) \in Seq(EntryRecords)
         /\ Less(CleanupList(list), list)
         /\ \A j \in 1 .. Len(CleanupList(list)) :
                \E i \in 1 .. Len(list) :
                    CleanupList(list)[j] = list[i] /\ list[i].left > 0
         /\ (\E i \in 1 .. Len(list) : list[i].left > 0)
                => CleanupList(list) # <<>>
<1> DEFINE n == CleanupList(list)
<1>1. n \in Seq(EntryRecords) /\ KeptOf(n, list, Len(list))
  BY CleanupKeeps
<1> HIDE DEF n
<1>2. PICK h \in [1 .. Len(n) -> 1 .. Len(list)] :
            KeptBy(h, n, list, Len(list))
  BY <1>1 DEF KeptOf
<1>3. Len(n) \in Nat /\ Len(list) \in Nat
  BY <1>1, LenProperties
<1>4. /\ \A j \in 1 .. Len(n) : /\ h[j] \in 1 .. Len(list)
                                /\ n[j] = list[h[j]] /\ list[h[j]].left > 0
      /\ \A j, l \in 1 .. Len(n) : j < l => h[j] < h[l]
      /\ \A i \in 1 .. Len(list) : list[i].left > 0 =>
                                \E l \in 1 .. Len(n) : h[l] = i
  BY <1>2 DEF KeptBy
<1>5. Len(n) <= Len(list)
  BY <1>3, <1>4, NoLonger
<1>6. \A j, l \in 1 .. Len(n) : j # l => h[j] # h[l]
  <2> SUFFICES ASSUME NEW j \in 1 .. Len(n), NEW l \in 1 .. Len(n), j # l
               PROVE  h[j] # h[l]
    OBVIOUS
  <2>1. h[j] \in Int /\ h[l] \in Int
    BY <1>4
  <2>2. j < l \/ l < j
    OBVIOUS
  <2> QED
    BY <1>4, <2>1, <2>2
<1>7. LessBy(h, n, list)
  BY <1>4, <1>6 DEF LessBy
<1>8. Less(n, list)
  BY <1>1, <1>5, <1>7 DEF Less
<1>9. ASSUME NEW i \in 1 .. Len(list), list[i].left > 0
      PROVE  n # <<>>
  <2>1. PICK l \in 1 .. Len(n) : h[l] = i
    BY <1>4, <1>9
  <2>2. Len(n) # 0
    BY <2>1
  <2> QED
    BY <2>2
<1> QED
  BY <1>1, <1>4, <1>8, <1>9 DEF n

\* A list of which an entry is taken out is less, by that entry.
LEMMA RemovedIsLess ==
  ASSUME NEW list \in Seq(EntryRecords), NEW i \in 1 .. Len(list)
  PROVE  /\ Less(RemoveAt(list, i), list)
         /\ \A j \in 1 .. Len(RemoveAt(list, i)) :
                \E l \in 1 .. Len(list) :
                    l # i /\ RemoveAt(list, i)[j] = list[l]
<1> DEFINE n == RemoveAt(list, i)
           g == [j \in 1 .. Len(n) |-> IF j < i THEN j ELSE j + 1]
<1>1. /\ n \in Seq(EntryRecords) /\ Len(n) = Len(list) - 1
      /\ \A j \in 1 .. Len(list) - 1 :
            n[j] = IF j < i THEN list[j] ELSE list[j + 1]
  BY RemovedFrom
<1>2. Len(list) \in Nat
  BY LenProperties
<1> HIDE DEF n
<1>3. \A j \in 1 .. Len(n) :
            /\ g[j] \in 1 .. Len(list) /\ g[j] # i
            /\ n[j] = list[g[j]]
            /\ g[j] = IF j < i THEN j ELSE j + 1
  BY <1>1, <1>2
<1> HIDE DEF g
<1>4. \A j, l \in 1 .. Len(n) : j # l => g[j] # g[l]
  BY <1>1, <1>2, <1>3
<1>5. LessBy(g, n, list)
  BY <1>3, <1>4 DEF LessBy
<1> QED
  BY <1>1, <1>2, <1>3, <1>5 DEF Less, n

\* So is one of which an entry was overwritten, without that entry.
LEMMA OverwrittenIsLess ==
  ASSUME NEW list \in Seq(EntryRecords), NEW i \in 1 .. Len(list)
  PROVE  Less([list EXCEPT ![i].guid = Overwritten], list)
<1> DEFINE e == [list[i] EXCEPT !.guid = Overwritten]
           n == [list EXCEPT ![i] = e]
           g == [j \in 1 .. Len(list) |-> j]
<1>1. list[i] \in EntryRecords
  BY ElementOfSeq
<1>2. e \in EntryRecords /\ e.guid = Overwritten
  BY <1>1 DEF EntryRecords
<1> HIDE DEF e
<1>3. /\ n \in Seq(EntryRecords) /\ Len(n) = Len(list)
      /\ \A j \in 1 .. Len(list) : n[j] = IF j = i THEN e ELSE list[j]
      /\ Len(list) \in Nat
  BY <1>2, ExceptSeq, LenProperties
<1>4. [list EXCEPT ![i].guid = Overwritten] = n
  BY DEF e
<1> HIDE DEF n
<1>5. \A j \in 1 .. Len(list) : g[j] = j
  OBVIOUS
<1> HIDE DEF g
<1>6. LessBy(g, n, list)
  BY <1>2, <1>3, <1>5 DEF LessBy
<1>7. Less(n, list)
  BY <1>3, <1>6 DEF Less
<1> QED
  BY <1>4, <1>7

\* And one of which the times have changed, or nothing.
LEMMA TimedIsLess ==
  ASSUME NEW n \in Seq(EntryRecords), NEW list \in Seq(EntryRecords),
         Len(n) = Len(list),
         \A j \in 1 .. Len(list) : n[j].guid = list[j].guid
  PROVE  Less(n, list)
<1> DEFINE g == [j \in 1 .. Len(list) |-> j]
<1>1. \A j \in 1 .. Len(list) : g[j] = j
  OBVIOUS
<1>2. Len(list) \in Nat
  BY LenProperties
<1> HIDE DEF g
<1>3. LessBy(g, n, list)
  BY <1>1 DEF LessBy
<1> QED
  BY <1>2, <1>3 DEF Less

\* Each player waits in one place.
OneEach(ls) ==
    \A k, m \in Kinds : \A i \in 1 .. Len(ls[k]), j \in 1 .. Len(ls[m]) :
        ls[k][i].guid = ls[m][j].guid /\ ls[k][i].guid \in Players
            => k = m /\ i = j

\* Nobody waits who is in the game, or who may always enter it.
Waiting(ls, on) ==
    \A k \in Kinds : \A i \in 1 .. Len(ls[k]) :
        ls[k][i].guid \notin on \cup Privileged

Typed(ls) == ls \in [Kinds -> Seq(EntryRecords)]

Fit(ls, on) ==
    /\ Typed(ls) /\ OneEach(ls) /\ Waiting(ls, on)
    /\ Len(ls["priority"]) + Len(ls["normal"]) <= MaxEntries
    /\ MaxPlayers = 0 => \A k \in Kinds : ls[k] = <<>>

WaitInv ==
    /\ Fit(lists, online)
    /\ online \subseteq Players /\ place \in [Players -> 0 .. MaxEntries + 1]
    /\ SeatsRespected

\* The numbers of the entries of both lists.
LEMMA Lengths ==
  ASSUME NEW ls, Typed(ls)
  PROVE  /\ \A k \in Kinds : Len(ls[k]) \in Nat /\ ls[k] \in Seq(EntryRecords)
         /\ \A k \in Kinds :
                \A i \in 1 .. Len(ls[k]) : ls[k][i] \in EntryRecords
         /\ Kinds = {"priority", "normal"}
<1>1. \A k \in Kinds : ls[k] \in Seq(EntryRecords)
  BY DEF Typed
<1> QED
  BY <1>1, LenProperties, ElementOfSeq DEF Kinds

\* Lists that are less are as fit.
LEMMA LessFits ==
  ASSUME NEW ls, NEW on, on \subseteq Players, Fit(ls, on),
         NEW ns, Typed(ns), \A k \in Kinds : Less(ns[k], ls[k])
  PROVE  Fit(ns, on)
<1>0. /\ \A k \in Kinds : Len(ls[k]) \in Nat
      /\ \A k \in Kinds : Len(ns[k]) \in Nat
      /\ Kinds = {"priority", "normal"} /\ Typed(ls)
  BY Lengths DEF Fit
<1>1. \A k \in Kinds : Len(ns[k]) <= Len(ls[k]) /\ ls[k] \in Seq(EntryRecords)
                       /\ ns[k] \in Seq(EntryRecords)
  BY <1>0 DEF Less, Typed
<1>2. Len(ns["priority"]) + Len(ns["normal"]) <= MaxEntries
  <2>1. /\ Len(ns["priority"]) <= Len(ls["priority"])
        /\ Len(ns["normal"]) <= Len(ls["normal"])
        /\ Len(ns["priority"]) \in Nat /\ Len(ls["priority"]) \in Nat
        /\ Len(ns["normal"]) \in Nat /\ Len(ls["normal"]) \in Nat
    BY <1>0, <1>1
  <2>2. Len(ls["priority"]) + Len(ls["normal"]) <= MaxEntries
    BY DEF Fit
  <2> DEFINE a == Len(ns["priority"])
             b == Len(ns["normal"])
             c == Len(ls["priority"])
             d == Len(ls["normal"])
  <2>3. /\ a \in Nat /\ b \in Nat /\ c \in Nat /\ d \in Nat
        /\ a <= c /\ b <= d /\ c + d <= MaxEntries
    BY <2>1, <2>2
  <2> HIDE DEF a, b, c, d
  <2>4. a + b <= MaxEntries
    BY <2>3, WaitListAssumption
  <2> QED
    BY <2>4 DEF a, b
<1>3. ASSUME MaxPlayers = 0, NEW k \in Kinds PROVE ns[k] = <<>>
  <2>1. ls[k] = <<>> /\ Len(ls[k]) = 0
    BY <1>3 DEF Fit
  <2>2. Len(ns[k]) = 0
    BY <1>0, <1>1, <2>1
  <2> QED
    BY <1>1, <2>2, EmptySeq
<1>4. Waiting(ns, on)
  <2> SUFFICES ASSUME NEW k \in Kinds, NEW i \in 1 .. Len(ns[k])
               PROVE  ns[k][i].guid \notin on \cup Privileged
    BY DEF Waiting
  <2>1. PICK g : LessBy(g, ns[k], ls[k])
    BY DEF Less
  <2>2. g[i] \in 1 .. Len(ls[k])
        /\ ns[k][i].guid \in {ls[k][g[i]].guid, Overwritten}
    BY <2>1 DEF LessBy
  <2>3. ls[k][g[i]].guid \notin on \cup Privileged
    BY <2>2 DEF Fit, Waiting
  <2>4. Overwritten \notin on \cup Privileged
    BY WaitListAssumption
  <2> QED
    BY <2>2, <2>3, <2>4
<1>5. OneEach(ns)
  <2> SUFFICES ASSUME NEW k \in Kinds, NEW m \in Kinds,
                      NEW i \in 1 .. Len(ns[k]), NEW j \in 1 .. Len(ns[m]),
                      ns[k][i].guid = ns[m][j].guid,
                      ns[k][i].guid \in Players
               PROVE  k = m /\ i = j
    BY DEF OneEach
  <2>1. PICK g : LessBy(g, ns[k], ls[k])
    BY DEF Less
  <2>2. PICK h : LessBy(h, ns[m], ls[m])
    BY DEF Less
  <2>3. g[i] \in 1 .. Len(ls[k]) /\ ns[k][i].guid = ls[k][g[i]].guid
    BY <2>1, WaitListAssumption DEF LessBy
  <2>4. h[j] \in 1 .. Len(ls[m]) /\ ns[m][j].guid = ls[m][h[j]].guid
    BY <2>2, WaitListAssumption DEF LessBy
  <2>4a. /\ OneEach(ls) /\ ls[k][g[i]].guid = ls[m][h[j]].guid
         /\ ls[k][g[i]].guid \in Players
    BY <2>3, <2>4 DEF Fit
  <2>5. k = m /\ g[i] = h[j]
    BY <2>3, <2>4, <2>4a DEF OneEach
  <2>6. g[j] \in 1 .. Len(ls[m]) /\ ns[m][j].guid = ls[m][g[j]].guid
    BY <2>1, <2>5, WaitListAssumption DEF LessBy
  <2>7. g[i] = g[j]
    BY ZenonT(30), <2>3, <2>4a, <2>5, <2>6 DEF OneEach
  <2> QED
    BY <2>1, <2>5, <2>7 DEF LessBy
<1> QED
  BY <1>2, <1>3, <1>4, <1>5 DEF Fit

\* What a client finds is fit as well, whether the lists were cleaned for it
\* or not.
LEMMA CleanedFits ==
  ASSUME WaitInv, NEW p \in Players
  PROVE  /\ Fit(Cleaned(p), online)
         /\ p \notin Privileged => \A k \in Kinds :
                /\ Cleaned(p)[k] # <<>> =>
                       \E i \in 1 .. Len(lists[k]) : lists[k][i].left > 0
                /\ \A j \in 1 .. Len(Cleaned(p)[k]) :
                       \E i \in 1 .. Len(lists[k]) :
                           Cleaned(p)[k][j] = lists[k][i]
                               /\ lists[k][i].left > 0
                /\ (\E i \in 1 .. Len(lists[k]) : lists[k][i].left > 0)
                       => Cleaned(p)[k] # <<>>
         /\ \A k \in Kinds : Len(Cleaned(p)[k]) <= Len(lists[k])
<1>0. Fit(lists, online) /\ online \subseteq Players /\ Typed(lists)
  BY DEF WaitInv, Fit
<1>1. CASE p \in Privileged
  <2>1. \A k \in Kinds : Len(lists[k]) \in Nat
    BY <1>0, Lengths
  <2> QED
    BY <1>0, <1>1, <2>1 DEF Cleaned
<1>2. CASE p \notin Privileged
  <2> DEFINE c == Cleaned(p)
  <2>1. \A k \in Kinds : c[k] = CleanupList(lists[k])
                         /\ lists[k] \in Seq(EntryRecords)
    BY <1>0, <1>2, Lengths DEF Cleaned, Cleanup
  <2>2. \A k \in Kinds :
            /\ c[k] \in Seq(EntryRecords) /\ Less(c[k], lists[k])
            /\ \A j \in 1 .. Len(c[k]) :
                \E i \in 1 .. Len(lists[k]) :
                    c[k][j] = lists[k][i] /\ lists[k][i].left > 0
            /\ (\E i \in 1 .. Len(lists[k]) : lists[k][i].left > 0)
                => c[k] # <<>>
    BY <2>1, CleanedIsLess
  <2>3. c = [k \in Kinds |-> CleanupList(lists[k])]
    BY <1>2 DEF Cleaned, Cleanup
  <2>4. Typed(c)
    BY <2>1, <2>2, <2>3 DEF Typed
  <2> HIDE DEF c
  <2>5. Fit(c, online)
    BY <1>0, <2>2, <2>4, LessFits
  <2>6. ASSUME NEW k \in Kinds, c[k] # <<>>
        PROVE  \E i \in 1 .. Len(lists[k]) : lists[k][i].left > 0
    <3>1. Len(c[k]) \in Nat \ {0}
      BY <2>2, <2>6, EmptySeq
    <3>2. 1 \in 1 .. Len(c[k])
      BY <3>1
    <3> QED
      BY <2>2, <3>2
  <2>7. \A k \in Kinds : Len(c[k]) <= Len(lists[k])
    BY <2>2 DEF Less
  <2> QED
    BY <2>2, <2>5, <2>6, <2>7 DEF c
<1> QED
  BY <1>1, <1>2

\* One that is found is where it was found.
LEMMA FoundIsThere ==
  ASSUME NEW ls, Typed(ls), NEW p \in Players, NEW f \in FindClient(ls, p)
  PROVE  /\ f.kind \in Kinds /\ f.index \in 1 .. Len(ls[f.kind])
         /\ ls[f.kind][f.index].guid = p
<1>1. ASSUME NEW k \in Kinds, IndexIn(ls[k], p) # 0
      PROVE  IndexIn(ls[k], p) \in 1 .. Len(ls[k])
             /\ ls[k][IndexIn(ls[k], p)].guid = p
  <2> DEFINE I == {i \in 1 .. Len(ls[k]) : ls[k][i].guid = p}
  <2>1. IndexIn(ls[k], p) = IF I # {} THEN Min(I) ELSE 0
    BY DEF IndexIn, SelectInSeq
  <2>2. I # {} /\ IndexIn(ls[k], p) = Min(I)
    BY <1>1, <2>1
  <2>3. I \subseteq Nat
    BY <1>1, Lengths
  <2>4. Min(I) \in I
    <3> HIDE DEF I
    <3>1. \E i \in I : \A j \in I : i <= j
      BY <2>2, <2>3, HasLeast
    <3> QED
      BY <3>1 DEF Min
  <2> QED
    BY <2>2, <2>4
<1>2. \/ f = [kind |-> "priority", index |-> IndexIn(ls["priority"], p)]
         /\ IndexIn(ls["priority"], p) # 0
      \/ f = [kind |-> "normal", index |-> IndexIn(ls["normal"], p)]
         /\ IndexIn(ls["normal"], p) # 0
  BY DEF FindClient
<1>3. "priority" \in Kinds /\ "normal" \in Kinds
  BY DEF Kinds
<1> QED
  BY <1>1, <1>2, <1>3

\* One that is not found is nowhere.
LEMMA NotFound ==
  ASSUME NEW ls, Typed(ls), NEW p \in Players, FindClient(ls, p) = {}
  PROVE  \A k \in Kinds : \A i \in 1 .. Len(ls[k]) : ls[k][i].guid # p
<1>1. ASSUME NEW k \in Kinds, IndexIn(ls[k], p) = 0,
             NEW i \in 1 .. Len(ls[k]), ls[k][i].guid = p
      PROVE  FALSE
  <2> DEFINE I == {j \in 1 .. Len(ls[k]) : ls[k][j].guid = p}
  <2>1. IndexIn(ls[k], p) = IF I # {} THEN Min(I) ELSE 0
    BY DEF IndexIn, SelectInSeq
  <2>2. I # {} /\ I \subseteq Nat /\ 0 \notin I
    BY <1>1, Lengths
  <2>3. Min(I) \in I
    <3> HIDE DEF I
    <3>1. \E n \in I : \A j \in I : n <= j
      BY <2>2, HasLeast
    <3> QED
      BY <3>1 DEF Min
  <2> QED
    BY <1>1, <2>1, <2>2, <2>3
<1>2. IndexIn(ls["priority"], p) = 0 /\ IndexIn(ls["normal"], p) = 0
  <2>1. IndexIn(ls["priority"], p) = 0
    BY DEF FindClient
  <2> DEFINE g == [kind |-> "normal", index |-> IndexIn(ls["normal"], p)]
  <2>2. FindClient(ls, p) = {x \in {g} : x.index # 0}
    BY <2>1 DEF FindClient
  <2>3. g.index = IndexIn(ls["normal"], p)
    OBVIOUS
  <2> QED
    BY <2>1, <2>2, <2>3
<1> QED
  BY <1>1, <1>2 DEF Kinds

\* Waiting times grow with the slot.
LEMMA TimesGrow ==
  ASSUME NEW a \in Nat, NEW b \in Nat, a <= b
  PROVE  GetTimeout(a) \in Nat /\ GetTimeout(a) <= GetTimeout(b)
BY DEF GetTimeout, GetWaitTime

\* The players without privilege, when one more comes.
LEMMA OneMoreSeat ==
  ASSUME online \subseteq Players, SeatsRespected, NEW p \in Players,
         MaxPlayers = 0 \/ p \in Privileged
            \/ Cardinality(online) < MaxPlayers,
         online' \in {online, online \cup {p}}
  PROVE  SeatsRespected' /\ online' \subseteq Players
<1>0. IsFiniteSet(online) /\ online' \subseteq Players
  BY WaitListAssumption, FS_Subset
<1>1. CASE MaxPlayers = 0
  BY <1>0, <1>1 DEF SeatsRespected
<1>2. CASE p \in Privileged
  <2>1. online' \ Privileged = online \ Privileged
    BY <1>2
  <2> QED
    BY <1>0, <2>1 DEF SeatsRespected
<1>3. CASE Cardinality(online) < MaxPlayers
  <2>1. /\ IsFiniteSet(online \cup {p})
        /\ Cardinality(online) \in Nat
        /\ Cardinality(online \cup {p}) <= Cardinality(online) + 1
    <3>1. /\ Cardinality(online) \in Nat /\ IsFiniteSet(online \cup {p})
          /\ \/ Cardinality(online \cup {p}) = Cardinality(online)
             \/ Cardinality(online \cup {p}) = Cardinality(online) + 1
      BY <1>0, FS_AddElement, FS_CardinalityType
    <3> QED
      BY <3>1
  <2>2. IsFiniteSet(online') /\ Cardinality(online') <= MaxPlayers
        /\ Cardinality(online') \in Nat
    <3>1. IsFiniteSet(online')
      BY <1>0, <2>1
    <3>2. /\ Cardinality(online') \in Nat
          /\ Cardinality(online') <= Cardinality(online) + 1
      <4>1. CASE online' = online
        BY <2>1, <4>1
      <4>2. CASE online' = online \cup {p}
        BY <2>1, <3>1, <4>2, FS_CardinalityType
      <4> QED
        BY <4>1, <4>2
    <3> QED
      BY <1>3, <2>1, <3>1, <3>2, WaitListAssumption
  <2>3. /\ Cardinality(online' \ Privileged) \in Nat
        /\ Cardinality(online' \ Privileged) <= Cardinality(online')
    BY <2>2, FS_Subset, FS_CardinalityType
  <2>4. Cardinality(online' \ Privileged) <= MaxPlayers
    BY <2>2, <2>3, WaitListAssumption
  <2> QED
    BY <1>0, <2>4 DEF SeatsRespected
<1> QED
  BY <1>1, <1>2, <1>3

\* Direct access: for the privileged, or to lists that are empty.
LEMMA DirectlyKeeps ==
  ASSUME WaitInv, NEW p \in Players, LoginDirectly(p)
  PROVE  WaitInv'
<1> DEFINE c == Cleaned(p)
<1>1. /\ Fit(c, online) /\ lists' = c /\ Typed(c)
      /\ online \subseteq Players /\ SeatsRespected
      /\ place \in [Players -> 0 .. MaxEntries + 1]
      /\ online' \in {online, online \cup {p}}
      /\ place' = [place EXCEPT ![p] = 0]
  BY CleanedFits DEF LoginDirectly, Enter, WaitInv, Fit
<1>2. /\ p \in Privileged \/ MaxPlayers = 0
            \/ /\ \A k \in Kinds : c[k] = <<>>
               /\ Cardinality(online) < MaxPlayers
  BY DEF LoginDirectly, DirectAccess
<1> HIDE DEF c
<1>3. SeatsRespected' /\ online' \subseteq Players
  BY <1>1, <1>2, OneMoreSeat
<1>4. place' \in [Players -> 0 .. MaxEntries + 1]
  BY <1>1, WaitListAssumption
<1>5. Waiting(c, online')
  <2>1. CASE p \in Privileged
    BY <1>1, <2>1 DEF Fit, Waiting
  <2>2. CASE p \notin Privileged
    <3>1. \A k \in Kinds : c[k] = <<>>
      BY <1>1, <1>2, <2>2 DEF Fit
    <3>2. \A k \in Kinds : Len(c[k]) = 0
      BY <3>1
    <3> QED
      BY <3>2 DEF Waiting
  <2> QED
    BY <2>1, <2>2
<1>6. Fit(c, online')
  BY <1>1, <1>5 DEF Fit
<1> QED
  BY <1>1, <1>3, <1>4, <1>6 DEF WaitInv

\* One that waits is let in: its entry was its only one.
LEMMA FromListKeeps ==
  ASSUME WaitInv, NEW p \in Players, LoginFromList(p)
  PROVE  WaitInv'
<1> DEFINE c == Cleaned(p)
<1>1. PICK f \in FindClient(c, p) :
            /\ Cardinality(online) + FoundSlot(c, f) <= MaxPlayers
            /\ lists' = [c EXCEPT ![f.kind] = RemoveAt(@, f.index)]
  BY DEF LoginFromList
<1>2. /\ Fit(c, online) /\ Typed(c)
      /\ online \subseteq Players /\ SeatsRespected
      /\ place \in [Players -> 0 .. MaxEntries + 1]
      /\ online' \in {online, online \cup {p}}
      /\ place' = [place EXCEPT ![p] = 0]
  BY CleanedFits DEF LoginFromList, Enter, WaitInv, Fit
<1> HIDE DEF c
<1>3. /\ f.kind \in Kinds /\ f.index \in 1 .. Len(c[f.kind])
      /\ c[f.kind][f.index].guid = p
  BY <1>2, FoundIsThere
<1>4. \A k \in Kinds : c[k] \in Seq(EntryRecords) /\ Len(c[k]) \in Nat
  BY <1>2, Lengths
<1>5. /\ \A k \in Kinds : k # f.kind => lists'[k] = c[k]
      /\ lists'[f.kind] = RemoveAt(c[f.kind], f.index)
      /\ lists' = [k \in Kinds |-> lists'[k]]
  BY <1>1, <1>2, <1>3 DEF Typed
<1>6. \A k \in Kinds : Less(lists'[k], c[k])
  <2> SUFFICES ASSUME NEW k \in Kinds PROVE Less(lists'[k], c[k])
    OBVIOUS
  <2>1. CASE k = f.kind
    BY <1>3, <1>4, <1>5, <2>1, RemovedIsLess
  <2>2. CASE k # f.kind
    BY <1>4, <1>5, <2>2, TimedIsLess
  <2> QED
    BY <2>1, <2>2
<1>7. Typed(lists')
  BY <1>5, <1>6 DEF Typed, Less
<1>8. Fit(lists', online)
  BY <1>2, <1>6, <1>7, LessFits
<1>9. Waiting(lists', online')
  <2> SUFFICES ASSUME NEW k \in Kinds, NEW i \in 1 .. Len(lists'[k])
               PROVE  lists'[k][i].guid \notin online' \cup Privileged
    BY DEF Waiting
  <2>1. lists'[k][i].guid \notin online \cup Privileged
    BY <1>8 DEF Fit, Waiting
  <2>2. OneEach(c)
    BY <1>2 DEF Fit
  <2>3. CASE k = f.kind
    <3>1. PICK l \in 1 .. Len(c[k]) : l # f.index /\ lists'[k][i] = c[k][l]
      BY <1>3, <1>4, <1>5, <2>3, RemovedIsLess
    <3>2. c[k][l].guid # p
      BY <1>3, <2>2, <2>3, <3>1 DEF OneEach
    <3> QED
      BY <1>2, <2>1, <3>1, <3>2
  <2>4. CASE k # f.kind
    <3>1. lists'[k] = c[k]
      BY <1>5, <2>4
    <3>2. c[k][i].guid # p
      BY <1>3, <2>2, <2>4, <3>1 DEF OneEach
    <3> QED
      BY <1>2, <2>1, <3>1, <3>2
  <2> QED
    BY <2>3, <2>4
<1>10. Fit(lists', online')
  BY <1>8, <1>9 DEF Fit
<1>11. FoundSlot(c, f) \in Nat \ {0}
  <2>1. /\ Len(c["priority"]) \in Nat /\ Len(c[f.kind]) \in Nat
        /\ f.index \in Nat /\ f.index <= Len(c[f.kind])
    BY <1>3, <1>4 DEF Kinds
  <2> DEFINE a == Len(c["priority"])
             b == Len(c[f.kind])
             i == f.index
  <2>2. /\ a \in Nat /\ b \in Nat /\ i \in Nat /\ i <= b
        /\ FoundSlot(c, f) = (IF f.kind = "normal" THEN a ELSE 0)
                                + (b - i + 1) + 1
    BY <2>1 DEF FoundSlot
  <2> HIDE DEF a, b, i
  <2> QED
    BY <2>2
<1>12. Cardinality(online) < MaxPlayers
  <2>1. Cardinality(online) \in Nat
    BY <1>2, FS_Subset, FS_CardinalityType, WaitListAssumption
  <2> QED
    BY <1>1, <1>11, <2>1, WaitListAssumption
<1>13. SeatsRespected' /\ online' \subseteq Players
  BY <1>2, <1>12, OneMoreSeat
<1>14. place' \in [Players -> 0 .. MaxEntries + 1]
  BY <1>2, WaitListAssumption
<1> QED
  BY <1>10, <1>13, <1>14 DEF WaitInv

\* The slot of one that is found is not behind the end of the lists.
LEMMA SlotIs ==
  ASSUME NEW ls, Typed(ls), NEW k \in Kinds, NEW i \in 1 .. Len(ls[k]),
         Len(ls["priority"]) + Len(ls["normal"]) <= MaxEntries
  PROVE  FoundSlot(ls, [kind |-> k, index |-> i]) \in 0 .. MaxEntries + 1
<1> DEFINE f == [kind |-> k, index |-> i]
           a == Len(ls["priority"])
           b == Len(ls["normal"])
           d == Len(ls[k])
<1>1. /\ a \in Nat /\ b \in Nat /\ d \in Nat /\ i \in Nat /\ 1 <= i /\ i <= d
      /\ a + b <= MaxEntries /\ MaxEntries \in Nat
      /\ (k = "priority" /\ d = a) \/ (k = "normal" /\ d = b)
  <2>1. k = "priority" \/ k = "normal"
    BY DEF Kinds
  <2>2. a \in Nat /\ b \in Nat /\ d \in Nat
    BY Lengths DEF Kinds
  <2>3. (k = "priority" /\ d = a) \/ (k = "normal" /\ d = b)
    BY <2>1
  <2>4. i \in 1 .. d /\ a + b <= MaxEntries
    OBVIOUS
  <2> HIDE DEF a, b, d
  <2> QED
    BY <2>2, <2>3, <2>4, WaitListAssumption
<1>2. f.kind = k /\ f.index = i
  OBVIOUS
<1>3. FoundSlot(ls, f) = (IF k = "normal" THEN a ELSE 0) + (d - i + 1) + 1
  BY <1>2 DEF FoundSlot
<1> HIDE DEF f, a, b, d
<1>4. FoundSlot(ls, f) \in 0 .. MaxEntries + 1
  <2>1. CASE k = "normal"
    <3>1. FoundSlot(ls, f) = a + (d - i + 1) + 1
      BY <1>3, <2>1
    <3> QED
      BY <1>1, <2>1, <3>1
  <2>2. CASE k = "priority"
    <3>1. FoundSlot(ls, f) = 0 + (d - i + 1) + 1
      BY <1>3, <2>2
    <3> QED
      BY <1>1, <2>2, <3>1
  <2> QED
    BY <1>1, <2>1, <2>2
<1> QED
  BY <1>4 DEF f

\* One that has to come back loses its entry.
LEMMA LongerKeeps ==
  ASSUME WaitInv, NEW p \in Players, WaitLonger(p)
  PROVE  WaitInv'
<1> DEFINE c == Cleaned(p)
<1>1. PICK f \in FindClient(c, p) :
            /\ lists' = [c EXCEPT ![f.kind][f.index].guid = Overwritten]
            /\ TurnAway(p, FoundSlot(c, f))
  BY DEF WaitLonger
<1>2. /\ Fit(c, online) /\ Typed(c)
      /\ online \subseteq Players /\ SeatsRespected
      /\ place \in [Players -> 0 .. MaxEntries + 1]
      /\ online' = online
      /\ place' = [place EXCEPT ![p] = FoundSlot(c, f)]
  BY <1>1, CleanedFits DEF TurnAway, WaitInv, Fit
<1> HIDE DEF c
<1>3. /\ f.kind \in Kinds /\ f.index \in 1 .. Len(c[f.kind])
      /\ f = [kind |-> f.kind, index |-> f.index]
  <2>1. f = [kind |-> f.kind, index |-> f.index]
    BY DEF FindClient
  <2> QED
    BY <1>2, <2>1, FoundIsThere
<1>4. \A k \in Kinds : c[k] \in Seq(EntryRecords)
  BY <1>2, Lengths
<1>5. /\ \A k \in Kinds : k # f.kind => lists'[k] = c[k]
      /\ lists'[f.kind] = [c[f.kind] EXCEPT ![f.index].guid = Overwritten]
      /\ lists' = [k \in Kinds |-> lists'[k]]
  BY <1>1, <1>2, <1>3 DEF Typed
<1>6. \A k \in Kinds : Less(lists'[k], c[k])
  <2> SUFFICES ASSUME NEW k \in Kinds PROVE Less(lists'[k], c[k])
    OBVIOUS
  <2>1. CASE k = f.kind
    <3>1. Less([c[k] EXCEPT ![f.index].guid = Overwritten], c[k])
      BY <1>3, <1>4, <2>1, OverwrittenIsLess
    <3> QED
      BY <1>5, <2>1, <3>1
  <2>2. CASE k # f.kind
    BY <1>4, <1>5, <2>2, TimedIsLess
  <2> QED
    BY <2>1, <2>2
<1>7. Typed(lists')
  BY <1>5, <1>6 DEF Typed, Less
<1>8. Fit(lists', online')
  BY <1>2, <1>6, <1>7, LessFits
<1>9. FoundSlot(c, f) \in 0 .. MaxEntries + 1
  <2>1. FoundSlot(c, [kind |-> f.kind, index |-> f.index])
            \in 0 .. MaxEntries + 1
    BY <1>2, <1>3, SlotIs DEF Fit
  <2> QED
    BY <1>3, <2>1
<1>10. place' \in [Players -> 0 .. MaxEntries + 1]
  BY <1>2, <1>9
<1> QED
  BY <1>2, <1>8, <1>10 DEF WaitInv, SeatsRespected

\* A new one is put at the end: it was nowhere, is not in the game, and is
\* not one of the privileged.
LEMMA JoinKeeps ==
  ASSUME WaitInv, NEW p \in Players, JoinList(p)
  PROVE  WaitInv'
<1> DEFINE c == Cleaned(p)
<1>1. PICK kind \in Kinds :
            /\ lists' = [c EXCEPT ![kind] =
                    Append(@, [left |-> GetTimeout(NewSlot(c, kind)),
                               guid |-> p])]
            /\ TurnAway(p, NewSlot(c, kind))
  BY DEF JoinList
<1> DEFINE slot == NewSlot(c, kind)
           e == [left |-> GetTimeout(slot), guid |-> p]
<1>2. /\ Fit(c, online) /\ Typed(c)
      /\ online \subseteq Players /\ SeatsRespected
      /\ place \in [Players -> 0 .. MaxEntries + 1]
      /\ online' = online
      /\ place' = [place EXCEPT ![p] = slot]
      /\ p \notin online
  BY <1>1, CleanedFits DEF TurnAway, WaitInv, Fit, JoinList
<1>3. /\ \A k \in Kinds : \A i \in 1 .. Len(c[k]) : c[k][i].guid # p
      /\ p \notin Privileged /\ MaxPlayers # 0
  BY <1>2, NotFound DEF JoinList, DirectAccess
<1>4. /\ Len(c["priority"]) \in Nat /\ Len(c["normal"]) \in Nat
      /\ Len(c["priority"]) + Len(c["normal"]) < MaxEntries
  <2>1. /\ Len(c["priority"]) \in Nat /\ Len(c["normal"]) \in Nat
        /\ Len(lists["priority"]) \in Nat /\ Len(lists["normal"]) \in Nat
    BY <1>2, Lengths DEF Kinds, WaitInv, Fit
  <2>2. /\ Len(c["priority"]) <= Len(lists["priority"])
        /\ Len(c["normal"]) <= Len(lists["normal"])
    BY CleanedFits DEF Kinds
  <2>3. Len(lists["priority"]) + Len(lists["normal"]) < MaxEntries
    BY DEF JoinList
  <2> DEFINE a == Len(c["priority"])
             b == Len(c["normal"])
             g == Len(lists["priority"])
             h == Len(lists["normal"])
  <2>4. /\ a \in Nat /\ b \in Nat /\ g \in Nat /\ h \in Nat
        /\ a <= g /\ b <= h /\ g + h < MaxEntries
    BY <2>1, <2>2, <2>3
  <2> HIDE DEF a, b, g, h
  <2>5. a + b < MaxEntries
    BY <2>4, WaitListAssumption
  <2> QED
    BY <2>1, <2>5 DEF a, b
<1>5. slot \in 1 .. MaxEntries
  <2> DEFINE a == Len(c["priority"])
             b == Len(c["normal"])
  <2>1. /\ a \in Nat /\ b \in Nat /\ a + b < MaxEntries /\ MaxEntries \in Nat
        /\ slot = a + (IF kind = "normal" THEN b ELSE 0) + 1
    BY <1>4, WaitListAssumption DEF NewSlot
  <2> HIDE DEF a, b, slot
  <2>2. slot = a + b + 1 \/ slot = a + 0 + 1
    BY <2>1
  <2> QED
    BY <2>1, <2>2
<1> HIDE DEF c, slot
<1>6. e \in EntryRecords /\ e.guid = p
  <2>1. GetTimeout(slot) \in 0 .. GetTimeout(MaxEntries)
    <3>1. slot \in Nat /\ MaxEntries \in Nat /\ slot <= MaxEntries
      BY <1>5, WaitListAssumption
    <3>2. GetTimeout(slot) \in Nat /\ GetTimeout(MaxEntries) \in Nat
          /\ GetTimeout(slot) <= GetTimeout(MaxEntries)
      BY <3>1, TimesGrow
    <3> QED
      BY <3>2
  <2> QED
    BY <2>1 DEF EntryRecords
<1>6a. lists' = [c EXCEPT ![kind] = Append(@, e)]
  BY <1>1 DEF slot
<1> HIDE DEF e
<1>7. /\ \A k \in Kinds : k # kind => lists'[k] = c[k]
      /\ lists'[kind] = Append(c[kind], e)
      /\ lists' = [k \in Kinds |-> lists'[k]]
  BY <1>2, <1>6a DEF Typed
<1>8. \A k \in Kinds : c[k] \in Seq(EntryRecords) /\ Len(c[k]) \in Nat
  BY <1>2, Lengths
<1>9. /\ lists'[kind] \in Seq(EntryRecords)
      /\ Len(lists'[kind]) = Len(c[kind]) + 1
      /\ \A i \in 1 .. Len(c[kind]) : lists'[kind][i] = c[kind][i]
      /\ lists'[kind][Len(c[kind]) + 1] = e
  BY <1>6, <1>7, <1>8, AppendProperties
<1>10. Typed(lists')
  BY <1>7, <1>8, <1>9 DEF Typed
<1>11. \A k \in Kinds : \A i \in 1 .. Len(lists'[k]) :
            \/ i \in 1 .. Len(c[k]) /\ lists'[k][i] = c[k][i]
            \/ k = kind /\ i = Len(c[kind]) + 1 /\ lists'[k][i].guid = p
  <2> SUFFICES ASSUME NEW k \in Kinds, NEW i \in 1 .. Len(lists'[k])
               PROVE  \/ i \in 1 .. Len(c[k]) /\ lists'[k][i] = c[k][i]
                      \/ /\ k = kind /\ i = Len(c[kind]) + 1
                         /\ lists'[k][i].guid = p
    OBVIOUS
  <2>1. CASE k # kind
    BY <1>7, <2>1
  <2>2. CASE k = kind
    <3>1. i \in 1 .. Len(c[kind]) \/ i = Len(c[kind]) + 1
      BY <1>8, <1>9, <2>2
    <3> QED
      BY <1>6, <1>9, <2>2, <3>1
  <2> QED
    BY <2>1, <2>2
<1>12. Waiting(lists', online)
  BY <1>2, <1>3, <1>11 DEF Waiting, Fit
<1>13. OneEach(lists')
  <2> SUFFICES ASSUME NEW k \in Kinds, NEW m \in Kinds,
                      NEW i \in 1 .. Len(lists'[k]),
                      NEW j \in 1 .. Len(lists'[m]),
                      lists'[k][i].guid = lists'[m][j].guid,
                      lists'[k][i].guid \in Players
               PROVE  k = m /\ i = j
    BY DEF OneEach
  <2>1. OneEach(c)
    BY <1>2 DEF Fit
  <2>2. CASE /\ i \in 1 .. Len(c[k]) /\ lists'[k][i] = c[k][i]
             /\ j \in 1 .. Len(c[m]) /\ lists'[m][j] = c[m][j]
    BY <2>1, <2>2 DEF OneEach
  <2> QED
    BY <1>3, <1>11, <2>2
<1>14. Len(lists'["priority"]) + Len(lists'["normal"]) <= MaxEntries
  <2> DEFINE a == Len(c["priority"])
             b == Len(c["normal"])
             g == Len(lists'["priority"])
             h == Len(lists'["normal"])
  <2>1. /\ a \in Nat /\ b \in Nat /\ a + b < MaxEntries /\ MaxEntries \in Nat
    BY <1>4, WaitListAssumption
  <2>2. (g = a + 1 /\ h = b) \/ (g = a /\ h = b + 1)
    <3>1. CASE kind = "priority"
      <4>1. lists'["normal"] = c["normal"]
        BY <1>7, <3>1 DEF Kinds
      <4> QED
        BY <1>9, <3>1, <4>1
    <3>2. CASE kind = "normal"
      <4>1. lists'["priority"] = c["priority"]
        BY <1>7, <3>2 DEF Kinds
      <4> QED
        BY <1>9, <3>2, <4>1
    <3> QED
      BY <3>1, <3>2 DEF Kinds
  <2> HIDE DEF a, b, g, h
  <2>3. g + h <= MaxEntries
    BY <2>1, <2>2
  <2> QED
    BY <2>3 DEF g, h
<1>15. place' \in [Players -> 0 .. MaxEntries + 1]
  <2>1. slot \in 0 .. MaxEntries + 1
    BY <1>5, WaitListAssumption
  <2> QED
    BY <1>2, <2>1
<1>16. Fit(lists', online')
  BY <1>2, <1>3, <1>10, <1>12, <1>13, <1>14 DEF Fit
<1> QED
  BY <1>2, <1>15, <1>16 DEF WaitInv, SeatsRespected

\* A player leaves the game.
LEMMA LeaveKeeps ==
  ASSUME WaitInv, NEW p \in Players, Leave(p)
  PROVE  WaitInv'
<1>1. /\ online' = online \ {p} /\ lists' = lists /\ place' = place
      /\ online \subseteq Players
  BY DEF Leave, WaitInv
<1>2. IsFiniteSet(online \ Privileged)
  BY <1>1, WaitListAssumption, FS_Subset
<1>3. online' \ Privileged \subseteq online \ Privileged
  BY <1>1
<1>4. /\ Cardinality(online' \ Privileged) \in Nat
      /\ Cardinality(online \ Privileged) \in Nat
      /\ Cardinality(online' \ Privileged) <= Cardinality(online \ Privileged)
  BY <1>2, <1>3, FS_Subset, FS_CardinalityType
<1>5. SeatsRespected'
  BY <1>4, WaitListAssumption DEF SeatsRespected, WaitInv
<1>6. Fit(lists', online')
  BY <1>1 DEF WaitInv, Fit, Waiting
<1> QED
  BY <1>1, <1>5, <1>6 DEF WaitInv

\* Time passes.
LEMMA TickKeeps ==
  ASSUME WaitInv, Tick
  PROVE  WaitInv'
<1>1. /\ lists' = [k \in Kinds |->
                    [i \in DOMAIN lists[k] |->
                        [lists[k][i] EXCEPT !.left = IF @ > 0 THEN @ - 1
                                                              ELSE 0]]]
      /\ UNCHANGED <<online, place>> /\ Fit(lists, online) /\ Typed(lists)
      /\ online \subseteq Players
  BY DEF Tick, WaitInv, Fit
<1>2. ASSUME NEW k \in Kinds
      PROVE  lists'[k] \in Seq(EntryRecords) /\ Less(lists'[k], lists[k])
  <2> DEFINE l == lists[k]
             n == lists'[k]
             R(x) == [x EXCEPT !.left = IF @ > 0 THEN @ - 1 ELSE 0]
  <2>1. /\ l \in Seq(EntryRecords) /\ Len(l) \in Nat
        /\ DOMAIN l = 1 .. Len(l)
        /\ \A i \in 1 .. Len(l) : l[i] \in EntryRecords
    BY <1>1, Lengths, LenProperties
  <2>2. n = [i \in 1 .. Len(l) |-> R(l[i])]
    BY <1>1, <2>1
  <2>3. \A x \in EntryRecords : R(x) \in EntryRecords /\ R(x).guid = x.guid
    <3>1. GetTimeout(MaxEntries) \in Nat
      BY TimesGrow, WaitListAssumption
    <3> QED
      BY <3>1 DEF EntryRecords
  <2> HIDE DEF l, n, R
  <2>4. /\ n \in [1 .. Len(l) -> EntryRecords]
        /\ \A i \in 1 .. Len(l) : n[i].guid = l[i].guid
    BY <2>1, <2>2, <2>3
  <2>5. n \in Seq(EntryRecords) /\ Len(n) = Len(l)
    BY <2>1, <2>4
  <2>6. Less(n, l)
    BY <2>1, <2>4, <2>5, TimedIsLess
  <2> QED
    BY <2>5, <2>6 DEF l, n
<1>3. Typed(lists')
  BY <1>1, <1>2 DEF Typed
<1>4. Fit(lists', online)
  BY <1>1, <1>2, <1>3, LessFits
<1> QED
  BY <1>1, <1>4 DEF WaitInv, SeatsRespected

\* The invariant holds to begin with ...
LEMMA WaitBegins == WaitListInit => WaitInv
<1> SUFFICES ASSUME WaitListInit PROVE WaitInv
  OBVIOUS
<1>1. /\ lists = [k \in Kinds |-> <<>>] /\ online = {}
      /\ place = [p \in Players |-> 0]
  BY DEF WaitListInit
<1>2. \A k \in Kinds : lists[k] = <<>> /\ Len(lists[k]) = 0
  BY <1>1
<1>3. Typed(lists)
  <2>1. <<>> \in Seq(EntryRecords)
    BY EmptySeq
  <2> QED
    BY <1>1, <2>1 DEF Typed
<1>4. OneEach(lists) /\ Waiting(lists, online)
  BY <1>2 DEF OneEach, Waiting
<1>5. Fit(lists, online)
  <2>1. Len(lists["priority"]) = 0 /\ Len(lists["normal"]) = 0
    BY <1>2 DEF Kinds
  <2>2. Len(lists["priority"]) + Len(lists["normal"]) <= MaxEntries
    BY <2>1, WaitListAssumption
  <2> QED
    BY <1>2, <1>3, <1>4, <2>2 DEF Fit
<1>6. SeatsRespected
  <2>1. online \ Privileged = {}
    BY <1>1
  <2>2. Cardinality(online \ Privileged) = 0
    BY <2>1, FS_EmptySet
  <2> QED
    BY <2>2, WaitListAssumption DEF SeatsRespected
<1> QED
  BY <1>1, <1>5, <1>6, WaitListAssumption DEF WaitInv

\* ... and every step keeps it.
LEMMA WaitInvKept == WaitInv /\ [WaitListNext]_WaitListVars => WaitInv'
<1> SUFFICES ASSUME WaitInv, [WaitListNext]_WaitListVars PROVE WaitInv'
  OBVIOUS
<1>1. CASE UNCHANGED WaitListVars
  <2>1. lists' = lists /\ online' = online /\ place' = place
    BY <1>1 DEF WaitListVars
  <2> QED
    BY <2>1 DEF WaitInv, SeatsRespected
<1>2. CASE WaitListNext
  BY <1>2, DirectlyKeeps, FromListKeeps, LongerKeeps, JoinKeeps, LeaveKeeps,
     TickKeeps DEF WaitListNext
<1> QED
  BY <1>1, <1>2

\* What the property says of the lists and the seats follows.
LEMMA WaitInvSuffices == WaitInv => ListsSound
<1> SUFFICES ASSUME WaitInv PROVE ListsSound
  OBVIOUS
<1>1. Fit(lists, online) /\ Typed(lists) /\ OneEach(lists)
      /\ Waiting(lists, online)
  BY DEF WaitInv, Fit
<1>2. WaitListTypeOK
  BY <1>1 DEF WaitListTypeOK, WaitInv, Typed, EntryRecords
<1>3. OneEntryEach
  <2> SUFFICES ASSUME NEW p \in Players
               PROVE  Cardinality({at \in Kinds \X (1 .. MaxEntries) :
                        /\ at[2] <= Len(lists[at[1]])
                        /\ lists[at[1]][at[2]].guid = p}) <= 1
    BY DEF OneEntryEach
  <2> DEFINE A == {at \in Kinds \X (1 .. MaxEntries) :
                        /\ at[2] <= Len(lists[at[1]])
                        /\ lists[at[1]][at[2]].guid = p}
  <2>1. ASSUME NEW x \in A, NEW y \in A PROVE x = y
    <3>1. /\ x[1] \in Kinds /\ y[1] \in Kinds
          /\ x[2] \in 1 .. Len(lists[x[1]])
          /\ y[2] \in 1 .. Len(lists[y[1]])
          /\ lists[x[1]][x[2]].guid = p /\ lists[y[1]][y[2]].guid = p
          /\ x = <<x[1], x[2]>> /\ y = <<y[1], y[2]>>
      BY <1>1, Lengths
    <3>2. x[1] = y[1] /\ x[2] = y[2]
      BY <1>1, <3>1 DEF OneEach
    <3> QED
      BY <3>1, <3>2
  <2> HIDE DEF A
  <2>2. CASE A = {}
    <3>1. Cardinality(A) = 0
      BY <2>2, FS_EmptySet
    <3> QED
      BY <3>1 DEF A
  <2>3. CASE A # {}
    <3>1. PICK x : A = {x}
      BY <2>1, <2>3
    <3>2. Cardinality(A) = 1
      BY <3>1, FS_Singleton
    <3> QED
      BY <3>2 DEF A
  <2> QED
    BY <2>2, <2>3
<1>4. OnlineNotWaiting
  <2> SUFFICES ASSUME NEW k \in Kinds, NEW e \in ToSet(lists[k])
               PROVE  e.guid \notin online
    BY DEF OnlineNotWaiting, Entries
  <2>1. PICK i \in 1 .. Len(lists[k]) : e = lists[k][i]
    <3>1. DOMAIN lists[k] = 1 .. Len(lists[k])
      BY <1>1, Lengths, LenProperties
    <3> QED
      BY <3>1 DEF ToSet
  <2> QED
    BY <1>1, <2>1 DEF Waiting
<1> QED
  BY <1>2, <1>3, <1>4 DEF ListsSound, WaitInv

\* What SeatForEachCounted asks of a step.
SeatLeft ==
    [\A p \in online' \ online : LoginFromList(p) =>
          \A f \in FindClient(Cleaned(p), p) : \A g \in Places(Cleaned(p)) :
              CountedBefore(g, f)
                  => Cardinality(online') + FoundSlot(lists', Moved(g, f))
                        <= MaxPlayers]_WaitListVars

\* A place of the lists is an entry of one of them.
LEMMA PlaceIs ==
  ASSUME NEW ls, Typed(ls), NEW g \in Places(ls)
  PROVE  /\ g.kind \in Kinds /\ g.index \in 1 .. Len(ls[g.kind])
         /\ g = [kind |-> g.kind, index |-> g.index]
<1>1. PICK k \in Kinds : g \in {[kind |-> k, index |-> i] :
                                   i \in 1 .. Len(ls[k])}
  BY DEF Places
<1> QED
  BY <1>1

\* One that is let in from a list leaves a seat to each counted before it.
LEMMA SeatsAreLeft ==
  ASSUME WaitInv, NEW p \in Players, LoginFromList(p),
         NEW f \in FindClient(Cleaned(p), p), NEW g \in Places(Cleaned(p)),
         CountedBefore(g, f)
  PROVE  Cardinality(online') + FoundSlot(lists', Moved(g, f)) <= MaxPlayers
<1> DEFINE c == Cleaned(p)
<1>1. /\ Cardinality(online) + FoundSlot(c, f) <= MaxPlayers
      /\ lists' = [c EXCEPT ![f.kind] = RemoveAt(@, f.index)]
  <2>1. PICK h \in FindClient(c, p) :
            /\ Cardinality(online) + FoundSlot(c, h) <= MaxPlayers
            /\ lists' = [c EXCEPT ![h.kind] = RemoveAt(@, h.index)]
    BY DEF LoginFromList
  <2>2. h = f
    BY DEF FindClient
  <2> QED
    BY <2>1, <2>2
<1>2. /\ Fit(c, online) /\ Typed(c)
      /\ online \subseteq Players
      /\ online' \in {online, online \cup {p}}
  BY CleanedFits DEF LoginFromList, Enter, WaitInv, Fit
<1>3. g \in Places(c) /\ f \in FindClient(c, p)
  OBVIOUS
<1> HIDE DEF c
<1>4. /\ f.kind \in Kinds /\ f.index \in 1 .. Len(c[f.kind])
      /\ g.kind \in Kinds /\ g.index \in 1 .. Len(c[g.kind])
      /\ g = [kind |-> g.kind, index |-> g.index]
  BY <1>2, <1>3, FoundIsThere, PlaceIs
<1>5. \A k \in Kinds : c[k] \in Seq(EntryRecords) /\ Len(c[k]) \in Nat
  BY <1>2, Lengths
<1>6. \A k \in Kinds : k # f.kind => lists'[k] = c[k]
  BY <1>1, <1>2, <1>4 DEF Typed
<1>7. lists'[f.kind] = RemoveAt(c[f.kind], f.index)
  BY <1>1, <1>2, <1>4 DEF Typed
<1>8. Len(lists'[f.kind]) = Len(c[f.kind]) - 1
  BY <1>4, <1>5, <1>7, RemovedFrom
<1>9. /\ Cardinality(online) \in Nat /\ Cardinality(online') \in Nat
      /\ Cardinality(online') <= Cardinality(online) + 1
  <2>1. IsFiniteSet(online) /\ Cardinality(online) \in Nat
    BY <1>2, FS_Subset, FS_CardinalityType, WaitListAssumption
  <2>2. CASE online' = online
    BY <2>1, <2>2
  <2>3. CASE online' = online \cup {p}
    <3>1. Cardinality(online \cup {p}) =
            (IF p \in online THEN Cardinality(online)
                             ELSE Cardinality(online) + 1)
      BY <2>1, FS_AddElement
    <3> QED
      BY <2>1, <2>3, <3>1
  <2> QED
    BY <1>2, <2>2, <2>3
<1> DEFINE o == Cardinality(online)
           n == Cardinality(online')
           a == Len(c["priority"])
           b == Len(c[f.kind])
           i == f.index
           j == g.index
           m == Moved(g, f)
<1>10. /\ o \in Nat /\ n \in Nat /\ n <= o + 1 /\ a \in Nat /\ b \in Nat
       /\ i \in Nat /\ 1 <= i /\ i <= b /\ j \in Nat /\ MaxPlayers \in Nat
       /\ 1 <= j
  <2>1. a \in Nat /\ b \in Nat /\ Len(c[g.kind]) \in Nat
    BY <1>4, <1>5 DEF Kinds
  <2> QED
    BY <1>4, <1>9, <2>1, WaitListAssumption
<1>11. FoundSlot(c, f) = (IF f.kind = "normal" THEN a ELSE 0)
                            + (b - i + 1) + 1
  BY DEF FoundSlot
<1>12. CASE g.kind = f.kind /\ g.index > f.index
  <2>1. m.kind = f.kind /\ m.index = j - 1
    BY <1>4, <1>12 DEF Moved
  <2>2. f.kind = "normal" => Len(lists'["priority"]) = a
    BY <1>6 DEF Kinds
  <2>3. FoundSlot(lists', m) = (IF f.kind = "normal" THEN a ELSE 0)
                                    + ((b - 1) - (j - 1) + 1) + 1
    BY <1>8, <2>1, <2>2 DEF FoundSlot
  <2>4. j > i
    BY <1>12
  <2>5. o + FoundSlot(c, f) <= MaxPlayers
    BY <1>1
  <2> HIDE DEF o, n, a, b, i, j, m
  <2>6. n + FoundSlot(lists', m) <= MaxPlayers
    BY <1>10, <1>11, <2>3, <2>4, <2>5
  <2> QED
    BY <2>6 DEF n, m
<1>13. CASE g.kind = "priority" /\ f.kind = "normal"
  <2>1. m = g /\ m.kind = "priority" /\ m.index = j
    BY <1>4, <1>13 DEF Moved
  <2>2. Len(lists'["priority"]) = a /\ j <= a
    BY <1>4, <1>6, <1>13 DEF Kinds
  <2>3. FoundSlot(lists', m) = (a - j + 1) + 1
    BY <1>10, <2>1, <2>2 DEF FoundSlot
  <2>4. FoundSlot(c, f) = a + (b - i + 1) + 1
    BY <1>11, <1>13
  <2>5. o + FoundSlot(c, f) <= MaxPlayers
    BY <1>1
  <2> HIDE DEF o, n, a, b, i, j, m
  <2>6. n + FoundSlot(lists', m) <= MaxPlayers
    BY <1>10, <2>2, <2>3, <2>4, <2>5
  <2> QED
    BY <2>6 DEF n, m
<1> QED
  BY <1>12, <1>13 DEF CountedBefore

\* Seats go by the lists.
LEMMA TurnsKept ==
  ASSUME WaitInv, [WaitListNext]_WaitListVars
  PROVE  /\ [\A p \in (online' \ online) \ Privileged :
                (MaxPlayers # 0 /\ \E e \in Entries : e.left > 0)
                    => \E e \in Entries :
                            e.guid = p /\ e.left > 0]_WaitListVars
         /\ SeatLeft
         /\ [\A p \in Players :
                JoinList(p) \/ WaitLonger(p)
                    => \/ Cardinality(online) >= MaxPlayers
                       \/ \E e \in Entries : e.left > 0]_WaitListVars
<1>0. Typed(lists)
  BY DEF WaitInv, Fit
<1>1. \A e : e \in Entries <=> \E k \in Kinds : \E i \in 1 .. Len(lists[k]) :
                                    e = lists[k][i]
  <2>1. \A k \in Kinds : DOMAIN lists[k] = 1 .. Len(lists[k])
    BY <1>0, Lengths, LenProperties
  <2> QED
    BY <2>1 DEF Entries, ToSet
<1>2. ASSUME NEW p \in (online' \ online) \ Privileged, WaitListNext,
             MaxPlayers # 0, NEW e \in Entries, e.left > 0
      PROVE  \E d \in Entries : d.guid = p /\ d.left > 0
  <2>1. p \in Players /\ (LoginDirectly(p) \/ LoginFromList(p))
    BY <1>2 DEF WaitListNext, LoginDirectly, LoginFromList, Enter, WaitLonger,
       JoinList, TurnAway, Leave, Tick
  <2>2. PICK k \in Kinds : \E i \in 1 .. Len(lists[k]) : lists[k][i].left > 0
    BY <1>1, <1>2
  <2>3. Cleaned(p)[k] # <<>>
    BY <2>1, <2>2, CleanedFits
  <2>4. LoginFromList(p)
    BY <1>2, <2>1, <2>3 DEF LoginDirectly, DirectAccess
  <2>5. PICK f : f \in FindClient(Cleaned(p), p)
    BY <2>4 DEF LoginFromList
  <2>6. /\ f.kind \in Kinds /\ f.index \in 1 .. Len(Cleaned(p)[f.kind])
        /\ Cleaned(p)[f.kind][f.index].guid = p
    BY <2>1, <2>5, CleanedFits, FoundIsThere DEF Fit
  <2>7. PICK i \in 1 .. Len(lists[f.kind]) :
            Cleaned(p)[f.kind][f.index] = lists[f.kind][i]
                /\ lists[f.kind][i].left > 0
    <3>1. p \in Players /\ p \notin Privileged
      BY <2>1
    <3>2. \A m \in Kinds : \A j \in 1 .. Len(Cleaned(p)[m]) :
                \E i \in 1 .. Len(lists[m]) :
                    Cleaned(p)[m][j] = lists[m][i] /\ lists[m][i].left > 0
      BY <3>1, CleanedFits
    <3> QED
      BY <2>6, <3>2
  <2> QED
    BY <1>1, <2>6, <2>7
<1>3. ASSUME NEW p \in Players, JoinList(p) \/ WaitLonger(p),
             ~(Cardinality(online) >= MaxPlayers)
      PROVE  \E e \in Entries : e.left > 0
  <2>1. ~DirectAccess(Cleaned(p), p)
    BY <1>3 DEF JoinList, WaitLonger
  <2>2. Cardinality(online) < MaxPlayers /\ p \notin Privileged
    <3>1. Cardinality(online) \in Nat
      BY FS_Subset, FS_CardinalityType, WaitListAssumption DEF WaitInv
    <3> QED
      BY <1>3, <2>1, <3>1, WaitListAssumption DEF DirectAccess
  <2>3. PICK k \in Kinds : Cleaned(p)[k] # <<>>
    BY <2>1, <2>2 DEF DirectAccess
  <2>4. \E i \in 1 .. Len(lists[k]) : lists[k][i].left > 0
    BY <2>2, <2>3, CleanedFits
  <2> QED
    BY <1>1, <2>4
<1>4. SeatLeft
  <2>1. ASSUME WaitListNext, NEW p \in online' \ online PROVE p \in Players
    BY <2>1 DEF WaitInv, WaitListNext, LoginDirectly, LoginFromList, Enter,
       WaitLonger, JoinList, TurnAway, Leave, Tick
  <2> QED
    BY <2>1, SeatsAreLeft DEF SeatLeft
<1> QED
  BY <1>2, <1>3, <1>4

-----------------------------------------------------------------------------
(* Turns: in a behaviour of one component the others stay as they begin.   *)

\* The checks of raids go on after any reload (raids.cpp), one raid runs at a
\* time and its events go on, unless those of a raid outlived a load; for any
\* file of raids, any number of loads and any number of events of a raid.
THEOREM RaidsAreSound == Spec => []RaidsSound
<1>1. Init => RaidsInv
  BY RaidsBegin DEF Init
<1>2. RaidsInv /\ [WaitListStep \/ RaidsStep \/ GlobalsStep \/ TimersStep]_
                     <<WaitListVars, raids, globals, timers, part>>
        => RaidsInv'
  <2>1. [WaitListStep \/ RaidsStep \/ GlobalsStep \/ TimersStep]_
            <<WaitListVars, raids, globals, timers, part>>
        => [RaidsNext]_raids
    BY DEF WaitListStep, RaidsStep, GlobalsStep, TimersStep
  <2> QED
    BY <2>1, RaidsKept
<1>3. RaidsInv => RaidsSound
  BY DEF RaidsInv
<1> QED
  BY <1>1, <1>2, <1>3, PTL DEF Spec

\* What scripts have registered is served by one chain per kind
\* (globalevent.cpp), and what they have put off is done once or stopped
\* (luascript.cpp), unless the exceptions the two modules name came about.
THEOREM ScriptsAreSound == Spec => []ScriptsSound
<1>1. Init => GlobalsInv /\ TimersInv
  BY GlobalsBegin, TimersBegin DEF Init
<1>2. GlobalsInv /\ TimersInv
      /\ [WaitListStep \/ RaidsStep \/ GlobalsStep \/ TimersStep]_
            <<WaitListVars, raids, globals, timers, part>>
        => (GlobalsInv /\ TimersInv)'
  <2>1. [WaitListStep \/ RaidsStep \/ GlobalsStep \/ TimersStep]_
            <<WaitListVars, raids, globals, timers, part>>
        => [GlobalsNext]_globals /\ [TimersNext]_timers
    BY DEF WaitListStep, RaidsStep, GlobalsStep, TimersStep
  <2> QED
    BY <2>1, GlobalsKept, TimersInvKept
<1>3. GlobalsInv /\ TimersInv => ScriptsSound
  BY GlobalsInvSuffices, TimersInvSuffices DEF ScriptsSound
<1> QED
  BY <1>1, <1>2, <1>3, PTL DEF Spec

\* Nobody without privilege gets a seat beyond the limit, and nobody who is
\* seated, or waits elsewhere, is in the way of those who wait
\* (protocolgame.cpp); for any players, any limit and lists of any length.
THEOREM ListsAreSound == Spec => []ListsSound
<1>1. Init => WaitInv
  BY WaitBegins DEF Init
<1>2. WaitInv /\ [WaitListStep \/ RaidsStep \/ GlobalsStep \/ TimersStep]_
                     <<WaitListVars, raids, globals, timers, part>>
        => WaitInv'
  <2>1. [WaitListStep \/ RaidsStep \/ GlobalsStep \/ TimersStep]_
            <<WaitListVars, raids, globals, timers, part>>
        => [WaitListNext]_WaitListVars
    BY DEF WaitListStep, RaidsStep, GlobalsStep, TimersStep
  <2> QED
    BY <2>1, WaitInvKept
<1> QED
  BY <1>1, <1>2, WaitInvSuffices, PTL DEF Spec

\* While anybody waits in time, nobody is let in who does not; who is let in
\* from a list leaves a seat to each that findClient counts before it; and who
\* is turned away meets a full server or somebody who waits in time, not the
\* entries of clients that gave up (protocolgame.cpp).
THEOREM SeatsGoAsCounted == Spec => SeatsGoByTheLists
<1>1. Init => WaitInv
  BY WaitBegins DEF Init
<1>2. [WaitListStep \/ RaidsStep \/ GlobalsStep \/ TimersStep]_
            <<WaitListVars, raids, globals, timers, part>>
        => [WaitListNext]_WaitListVars
  BY DEF WaitListStep, RaidsStep, GlobalsStep, TimersStep
<1>3. WaitInv /\ [WaitListNext]_WaitListVars
        => /\ WaitInv'
           /\ [\A p \in (online' \ online) \ Privileged :
                (MaxPlayers # 0 /\ \E e \in Entries : e.left > 0)
                    => \E e \in Entries :
                            e.guid = p /\ e.left > 0]_WaitListVars
           /\ SeatLeft
           /\ [\A p \in Players :
                JoinList(p) \/ WaitLonger(p)
                    => \/ Cardinality(online) >= MaxPlayers
                       \/ \E e \in Entries : e.left > 0]_WaitListVars
  BY WaitInvKept, TurnsKept
<1> QED
  BY <1>1, <1>2, <1>3, PTL DEF Spec, SeatsGoByTheLists, NewcomersWait,
     SeatForEachCounted, SeatLeft, TurnedAwayForAReason
=============================================================================
