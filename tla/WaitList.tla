------------------------------ MODULE WaitList ------------------------------
(***************************************************************************)
(* The waiting list of a full server (the anonymous namespace of           *)
(* src/sources/src/protocolgame.cpp), used by ProtocolGame::login on the   *)
(* dispatcher thread, with the players that come back, give up or leave    *)
(* when they like.                                                         *)
(*                                                                         *)
(* Time passes in units of five seconds, of which all the waiting times    *)
(* are multiples; an entry holds the time left until its timeout.          *)
(***************************************************************************)
EXTENDS Naturals, FiniteSets, SequencesExt

CONSTANTS
    Players,        \* the guids
    Privileged,     \* those with CanAlwaysLogin, or gamemasters
    MaxPlayers,     \* the configured limit, 0 for none
    Overwritten,    \* what is left in an entry whose guid was overwritten
    MaxEntries      \* bound: nobody new comes while so many entries are kept

ASSUME WaitListAssumption ==
    /\ IsFiniteSet(Players) /\ Privileged \subseteq Players
    /\ Overwritten \notin Players
    /\ MaxPlayers \in Nat /\ MaxEntries \in Nat

VARIABLES
    lists,          \* the two lists, waitList and priorityWaitList
    online,         \* the players in the game
    place           \* the place each player was last told, 0 if let in

WaitListVars == <<lists, online, place>>

Kinds == {"priority", "normal"}

WaitListInit ==
    /\ lists = [k \in Kinds |-> <<>>]
    /\ online = {}
    /\ place = [p \in Players |-> 0]

-----------------------------------------------------------------------------
\* In units; the slot is a position in the lists.
GetWaitTime(slot) ==
    CASE slot < 5  -> 1
      [] slot \in 5 .. 9   -> 2
      [] slot \in 10 .. 19 -> 4
      [] slot \in 20 .. 49 -> 12
      [] OTHER             -> 24

GetTimeout(slot) == GetWaitTime(slot) + 3

\* cleanupList erases an entry whose time is up, and goes on to the next.
GoOn(kept, e) == IF e.left > 0 THEN Append(kept, e) ELSE kept

CleanupList(list) == FoldLeft(GoOn, <<>>, list)

\* For both lists.
Cleanup(ls) == [k \in Kinds |-> CleanupList(ls[k])]

\* The index of p in a list, or 0.
IndexIn(list, p) == SelectInSeq(list, LAMBDA e : e.guid = p)

FindClientOneListMutant(ls, p) ==
    IF IndexIn(ls["priority"], p) # 0
    THEN {[kind |-> "priority", index |-> IndexIn(ls["priority"], p)]} ELSE {}

\* findClient: where p is found first, if it is.
FindClient(ls, p) ==
    LET at(k) == [kind |-> k, index |-> IndexIn(ls[k], p)]
    IN  IF at("priority").index # 0 THEN {at("priority")}
        ELSE {f \in {at("normal")} : f.index # 0}

FoundSlotWithoutPremiumMutant(ls, f) == (Len(ls[f.kind]) - f.index + 1) + 1

\* The distance from the entry to the end of its list, plus one; behind the
\* whole priority list for the other one.  The slot of the client that came
\* last is the lowest of its list, and a lone one's is 2.
FoundSlot(ls, f) ==
    (IF f.kind = "normal" THEN Len(ls["priority"]) ELSE 0)
        + (Len(ls[f.kind]) - f.index + 1) + 1

\* The slot of a new entry.
NewSlot(ls, kind) ==
    Len(ls["priority"]) + (IF kind = "normal" THEN Len(ls["normal"]) ELSE 0)
        + 1

DirectAccess(ls, p) ==
    \/ p \in Privileged
    \/ MaxPlayers = 0
    \/ /\ \A k \in Kinds : ls[k] = <<>>
       /\ Cardinality(online) < MaxPlayers

-----------------------------------------------------------------------------
\* ProtocolGame::login of p after a slot 0: the character may still fail to
\* load, or to be placed.
Enter(p) ==
    /\ online' \in {online, online \cup {p}}
    /\ place' = [place EXCEPT ![p] = 0]

TurnAway(p, slot) ==
    /\ place' = [place EXCEPT ![p] = slot]
    /\ UNCHANGED online

\* clientLogin cleans the lists for all but the privileged.
Cleaned(p) == IF p \in Privileged THEN lists ELSE Cleanup(lists)

LoginDirectly(p) ==
    /\ p \notin online
    /\ DirectAccess(Cleaned(p), p)
    /\ lists' = Cleaned(p)
    /\ Enter(p)

\* The server has capacity for a client that waits.
LoginFromList(p) ==
    /\ p \notin online
    /\ ~DirectAccess(Cleaned(p), p)
    /\ \E f \in FindClient(Cleaned(p), p) :
          /\ Cardinality(online) + FoundSlot(Cleaned(p), f) <= MaxPlayers
          /\ lists' = [Cleaned(p) EXCEPT ![f.kind] = RemoveAt(@, f.index)]
    /\ Enter(p)

\* It has not: the new timeout is stored over the guid of the entry.
WaitLonger(p) ==
    /\ p \notin online
    /\ ~DirectAccess(Cleaned(p), p)
    /\ \E f \in FindClient(Cleaned(p), p) :
          LET slot == FoundSlot(Cleaned(p), f)
          IN  /\ Cardinality(online) + slot > MaxPlayers
              /\ lists' = [Cleaned(p) EXCEPT
                               ![f.kind][f.index].guid = Overwritten]
              /\ TurnAway(p, slot)

\* A client that is not found is put at the end of the list of its kind.
JoinList(p) ==
    /\ p \notin online
    /\ ~DirectAccess(Cleaned(p), p)
    /\ FindClient(Cleaned(p), p) = {}
    /\ Len(lists["priority"]) + Len(lists["normal"]) < MaxEntries
    /\ \E kind \in Kinds :
          LET slot == NewSlot(Cleaned(p), kind)
          IN  /\ lists' = [Cleaned(p) EXCEPT ![kind] =
                       Append(@, [left |-> GetTimeout(slot), guid |-> p])]
              /\ TurnAway(p, slot)

\* A player leaves the game.
Leave(p) ==
    /\ p \in online
    /\ online' = online \ {p}
    /\ UNCHANGED <<lists, place>>

Tick ==
    /\ \E k \in Kinds : \E e \in ToSet(lists[k]) : e.left > 0
    /\ lists' = [k \in Kinds |->
                    [i \in DOMAIN lists[k] |->
                        [lists[k][i] EXCEPT !.left = IF @ > 0 THEN @ - 1
                                                              ELSE 0]]]
    /\ UNCHANGED <<online, place>>

WaitListNext ==
    \/ \E p \in Players : LoginDirectly(p)
    \/ \E p \in Players : LoginFromList(p)
    \/ \E p \in Players : WaitLonger(p)
    \/ \E p \in Players : JoinList(p)
    \/ \E p \in Players : Leave(p)
    \/ Tick

WaitListSpec == WaitListInit /\ [][WaitListNext]_WaitListVars

-----------------------------------------------------------------------------
(* Properties.                                                             *)

Entries == UNION {ToSet(lists[k]) : k \in Kinds}

\* Every variable has its type, and no place is behind the end of the lists.
WaitListTypeOK ==
    /\ lists \in [Kinds -> Seq([left : 0 .. GetTimeout(MaxEntries),
                               guid : Players \cup {Overwritten}])]
    /\ online \subseteq Players
    /\ place \in [Players -> 0 .. MaxEntries + 1]

\* Through the lists or past them, players without privilege never get more
\* seats than the server has.
SeatsRespected ==
    MaxPlayers # 0 => Cardinality(online \ Privileged) <= MaxPlayers

\* A player waits in one place, also when it became premium, or ceased to be,
\* between two attempts.
OneEntryEach ==
    \A p \in Players :
        Cardinality({at \in Kinds \X (1 .. MaxEntries) :
                        /\ at[2] <= Len(lists[at[1]])
                        /\ lists[at[1]][at[2]].guid = p}) <= 1

\* A player in the game holds no place in the lists, where it would hold up
\* those that wait.
OnlineNotWaiting == \A e \in Entries : e.guid \notin online

\* The lists and the seats are sound together: no more players than seats, and
\* nobody who is seated, or waits elsewhere, in the way of those who wait.
ListsSound ==
    WaitListTypeOK /\ SeatsRespected /\ OneEntryEach /\ OnlineNotWaiting

\* While anybody waits, nobody without privilege is let in who does not wait:
\* newcomers do not pass those in the lists.
NewcomersWait ==
    [][\A p \in (online' \ online) \ Privileged :
          (MaxPlayers # 0 /\ \E e \in Entries : e.left > 0)
              => \E e \in Entries : e.guid = p /\ e.left > 0]_WaitListVars

\* Entry g is counted by findClient before the one at f: it is behind it in
\* its list, for the slot is the distance to the end, or among the premium.
CountedBefore(g, f) ==
    \/ g.kind = f.kind /\ g.index > f.index
    \/ g.kind = "priority" /\ f.kind = "normal"

\* Where an entry of the lists is after the one at f was erased.
Moved(g, f) ==
    [g EXCEPT !.index = IF g.kind = f.kind /\ g.index > f.index
                        THEN @ - 1 ELSE @]

Places(ls) ==
    UNION {{[kind |-> k, index |-> i] : i \in 1 .. Len(ls[k])} : k \in Kinds}

\* Who is let in from a list leaves a seat to each that findClient counts
\* before it: they would be let in as well, at once.  Those that came earlier
\* to its list are not among them: they may be told to wait while it enters.
SeatForEachCounted ==
    [][\A p \in online' \ online : LoginFromList(p) =>
          \A f \in FindClient(Cleaned(p), p) : \A g \in Places(Cleaned(p)) :
              CountedBefore(g, f)
                  => Cardinality(online') + FoundSlot(lists', Moved(g, f))
                        <= MaxPlayers]_WaitListVars

\* Clients that gave up do not keep the others out: who is turned away meets a
\* full server, or an entry in the lists whose time has not run out.
TurnedAwayForAReason ==
    [][\A p \in Players :
          JoinList(p) \/ WaitLonger(p)
              => \/ Cardinality(online) >= MaxPlayers
                 \/ \E e \in Entries : e.left > 0]_WaitListVars

\* Seats go by the lists: not to newcomers while anybody waits, to a waiting
\* client only when there is one left for each that is counted before it, and
\* not past all for the entries of those that gave up.  In a list the last to
\* come is counted first (protocolgame.cpp:55, 60): clients that wait do pass
\* each other, and no order among them is claimed here.
SeatsGoByTheLists ==
    NewcomersWait /\ SeatForEachCounted /\ TurnedAwayForAReason

\* protocolgame.cpp:125 says of a client that comes back in time and finds no
\* seat "let them wait a bit longer": it keeps its entry.
KeepsPlace ==
    [][\A p \in Players :
          WaitLonger(p)
              => \E k \in Kinds : IndexIn(lists'[k], p) # 0]_WaitListVars
=============================================================================
