------------------------------- MODULE Upkeep -------------------------------
(***************************************************************************)
(* What goes on by itself, for one run under fairness: the server from its *)
(* start to its end (Server), the thread of queries (DatabaseTasks), the   *)
(* sessions of a character (Login), offers that expire (Market), items     *)
(* that decay (Decay), monsters that are replaced (Spawn), raids (Raids)   *)
(* and a player's walk (Walking).  They share no state: a behaviour is one *)
(* of one component, chosen in the initial state, and the others stay as   *)
(* they begin.  The fairness is that of the components.                    *)
(***************************************************************************)
EXTENDS Server, DatabaseTasks, Login, Market, Decay, Spawn, Raids, Walking

VARIABLE part

ItemVars == <<MarketVars, DecayVars>>
MonsterVars == <<SpawnVars, raids>>

Vars ==
    <<ServerVars, DatabaseVars, LoginVars, ItemVars, MonsterVars, WalkingVars,
      part>>

Init == /\ part \in
            {"server", "database", "login", "market", "decay",
             "spawn", "raids", "walking"}
        /\ ServerInit /\ DatabaseInit /\ LoginInit
        /\ MarketInit /\ DecayInit /\ SpawnInit /\ RaidsInit /\ WalkingInit
        \* the components that stay as they begin begin in one way only
        /\ part # "decay" => \A i \in Decaying :
                item[i].stages = 0 /\ ~item[i].burnsDown /\ ~item[i].stopTime
        /\ part # "spawn" => rested = {}
        /\ part # "raids" => \A n \in RaidNames : raids.file[n] = 0

ServerStep ==
    /\ part = "server" /\ ServerNext
    /\ UNCHANGED <<DatabaseVars, LoginVars, ItemVars, MonsterVars, WalkingVars,
                   part>>

DatabaseStep ==
    /\ part = "database" /\ DatabaseNext
    /\ UNCHANGED <<ServerVars, LoginVars, ItemVars, MonsterVars,
                   WalkingVars, part>>

LoginStep ==
    /\ part = "login" /\ LoginNext
    /\ UNCHANGED <<ServerVars, DatabaseVars, ItemVars, MonsterVars,
                   WalkingVars, part>>

MarketStep ==
    /\ part = "market" /\ MarketNext
    /\ UNCHANGED <<ServerVars, DatabaseVars, LoginVars, DecayVars,
                   MonsterVars, WalkingVars, part>>

DecayStep ==
    /\ part = "decay" /\ DecayNext
    /\ UNCHANGED <<ServerVars, DatabaseVars, LoginVars, MarketVars,
                   MonsterVars, WalkingVars, part>>

SpawnStep ==
    /\ part = "spawn" /\ SpawnNext
    /\ UNCHANGED <<ServerVars, DatabaseVars, LoginVars, ItemVars, raids,
                   WalkingVars, part>>

RaidsStep ==
    /\ part = "raids" /\ RaidsNext
    /\ UNCHANGED <<ServerVars, DatabaseVars, LoginVars, ItemVars, SpawnVars,
                   WalkingVars, part>>

WalkingStep ==
    /\ part = "walking" /\ WalkingNext
    /\ UNCHANGED <<ServerVars, DatabaseVars, LoginVars, ItemVars, MonsterVars,
                   part>>

Next ==
    \/ ServerStep \/ DatabaseStep
    \/ LoginStep \/ MarketStep \/ DecayStep
    \/ SpawnStep \/ RaidsStep \/ WalkingStep

ServerFairness ==
    /\ WF_ServerVars(part = "server" /\ RunMain)
    /\ WF_ServerVars(part = "server" /\ Load)
    /\ WF_ServerVars(part = "server" /\ Handle)
    /\ WF_ServerVars(part = "server" /\ ReopeningDue)
    /\ WF_ServerVars(part = "server" /\ RunTaskOfServer)
    /\ WF_ServerVars(part = "server"
                        /\ (DatabaseThreadEnds \/ DatabaseThreadParks))
    /\ WF_ServerVars(part = "server" /\ SchedulerThreadEnds)

QueryFairness ==
    /\ WF_DatabaseVars(part = "database" /\ DatabaseThread)
    /\ WF_DatabaseVars(part = "database" /\ DatabaseShutdown)
    /\ \A s \in Submitters :
        WF_DatabaseVars(part = "database" /\ NotifyThread(s))

LoginFairness ==
    /\ WF_LoginVars(part = "login" /\ \E c \in Sessions : RunTask(c))
    /\ WF_LoginVars(part = "login" /\ SendAll)
    /\ WF_LoginVars(part = "login" /\ Cleanup)
    /\ \A c \in Sessions : WF_LoginVars(part = "login" /\ ConnectDue(c))
    /\ \A b \in Sessions : WF_LoginVars(part = "login" /\ KickDeserted(b))

MarketFairness ==
    /\ WF_MarketVars(part = "market" /\ FindExpired)
    /\ WF_MarketVars(part = "market" /\ ProcessExpired)

DecayFairness ==
    WF_DecayVars(part = "decay" /\ \E d \in Durations : CheckDecay(d))

SpawnFairness ==
    /\ \A b \in Blocks : WF_SpawnVars(part = "spawn" /\ Rest(b))
    /\ WF_SpawnVars(part = "spawn"
                        /\ \E willing \in SUBSET Blocks : CheckSpawn(willing))
    /\ SF_SpawnVars(part = "spawn" /\ Wanted /\ CheckSpawn(Blocks))

RaidsFairness == WF_raids(part = "raids" /\ RaidEvents)

WalkingFairness ==
    /\ WF_WalkingVars(part = "walking" /\ RunTaskOfWalk)
    /\ WF_WalkingVars(part = "walking" /\ \E e \in EventIds : WalkDue(e))
    /\ WF_WalkingVars(part = "walking" /\ ActionDue)
    /\ WF_WalkingVars(part = "walking" /\ RestEnds)

Spec ==
    /\ Init /\ [][Next]_Vars
    /\ ServerFairness /\ QueryFairness /\ LoginFairness
    /\ MarketFairness /\ DecayFairness /\ SpawnFairness /\ RaidsFairness
    /\ WalkingFairness

(* What a player began comes to an end: a session whose client is gone,    *)
(* but for bodies that are spared, its output, and a walk, after which     *)
(* what waited for it is done.                                             *)
PlayersGoOn == SessionsEnd /\ WalksEnd

(* What the world does by itself comes to an end: offers expire, items     *)
(* decay when it is time, monsters that are missing are replaced, and      *)
(* raids end.                                                              *)
WorldGoesOn ==
    ExpiredOffersEnd /\ DecaysOnTime /\ ReplacedInTheEnd /\ RaidsEnd
=============================================================================
