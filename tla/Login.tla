-------------------------------- MODULE Login -------------------------------
(***************************************************************************)
(* A character and the clients that log in to it (protocolgame.cpp,        *)
(* outputmessage.cpp, and their callers in game.cpp and player.cpp).  Each *)
(* session is a ProtocolGame with its connection; a login that finds the   *)
(* character in the game takes its body over, after it has disconnected    *)
(* the client that has it.  Everything runs in tasks of the dispatcher;    *)
(* only connections close, and expire, in the network thread.              *)
(*                                                                         *)
(* Bodies are Player objects.  The one that the login of session c creates *)
(* is named c as well.  Options have their defaults: no clones, and a new  *)
(* login replaces the old one.                                             *)
(***************************************************************************)
EXTENDS Naturals, Sequences, FiniteSets

CONSTANTS MaxSession,       \* sessions are 1 .. MaxSession as they arrive
          HasAccess,        \* Player::isAccessPlayer of the character
          None

ASSUME LoginAssumption ==
    MaxSession \in Nat /\ HasAccess \in BOOLEAN /\ None \notin Nat

Sessions == 1 .. MaxSession

VARIABLES
    tasks,          \* what these sessions have queued at the dispatcher
    session,        \* each ProtocolGame and its Connection
    body,           \* each Player object
    toRelease,      \* Game::ToReleaseCreatures
    autosend,       \* OutputMessagePool::bufferedProtocols
    sendEvents,     \* events of sendAll the scheduler holds
    noLogout        \* the tile of the one in the game has TILESTATE_NOLOGOUT

LoginVars ==
    <<tasks, session, body, toRelease, autosend, sendEvents, noLogout>>

Links == Sessions \cup {None}
SessionRecords ==
    [conn : {"none", "open", "closed", "gone"}, released : BOOLEAN,
     player : Links, eventConnect : Links, acceptPackets : BOOLEAN,
     outputBuffer : BOOLEAN]
BodyRecords ==
    [state : {"none", "loaded", "inGame", "removed", "freed"},
     client : Links, isConnecting : BOOLEAN, references : Nat]
Tasks == [kind : {"login", "connect", "logout", "release"}, of : Sessions]

LoginTypeOK ==
    /\ tasks \in Seq(Tasks)
    /\ session \in [Sessions -> SessionRecords]
    /\ body \in [Sessions -> BodyRecords]
    /\ toRelease \subseteq Sessions
    /\ autosend \subseteq Sessions
    /\ sendEvents \in 0 .. MaxSession
    /\ noLogout \in BOOLEAN

LoginInit ==
    /\ tasks = <<>>
    /\ session = [c \in Sessions |->
            [conn |-> "none", released |-> FALSE, player |-> None,
             eventConnect |-> None, acceptPackets |-> FALSE,
             outputBuffer |-> FALSE]]
    /\ body = [b \in Sessions |->
            [state |-> "none", client |-> None, isConnecting |-> FALSE,
             references |-> 0]]
    /\ toRelease = {}
    /\ autosend = {}
    /\ sendEvents = 0
    /\ noLogout = FALSE

-----------------------------------------------------------------------------
Task(kind, c) == [kind |-> kind, of |-> c]

Runs(kind, c) == tasks # <<>> /\ Head(tasks) = Task(kind, c)

Queued(t) == \E i \in DOMAIN tasks : tasks[i] = t

IsOpen(c) == c # None /\ session[c].conn = "open"

(* Connection::close for a set of sessions: those still open are closed,   *)
(* and the release of their protocols is queued behind queue.              *)
Shut(ss, cs) ==
    [c \in Sessions |->
        IF c \in cs /\ ss[c].conn = "open"
        THEN [ss[c] EXCEPT !.conn = "closed"] ELSE ss[c]]

ReleaseOf(queue, c) ==
    IF IsOpen(c) THEN Append(queue, Task("release", c)) ELSE queue

Released(r) ==
    [r EXCEPT !.references = @ - 1,
              !.state = IF r.references = 1 THEN "freed" ELSE @]

InGame == {b \in Sessions : body[b].state = "inGame"}

(* Game::getPlayerByName *)
FoundPlayer == InGame

(* OutputMessagePool::addProtocolToAutosend: a chain of sendAll begins     *)
(* with the first protocol, although an old chain may not have ended yet.  *)
AddToAutosend(c) ==
    /\ sendEvents' = IF autosend = {} THEN sendEvents + 1 ELSE sendEvents
    /\ autosend' = autosend \cup {c}

NoAutosend == UNCHANGED <<autosend, sendEvents>>

-----------------------------------------------------------------------------
(* A client connects and sends its first message: onRecvFirstMessage turns *)
(* it away or queues its login.                                            *)
FirstMessage(c) ==
    /\ session[c].conn = "none"
    /\ \A d \in Sessions : d < c => session[d].conn # "none"
    /\ \/ /\ session' = [session EXCEPT ![c].conn = "open"]
          /\ tasks' = Append(tasks, Task("login", c))
       \/ /\ session' = [session EXCEPT ![c].conn = "closed"]
          /\ tasks' = Append(tasks, Task("release", c))
    /\ UNCHANGED <<body, toRelease, autosend, sendEvents, noLogout>>

(* login, the character is not in the game and the checks, the waiting     *)
(* list, loading or placing fail: the new Player stays with the session.   *)
LoginRefused(c) ==
    /\ Runs("login", c)
    /\ FoundPlayer = {}
    /\ tasks' = ReleaseOf(Tail(tasks), c)
    /\ session' = [Shut(session, {c}) EXCEPT ![c].player = c]
    /\ body' = [body EXCEPT ![c].state = "loaded", ![c].client = c,
                            ![c].references = 1]
    /\ UNCHANGED <<toRelease, noLogout>> /\ NoAutosend

(* login, and the new Player is placed.  A script of its login may have it *)
(* kicked on the spot; the session goes on as if it had not.               *)
LoginPlaced(c) ==
    /\ Runs("login", c)
    /\ FoundPlayer = {}
    /\ \E kicked \in BOOLEAN :
        LET linked == [session EXCEPT ![c].player = c,
                                      ![c].acceptPackets = TRUE] IN
        /\ tasks' = IF kicked THEN ReleaseOf(Tail(tasks), c) ELSE Tail(tasks)
        /\ session' = IF kicked THEN Shut(linked, {c}) ELSE linked
        /\ body' = [body EXCEPT
                ![c].state = IF kicked THEN "removed" ELSE "inGame",
                ![c].client = c, ![c].references = 2]
        /\ toRelease' = IF kicked THEN toRelease \cup {c} ELSE toRelease
        /\ noLogout' \in IF kicked THEN {FALSE} ELSE BOOLEAN
    /\ AddToAutosend(c)

(* What connect makes of a body that is free to be taken. *)
Linked(c, b) ==
    /\ session' = [session EXCEPT ![c].player = b, ![c].eventConnect = None,
                                  ![c].acceptPackets = TRUE]
    /\ body' = [body EXCEPT ![b].client = c, ![b].isConnecting = FALSE,
                            ![b].references = @ + 1]

(* login finds the character without a client and connects at once. *)
LoginConnects(c) ==
    /\ Runs("login", c)
    /\ tasks' = Tail(tasks)
    /\ \E b \in FoundPlayer :
        /\ body[b].client = None
        /\ IF session[c].conn = "gone" THEN UNCHANGED <<session, body>>
           ELSE Linked(c, b)
    /\ AddToAutosend(c)
    /\ UNCHANGED <<toRelease, noLogout>>

(* login finds the character with a client: that one is disconnected, and  *)
(* connect is to follow in a second.                                       *)
LoginReplaces(c) ==
    /\ Runs("login", c)
    /\ \E b \in FoundPlayer :
        LET old == body[b].client IN
        /\ old # None
        /\ tasks' = ReleaseOf(Tail(tasks), old)
        /\ session' = [Shut(session, {old}) EXCEPT ![c].eventConnect = b]
        /\ body' = [body EXCEPT ![b].isConnecting = TRUE]
    /\ AddToAutosend(c)
    /\ UNCHANGED <<toRelease, noLogout>>

(* The scheduler's event of connect comes to the dispatcher. *)
ConnectDue(c) ==
    /\ session[c].eventConnect # None
    /\ ~Queued(Task("connect", c))
    /\ tasks' = Append(tasks, Task("connect", c))
    /\ UNCHANGED <<session, body, toRelease, autosend, sendEvents, noLogout>>

TakenAnywayMutant(b) == body[b].state = "inGame"

CanTakeOver(b) == body[b].state = "inGame" /\ body[b].client = None

(* connect: the character has left or has another client by now, ...       *)
ConnectRefused(c) ==
    /\ Runs("connect", c)
    /\ ~CanTakeOver(session[c].eventConnect)
    /\ tasks' = ReleaseOf(Tail(tasks), c)
    /\ session' = [Shut(session, {c}) EXCEPT ![c].eventConnect = None]
    /\ UNCHANGED <<body, toRelease, noLogout>> /\ NoAutosend

(* ... the connection is gone, and the character remains marked, ...       *)
ConnectExpired(c) ==
    /\ Runs("connect", c)
    /\ CanTakeOver(session[c].eventConnect)
    /\ session[c].conn = "gone"
    /\ tasks' = Tail(tasks)
    /\ session' = [session EXCEPT ![c].eventConnect = None]
    /\ UNCHANGED <<body, toRelease, noLogout>> /\ NoAutosend

(* ... or the body is taken over.  A connection that was closed but has    *)
(* not been destroyed is good enough.                                      *)
Connect(c) ==
    /\ Runs("connect", c)
    /\ CanTakeOver(session[c].eventConnect)
    /\ session[c].conn # "gone"
    /\ tasks' = Tail(tasks)
    /\ Linked(c, session[c].eventConnect)
    /\ UNCHANGED <<toRelease, noLogout>> /\ NoAutosend

-----------------------------------------------------------------------------
(* parsePacket: a client asks to log out.  Bound: one request at a time.   *)
RequestLogout(c) ==
    /\ IsOpen(c) /\ session[c].acceptPackets /\ session[c].player # None
    /\ ~Queued(Task("logout", c))
    /\ tasks' = Append(tasks, Task("logout", c))
    /\ UNCHANGED <<session, body, toRelease, autosend, sendEvents, noLogout>>

(* removeCreature of a player that is in the game *)
TakenOut(b) ==
    /\ body' = [body EXCEPT ![b].state = "removed"]
    /\ toRelease' = toRelease \cup {b}
    /\ noLogout' = FALSE

StaysIn == UNCHANGED <<body, toRelease, noLogout>>

(* logout: a player in the game may not be allowed to leave; one that is   *)
(* dead is only disconnected.                                              *)
LogoutDenied(c) ==
    /\ Runs("logout", c)
    /\ session[c].player = None \/ session[c].player \in InGame
    /\ tasks' = Tail(tasks)
    /\ UNCHANGED session /\ StaysIn /\ NoAutosend

Logout(c) ==
    /\ Runs("logout", c)
    /\ session[c].player # None
    /\ session[c].player \in InGame => ~noLogout \/ HasAccess
    /\ tasks' = ReleaseOf(Tail(tasks), c)
    /\ session' = Shut(session, {c})
    /\ IF session[c].player \in InGame THEN TakenOut(session[c].player)
       ELSE StaysIn
    /\ NoAutosend

(* The server takes a player out: kickPlayer, or sendPing.  The client, if *)
(* there is one, is disconnected by a forced logout.                       *)
TakeOut(b) ==
    LET c == body[b].client IN
    /\ tasks' = ReleaseOf(tasks, c)
    /\ session' = Shut(session, {c})
    /\ TakenOut(b)
    /\ NoAutosend

(* sendPing: too long without an answer, unless a client is about to       *)
(* connect.                                                                *)
NoPong(b) ==
    b \in InGame /\ ~body[b].isConnecting /\ ~noLogout /\ TakeOut(b)

(* onThink: too long without doing anything.  Neither this nor sendPing    *)
(* takes a player from a tile that it may not log out on, and this none    *)
(* with access.                                                            *)
IdleTooLong(b) == b \in InGame /\ ~noLogout /\ ~HasAccess /\ TakeOut(b)

(* kickPlayer by a script or a gamemaster *)
KickPlayer(b) == b \in InGame /\ TakeOut(b)

(* The character goes, or is pushed, to a tile of the other kind.          *)
Moves ==
    /\ InGame # {}
    /\ noLogout' = ~noLogout
    /\ UNCHANGED <<tasks, session, body, toRelease>> /\ NoAutosend

(* A player dies: out of the game, with the client still there. *)
Die(b) ==
    /\ b \in InGame
    /\ TakenOut(b)
    /\ UNCHANGED <<tasks, session>> /\ NoAutosend

(* Game::cleanup *)
Cleanup ==
    /\ toRelease # {}
    /\ toRelease' = {}
    /\ body' = [b \in Sessions |->
                    IF b \in toRelease THEN Released(body[b]) ELSE body[b]]
    /\ UNCHANGED <<tasks, session, noLogout>> /\ NoAutosend

-----------------------------------------------------------------------------
CloseConnection(c) ==
    /\ IsOpen(c)
    /\ tasks' = ReleaseOf(tasks, c)
    /\ session' = Shut(session, {c})
    /\ StaysIn /\ NoAutosend

(* The Connection object is destroyed when its last handler has returned,  *)
(* or, closed with messages in its queue, when they are written.           *)
Expire(c) ==
    /\ session[c].conn = "closed"
    /\ session' = [session EXCEPT ![c].conn = "gone"]
    /\ UNCHANGED tasks /\ StaysIn /\ NoAutosend

(* Player's part of ProtocolGame::release *)
LeftBy(c) ==
    [b \in Sessions |->
        IF body[b].client = c /\ session[c].player = b
        THEN [Released(body[b]) EXCEPT !.client = None] ELSE body[b]]

WithoutSession(c) == autosend \ {c}

Release(c) ==
    /\ Runs("release", c)
    /\ tasks' = Tail(tasks)
    /\ body' = LeftBy(c)
    /\ session' = [session EXCEPT
            ![c].released = TRUE,
            ![c].player = IF \E b \in Sessions : /\ body[b].client = c
                                                 /\ b = session[c].player
                          THEN None ELSE @]
    /\ autosend' = WithoutSession(c)
    /\ UNCHANGED <<toRelease, sendEvents, noLogout>>

(* The game writes to the client of a player (getOutputBuffer), ...        *)
WriteToOutputBuffer(c) ==
    /\ \E b \in InGame : body[b].client = c
    /\ ~session[c].outputBuffer
    /\ session' = [session EXCEPT ![c].outputBuffer = TRUE]
    /\ UNCHANGED tasks /\ StaysIn /\ NoAutosend

ChainGoesOn == IF autosend = {} THEN sendEvents - 1 ELSE sendEvents

(* ... and sendAll sends what was written, and comes again.                *)
SendAll ==
    /\ sendEvents > 0
    /\ session' = [c \in Sessions |->
            [session[c] EXCEPT !.outputBuffer = @ /\ c \notin autosend]]
    /\ sendEvents' = ChainGoesOn
    /\ UNCHANGED <<tasks, autosend>> /\ StaysIn

-----------------------------------------------------------------------------
RunTask(c) ==
    \/ LoginRefused(c) \/ LoginPlaced(c)
    \/ LoginConnects(c) \/ LoginReplaces(c)
    \/ ConnectRefused(c) \/ ConnectExpired(c) \/ Connect(c)
    \/ LogoutDenied(c) \/ Logout(c)
    \/ Release(c)

Kick(b) == NoPong(b) \/ IdleTooLong(b) \/ KickPlayer(b)

LoginNext ==
    \/ \E c \in Sessions : FirstMessage(c)
    \/ \E c \in Sessions : RunTask(c)
    \/ \E c \in Sessions : ConnectDue(c)
    \/ \E c \in Sessions : RequestLogout(c)
    \/ \E c \in Sessions : CloseConnection(c)
    \/ \E c \in Sessions : Expire(c)
    \/ \E c \in Sessions : WriteToOutputBuffer(c)
    \/ \E b \in Sessions : Kick(b) \/ Die(b)
    \/ Moves
    \/ Cleanup
    \/ SendAll

(* A body without a client does nothing, so that its idle time only grows, *)
(* where and for whom it is counted.                                       *)
Deserted(b) == b \in InGame /\ ~IsOpen(body[b].client)

KickDeserted(b) == Deserted(b) /\ IdleTooLong(b)

LoginSpec ==
    /\ LoginInit /\ [][LoginNext]_LoginVars
    /\ WF_LoginVars(\E c \in Sessions : RunTask(c))
    /\ WF_LoginVars(SendAll) /\ WF_LoginVars(Cleanup)
    /\ \A c \in Sessions : WF_LoginVars(ConnectDue(c))
    /\ \A b \in Sessions : WF_LoginVars(KickDeserted(b))

-----------------------------------------------------------------------------
(* However many clients log in to a character, at whatever moment, it is   *)
(* in the game at most once.                                               *)
OneInGame == Cardinality(InGame) <= 1

(* A session and its player point to each other: what a client sends is    *)
(* done by a player who answers to this client and to no other, and is     *)
(* not freed.                                                              *)
LinksAgree ==
    /\ \A c \in Sessions : session[c].player # None =>
        /\ body[session[c].player].client = c
        /\ body[session[c].player].state # "freed"
    /\ \A b \in Sessions :
        body[b].client # None => session[body[b].client].player = b

(* The reference counter of a body is the number of those that hold it:    *)
(* its session, and the game until its cleanup.  Nobody holds a freed one. *)
ReferencesExact ==
    \A b \in Sessions :
        body[b].references =
            Cardinality({c \in Sessions : session[c].player = b})
            + Cardinality({b} \cap (InGame \cup toRelease))

(* As long as protocols are in the list of those that buffer, a sendAll is *)
(* to come for them, and a released protocol is not in the list.           *)
AutosendServed ==
    /\ autosend # {} => sendEvents > 0
    /\ \A c \in autosend : ~session[c].released

(* Sessions are sound: one body in the game, linked both ways to the one   *)
(* client that has it, counted exactly, and with its output to be sent.    *)
LoginSound ==
    /\ LoginTypeOK /\ OneInGame /\ LinksAgree /\ ReferencesExact
    /\ AutosendServed

(* What was written for a client is handed to its connection, unless the   *)
(* client is released before.                                              *)
OutputIsSent ==
    \A c \in Sessions :
        session[c].outputBuffer /\ c \in autosend
            ~> ~session[c].outputBuffer \/ session[c].released

(* A character does not stand in the game for ever after its client was    *)
(* lost: it leaves, another client has it, or it gets to a tile that it    *)
(* may not log out on.  One with access is not asked to leave.             *)
DesertedLeave ==
    \A b \in Sessions :
        Deserted(b) /\ ~HasAccess ~> ~Deserted(b) \/ noLogout

(* A body that is out of the game is freed in the end, unless a client     *)
(* stays with it, or a session holds it that was released before.          *)
BodiesFreed ==
    \A b \in Sessions :
        body[b].state = "removed" ~>
            \/ body[b].state = "freed"
            \/ \E c \in Sessions : /\ session[c].player = b
                                   /\ IsOpen(c) \/ session[c].released

(* Sessions come to their ends: what a client is to get is sent, a body    *)
(* without a client that is not spared leaves, and a body that left is     *)
(* freed.                                                                  *)
SessionsEnd == OutputIsSent /\ DesertedLeave /\ BodiesFreed

(* protocolgame.cpp:280: "ProtocolGame::release() has been called at this  *)
(* point and the Connection object no longer exists, so we return to       *)
(* prevent leakage of the Player": a released session takes no player.     *)
ReleasedTakesNobody ==
    \A c \in Sessions : session[c].released => session[c].player = None
=============================================================================
