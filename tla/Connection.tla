----------------------------- MODULE Connection -----------------------------
(***************************************************************************)
(* One accepted connection (src/sources/src/connection.{h,cpp}), with the  *)
(* network thread that runs its completion handlers and its timeouts, the  *)
(* dispatcher thread that sends and closes, and the peer.  Every handler   *)
(* runs under the recursive connectionLock, so that it is one step; it is  *)
(* written as a composition of functions on the record conn.               *)
(*                                                                         *)
(* Messages are counted: the queue is only ever pushed at its back and     *)
(* popped at its front.                                                    *)
(***************************************************************************)
EXTENDS Naturals

CONSTANTS
    MaxQueue,       \* bound: no message is sent while this many are queued
    AsioThrows      \* whether starting an asynchronous operation may throw

ASSUME ConnectionAssumption == MaxQueue \in Nat \ {0} /\ AsioThrows \in BOOLEAN

VARIABLES
    conn,           \* the members of the Connection
    stage,          \* "new", "started" or "destroyed"
    timeout,        \* a timer expired and handleTimeout is still to run
    peer            \* "up", or "dead" once it reset the connection

vars == <<conn, stage, timeout, peer>>

Alive == stage # "destroyed"

Init ==
    /\ conn = [open       |-> TRUE,     \* socket.is_open()
               closed     |-> FALSE,
               managed    |-> TRUE,     \* in ConnectionManager::connections
               protocol   |-> FALSE,    \* protocol != nullptr
               first      |-> FALSE,    \* receivedFirst
               queued     |-> 0,        \* messageQueue.size()
               reading    |-> "no",     \* the async_read that is pending
               writing    |-> FALSE,    \* an async_write is pending
               readTimer  |-> FALSE,    \* the wait on it is pending
               writeTimer |-> FALSE,
               releases   |-> 0,        \* Protocol::release tasks queued
               turn       |-> 0]        \* parity of the completed writes
    /\ stage = "new"
    /\ timeout = FALSE
    /\ peer = "up"

-----------------------------------------------------------------------------
(* What the member functions make of a connection c.                       *)

\* Pending operations of a closed socket fail; see Fails.
CloseSocket(c) ==
    IF c.open THEN [c EXCEPT !.open = FALSE, !.readTimer = FALSE,
                             !.writeTimer = FALSE]
              ELSE c

CloseAgainMutant(c, force) ==
    LET d == [c EXCEPT !.managed = FALSE, !.closed = TRUE,
                       !.releases = IF c.protocol THEN @ + 1 ELSE @]
    IN  IF c.queued = 0 \/ force THEN CloseSocket(d) ELSE d

\* Connection::close(force).
Close(c, force) ==
    LET d == [c EXCEPT !.managed = FALSE, !.closed = TRUE,
                       !.releases = IF c.protocol THEN @ + 1 ELSE @]
    IN  IF c.closed THEN [c EXCEPT !.managed = FALSE]
        ELSE IF c.queued = 0 \/ force THEN CloseSocket(d)
        ELSE d

\* The outcomes of starting an operation: it is started, or an exception is
\* caught, before or after its timer was armed, and close(FORCE_CLOSE) called.
Start(c, armed, started) ==
    {started} \cup IF AsioThrows THEN {Close(c, TRUE), Close(armed, TRUE)}
                                 ELSE {}

StartReadUntimedMutant(c, what) ==
    Start(c, c, [c EXCEPT !.reading = what])

\* The read timer is armed and async_read is called.
StartRead(c, what) ==
    LET armed == [c EXCEPT !.readTimer = TRUE]
    IN  Start(c, armed, [armed EXCEPT !.reading = what])

\* Connection::internalSend.
InternalSend(c) ==
    LET armed == [c EXCEPT !.writeTimer = TRUE]
    IN  Start(c, armed, [armed EXCEPT !.writing = TRUE])

SendIfPendingMutant(c) ==
    LET d == [c EXCEPT !.queued = @ + 1]
    IN  IF c.closed THEN {c} ELSE IF c.queued > 0 THEN InternalSend(d) ELSE {d}

\* Connection::send.
Send(c) ==
    LET d == [c EXCEPT !.queued = @ + 1]
    IN  IF c.closed THEN {c} ELSE IF c.queued = 0 THEN InternalSend(d) ELSE {d}

-----------------------------------------------------------------------------
(* The network thread.                                                     *)

\* ServicePort::onAccept: accept(), or accept(protocol) if the server sends
\* first, or the peer's address is refused.
Accept ==
    /\ stage = "new"
    /\ stage' = "started"
    /\ \/ \E p \in BOOLEAN :
             conn' \in StartRead([conn EXCEPT !.protocol = p], "header")
       \/ conn' = Close(conn, TRUE)
    /\ UNCHANGED <<timeout, peer>>

\* A pending operation completes with an error.  It may complete without one
\* even on a socket closed since, if it had completed before.
Fails == peer = "dead" \/ ~conn.open

\* Rate limit exceeded; a length out of bounds; or the body is read.
ParseHeader ==
    /\ conn.reading = "header"
    /\ LET c == [conn EXCEPT !.reading = "no", !.readTimer = FALSE]
       IN  \/ Fails /\ conn' = Close(c, TRUE)
           \/ conn.closed /\ conn' = c
           \/ /\ ~conn.closed
              /\ conn' \in {Close(c, FALSE), Close(c, TRUE)}
                           \cup StartRead(c, "body")
    /\ UNCHANGED <<stage, timeout, peer>>

\* What onRecvFirstMessage and onRecvMessage may do before they return.
Received(c) ==
    LET sent == {c} \cup IF c.queued < MaxQueue THEN Send(c) ELSE {}
    IN  sent \cup {Close(d, FALSE) : d \in sent}

\* The next header is read whatever the protocol did with the packet.
ParsePacket ==
    /\ conn.reading = "body"
    /\ LET c == [conn EXCEPT !.reading = "no", !.readTimer = FALSE]
           d == [c EXCEPT !.first = TRUE]
       IN  \/ Fails /\ conn' = Close(c, TRUE)
           \/ conn.closed /\ conn' = c
           \/ ~conn.closed /\ ~c.first /\ ~c.protocol /\ conn' = Close(d, TRUE)
           \/ /\ ~conn.closed
              /\ \E e \in Received([d EXCEPT !.protocol = TRUE]) :
                    conn' \in StartRead(e, "header")
    /\ UNCHANGED <<stage, timeout, peer>>

OnWriteClearThenPopMutant ==
    /\ conn.writing
    /\ LET c == [conn EXCEPT !.writing = FALSE, !.writeTimer = FALSE,
                             !.queued = (IF Fails THEN 0 ELSE @) - 1,
                             !.turn = 1 - @]
       IN  \/ Fails /\ conn' = Close(c, TRUE)
           \/ c.queued > 0 /\ conn' \in InternalSend(c)
           \/ c.queued = 0 /\ conn' = IF c.closed THEN CloseSocket(c) ELSE c
    /\ UNCHANGED <<stage, timeout, peer>>

OnWriteNeverClosesMutant ==
    /\ conn.writing
    /\ LET c == [conn EXCEPT !.writing = FALSE, !.writeTimer = FALSE,
                             !.queued = @ - 1, !.turn = 1 - @]
       IN  \/ Fails /\ conn' = Close([c EXCEPT !.queued = 0], TRUE)
           \/ c.queued > 0 /\ conn' \in InternalSend(c)
           \/ c.queued = 0 /\ conn' = c
    /\ UNCHANGED <<stage, timeout, peer>>

OnWriteOperation ==
    /\ conn.writing
    /\ LET c == [conn EXCEPT !.writing = FALSE, !.writeTimer = FALSE,
                             !.queued = @ - 1, !.turn = 1 - @]
       IN  \/ Fails /\ conn' = Close([c EXCEPT !.queued = 0], TRUE)
           \/ c.queued > 0 /\ conn' \in InternalSend(c)
           \/ c.queued = 0 /\ conn' = IF c.closed THEN CloseSocket(c) ELSE c
    /\ UNCHANGED <<stage, timeout, peer>>

\* A timer expires: from now on cancelling it is too late.
ReadTimerExpires ==
    /\ Alive
    /\ conn.readTimer
    /\ conn' = [conn EXCEPT !.readTimer = FALSE]
    /\ timeout' = TRUE
    /\ UNCHANGED <<stage, peer>>

WriteTimerExpires ==
    /\ Alive
    /\ conn.writeTimer
    /\ conn' = [conn EXCEPT !.writeTimer = FALSE]
    /\ timeout' = TRUE
    /\ UNCHANGED <<stage, peer>>

HandleTimeout ==
    /\ timeout
    /\ timeout' = FALSE
    /\ conn' = IF Alive THEN Close(conn, TRUE) ELSE conn
    /\ UNCHANGED <<stage, peer>>

\* The last shared_ptr goes: the destructor closes the socket.
Destroy ==
    /\ stage = "started"
    /\ ~conn.managed /\ conn.reading = "no" /\ ~conn.writing
    /\ conn' = CloseSocket(conn)
    /\ stage' = "destroyed"
    /\ UNCHANGED <<timeout, peer>>

-----------------------------------------------------------------------------
(* The dispatcher thread and the peer.                                     *)

\* Protocol::send and Protocol::disconnect, through the protocol's weak_ptr.
GameSends ==
    /\ Alive
    /\ conn.protocol
    /\ conn.queued < MaxQueue
    /\ conn' \in Send(conn)
    /\ UNCHANGED <<stage, timeout, peer>>

GameCloses ==
    /\ Alive
    /\ conn.protocol
    /\ conn' = Close(conn, FALSE)
    /\ UNCHANGED <<stage, timeout, peer>>

\* ConnectionManager::closeAll at shutdown: the sockets of the connections
\* still managed are closed, but neither their timers nor the flag closed.
CloseAll ==
    /\ conn.managed
    /\ conn' = [conn EXCEPT !.managed = FALSE, !.open = FALSE]
    /\ UNCHANGED <<stage, timeout, peer>>

PeerDies ==
    /\ peer = "up"
    /\ peer' = "dead"
    /\ UNCHANGED <<conn, stage, timeout>>

-----------------------------------------------------------------------------
Next ==
    \/ Accept
    \/ ParseHeader
    \/ ParsePacket
    \/ OnWriteOperation
    \/ ReadTimerExpires
    \/ WriteTimerExpires
    \/ HandleTimeout
    \/ Destroy
    \/ GameSends
    \/ GameCloses
    \/ CloseAll
    \/ PeerDies

\* The network thread runs the handlers that are ready, and time passes: the
\* timeout of one and the same write comes in the end.  The read timer is armed
\* anew by every packet, so that it need not expire.  An operation is bound to
\* complete only when its socket is closed or dead: the peer need not send
\* anything, nor read what it is sent.
Fairness ==
    /\ WF_vars(Accept)
    /\ WF_vars(Fails /\ (ParseHeader \/ ParsePacket))
    /\ WF_vars(Fails /\ OnWriteOperation)
    /\ \A n \in {0, 1} : WF_vars(conn.turn = n /\ WriteTimerExpires)
    /\ WF_vars(HandleTimeout)
    /\ WF_vars(Destroy)

Spec == Init /\ [][Next]_vars /\ Fairness

-----------------------------------------------------------------------------
(* Properties.                                                             *)

\* Every variable has its type.
TypeOK ==
    /\ conn \in [open : BOOLEAN, closed : BOOLEAN, managed : BOOLEAN,
                 protocol : BOOLEAN, first : BOOLEAN,
                 queued : 0 .. MaxQueue,
                 reading : {"no", "header", "body"}, writing : BOOLEAN,
                 readTimer : BOOLEAN, writeTimer : BOOLEAN,
                 releases : Nat, turn : {0, 1}]
    /\ stage \in {"new", "started", "destroyed"}
    /\ timeout \in BOOLEAN
    /\ peer \in {"up", "dead"}

\* However the connection was closed, by the game, a handler, a timeout or
\* several of them in any order, its protocol is released exactly once.
ReleasedOnce == conn.releases = IF conn.closed /\ conn.protocol THEN 1 ELSE 0

\* messageQueue is never popped when empty, and its front is being written
\* unless the connection was closed: a message never waits behind nothing.
OneWriteOutstanding ==
    /\ conn.writing => conn.queued > 0
    /\ conn.queued > 0 /\ ~conn.closed => conn.writing

\* A connection that was not closed exists, waits for its peer, and has a
\* timeout running, or run out, for it: it cannot be forgotten.
NeverForgotten ==
    stage # "new" /\ ~conn.closed =>
        Alive /\ conn.reading # "no" /\ (conn.readTimer \/ timeout)

\* A peer that stops reading does not hold up a connection: the write ends or
\* the connection is closed.
StalledWriteEnds ==
    \A n \in {0, 1} :
        (conn.writing /\ conn.turn = n /\ ~conn.closed) ~>
            (conn.turn # n \/ conn.closed)

PeerReads == WF_vars(OnWriteOperation)

\* If the peer reads what it is sent, the socket of a closed connection is
\* closed in the end, after its last message: unless an exception stopped the
\* next write, so that messages are left and none is being written.
ClosesWhenWritten ==
    PeerReads =>
        (conn.closed ~> (~conn.open \/ (conn.queued > 0 /\ ~conn.writing)))

\* Writes come to an end, with and without a peer that reads.
WritesEnd == StalledWriteEnds /\ ClosesWhenWritten

\* connection.cpp:83 says of a closed connection with messages left that its
\* socket "will be closed by the destructor or onWriteOperation".
SocketCloses == conn.closed ~> ~conn.open
=============================================================================
