-------------------------- MODULE ConnectionProofs --------------------------
(***************************************************************************)
(* The safety properties of Connection hold for every bound on the queue   *)
(* and with or without exceptions.  Each member function is a function on  *)
(* the record conn, so that the proof has one lemma per function, saying   *)
(* what it makes of a connection, and one step per handler.                *)
(***************************************************************************)
EXTENDS Connection, TLAPS

\* The values of conn.
Conns ==
    [open : BOOLEAN, closed : BOOLEAN, managed : BOOLEAN,
     protocol : BOOLEAN, first : BOOLEAN, queued : 0 .. MaxQueue,
     reading : {"no", "header", "body"}, writing : BOOLEAN,
     readTimer : BOOLEAN, writeTimer : BOOLEAN,
     releases : Nat, turn : {0, 1}]

\* ReleasedOnce, said of a record.
Released(c) == c.releases = IF c.closed /\ c.protocol THEN 1 ELSE 0

\* What holds in the middle of a handler as well.
Kept(c) == c \in Conns /\ Released(c) /\ (c.writing => c.queued > 0)

\* What holds between handlers.
Sound(c) == Kept(c) /\ (c.queued > 0 /\ ~c.closed => c.writing)

\* The read side of d is that of c.
SameReads(c, d) ==
    d.reading = c.reading /\ d.readTimer = c.readTimer /\ d.closed = c.closed

-----------------------------------------------------------------------------
(* The member functions.                                                   *)

LEMMA CloseSocketKept ==
    ASSUME NEW c, Kept(c)
    PROVE  /\ Kept(CloseSocket(c))
           /\ CloseSocket(c).closed = c.closed
           /\ CloseSocket(c).queued = c.queued
           /\ CloseSocket(c).writing = c.writing
           /\ CloseSocket(c).reading = c.reading
  BY DEF Kept, Conns, Released, CloseSocket

\* close() leaves any connection sound and closed.
LEMMA CloseSound ==
    ASSUME NEW c, Kept(c), NEW force \in BOOLEAN
    PROVE  Sound(Close(c, force)) /\ Close(c, force).closed
<1> DEFINE d == [c EXCEPT !.managed = FALSE, !.closed = TRUE,
                          !.releases = IF c.protocol THEN @ + 1 ELSE @]
<1>1. CASE c.closed
  BY <1>1 DEF Sound, Kept, Conns, Released, Close
<1>2. CASE ~c.closed
  <2>1. Kept(d) /\ d.closed
    <3>1. c.releases = 0 /\ c \in Conns
      BY <1>2 DEF Kept, Released
    <3>2. d.releases = IF c.protocol THEN 1 ELSE 0
      BY <3>1 DEF Conns
    <3>3. d \in Conns
      <4> DEFINE r == IF c.protocol THEN c.releases + 1 ELSE c.releases
      <4>1. r \in Nat
        BY <3>1
      <4>2. \A n \in Nat : [c EXCEPT !.managed = FALSE, !.closed = TRUE,
                                    !.releases = n] \in Conns
        BY <3>1 DEF Conns
      <4> QED BY <4>1, <4>2
    <3>4. /\ d.closed /\ d.protocol = c.protocol
          /\ d.writing = c.writing /\ d.queued = c.queued
      BY <3>1 DEF Conns
    <3> QED BY <3>2, <3>3, <3>4 DEF Kept, Released
  <2>2. Kept(CloseSocket(d)) /\ CloseSocket(d).closed
    BY <2>1, CloseSocketKept
  <2>3. Close(c, force) \in {d, CloseSocket(d)}
    BY <1>2 DEF Close
  <2> QED BY <2>1, <2>2, <2>3 DEF Sound
<1> QED BY <1>1, <1>2

\* Starting an operation either starts it or closes the connection.
LEMMA StartSound ==
    ASSUME NEW c, NEW armed, NEW started, Kept(c), Kept(armed),
           Sound(started), NEW d \in Start(c, armed, started)
    PROVE  Sound(d) /\ (d.closed \/ d = started)
  BY CloseSound DEF Start

LEMMA StartReadSound ==
    ASSUME NEW c, Sound(c), NEW what \in {"header", "body"},
           NEW d \in StartRead(c, what)
    PROVE  Sound(d) /\ (d.closed \/ (d.reading = what /\ d.readTimer))
<1> DEFINE armed == [c EXCEPT !.readTimer = TRUE]
           started == [armed EXCEPT !.reading = what]
<1>1. Sound(armed) /\ armed \in Conns
  BY DEF Sound, Kept, Conns, Released
<1>2. Sound(started) /\ started.reading = what /\ started.readTimer
  BY <1>1 DEF Sound, Kept, Conns, Released
<1>3. d \in Start(c, armed, started)
  BY DEF StartRead
<1> HIDE DEF armed, started
<1> QED BY <1>1, <1>2, <1>3, StartSound DEF Sound

\* internalSend() is called with a message in the queue and no write pending.
LEMMA InternalSendSound ==
    ASSUME NEW c, Kept(c), c.queued > 0, NEW d \in InternalSend(c)
    PROVE  Sound(d) /\ (d.closed \/ SameReads(c, d))
<1> DEFINE armed == [c EXCEPT !.writeTimer = TRUE]
           started == [armed EXCEPT !.writing = TRUE]
<1>1. Kept(armed) /\ armed \in Conns /\ armed.queued > 0
      /\ SameReads(c, armed)
  BY DEF Kept, Conns, Released, SameReads
<1>2. Sound(started) /\ SameReads(c, started)
  BY <1>1 DEF Sound, Kept, Conns, Released, SameReads
<1>3. d \in Start(c, armed, started)
  BY DEF InternalSend
<1> HIDE DEF armed, started
<1> QED BY <1>1, <1>2, <1>3, StartSound

LEMMA SendSound ==
    ASSUME NEW c, Sound(c), c.queued < MaxQueue, NEW d \in Send(c)
    PROVE  Sound(d) /\ (d.closed \/ SameReads(c, d))
<1> DEFINE e == [c EXCEPT !.queued = @ + 1]
<1>1. c \in Conns /\ c.queued \in Nat /\ MaxQueue \in Nat
  BY ConnectionAssumption DEF Sound, Kept, Conns
<1>2. e \in Conns
  <2>1. c.queued + 1 \in 0 .. MaxQueue
    BY <1>1
  <2>2. \A n \in 0 .. MaxQueue : [c EXCEPT !.queued = n] \in Conns
    BY <1>1 DEF Conns
  <2> QED BY <2>1, <2>2
<1>3. /\ e.queued > 0 /\ e.writing = c.writing /\ e.closed = c.closed
      /\ e.protocol = c.protocol /\ e.releases = c.releases
      /\ SameReads(c, e)
  BY <1>1 DEF Conns, SameReads
<1>4. Kept(e)
  BY <1>2, <1>3 DEF Sound, Kept, Released
<1>5. CASE c.closed
  BY <1>5 DEF Send, SameReads
<1>6. CASE ~c.closed /\ c.queued = 0
  <2>1. d \in InternalSend(e)
    BY <1>6 DEF Send
  <2> HIDE DEF e
  <2>2. Sound(d) /\ (d.closed \/ SameReads(e, d))
    BY <2>1, <1>3, <1>4, InternalSendSound
  <2> QED BY <2>2, <1>3 DEF SameReads
<1>7. CASE ~c.closed /\ c.queued # 0
  <2>1. d = e
    BY <1>7 DEF Send
  <2>2. c.writing
    BY <1>7, <1>1 DEF Sound
  <2> HIDE DEF e
  <2> QED BY <2>1, <2>2, <1>3, <1>4 DEF Sound
<1> QED BY <1>5, <1>6, <1>7

LEMMA ReceivedSound ==
    ASSUME NEW c, Sound(c), NEW e \in Received(c)
    PROVE  Sound(e)
<1>1. PICK d \in {c} \cup (IF c.queued < MaxQueue THEN Send(c) ELSE {}) :
         e = d \/ e = Close(d, FALSE)
  BY DEF Received
<1>2. Sound(d)
  BY <1>1, SendSound
<1> QED BY <1>1, <1>2, CloseSound DEF Sound
-----------------------------------------------------------------------------
(* The inductive invariant.                                                *)

\* Nothing was done yet to a connection that was not accepted.
NewInv ==
    stage = "new" =>
        /\ ~conn.closed /\ ~conn.protocol /\ conn.queued = 0
        /\ conn.reading = "no" /\ ~conn.writing
        /\ ~conn.readTimer /\ ~conn.writeTimer /\ ~timeout

\* No handler is left for a connection that was destroyed.
GoneInv == stage = "destroyed" => conn.reading = "no" /\ ~conn.writing

States ==
    /\ stage \in {"new", "started", "destroyed"}
    /\ timeout \in BOOLEAN
    /\ peer \in {"up", "dead"}

ConnInv == Sound(conn) /\ States /\ NewInv /\ GoneInv /\ NeverForgotten

LEMMA InvariantInit == Init => ConnInv
<1> SUFFICES ASSUME Init
             PROVE  ConnInv
  OBVIOUS
<1>1. 0 \in 0 .. MaxQueue
  BY ConnectionAssumption
<1>2. conn \in Conns
  BY <1>1 DEF Init, Conns
<1>3. Sound(conn)
  BY <1>2 DEF Init, Sound, Kept, Released
<1>4. States /\ NewInv /\ GoneInv /\ NeverForgotten
  BY DEF Init, States, NewInv, GoneInv, NeverForgotten
<1> QED BY <1>3, <1>4 DEF ConnInv

\* A handler that leaves the connection sound, and closed or waiting for its
\* peer under the read timer, keeps the invariant.
LEMMA HandlerKeeps ==
    ASSUME Sound(conn'), States', stage' = "started",
           conn'.closed \/ (conn'.reading # "no"
                                /\ (conn'.readTimer \/ timeout'))
    PROVE  ConnInv'
  BY DEF ConnInv, NewInv, GoneInv, NeverForgotten, Alive

\* So does one that leaves the read side alone.
LEMMA OtherHandlerKeeps ==
    ASSUME ConnInv, Sound(conn'), stage = "started",
           UNCHANGED <<stage, timeout, peer>>,
           conn'.closed \/ SameReads(conn, conn')
    PROVE  ConnInv'
<1>1. States'
  BY DEF ConnInv, States
<1>2. conn'.closed \/ (conn'.reading # "no"
                           /\ (conn'.readTimer \/ timeout'))
  <2>1. ~conn.closed => conn.reading # "no" /\ (conn.readTimer \/ timeout)
    BY DEF ConnInv, NeverForgotten
  <2>2. timeout' = timeout
    OBVIOUS
  <2> QED BY <2>1, <2>2 DEF SameReads
<1>3. stage' = "started"
  OBVIOUS
<1> QED BY <1>1, <1>2, <1>3, HandlerKeeps

\* The read that completed: the handler starts with its timer cancelled.
LEMMA ReadDone ==
    ASSUME NEW c, Sound(c)
    PROVE  /\ Sound([c EXCEPT !.reading = "no", !.readTimer = FALSE])
           /\ [c EXCEPT !.reading = "no", !.readTimer = FALSE].closed
                 = c.closed
  BY DEF Sound, Kept, Conns, Released

LEMMA InvariantStep == ConnInv /\ [Next]_vars => ConnInv'
<1> SUFFICES ASSUME ConnInv, [Next]_vars
             PROVE  ConnInv'
  OBVIOUS
<1>1. /\ conn \in Conns /\ Sound(conn) /\ Kept(conn)
      /\ States /\ NewInv /\ GoneInv /\ NeverForgotten
  BY DEF ConnInv, Sound, Kept
<1>2. ASSUME conn.reading # "no" \/ conn.writing
      PROVE  stage = "started"
  BY <1>1, <1>2 DEF States, NewInv, GoneInv
<1>3. ASSUME Alive, \/ conn.protocol \/ conn.readTimer \/ conn.writeTimer
                    \/ timeout
      PROVE  stage = "started"
  BY <1>1, <1>3 DEF States, NewInv, Alive
<1>4. CASE Accept
  <2>1. stage' = "started" /\ States'
    BY <1>1, <1>4 DEF Accept, States
  <2>2. CASE conn' = Close(conn, TRUE)
    <3>1. Sound(conn') /\ conn'.closed
      BY <2>2, <1>1, CloseSound
    <3> QED BY <2>1, <3>1, HandlerKeeps
  <2>3. CASE \E p \in BOOLEAN :
               conn' \in StartRead([conn EXCEPT !.protocol = p], "header")
    <3>1. PICK p \in BOOLEAN :
             conn' \in StartRead([conn EXCEPT !.protocol = p], "header")
      BY <2>3
    <3>2. Sound([conn EXCEPT !.protocol = p])
      BY <1>1, <1>4 DEF Accept, NewInv, Sound, Kept, Conns, Released
    <3>3. Sound(conn') /\ (conn'.closed \/ (conn'.reading = "header"
                                               /\ conn'.readTimer))
      BY <3>1, <3>2, StartReadSound
    <3> QED BY <2>1, <3>3, HandlerKeeps
  <2> QED BY <1>4, <2>2, <2>3 DEF Accept
<1>5. CASE ParseHeader
  <2> DEFINE c == [conn EXCEPT !.reading = "no", !.readTimer = FALSE]
  <2>1. stage' = "started" /\ States'
    BY <1>1, <1>2, <1>5 DEF ParseHeader, States
  <2>2. Sound(c) /\ Kept(c) /\ c.closed = conn.closed
    BY <1>1, ReadDone DEF Sound
  <2>3. \/ conn' \in {Close(c, FALSE), Close(c, TRUE)}
        \/ conn' \in StartRead(c, "body")
        \/ conn.closed /\ conn' = c
    BY <1>5 DEF ParseHeader
  <2> HIDE DEF c
  <2>4. CASE conn' \in {Close(c, FALSE), Close(c, TRUE)}
    <3>1. Sound(conn') /\ conn'.closed
      BY <2>2, <2>4, CloseSound
    <3> QED BY <2>1, <3>1, HandlerKeeps
  <2>5. CASE conn' \in StartRead(c, "body")
    <3>1. Sound(conn') /\ (conn'.closed \/ (conn'.reading = "body"
                                               /\ conn'.readTimer))
      BY <2>2, <2>5, StartReadSound
    <3> QED BY <2>1, <3>1, HandlerKeeps
  <2>6. CASE conn.closed /\ conn' = c
    BY <2>1, <2>2, <2>6, HandlerKeeps
  <2> QED BY <2>3, <2>4, <2>5, <2>6
<1>6. CASE ParsePacket
  <2> DEFINE c == [conn EXCEPT !.reading = "no", !.readTimer = FALSE]
             d == [c EXCEPT !.first = TRUE]
             p == [d EXCEPT !.protocol = TRUE]
  <2>1. stage' = "started" /\ States'
    BY <1>1, <1>2, <1>6 DEF ParsePacket, States
  <2>2. Sound(c) /\ Kept(c) /\ c.closed = conn.closed
    BY <1>1, ReadDone DEF Sound
  <2>3. \/ Fails /\ conn' = Close(c, TRUE)
        \/ conn.closed /\ conn' = c
        \/ conn' = Close(d, TRUE)
        \/ ~conn.closed /\ \E e \in Received(p) :
                               conn' \in StartRead(e, "header")
    BY <1>6 DEF ParsePacket
  <2>4. Kept(d) /\ Sound(d) /\ d.closed = c.closed
    BY <2>2 DEF Sound, Kept, Conns, Released
  <2>5. ASSUME ~conn.closed
        PROVE  Sound(p)
    BY <2>2, <2>4, <2>5 DEF Sound, Kept, Conns, Released
  <2> HIDE DEF c, d, p
  <2>6. CASE conn' \in {Close(c, TRUE), Close(d, TRUE)}
    <3>1. Sound(conn') /\ conn'.closed
      BY <2>2, <2>4, <2>6, CloseSound
    <3> QED BY <2>1, <3>1, HandlerKeeps
  <2>7. CASE conn.closed /\ conn' = c
    BY <2>1, <2>2, <2>7, HandlerKeeps
  <2>8. CASE ~conn.closed /\ \E e \in Received(p) :
                                 conn' \in StartRead(e, "header")
    <3>1. PICK e \in Received(p) : conn' \in StartRead(e, "header")
      BY <2>8
    <3>2. Sound(e)
      BY <2>5, <2>8, <3>1, ReceivedSound
    <3>3. Sound(conn') /\ (conn'.closed \/ (conn'.reading = "header"
                                               /\ conn'.readTimer))
      BY <3>1, <3>2, StartReadSound
    <3> QED BY <2>1, <3>3, HandlerKeeps
  <2> QED BY <2>3, <2>6, <2>7, <2>8
<1>7. CASE OnWriteOperation
  <2> DEFINE c == [conn EXCEPT !.writing = FALSE, !.writeTimer = FALSE,
                               !.queued = @ - 1, !.turn = 1 - @]
             e == [c EXCEPT !.queued = 0]
  <2>1. stage = "started" /\ UNCHANGED <<stage, timeout, peer>>
    BY <1>2, <1>7 DEF OnWriteOperation
  <2>2. c \in Conns
    <3>1. conn.queued - 1 \in 0 .. MaxQueue /\ 1 - conn.turn \in {0, 1}
      BY <1>1, <1>7, ConnectionAssumption DEF OnWriteOperation, Kept, Conns
    <3>2. \A n \in 0 .. MaxQueue, t \in {0, 1} :
             [conn EXCEPT !.writing = FALSE, !.writeTimer = FALSE,
                          !.queued = n, !.turn = t] \in Conns
      BY <1>1 DEF Conns
    <3> QED BY <3>1, <3>2
  <2>3. /\ c.closed = conn.closed /\ c.protocol = conn.protocol
        /\ c.releases = conn.releases /\ ~c.writing
        /\ SameReads(conn, c)
    BY <1>1 DEF Conns, SameReads
  <2>4. Kept(c)
    BY <1>1, <2>2, <2>3 DEF Kept, Released
  <2>5. \/ conn' = Close(e, TRUE)
        \/ c.queued > 0 /\ conn' \in InternalSend(c)
        \/ c.queued = 0 /\ conn' = IF c.closed THEN CloseSocket(c) ELSE c
    BY <1>7 DEF OnWriteOperation
  <2> HIDE DEF c
  <2>6. Kept(e)
    <3>1. c \in Conns /\ 0 \in 0 .. MaxQueue /\ ~c.writing
      BY <2>2, <2>3, ConnectionAssumption
    <3>2. e \in Conns /\ e.closed = c.closed /\ e.protocol = c.protocol
          /\ e.releases = c.releases /\ ~e.writing
      BY <3>1 DEF Conns
    <3> QED BY <2>4, <3>2 DEF Kept, Released
  <2> HIDE DEF e
  <2>7. CASE conn' = Close(e, TRUE)
    <3>1. Sound(conn') /\ conn'.closed
      BY <2>6, <2>7, CloseSound
    <3> QED BY <2>1, <3>1, OtherHandlerKeeps
  <2>8. CASE c.queued > 0 /\ conn' \in InternalSend(c)
    <3>1. Sound(conn') /\ (conn'.closed \/ SameReads(c, conn'))
      BY <2>4, <2>8, InternalSendSound
    <3> QED BY <2>1, <2>3, <3>1, OtherHandlerKeeps DEF SameReads
  <2>9. CASE c.queued = 0 /\ conn' = IF c.closed THEN CloseSocket(c) ELSE c
    <3>1. Sound(conn') /\ (conn'.closed \/ SameReads(c, conn'))
      BY <2>4, <2>9, CloseSocketKept DEF Sound, SameReads
    <3> QED BY <2>1, <2>3, <3>1, OtherHandlerKeeps DEF SameReads
  <2> QED BY <2>5, <2>7, <2>8, <2>9
<1>8. CASE ReadTimerExpires
  <2>1. stage' = "started" /\ States' /\ timeout'
    BY <1>1, <1>3, <1>8 DEF ReadTimerExpires, States
  <2>2. Sound(conn') /\ conn'.reading = conn.reading
        /\ conn'.closed = conn.closed
    BY <1>1, <1>8 DEF ReadTimerExpires, Sound, Kept, Conns, Released
  <2> QED BY <1>1, <1>3, <1>8, <2>1, <2>2, HandlerKeeps
          DEF ReadTimerExpires, NeverForgotten
<1>9. CASE WriteTimerExpires
  <2>1. stage' = "started" /\ States' /\ timeout'
    BY <1>1, <1>3, <1>9 DEF WriteTimerExpires, States
  <2>2. Sound(conn') /\ conn'.reading = conn.reading
        /\ conn'.closed = conn.closed
    BY <1>1, <1>9 DEF WriteTimerExpires, Sound, Kept, Conns, Released
  <2> QED BY <1>1, <1>3, <1>9, <2>1, <2>2, HandlerKeeps
          DEF WriteTimerExpires, NeverForgotten
<1>10. CASE HandleTimeout
  <2>1. States'
    BY <1>1, <1>10 DEF HandleTimeout, States
  <2>2. CASE Alive
    <3>1. Sound(conn') /\ conn'.closed
      BY <1>1, <1>10, <2>2, CloseSound DEF HandleTimeout
    <3>2. stage' = "started"
      BY <1>3, <1>10, <2>2 DEF HandleTimeout
    <3> QED BY <2>1, <3>1, <3>2, HandlerKeeps
  <2>3. CASE ~Alive
    <3>1. conn' = conn /\ stage' = stage /\ stage = "destroyed"
      BY <1>10, <2>3 DEF HandleTimeout, Alive
    <3>2. conn.closed
      BY <1>1, <3>1 DEF NeverForgotten, Alive
    <3> QED BY <1>1, <2>1, <3>1, <3>2
            DEF ConnInv, NewInv, GoneInv, NeverForgotten
  <2> QED BY <2>2, <2>3
<1>11. CASE Destroy
  <2>1. conn.closed
    BY <1>1, <1>11 DEF Destroy, NeverForgotten
  <2>2. /\ Sound(conn') /\ conn'.closed
        /\ conn'.reading = "no" /\ ~conn'.writing
    BY <1>1, <1>11, <2>1, CloseSocketKept DEF Destroy, Sound
  <2>3. stage' = "destroyed" /\ States'
    BY <1>1, <1>11 DEF Destroy, States
  <2> QED BY <2>2, <2>3 DEF ConnInv, NewInv, GoneInv, NeverForgotten
<1>12. CASE GameSends
  <2>1. stage = "started" /\ UNCHANGED <<stage, timeout, peer>>
    BY <1>3, <1>12 DEF GameSends
  <2>2. Sound(conn') /\ (conn'.closed \/ SameReads(conn, conn'))
    BY <1>1, <1>12, SendSound DEF GameSends
  <2> QED BY <2>1, <2>2, OtherHandlerKeeps
<1>13. CASE GameCloses
  <2>1. stage = "started" /\ UNCHANGED <<stage, timeout, peer>>
    BY <1>3, <1>13 DEF GameCloses
  <2>2. Sound(conn') /\ conn'.closed
    BY <1>1, <1>13, CloseSound DEF GameCloses
  <2> QED BY <2>1, <2>2, OtherHandlerKeeps
<1>14. CASE CloseAll
  <2>1. Sound(conn') /\ SameReads(conn, conn') /\ conn'.queued = conn.queued
        /\ conn'.protocol = conn.protocol /\ conn'.writing = conn.writing
        /\ conn'.writeTimer = conn.writeTimer
    BY <1>1, <1>14 DEF CloseAll, Sound, Kept, Conns, Released, SameReads
  <2>2. States' /\ UNCHANGED <<stage, timeout, peer>>
    BY <1>1, <1>14 DEF CloseAll, States
  <2> QED BY <1>1, <2>1, <2>2
          DEF ConnInv, NewInv, GoneInv, NeverForgotten, Alive, SameReads
<1>15. CASE PeerDies
  BY <1>1, <1>15 DEF PeerDies, ConnInv, States, NewInv, GoneInv,
     NeverForgotten, Alive
<1>16. CASE UNCHANGED vars
  BY <1>1, <1>16 DEF vars, ConnInv, States, NewInv, GoneInv, NeverForgotten,
     Alive
<1> QED
  BY <1>4, <1>5, <1>6, <1>7, <1>8, <1>9, <1>10, <1>11, <1>12, <1>13, <1>14,
     <1>15, <1>16 DEF Next

THEOREM InvariantHolds == Spec => []ConnInv
<1> QED BY InvariantInit, InvariantStep, PTL DEF Spec

-----------------------------------------------------------------------------
(* The theorems.                                                           *)

\* Every member of the connection keeps its type; the queue is never popped
\* below zero.
THEOREM TypeCorrect == Spec => []TypeOK
<1>1. ConnInv => TypeOK
  BY DEF ConnInv, Sound, Kept, Conns, States, TypeOK
<1> QED BY <1>1, InvariantHolds, PTL

\* Protocol::release is queued exactly once for a connection that is closed,
\* by whichever thread and however often.
THEOREM ReleasedExactlyOnce == Spec => []ReleasedOnce
<1>1. ConnInv => ReleasedOnce
  BY DEF ConnInv, Sound, Kept, Released, ReleasedOnce
<1> QED BY <1>1, InvariantHolds, PTL

\* One message is being written as long as there are any, and one only.
THEOREM WritesOneByOne == Spec => []OneWriteOutstanding
<1>1. ConnInv => OneWriteOutstanding
  BY DEF ConnInv, Sound, Kept, OneWriteOutstanding
<1> QED BY <1>1, InvariantHolds, PTL

\* A connection that is not closed is never without a timeout to come.
THEOREM NotForgotten == Spec => []NeverForgotten
<1>1. ConnInv => NeverForgotten
  BY DEF ConnInv
<1> QED BY <1>1, InvariantHolds, PTL
=============================================================================
