-------------------------- MODULE AdapterSessionProofs --------------------------
(***************************************************************************)
(* Proofs about an adapter session: the types, that neither end leaks a    *)
(* socket, and that a session an administrator disconnected gets no more   *)
(* work in, for any number of sockets, calls, attempts and entries in the  *)
(* chain.                                                                  *)
(***************************************************************************)
EXTENDS AdapterSession, SequenceTheorems, TLAPS

-----------------------------------------------------------------------------
(* The inductive invariant *)

\* The client has at most the socket that is attached and one that connects, of which
\* the broker does not know yet; then the attached one is dead.
ClientSockets ==
    /\ \A c \in Conns :
          /\ conn[c].client = "connecting" =>
                /\ opening = c /\ adapter # c
                /\ conn[c].broker = "none" /\ ~conn[c].greeted
                /\ socket # None => conn[socket].cut
          /\ conn[c].client = "up" => socket = c
    /\ socket # None => conn[socket].client = "up"

\* A closed client has stopped its loops, so that none of them opens a socket again.
ClosedClient ==
    closed = "yes" =>
        /\ \A c \in Conns : conn[c].client = "none"
        /\ \A r \in Runners : runner[r].phase = "idle"
        /\ reconnecting = "no"

\* The only timer is the one of the session's socket, which the broker has lost.
BrokerSockets ==
    /\ \A c \in timers : adapter = c /\ conn[c].broker = "none"
    /\ \A c \in Conns :
          conn[c].broker = "open" /\ conn[c].greeted /\ ~conn[c].cut => adapter = c

\* A session that was disconnected has no socket in the adapters map.
RevokedIsOut == revoked => adapter = None

Links == ClientSockets /\ ClosedClient /\ BrokerSockets /\ RevokedIsOut

Inv == TypeOK /\ Links

-----------------------------------------------------------------------------
(* The operators on sockets *)

\* The lines the two ends write are lines.
LEMMA LineTypes ==
    /\ \A k \in {"hello", "ready", "closed"} : Line(k) \in Lines
    /\ \A a \in Attempts : /\ [kind |-> "request", id |-> a] \in Lines
                           /\ [kind |-> "answer", id |-> a] \in Lines
    /\ NoSocket \in Sockets
    /\ [NoSocket EXCEPT !.client = "connecting"] \in Sockets
  <1>1. NoAttempt \in Attempts
    BY AdapterAssumption DEF NoAttempt, Attempts
  <1>2. \A k \in {"hello", "ready", "closed"} : Line(k) \in Lines
    BY <1>1 DEF Line, Lines
  <1>3. \A a \in Attempts : /\ [kind |-> "request", id |-> a] \in Lines
                           /\ [kind |-> "answer", id |-> a] \in Lines
    BY DEF Lines
  <1>4. << >> \in Seq(Lines)
    OBVIOUS
  <1>5. NoSocket \in Sockets
    BY <1>4 DEF NoSocket, Sockets
  <1>6. [NoSocket EXCEPT !.client = "connecting"] \in Sockets
    BY <1>5 DEF Sockets
  <1> QED
    BY <1>2, <1>3, <1>5, <1>6

\* The first line of a sequence is one, and so are the others.
LEMMA ReadLine ==
    ASSUME NEW q \in Seq(Lines), q # <<>>
    PROVE  Head(q) \in Lines /\ Tail(q) \in Seq(Lines) /\ Len(Tail(q)) < Len(q)
  BY HeadTailProperties

\* Dropped closes the client's end only.
LEMMA DroppedSocket ==
    ASSUME NEW s \in Sockets
    PROVE  /\ Dropped(s) \in Sockets
           /\ Dropped(s).client = "none" /\ Dropped(s).cut
           /\ Dropped(s).broker = s.broker /\ Dropped(s).greeted = s.greeted
  <1>1. << >> \in Seq(Lines)
    OBVIOUS
  <1>2. (IF s.broker = "none" THEN << >> ELSE s.up) \in Seq(Lines)
    BY <1>1 DEF Sockets
  <1> QED
    BY <1>1, <1>2 DEF Dropped, Sockets

\* Destroyed closes the broker's end only.
LEMMA DestroyedSocket ==
    ASSUME NEW s \in Sockets
    PROVE  /\ Destroyed(s) \in Sockets
           /\ Destroyed(s).broker = "none" /\ Destroyed(s).cut
           /\ Destroyed(s).client = s.client /\ Destroyed(s).greeted = s.greeted
  <1>1. << >> \in Seq(Lines)
    OBVIOUS
  <1>2. (IF s.client = "none" THEN << >> ELSE s.down) \in Seq(Lines)
    BY <1>1 DEF Sockets
  <1> QED
    BY <1>1, <1>2 DEF Destroyed, Sockets

\* Tell writes a line and changes nothing else.
LEMMA ToldSocket ==
    ASSUME NEW s \in Sockets, NEW l \in Lines
    PROVE  /\ Tell(s, l) \in Sockets
           /\ Tell(s, l).client = s.client /\ Tell(s, l).broker = s.broker
           /\ Tell(s, l).cut = s.cut /\ Tell(s, l).greeted = s.greeted
  <1>1. Append(s.down, l) \in Seq(Lines)
    BY DEF Sockets
  <1> QED
    BY <1>1 DEF Tell, Sockets

\* One socket of conn changes.
LEMMA OneSocket ==
    ASSUME NEW f \in [Conns -> Sockets], NEW c \in Conns, NEW s \in Sockets
    PROVE  /\ [f EXCEPT ![c] = s] \in [Conns -> Sockets]
           /\ [f EXCEPT ![c] = s][c] = s
           /\ \A d \in Conns \ {c} : [f EXCEPT ![c] = s][d] = f[d]
  OBVIOUS

\* Heard takes a line out and changes nothing else.
LEMMA HeardSocket ==
    ASSUME TypeOK, NEW c \in Conns, conn[c].down # <<>>
    PROVE  /\ Heard(c) \in [Conns -> Sockets]
           /\ \A d \in Conns : /\ Heard(c)[d].client = conn[d].client
                               /\ Heard(c)[d].broker = conn[d].broker
                               /\ Heard(c)[d].cut = conn[d].cut
                               /\ Heard(c)[d].greeted = conn[d].greeted
  <1>1. Tail(conn[c].down) \in Seq(Lines)
    BY ReadLine DEF TypeOK, Sockets
  <1> DEFINE s == [conn[c] EXCEPT !.down = Tail(conn[c].down)]
  <1>2. conn \in [Conns -> Sockets] /\ conn[c] \in Sockets
    BY DEF TypeOK
  <1>3. /\ s \in Sockets /\ s.client = conn[c].client /\ s.broker = conn[c].broker
        /\ s.cut = conn[c].cut /\ s.greeted = conn[c].greeted
    BY <1>1, <1>2 DEF Sockets
  <1>4. Heard(c) = [conn EXCEPT ![c] = s]
    BY <1>2 DEF Heard
  <1> HIDE DEF s
  <1>5. Heard(c) \in [Conns -> Sockets] /\ Heard(c)[c] = s
        /\ \A d \in Conns \ {c} : Heard(c)[d] = conn[d]
    BY <1>2, <1>3, <1>4, OneSocket
  <1> QED
    BY <1>3, <1>5

\* Two versions of the sockets that differ in the lines only.
SameEnds(s, t) ==
    /\ t \in [Conns -> Sockets]
    /\ \A d \in Conns : /\ t[d].client = s[d].client /\ t[d].broker = s[d].broker
                        /\ t[d].cut = s[d].cut /\ t[d].greeted = s[d].greeted

\* Giving up every socket leaves the client with none.
LEMMA ShutSockets ==
    ASSUME TypeOK, NEW s, SameEnds(conn, s), Shut(s)
    PROVE  /\ conn' \in [Conns -> Sockets]
           /\ \A d \in Conns : /\ conn'[d].client = "none"
                               /\ conn'[d].broker = conn[d].broker
                               /\ conn'[d].cut \/ conn'[d].cut = conn[d].cut
                               /\ conn'[d].greeted = conn[d].greeted
           /\ closed' = "yes" /\ socket' = None /\ opening' = None
           /\ reconnecting' = "no"
           /\ runner' = [r \in Runners |-> Resting]
  <1>1. \A d \in Conns : s[d] \in Sockets /\ Dropped(s[d]) \in Sockets
    BY DroppedSocket DEF SameEnds
  <1>2. conn' = [d \in Conns |-> IF s[d].client = "none" THEN s[d] ELSE Dropped(s[d])]
    BY DEF Shut
  <1>3. ASSUME NEW d \in Conns
        PROVE  /\ conn'[d].client = "none"
               /\ conn'[d].broker = conn[d].broker
               /\ conn'[d].cut \/ conn'[d].cut = conn[d].cut
               /\ conn'[d].greeted = conn[d].greeted
    BY <1>1, <1>2, DroppedSocket DEF SameEnds
  <1> QED
    BY <1>1, <1>2, <1>3 DEF Shut

\* What Shut leaves behind satisfies the invariant again.
LEMMA ShutKeepsInv ==
    ASSUME Inv, NEW s, SameEnds(conn, s), Shut(s), UNCHANGED <<call, hasSent, broker>>
    PROVE  Inv'
  <1>1. /\ conn' \in [Conns -> Sockets]
        /\ \A d \in Conns : /\ conn'[d].client = "none"
                            /\ conn'[d].broker = conn[d].broker
                            /\ conn'[d].cut \/ conn'[d].cut = conn[d].cut
                            /\ conn'[d].greeted = conn[d].greeted
        /\ closed' = "yes" /\ socket' = None /\ opening' = None
        /\ reconnecting' = "no"
        /\ runner' = [r \in Runners |-> Resting]
    BY ShutSockets DEF Inv
  <1>2. TypeOK'
    BY <1>1, AdapterAssumption DEF Inv, TypeOK, broker, Resting
  <1>3. ClientSockets' /\ ClosedClient' /\ RevokedIsOut'
    BY <1>1 DEF Inv, Links, ClientSockets, ClosedClient, RevokedIsOut, broker, Resting
  <1>4. BrokerSockets'
    BY <1>1 DEF Inv, TypeOK, Links, BrokerSockets, broker
  <1> QED
    BY <1>2, <1>3, <1>4 DEF Inv, Links

\* A call that returns leaves the sockets alone, or close() gives them up.
LEMMA ReturnKeepsInv ==
    ASSUME Inv, NEW r \in Runners, NEW s, SameEnds(conn, s), Return(r, s),
           UNCHANGED <<call, hasSent, broker>>
    PROVE  Inv'
  <1>1. CASE r = "unlock"
    BY <1>1, ShutKeepsInv DEF Return
  <1>2. CASE r # "unlock"
    <2>1. /\ conn' = s /\ UNCHANGED <<socket, opening, closed, reconnecting>>
          /\ runner' = [runner EXCEPT ![r] = Resting]
      BY <1>2 DEF Return
    <2>2. TypeOK'
      BY <2>1, AdapterAssumption DEF Inv, TypeOK, SameEnds, broker, Resting
    <2>3. ClientSockets' /\ BrokerSockets' /\ RevokedIsOut'
      <3>1. /\ SameEnds(conn, conn')
            /\ UNCHANGED <<socket, opening, adapter, timers, revoked>>
        BY <2>1 DEF broker
      <3>2. timers \subseteq Conns
        BY DEF Inv, TypeOK
      <3>3. ClientSockets'
        <4>1. socket \in Conns \cup {None} /\ ClientSockets
          BY DEF Inv, TypeOK, Links
        <4> QED
          BY <3>1, <4>1 DEF SameEnds, ClientSockets
      <3>4. BrokerSockets'
        BY <3>1, <3>2 DEF Inv, Links, SameEnds, BrokerSockets
      <3>5. RevokedIsOut'
        BY <3>1 DEF Inv, Links, RevokedIsOut
      <3> QED
        BY <3>3, <3>4, <3>5
    <2>4. ClosedClient'
      BY <2>1 DEF Inv, TypeOK, Links, SameEnds, ClosedClient, Resting
    <2> QED
      BY <2>2, <2>3, <2>4 DEF Inv, Links
  <1> QED
    BY <1>1, <1>2

-----------------------------------------------------------------------------
(* The client's sockets and calls *)

\* A socket that is opened is the only one of the client that is not dead.
LEMMA ConnectsKeepsInv ==
    ASSUME Inv, Connects, closed # "yes",
           UNCHANGED <<socket, closed, call, hasSent, broker>>,
           runner' \in [Runners -> [phase : {"idle", "start", "connecting", "sent"},
                                    try : 0..MaxTries]],
           reconnecting' \in {"no", "due", "connecting"}
    PROVE  Inv'
  <1>1. CASE UNCHANGED <<conn, opening>>
    BY <1>1 DEF Inv, TypeOK, Links, ClientSockets, ClosedClient, BrokerSockets, RevokedIsOut, broker
  <1>2. CASE opening = None /\ ~UNCHANGED <<conn, opening>>
    <2>1. PICK c \in Conns :
             /\ Unused(c)
             /\ conn' = [conn EXCEPT ![c] = [NoSocket EXCEPT !.client = "connecting"]]
             /\ opening' = c
      BY <1>2 DEF Connects
    <2>2. /\ conn' \in [Conns -> Sockets]
          /\ conn'[c].client = "connecting" /\ conn'[c].broker = "none" /\ ~conn'[c].greeted
          /\ \A d \in Conns \ {c} : conn'[d] = conn[d]
      BY <2>1, LineTypes, OneSocket DEF Inv, TypeOK, NoSocket
    <2>3. TypeOK'
      BY <2>1, <2>2 DEF Inv, TypeOK, broker
    <2>4. /\ adapter # c /\ adapter' = adapter /\ timers' = timers /\ revoked' = revoked
          /\ socket' = socket /\ socket # c
          /\ socket # None => socket \in Conns \ {c} /\ conn[socket].cut
      <3>1. adapter # c /\ adapter' = adapter /\ timers' = timers /\ revoked' = revoked
        BY <2>1 DEF Unused, broker
      <3>2. socket # None => conn[socket].cut
        BY DEF Connects
      <3>3. socket # None => socket \in Conns /\ conn[socket].client = "up"
        BY DEF Inv, TypeOK, Links, ClientSockets
      <3>4. socket # c
        BY <2>1, <3>3, AdapterAssumption DEF Unused
      <3> QED
        BY <3>1, <3>2, <3>3, <3>4
    <2>5. ClientSockets'
      <3>1. \A d \in Conns : conn[d].client # "connecting"
        BY <1>2, AdapterAssumption DEF Inv, Links, ClientSockets
      <3>2. /\ socket # None => conn'[socket] = conn[socket] /\ conn[socket].client = "up"
            /\ \A d \in Conns : conn[d].client = "up" => socket = d
        BY <2>2, <2>4 DEF Inv, Links, ClientSockets
      <3> QED
        BY <2>1, <2>2, <2>4, <3>1, <3>2 DEF ClientSockets
    <2>6. ClosedClient' /\ RevokedIsOut'
      BY <2>4 DEF Inv, Links, ClosedClient, RevokedIsOut
    <2>7. BrokerSockets'
      BY <2>2, <2>4 DEF Inv, TypeOK, Links, BrokerSockets
    <2> QED
      BY <2>3, <2>5, <2>6, <2>7 DEF Inv, Links
  <1> QED
    BY <1>1, <1>2 DEF Connects

\* The socket that connects is attached, in the place of a dead one.
LEMMA ConnectedKeepsInv ==
    ASSUME Inv, NEW c \in Conns, Connected(c)
    PROVE  Inv'
  <1>1. /\ opening = c /\ adapter # c /\ conn[c].client = "connecting"
        /\ conn[c].broker = "none" /\ ~conn[c].greeted
        /\ socket # None => socket \in Conns \ {c} /\ conn[socket].cut
    <2>1. conn[c].client = "connecting"
      BY DEF Connected
    <2>2. socket # None => socket \in Conns /\ conn[socket].client = "up"
      BY DEF Inv, TypeOK, Links, ClientSockets
    <2>3. socket # c
      BY <2>1, <2>2, AdapterAssumption
    <2> QED
      BY <2>1, <2>2, <2>3 DEF Inv, Links, ClientSockets
  <1>2. /\ socket' = c /\ opening' = opening /\ adapter' = adapter /\ timers' = timers
        /\ revoked' = revoked /\ closed' = closed /\ runner' = runner
        /\ reconnecting' = reconnecting
    BY DEF Connected, broker
  <1> DEFINE hello == <<Line("hello")>>
             s == [conn[c] EXCEPT !.client = "up", !.broker = "open", !.up = hello]
  <1>3. /\ s \in Sockets
        /\ s.client = "up" /\ s.broker = "open" /\ s.greeted = conn[c].greeted
    <2>1. hello \in Seq(Lines)
      BY LineTypes
    <2> HIDE DEF hello
    <2>2. conn[c] \in Sockets
      BY DEF Inv, TypeOK
    <2> QED
      BY <2>1, <2>2 DEF Sockets
  <1>4. conn' = [d \in Conns |-> IF d = c THEN s
                                ELSE IF d = socket /\ conn[d].cut THEN Dropped(conn[d])
                                ELSE conn[d]]
    BY DEF Connected
  <1> HIDE DEF s
  <1>5. \A d \in Conns : conn[d] \in Sockets /\ Dropped(conn[d]) \in Sockets
    BY DroppedSocket DEF Inv, TypeOK
  <1>6. /\ conn' \in [Conns -> Sockets] /\ conn'[c] = s
        /\ socket # None => conn'[socket] = Dropped(conn[socket])
        /\ \A d \in Conns \ {c, socket} : conn'[d] = conn[d]
    BY <1>1, <1>3, <1>4, <1>5
  <1>7. TypeOK'
    BY <1>6 DEF Inv, TypeOK, Connected, broker
  <1>8. ASSUME NEW d \in Conns \ {c}
        PROVE  /\ conn'[d].client = "none"
               /\ conn'[d].broker = conn[d].broker
               /\ conn'[d].greeted = conn[d].greeted
               /\ conn[d].cut => conn'[d].cut
    <2>1. CASE d = socket
      BY <1>5, <1>6, <2>1, DroppedSocket, AdapterAssumption DEF Inv, TypeOK
    <2>2. CASE d # socket
      <3>1. conn[d].client = "none"
        BY <1>1, <2>2, <1>5 DEF Inv, Links, ClientSockets, Sockets
      <3> QED
        BY <1>6, <2>2, <3>1
    <2> QED
      BY <2>1, <2>2
  <1>9. ClientSockets'
    BY <1>2, <1>3, <1>6, <1>8 DEF ClientSockets
  <1>10. ClosedClient'
    BY <1>1, <1>2 DEF Inv, Links, ClosedClient
  <1>11. BrokerSockets' /\ RevokedIsOut'
    BY <1>1, <1>2, <1>3, <1>6, <1>8 DEF Inv, TypeOK, Links, BrokerSockets, RevokedIsOut
  <1> QED
    BY <1>7, <1>9, <1>10, <1>11 DEF Inv, Links

\* The client's end of a socket is gone, and with it what the client knew it by.
LEMMA ClientLosesKeepsInv ==
    ASSUME Inv, NEW c \in Conns, ClientLoses(c)
    PROVE  Inv'
  <1>1. /\ conn' \in [Conns -> Sockets]
        /\ conn'[c].client = "none" /\ conn'[c].cut
        /\ conn'[c].broker = conn[c].broker /\ conn'[c].greeted = conn[c].greeted
        /\ \A d \in Conns \ {c} : conn'[d] = conn[d]
    BY DroppedSocket, OneSocket DEF ClientLoses, Inv, TypeOK
  <1>2. runner' \in [Runners -> [phase : {"idle", "start", "connecting", "sent"},
                                 try : 0..MaxTries]]
    BY DEF ClientLoses, Interrupted, Inv, TypeOK
  <1>3. TypeOK'
    BY <1>1, <1>2 DEF Inv, TypeOK, ClientLoses, broker
  <1>4. /\ conn[c].client # "none" /\ closed' = closed
        /\ opening' = (IF opening = c THEN None ELSE opening)
        /\ socket' = (IF socket = c THEN None ELSE socket)
        /\ adapter' = adapter /\ timers' = timers /\ revoked' = revoked
    BY DEF ClientLoses, broker
  <1>5. ClientSockets' /\ RevokedIsOut'
    <2>1. socket' # None => socket' = socket /\ socket \in Conns \ {c}
      BY <1>4 DEF Inv, TypeOK
    <2>2. socket' # None => conn'[socket'].client = "up"
      BY <1>1, <2>1 DEF Inv, Links, ClientSockets
    <2>3. ASSUME NEW d \in Conns, conn'[d].client = "connecting"
          PROVE  /\ opening' = d /\ adapter' # d
                 /\ conn'[d].broker = "none" /\ ~conn'[d].greeted
                 /\ socket' # None => conn'[socket'].cut
      BY <1>1, <1>4, <2>1, <2>3 DEF Inv, Links, ClientSockets
    <2>4. ASSUME NEW d \in Conns, conn'[d].client = "up"
          PROVE  socket' = d
      BY <1>1, <1>4, <2>4 DEF Inv, Links, ClientSockets
    <2>5. RevokedIsOut'
      BY <1>4 DEF Inv, Links, RevokedIsOut
    <2> QED
      BY <2>2, <2>3, <2>4, <2>5 DEF ClientSockets
  <1>6. ClosedClient'
    BY <1>4 DEF Inv, Links, ClosedClient
  <1>7. BrokerSockets'
    BY <1>1, <1>4 DEF Inv, TypeOK, Links, BrokerSockets
  <1> QED
    BY <1>3, <1>5, <1>6, <1>7 DEF Inv, Links

\* A step of a client that is not closed, in its loops only.
LEMMA LoopKeepsInv ==
    ASSUME Inv, UNCHANGED <<conn, socket, opening, broker>>, closed # "yes",
           closed' \in {"no", "closing"}, hasSent' \in BOOLEAN, call' \in 0..MaxCalls,
           runner' \in [Runners -> [phase : {"idle", "start", "connecting", "sent"},
                                    try : 0..MaxTries]],
           reconnecting' \in {"no", "due", "connecting"}
    PROVE  Inv'
  BY DEF Inv, TypeOK, Links, ClientSockets, ClosedClient, BrokerSockets, RevokedIsOut, broker

\* A line is taken or written, and both ends stay as they are.
LEMMA LinesKeepInv ==
    ASSUME Inv, SameEnds(conn, conn'), UNCHANGED <<socket, closed, adapter, timers, revoked>>,
           closed # "yes" \/ UNCHANGED <<runner, reconnecting>>,
           opening' \in {opening} \/ (opening' = None /\ \A c \in Conns : conn[c].client # "connecting"),
           hasSent' \in BOOLEAN, call' \in 0..MaxCalls, chain' \in Seq(Lines),
           runner' \in [Runners -> [phase : {"idle", "start", "connecting", "sent"},
                                    try : 0..MaxTries]],
           reconnecting' \in {"no", "due", "connecting"}
    PROVE  Inv'
  <1>1. TypeOK'
    BY DEF Inv, TypeOK, SameEnds
  <1>2. ClientSockets' /\ RevokedIsOut'
    <2>1. socket # None => /\ conn'[socket].client = conn[socket].client
                           /\ conn'[socket].cut = conn[socket].cut
      BY DEF Inv, TypeOK, SameEnds
    <2>2. ASSUME NEW d \in Conns, conn[d].client = "connecting" PROVE opening' = opening
      BY <2>2
    <2>3. RevokedIsOut'
      BY DEF Inv, Links, RevokedIsOut
    <2> QED
      BY <2>1, <2>2, <2>3 DEF Inv, Links, SameEnds, ClientSockets
  <1>3. ClosedClient'
    BY DEF Inv, Links, SameEnds, ClosedClient
  <1>4. BrokerSockets'
    BY DEF Inv, TypeOK, Links, SameEnds, BrokerSockets
  <1> QED
    BY <1>1, <1>2, <1>3, <1>4 DEF Inv, Links

\* An attempt is sent over the socket that is attached.
LEMMA SendOnceKeepsInv ==
    ASSUME Inv, NEW r \in Runners, SendOnce(r)
    PROVE  Inv'
  <1> DEFINE line == [kind |-> "request", id |-> Attempt(r, runner[r].try + 1)]
             q == Append(conn[socket].up, line)
  <1>1. socket \in Conns /\ runner[r].try + 1 \in 0..MaxTries
    BY AdapterAssumption DEF SendOnce, Inv, TypeOK
  <1>2. line \in Lines
    <2>1. Attempt(r, runner[r].try + 1) \in Attempts
      BY <1>1, AdapterAssumption DEF Attempt, Attempts, Inv, TypeOK
    <2> QED
      BY <2>1, LineTypes
  <1> HIDE DEF line
  <1>3. q \in Seq(Lines)
    BY <1>1, <1>2 DEF Inv, TypeOK, Sockets
  <1>4. conn' = [conn EXCEPT ![socket].up = q]
    BY <1>1 DEF SendOnce, line, Inv, TypeOK
  <1> HIDE DEF q
  <1>5. SameEnds(conn, conn')
    <2> DEFINE s == [conn[socket] EXCEPT !.up = q]
    <2>1. conn \in [Conns -> Sockets] /\ conn[socket] \in Sockets
      BY <1>1 DEF Inv, TypeOK
    <2>2. /\ s \in Sockets /\ s.client = conn[socket].client /\ s.broker = conn[socket].broker
          /\ s.cut = conn[socket].cut /\ s.greeted = conn[socket].greeted
      BY <1>3, <2>1 DEF Sockets
    <2>3. conn' = [conn EXCEPT ![socket] = s]
      BY <1>4, <2>1
    <2> HIDE DEF s
    <2>4. /\ conn' \in [Conns -> Sockets] /\ conn'[socket] = s
          /\ \A d \in Conns \ {socket} : conn'[d] = conn[d]
      BY <1>1, <2>1, <2>2, <2>3, OneSocket
    <2> QED
      BY <2>2, <2>4 DEF SameEnds
  <1>6. runner' \in [Runners -> [phase : {"idle", "start", "connecting", "sent"},
                                 try : 0..MaxTries]]
    <2>1. runner' = [runner EXCEPT ![r] = [phase |-> "sent", try |-> runner[r].try + 1]]
      BY DEF SendOnce
    <2> QED
      BY <1>1, <2>1 DEF Inv, TypeOK
  <1>7. closed # "yes"
    BY DEF SendOnce, Inv, Links, ClosedClient
  <1>8. /\ UNCHANGED <<socket, opening, closed, adapter, timers, revoked>>
        /\ hasSent' \in BOOLEAN /\ call' \in 0..MaxCalls /\ chain' \in Seq(Lines)
        /\ reconnecting' \in {"no", "due", "connecting"}
    BY DEF SendOnce, broker, Inv, TypeOK
  <1> QED
    BY <1>5, <1>6, <1>7, <1>8, LinesKeepInv

\* The other steps of the client's loops.
LEMMA ClientLoopsKeepInv ==
    ASSUME Inv
    PROVE  /\ StartCall => Inv'
           /\ \A r \in Runners : CallConnects(r) \/ SendOnce(r) \/ GivesUp(r) => Inv'
           /\ \A cleanup \in BOOLEAN : Close(cleanup) => Inv'
           /\ Reconnect => Inv'
  <1>0. SameEnds(conn, conn)
    BY DEF SameEnds, Inv, TypeOK
  <1>1. ASSUME StartCall PROVE Inv'
    <2>1. call' \in 0..MaxCalls
      BY <1>1, AdapterAssumption DEF StartCall, Inv, TypeOK
    <2>2. /\ UNCHANGED <<conn, socket, opening, broker>> /\ closed # "yes"
          /\ closed' \in {"no", "closing"} /\ hasSent' \in BOOLEAN
          /\ reconnecting' \in {"no", "due", "connecting"}
          /\ runner' \in [Runners -> [phase : {"idle", "start", "connecting", "sent"},
                                      try : 0..MaxTries]]
      BY <1>1 DEF StartCall, Inv, TypeOK
    <2> QED
      BY <2>1, <2>2, LoopKeepsInv
  <1>2. ASSUME NEW r \in Runners, CallConnects(r) PROVE Inv'
    <2>1. closed # "yes"
      BY <1>2 DEF CallConnects, Inv, Links, ClosedClient
    <2>2. runner' \in [Runners -> [phase : {"idle", "start", "connecting", "sent"},
                                   try : 0..MaxTries]]
      BY <1>2 DEF CallConnects, Inv, TypeOK
    <2>3. /\ Connects /\ UNCHANGED <<socket, closed, call, hasSent, broker>>
          /\ reconnecting' \in {"no", "due", "connecting"}
      BY <1>2 DEF CallConnects, Inv, TypeOK
    <2> QED
      BY <2>1, <2>2, <2>3, ConnectsKeepsInv
  <1>3. ASSUME NEW r \in Runners, GivesUp(r) PROVE Inv'
    BY <1>0, <1>3, ReturnKeepsInv DEF GivesUp
  <1>4. ASSUME NEW cleanup \in BOOLEAN, Close(cleanup) PROVE Inv'
    <2>1. CASE cleanup /\ hasSent
      <3>1. runner' \in [Runners -> [phase : {"idle", "start", "connecting", "sent"},
                                     try : 0..MaxTries]]
        BY <1>4, <2>1 DEF Close, Inv, TypeOK
      <3>2. /\ UNCHANGED <<conn, socket, opening, broker>> /\ closed # "yes"
            /\ closed' \in {"no", "closing"} /\ hasSent' \in BOOLEAN
            /\ call' \in 0..MaxCalls /\ reconnecting' \in {"no", "due", "connecting"}
        BY <1>4, <2>1 DEF Close, Inv, TypeOK
      <3> QED
        BY <3>1, <3>2, LoopKeepsInv
    <2>2. CASE ~(cleanup /\ hasSent)
      BY <1>0, <1>4, <2>2, ShutKeepsInv DEF Close
    <2> QED
      BY <2>1, <2>2
  <1>5. ASSUME Reconnect PROVE Inv'
    <2>1. closed # "yes"
      BY <1>5 DEF Reconnect, Inv, Links, ClosedClient
    <2>2. /\ UNCHANGED <<socket, closed, call, hasSent, broker>>
          /\ runner' \in [Runners -> [phase : {"idle", "start", "connecting", "sent"},
                                      try : 0..MaxTries]]
          /\ reconnecting' \in {"no", "due", "connecting"}
          /\ closed' \in {"no", "closing"}
          /\ hasSent' \in BOOLEAN /\ call' \in 0..MaxCalls
          /\ UNCHANGED <<conn, opening>> \/ Connects
      BY <1>5, <2>1 DEF Reconnect, Inv, TypeOK
    <2>3. CASE UNCHANGED <<conn, opening>>
      BY <2>1, <2>2, <2>3, LoopKeepsInv
    <2>4. CASE Connects
      BY <2>1, <2>2, <2>4, ConnectsKeepsInv
    <2> QED
      BY <2>2, <2>3, <2>4
  <1> QED
    BY <1>1, <1>2, <1>3, <1>4, <1>5, SendOnceKeepsInv

-----------------------------------------------------------------------------
(* Lines for the client *)

\* What the client reads keeps the invariant.
LEMMA ClientReadsKeepInv ==
    ASSUME Inv, NEW c \in Conns
    PROVE  HearsReady(c) \/ HearsClosed(c) \/ HearsAnswer(c) => Inv'
  <1>0. ASSUME NEW kind, Hears(c, kind)
        PROVE  /\ conn[c].client = "up" /\ closed # "yes"
               /\ SameEnds(conn, Heard(c))
               /\ opening = c => \A d \in Conns : conn[d].client # "connecting"
    <2>1. conn[c].client = "up" /\ conn[c].down # <<>>
      BY <1>0 DEF Hears
    <2>2. SameEnds(conn, Heard(c))
      BY <2>1, HeardSocket DEF SameEnds, Inv
    <2> QED
      BY <2>1, <2>2, AdapterAssumption DEF Inv, Links, ClosedClient, ClientSockets
  <1>1. ASSUME HearsReady(c) PROVE Inv'
    <2>1. /\ SameEnds(conn, conn') /\ closed # "yes"
          /\ opening = c => \A d \in Conns : conn[d].client # "connecting"
      BY <1>0, <1>1 DEF HearsReady
    <2>2. opening' \in {opening} \/ (opening = c /\ opening' = None)
      BY <1>1 DEF HearsReady
    <2>3. runner' \in [Runners -> [phase : {"idle", "start", "connecting", "sent"},
                                   try : 0..MaxTries]]
      BY <1>1 DEF HearsReady, Inv, TypeOK
    <2>4. /\ UNCHANGED <<socket, closed, adapter, timers, revoked>>
          /\ hasSent' \in BOOLEAN /\ call' \in 0..MaxCalls /\ chain' \in Seq(Lines)
          /\ reconnecting' \in {"no", "due", "connecting"}
      BY <1>1 DEF HearsReady, broker, Inv, TypeOK
    <2> QED
      BY <2>1, <2>2, <2>3, <2>4, LinesKeepInv
  <1>2. ASSUME HearsClosed(c) PROVE Inv'
    BY <1>0, <1>2, ShutKeepsInv DEF HearsClosed
  <1>3. ASSUME HearsAnswer(c) PROVE Inv'
    <2>1. SameEnds(conn, Heard(c)) /\ UNCHANGED broker
      BY <1>0, <1>3 DEF HearsAnswer
    <2>2. \/ conn' = Heard(c) /\ UNCHANGED client
          \/ \E r \in Runners : Return(r, Heard(c)) /\ UNCHANGED <<call, hasSent>>
      BY <1>3 DEF HearsAnswer
    <2>3. CASE conn' = Heard(c) /\ UNCHANGED client
      BY <2>1, <2>3, LinesKeepInv DEF client, broker, Inv, TypeOK
    <2>4. CASE \E r \in Runners : Return(r, Heard(c)) /\ UNCHANGED <<call, hasSent>>
      BY <2>1, <2>4, ReturnKeepsInv
    <2> QED
      BY <2>2, <2>3, <2>4
  <1> QED
    BY <1>1, <1>2, <1>3

-----------------------------------------------------------------------------
(* The broker *)

\* The broker reads a line: the lines that are left are lines.
LEMMA ReadSocket ==
    ASSUME Inv, NEW c \in Conns, NEW kind, Reads(c, kind)
    PROVE  /\ Head(conn[c].up) \in Lines
           /\ [conn[c] EXCEPT !.up = Tail(@)] \in Sockets
           /\ conn[c].broker = "open"
           /\ conn[c].client # "connecting"
  <1>1. Head(conn[c].up) \in Lines /\ Tail(conn[c].up) \in Seq(Lines)
    BY ReadLine DEF Inv, TypeOK, Sockets, Reads
  <1>2. [conn[c] EXCEPT !.up = Tail(@)] \in Sockets
    BY <1>1 DEF Inv, TypeOK, Sockets
  <1> QED
    BY <1>1, <1>2 DEF Reads, Inv, Links, ClientSockets

\* A step of the broker that leaves the client's end of every socket alone.
LEMMA BrokerStepKeepsInv ==
    ASSUME Inv, UNCHANGED client,
           conn' \in [Conns -> Sockets],
           \A d \in Conns :
              /\ conn'[d].client = conn[d].client /\ (conn[d].cut => conn'[d].cut)
              /\ conn[d].client = "connecting" =>
                    /\ conn'[d].broker = conn[d].broker /\ ~conn'[d].greeted
                    /\ adapter' # d,
           adapter' \in Conns \cup {None}, revoked' \in BOOLEAN, chain' \in Seq(Lines),
           timers' \subseteq Conns,
           BrokerSockets', RevokedIsOut'
    PROVE  Inv'
  <1>1. TypeOK'
    BY DEF Inv, TypeOK, client
  <1>2. ClientSockets' /\ ClosedClient'
    BY DEF Inv, TypeOK, Links, ClientSockets, ClosedClient, client
  <1> QED
    BY <1>1, <1>2 DEF Inv, Links

\* The session moves to the socket of the hello; its former socket is destroyed.
LEMMA AcceptHelloKeepsInv ==
    ASSUME Inv, NEW c \in Conns, AcceptHello(c)
    PROVE  Inv'
  <1> DEFINE s == [[conn[c] EXCEPT !.up = Tail(@)] EXCEPT !.greeted = TRUE]
             t == Tell(s, Line("ready"))
             told == [conn EXCEPT ![c] = t]
  <1>1. /\ [conn[c] EXCEPT !.up = Tail(@)] \in Sockets
        /\ conn[c].broker = "open" /\ conn[c].client # "connecting"
    BY ReadSocket DEF AcceptHello
  <1>2. s \in Sockets /\ s.client = conn[c].client /\ s.broker = "open" /\ s.cut = conn[c].cut
    BY <1>1 DEF Sockets
  <1>3. conn' = IF adapter = None \/ conn[adapter].broker = "none" THEN told
                ELSE [told EXCEPT ![adapter] = Destroyed(@)]
    <2> DEFINE read == [conn EXCEPT ![c].up = Tail(@), ![c].greeted = TRUE]
    <2>1. conn' = IF adapter = None \/ conn[adapter].broker = "none"
                  THEN [read EXCEPT ![c] = Tell(@, Line("ready"))]
                  ELSE [[read EXCEPT ![c] = Tell(@, Line("ready"))]
                            EXCEPT ![adapter] = Destroyed(@)]
      BY DEF AcceptHello
    <2>2. read = [conn EXCEPT ![c] = s]
      BY DEF Inv, TypeOK
    <2>3. read[c] = s
      BY <2>2 DEF Inv, TypeOK
    <2> HIDE DEF s, read
    <2>4. [read EXCEPT ![c] = Tell(@, Line("ready"))] = told
      BY <2>2, <2>3 DEF Inv, TypeOK
    <2> QED
      BY <2>1, <2>4
  <1> HIDE DEF s
  <1>4. t \in Sockets /\ t.client = conn[c].client /\ t.broker = "open" /\ t.cut = conn[c].cut
    BY <1>2, LineTypes, ToldSocket
  <1> HIDE DEF t
  <1>5. /\ told \in [Conns -> Sockets] /\ told[c] = t
        /\ \A d \in Conns \ {c} : told[d] = conn[d]
    BY <1>4, OneSocket DEF Inv, TypeOK
  <1> HIDE DEF told
  <1>6. /\ conn' \in [Conns -> Sockets]
        /\ \A d \in Conns : conn'[d].client = conn[d].client /\ (conn[d].cut => conn'[d].cut)
        /\ \A d \in Conns \ {c, adapter} : conn'[d] = conn[d]
        /\ adapter # None /\ adapter # c => conn'[adapter].broker = "none"
                                            /\ conn'[adapter].greeted = conn[adapter].greeted
    <2>1. CASE adapter = None \/ conn[adapter].broker = "none"
      <3>1. conn' = told
        BY <1>3, <2>1
      <3> QED
        BY <2>1, <3>1, <1>4, <1>5 DEF Inv, TypeOK
    <2>2. CASE ~(adapter = None \/ conn[adapter].broker = "none")
      <3>1. conn' = [told EXCEPT ![adapter] = Destroyed(told[adapter])] /\ adapter \in Conns
        BY <1>3, <2>2 DEF Inv, TypeOK
      <3>2. /\ Destroyed(told[adapter]) \in Sockets
            /\ Destroyed(told[adapter]).broker = "none"
            /\ Destroyed(told[adapter]).client = told[adapter].client
            /\ Destroyed(told[adapter]).greeted = told[adapter].greeted
            /\ Destroyed(told[adapter]).cut
        BY <3>1, <1>5, DestroyedSocket
      <3> QED
        BY <3>1, <3>2, <1>4, <1>5, OneSocket
    <2> QED
      BY <2>1, <2>2
  <1>7. adapter' = c /\ timers' = timers \ {adapter} /\ ~revoked /\ revoked' = revoked
        /\ chain' = chain /\ UNCHANGED client
    BY DEF AcceptHello
  <1>8. timers' = {}
    BY <1>7 DEF Inv, Links, BrokerSockets
  <1>9. BrokerSockets'
    <2>1. ASSUME NEW d \in Conns, conn'[d].broker = "open", conn'[d].greeted, ~conn'[d].cut
          PROVE  d = c
      <3>1. CASE d \in Conns \ {c, adapter}
        <4>1. conn'[d] = conn[d]
          BY <1>6, <3>1
        <4> QED
          BY <4>1, <3>1, <2>1 DEF Inv, Links, BrokerSockets
      <3>2. CASE d = adapter /\ d # c
        BY <1>6, <2>1, <3>2, AdapterAssumption
      <3> QED
        BY <3>1, <3>2
    <2> QED
      BY <1>7, <1>8, <2>1 DEF BrokerSockets
  <1>10. \A d \in Conns : conn[d].client = "connecting" =>
            /\ conn'[d].broker = conn[d].broker /\ ~conn'[d].greeted /\ adapter' # d
    BY <1>1, <1>6, <1>7 DEF Inv, TypeOK, Links, ClientSockets
  <1> QED
    BY <1>6, <1>7, <1>8, <1>9, <1>10, BrokerStepKeepsInv DEF Inv, TypeOK, RevokedIsOut

\* The other steps of the broker change at most one socket, which connects no more
\* and is not greeted by them, and leave the session at most without a socket.
LEMMA BrokerSocketKeepsInv ==
    ASSUME Inv, NEW c \in Conns, NEW s \in Sockets,
           conn' = [conn EXCEPT ![c] = s],
           s.client = conn[c].client, s.greeted = conn[c].greeted,
           s.broker = conn[c].broker \/ (s.broker = "none" /\ conn[c].client # "connecting"),
           s.cut \/ s.cut = conn[c].cut,
           UNCHANGED client, chain' \in Seq(Lines), revoked' \in BOOLEAN,
           \/ adapter' = adapter /\ revoked' = revoked
           \/ adapter' = None /\ (adapter = c => s.cut \/ s.broker = "none") /\ adapter \in {c, None},
           timers' \subseteq Conns,
           \A d \in timers' : adapter' = d /\ (d \in timers \/ (d = c /\ s.broker = "none"))
    PROVE  Inv'
  <1>1. /\ conn' \in [Conns -> Sockets] /\ conn'[c] = s
        /\ \A d \in Conns \ {c} : conn'[d] = conn[d]
    BY OneSocket DEF Inv, TypeOK
  <1>2. RevokedIsOut'
    BY DEF Inv, Links, RevokedIsOut
  <1>3. BrokerSockets'
    BY <1>1, AdapterAssumption DEF Inv, TypeOK, Links, BrokerSockets
  <1>4. adapter' \in Conns \cup {None}
    BY DEF Inv, TypeOK
  <1>5. \A d \in Conns :
           /\ conn'[d].client = conn[d].client /\ (conn[d].cut => conn'[d].cut)
           /\ conn[d].client = "connecting" =>
                 /\ conn'[d].broker = conn[d].broker /\ ~conn'[d].greeted
                 /\ adapter' # d
    BY <1>1, AdapterAssumption DEF Inv, TypeOK, Links, ClientSockets
  <1> QED
    BY <1>1, <1>2, <1>3, <1>4, <1>5, BrokerStepKeepsInv

\* Every step of the broker and of the network.
LEMMA BrokerKeepsInv ==
    ASSUME Inv
    PROVE  /\ \A c \in Conns :
                 \/ AcceptHello(c) \/ RefuseHello(c) \/ AcceptRequest(c) \/ BrokerLoses(c)
                 \/ LinkFails(c) \/ \E cleanup \in BOOLEAN : GraceExpires(c, cleanup)
                 => Inv'
           /\ Executes \/ ExecuteThrows => Inv'
           /\ \A cleanup \in BOOLEAN : AdminDisconnects(cleanup) => Inv'
  <1> USE DEF Inv
  <1>0. /\ \A d \in Conns : conn[d] \in Sockets
        /\ adapter \in Conns \cup {None}
        /\ \A d \in timers : adapter = d /\ conn[d].broker = "none"
        /\ timers \subseteq Conns
    BY DEF TypeOK, Links, BrokerSockets
  <1>1. ASSUME NEW c \in Conns, RefuseHello(c) PROVE Inv'
    <2> DEFINE r == [[conn[c] EXCEPT !.up = Tail(@)] EXCEPT !.cut = TRUE]
               s == Tell(r, Line("closed"))
    <2>1. [conn[c] EXCEPT !.up = Tail(@)] \in Sockets
      BY <1>1, ReadSocket DEF RefuseHello
    <2>2. /\ r \in Sockets /\ r.client = conn[c].client /\ r.broker = conn[c].broker
          /\ r.greeted = conn[c].greeted /\ r.cut
      BY <2>1 DEF Sockets
    <2>3. conn' = [conn EXCEPT ![c] = s]
      <3>1. [conn[c] EXCEPT !.up = Tail(@), !.cut = TRUE] = r
        BY <1>0 DEF Sockets
      <3>2. conn' = [conn EXCEPT ![c] = Tell([conn[c] EXCEPT !.up = Tail(@), !.cut = TRUE],
                                             Line("closed"))]
        BY <1>1 DEF RefuseHello
      <3> QED
        BY <3>1, <3>2
    <2> HIDE DEF r
    <2>4. /\ s \in Sockets /\ s.client = conn[c].client /\ s.broker = conn[c].broker
          /\ s.greeted = conn[c].greeted /\ s.cut
      BY <2>2, LineTypes, ToldSocket
    <2> HIDE DEF s
    <2>5. UNCHANGED <<client, adapter, timers, revoked, chain>>
      BY <1>1 DEF RefuseHello, broker
    <2> QED
      BY <1>0, <2>3, <2>4, <2>5, BrokerSocketKeepsInv DEF TypeOK
  <1>2. ASSUME NEW c \in Conns, AcceptRequest(c) PROVE Inv'
    <2> DEFINE s == IF conn[c].greeted THEN [conn[c] EXCEPT !.up = Tail(@)]
                    ELSE Destroyed(conn[c])
    <2>1. /\ [conn[c] EXCEPT !.up = Tail(@)] \in Sockets /\ Head(conn[c].up) \in Lines
          /\ conn[c].client # "connecting"
      BY <1>2, ReadSocket DEF AcceptRequest
    <2>2. /\ s \in Sockets /\ s.client = conn[c].client
          /\ s.broker \in {conn[c].broker, "none"}
          /\ s.greeted = conn[c].greeted /\ (s.cut \/ s.cut = conn[c].cut)
      BY <1>0, <2>1, DestroyedSocket DEF Sockets
    <2>3. conn' = [conn EXCEPT ![c] = s]
      BY <1>2, <1>0 DEF AcceptRequest, TypeOK
    <2> HIDE DEF s
    <2>4. chain' \in Seq(Lines)
      BY <1>2, <2>1 DEF AcceptRequest, TypeOK
    <2>5. UNCHANGED <<client, adapter, timers, revoked>>
      BY <1>2 DEF AcceptRequest
    <2> QED
      BY <1>0, <2>1, <2>2, <2>3, <2>4, <2>5, BrokerSocketKeepsInv DEF TypeOK
  <1>3. ASSUME NEW c \in Conns, BrokerLoses(c) PROVE Inv'
    <2> DEFINE s == Destroyed(conn[c])
    <2>1. /\ s \in Sockets /\ s.client = conn[c].client /\ s.broker = "none"
          /\ s.greeted = conn[c].greeted /\ s.cut
      BY <1>0, DestroyedSocket
    <2>2. conn' = [conn EXCEPT ![c] = s]
      BY <1>3 DEF BrokerLoses
    <2> HIDE DEF s
    <2>3. conn[c].client # "connecting"
      BY <1>3 DEF BrokerLoses, Links, ClientSockets
    <2>4. /\ UNCHANGED <<client, adapter, revoked, chain>>
          /\ timers' = IF adapter = c THEN timers \cup {c} ELSE timers
      BY <1>3 DEF BrokerLoses
    <2> QED
      BY <1>0, <2>1, <2>2, <2>3, <2>4, BrokerSocketKeepsInv DEF TypeOK
  <1>4. ASSUME NEW c \in Conns, LinkFails(c) PROVE Inv'
    <2> DEFINE s == [conn[c] EXCEPT !.cut = TRUE]
    <2>1. /\ s \in Sockets /\ s.client = conn[c].client /\ s.broker = conn[c].broker
          /\ s.greeted = conn[c].greeted /\ s.cut
      BY <1>0 DEF Sockets
    <2>2. conn' = [conn EXCEPT ![c] = s]
      BY <1>4 DEF LinkFails, TypeOK
    <2> HIDE DEF s
    <2>3. UNCHANGED <<client, adapter, timers, revoked, chain>>
      BY <1>4 DEF LinkFails, broker
    <2> QED
      BY <1>0, <2>1, <2>2, <2>3, BrokerSocketKeepsInv DEF TypeOK
  <1>5. ASSUME NEW c \in Conns, NEW cleanup \in BOOLEAN, GraceExpires(c, cleanup) PROVE Inv'
    <2>1. c \in timers /\ adapter = c /\ conn[c].broker = "none"
      BY <1>0, <1>5 DEF GraceExpires
    <2>2. /\ adapter' = None /\ timers' = timers \ {c} /\ UNCHANGED <<conn, client, revoked>>
      BY <1>5, <2>1 DEF GraceExpires, Finalize
    <2>3. chain' \in Seq(Lines)
      <3>1. Line("closed") \in Lines
        BY LineTypes
      <3>2. chain \in Seq(Lines) /\ (chain' = chain \/ chain' = Append(chain, Line("closed")))
        BY <1>0, <1>5, <2>1 DEF GraceExpires, Finalize, TypeOK
      <3> QED
        BY <3>1, <3>2
    <2>4. conn' = [conn EXCEPT ![c] = conn[c]]
      BY <2>2 DEF TypeOK
    <2>5. timers' = {} /\ revoked' \in BOOLEAN
      BY <1>0, <2>1, <2>2 DEF TypeOK
    <2> QED
      BY <1>0, <2>1, <2>2, <2>3, <2>4, <2>5, BrokerSocketKeepsInv
  <1>6. ASSUME Executes PROVE Inv'
    <2>1. Head(chain) \in Lines /\ Tail(chain) \in Seq(Lines)
      BY <1>6, ReadLine DEF Executes, TypeOK
    <2> DEFINE answer == [kind |-> "answer", id |-> Head(chain).id]
    <2>2. answer \in Lines
      BY <2>1 DEF Lines
    <2>3. /\ chain' = Tail(chain) /\ UNCHANGED <<client, adapter, timers, revoked>>
          /\ \/ conn' = conn
             \/ adapter # None /\ conn' = [conn EXCEPT ![adapter] = Tell(conn[adapter], answer)]
      BY <1>6 DEF Executes
    <2> HIDE DEF answer
    <2>4. CASE conn' = conn
      <3>1. SameEnds(conn, conn')
        BY <2>4 DEF SameEnds, TypeOK
      <3> QED
        BY <2>1, <2>3, <3>1, LinesKeepInv DEF client, TypeOK
    <2>5. CASE adapter # None /\ conn' = [conn EXCEPT ![adapter] = Tell(conn[adapter], answer)]
      <3>1. adapter \in Conns /\ conn[adapter] \in Sockets
        BY <1>0, <2>5
      <3> DEFINE s == Tell(conn[adapter], answer)
      <3>2. /\ s \in Sockets /\ s.client = conn[adapter].client /\ s.broker = conn[adapter].broker
            /\ s.cut = conn[adapter].cut /\ s.greeted = conn[adapter].greeted
        BY <2>2, <3>1, ToldSocket
      <3> HIDE DEF s
      <3>3. conn' = [conn EXCEPT ![adapter] = s]
        BY <2>5 DEF s
      <3>4. /\ chain' \in Seq(Lines) /\ revoked' \in BOOLEAN /\ UNCHANGED client
            /\ adapter' = adapter /\ revoked' = revoked
            /\ timers' \subseteq Conns
            /\ \A d \in timers' : adapter' = d /\ d \in timers
        BY <1>0, <2>1, <2>3 DEF TypeOK
      <3> QED
        BY <3>1, <3>2, <3>3, <3>4, BrokerSocketKeepsInv
    <2> QED
      BY <2>3, <2>4, <2>5
  <1>7. ASSUME ExecuteThrows PROVE Inv'
    <2>1. Tail(chain) \in Seq(Lines)
      BY <1>7, ReadLine DEF ExecuteThrows, TypeOK
    <2>2. /\ chain' = Tail(chain) /\ UNCHANGED <<client, adapter, timers, revoked>>
          /\ conn' = IF adapter = None THEN conn ELSE [conn EXCEPT ![adapter].cut = TRUE]
      BY <1>7 DEF ExecuteThrows
    <2>3. CASE adapter = None
      <3>1. SameEnds(conn, conn')
        BY <2>2, <2>3 DEF SameEnds, TypeOK
      <3> QED
        BY <2>1, <2>2, <3>1, LinesKeepInv DEF client, TypeOK
    <2>4. CASE adapter # None
      <3> DEFINE s == [conn[adapter] EXCEPT !.cut = TRUE]
      <3>1. adapter \in Conns /\ conn' = [conn EXCEPT ![adapter] = s]
        BY <1>0, <2>2, <2>4 DEF TypeOK
      <3>2. /\ s \in Sockets /\ s.client = conn[adapter].client /\ s.broker = conn[adapter].broker
            /\ s.cut /\ s.greeted = conn[adapter].greeted
        BY <1>0, <3>1 DEF Sockets
      <3> HIDE DEF s
      <3>4. /\ chain' \in Seq(Lines) /\ revoked' \in BOOLEAN /\ UNCHANGED client
            /\ adapter' = adapter /\ revoked' = revoked
            /\ timers' \subseteq Conns
            /\ \A d \in timers' : adapter' = d /\ d \in timers
        BY <1>0, <2>1, <2>2 DEF TypeOK
      <3> QED
        BY <3>1, <3>2, <3>4, BrokerSocketKeepsInv
    <2> QED
      BY <2>3, <2>4
  <1>8. ASSUME NEW cleanup \in BOOLEAN, AdminDisconnects(cleanup) PROVE Inv'
    <2> DEFINE r == [conn[adapter] EXCEPT !.cut = TRUE]
               s == IF conn[adapter].broker = "none" THEN conn[adapter]
                    ELSE Tell(r, Line("closed"))
    <2>1. adapter \in Conns /\ conn[adapter] \in Sockets /\ Line("closed") \in Lines
      BY <1>0, <1>8, LineTypes DEF AdminDisconnects
    <2>2. r \in Sockets /\ r.client = conn[adapter].client /\ r.broker = conn[adapter].broker
          /\ r.cut /\ r.greeted = conn[adapter].greeted
      BY <2>1 DEF Sockets
    <2>3. conn' = [conn EXCEPT ![adapter] = s]
      BY <1>8, <2>1 DEF AdminDisconnects, TypeOK
    <2> HIDE DEF r
    <2>4. /\ s \in Sockets /\ s.client = conn[adapter].client /\ s.broker = conn[adapter].broker
          /\ (s.broker = "none" \/ s.cut) /\ (s.cut \/ s.cut = conn[adapter].cut)
          /\ s.greeted = conn[adapter].greeted
      BY <2>1, <2>2, ToldSocket
    <2> HIDE DEF s
    <2>5. /\ adapter' = None /\ timers' = timers \ {adapter} /\ UNCHANGED client
          /\ revoked' = TRUE /\ chain' \in Seq(Lines)
      BY <1>8, <2>1 DEF AdminDisconnects, Finalize, TypeOK
    <2>6. timers' = {}
      BY <1>0, <2>5
    <2> QED
      BY <2>1, <2>3, <2>4, <2>5, <2>6, BrokerSocketKeepsInv
  <1> QED
    BY <1>1, <1>2, <1>3, <1>4, <1>5, <1>6, <1>7, <1>8, AcceptHelloKeepsInv

-----------------------------------------------------------------------------
(* The theorems *)

\* The initial states.
LEMMA InitInv == Init => Inv
  <1> SUFFICES ASSUME Init PROVE Inv
    OBVIOUS
  <1>1. conn \in [Conns -> Sockets]
    BY LineTypes DEF Init
  <1>2. runner \in [Runners -> [phase : {"idle", "start", "connecting", "sent"},
                                try : 0..MaxTries]]
    BY AdapterAssumption DEF Init, Resting
  <1>3. TypeOK
    <2>1. << >> \in Seq(Lines)
      OBVIOUS
    <2>2. call \in 0..MaxCalls
      BY AdapterAssumption DEF Init
    <2>3. chain \in Seq(Lines)
      BY <2>1 DEF Init
    <2> QED
      BY <1>1, <1>2, <2>2, <2>3 DEF Init, TypeOK
  <1>4. Links
    BY DEF Init, Links, ClientSockets, ClosedClient, BrokerSockets, RevokedIsOut, NoSocket
  <1> QED
    BY <1>3, <1>4 DEF Inv

\* One step per action.
LEMMA NextInv == Inv /\ [Next]_vars => Inv'
  <1> SUFFICES ASSUME Inv, [Next]_vars PROVE Inv'
    OBVIOUS
  <1>1. CASE UNCHANGED vars
    BY <1>1 DEF vars, client, broker, Inv, TypeOK, Links, ClientSockets, ClosedClient,
                BrokerSockets, RevokedIsOut
  <1>2. CASE Next
    BY <1>2, ConnectedKeepsInv, ClientLosesKeepsInv, ClientReadsKeepInv, ClientLoopsKeepInv,
       BrokerKeepsInv DEF Next
  <1> QED
    BY <1>1, <1>2

\* The invariant of one session holds in every state (client, broker and network).
THEOREM AdapterSound == Spec => []Inv
  BY InitInv, NextInv, PTL DEF Spec

\* Every variable keeps its type, also with every socket in use, every attempt made
\* and the chain at its bound.
THEOREM AdapterTypeCorrect == Spec => []TypeOK
  <1>1. Inv => TypeOK
    BY DEF Inv
  <1> QED
    BY <1>1, AdapterSound, PTL

\* Neither end leaks a socket: not ensureConnected when calls and reconnectForever
\* race for it, not close() and closeFromBroker in the middle of an attempt, not a
\* hello that takes the session over from a socket that is still open.
THEOREM SocketsAreReleased == Spec => []NoLeakedSocket
  <1>1. Inv => NoLeakedSocket
    <2> SUFFICES ASSUME Inv, NEW c \in Conns
                 PROVE  /\ conn[c].client # "none" => c \in {socket, opening}
                        /\ closed = "yes" => conn[c].client = "none"
                        /\ conn[c].broker = "open" /\ conn[c].greeted /\ ~conn[c].cut
                              => adapter = c
      BY DEF NoLeakedSocket
    <2>1. conn[c].client \in {"none", "connecting", "up"}
      BY DEF Inv, TypeOK, Sockets
    <2> QED
      BY <2>1 DEF Inv, Links, ClientSockets, ClosedClient, BrokerSockets
  <1> QED
    BY <1>1, AdapterSound, PTL

\* The chain of a disconnected session only runs out.
LEMMA RevokedChainShrinks ==
    ASSUME Inv, Next, revoked
    PROVE  Len(chain') <= Len(chain)
  <1>1. adapter = None /\ timers = {}
    BY AdapterAssumption DEF Inv, TypeOK, Links, RevokedIsOut, BrokerSockets
  <1>2. Len(chain) \in Nat
    BY LenProperties DEF Inv, TypeOK
  <1>3. ASSUME chain # <<>>, chain' = Tail(chain) PROVE Len(chain') <= Len(chain)
    BY <1>3, ReadLine DEF Inv, TypeOK
  <1>4. ASSUME NEW c \in Conns, AcceptRequest(c) PROVE chain' = chain
    BY <1>1, <1>4, AdapterAssumption DEF AcceptRequest
  <1>5. \A c \in Conns, cleanup \in BOOLEAN : ~GraceExpires(c, cleanup)
    BY <1>1 DEF GraceExpires
  <1>6. \A cleanup \in BOOLEAN : ~AdminDisconnects(cleanup)
    BY <1>1 DEF AdminDisconnects
  <1>7. ASSUME Executes \/ ExecuteThrows PROVE Len(chain') <= Len(chain)
    BY <1>3, <1>7 DEF Executes, ExecuteThrows
  <1>8. ASSUME NEW c \in Conns,
               \/ Connected(c) \/ ClientLoses(c) \/ HearsReady(c) \/ HearsClosed(c)
               \/ HearsAnswer(c) \/ AcceptHello(c) \/ RefuseHello(c) \/ BrokerLoses(c)
               \/ LinkFails(c)
        PROVE  chain' = chain
    BY <1>8 DEF Connected, ClientLoses, HearsReady, HearsClosed, HearsAnswer, AcceptHello,
                RefuseHello, BrokerLoses, LinkFails, broker
  <1>9. ASSUME \/ StartCall \/ Reconnect
               \/ \E r \in Runners : CallConnects(r) \/ SendOnce(r) \/ GivesUp(r)
               \/ \E cleanup \in BOOLEAN : Close(cleanup)
        PROVE  chain' = chain
    BY <1>9 DEF StartCall, Reconnect, CallConnects, SendOnce, GivesUp, Close, broker
  <1> QED
    BY <1>2, <1>4, <1>5, <1>6, <1>7, <1>8, <1>9 DEF Next

\* A session that broker_disconnect_session ended gets no more work in, whichever of
\* its lines and timers are still under way: a line of its old socket, a hello of a
\* new one, the end of the grace period.
THEOREM DisconnectedStaysOut == Spec => NoLateWork
  <1>1. Inv /\ [Next]_vars => [revoked => Len(chain') <= Len(chain)]_vars
    BY RevokedChainShrinks DEF vars, broker
  <1> QED
    BY <1>1, AdapterSound, PTL DEF Spec, NoLateWork

=============================================================================
