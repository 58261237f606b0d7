---------------------------- MODULE AdapterSession ----------------------------
(***************************************************************************)
(* One adapter session: the reconnecting client (src/mcp/broker-client.ts) *)
(* and the adapter side of the broker (src/host/broker.ts), with the       *)
(* sockets between them.  Calls are made in order, replayed when their     *)
(* connection is lost and given up when they take too long; the broker     *)
(* keeps a lost session for a grace period and an administrator may        *)
(* disconnect it for good.                                                 *)
(*                                                                         *)
(* A socket's two ends notice its loss at different times, and until then  *)
(* read what was sent before.  Lines of different sockets are not ordered. *)
(***************************************************************************)
EXTENDS Naturals, Sequences

CONSTANTS Conns,    \* sockets; one is used again when both ends are done with it
          None,     \* no socket
          MaxCalls, \* bound on the calls of the application
          MaxTries, \* bound on the attempts a call makes before its deadline
          MaxChain  \* bound on the chain when a lost session's time runs out

ASSUME AdapterAssumption ==
    /\ None \notin Conns
    /\ MaxCalls \in Nat /\ MaxTries \in Nat \ {0} /\ MaxChain \in Nat

VARIABLES
    conn,         \* the sockets
    socket,       \* client: this.socket
    opening,      \* client: the socket connectPromise is about
    closed,       \* client: "closing" is close() waiting for its vm_unlock
    reconnecting, \* client: where reconnectForever is
    runner,       \* client: where requestWithRecovery is, for a call and for
                  \* the vm_unlock of close()
    call,         \* client: the call at the head of requestChain
    hasSent,      \* client: hasSentRequest
    adapter,      \* broker: the socket in the adapters map
    timers,       \* broker: sockets with a cleanupTimer
    revoked,      \* broker: the session is in revokedAdapterSessions
    chain         \* broker: adapterRequestChains, the first entry under way

client == <<socket, opening, closed, reconnecting, runner, call, hasSent>>
broker == <<adapter, timers, revoked, chain>>
vars == <<conn, client, broker>>

\* An attempt of a call; call 0 is the vm_unlock of close().
Attempts == (0..MaxCalls) \X (0..MaxTries)
NoAttempt == <<0, 0>>

Lines == [kind : {"hello", "request", "ready", "closed", "answer"}, id : Attempts]
Line(kind) == [kind |-> kind, id |-> NoAttempt]

\* cut: the socket is dead or about to be, unnoticed by the ends that are open.
Sockets == [client : {"none", "connecting", "up"}, broker : {"none", "open"},
            cut : BOOLEAN, greeted : BOOLEAN, up : Seq(Lines), down : Seq(Lines)]

NoSocket == [client |-> "none", broker |-> "none", cut |-> FALSE, greeted |-> FALSE,
             up |-> <<>>, down |-> <<>>]

Runners == {"call", "unlock"}
Resting == [phase |-> "idle", try |-> 0]

Init ==
    /\ conn = [c \in Conns |-> NoSocket]
    /\ socket = None /\ opening = None
    /\ closed = "no" /\ reconnecting = "no"
    /\ runner = [r \in Runners |-> Resting]
    /\ call = 0 /\ hasSent = FALSE
    /\ adapter = None /\ timers = {} /\ revoked = FALSE
    /\ chain = <<>>

-----------------------------------------------------------------------------
(* The client's sockets *)

Unused(c) == conn[c].client = "none" /\ conn[c].broker = "none" /\ adapter # c

\* The client's end is gone: what the broker has sent is lost, what the client
\* has sent may still arrive.
Dropped(s) == [s EXCEPT !.client = "none", !.cut = TRUE, !.down = <<>>,
                        !.up = IF s.broker = "none" THEN <<>> ELSE @]

\* ensureConnected without a usable socket, that is without one or with one that is
\* dead and whose close event is still to come: join the attempt under way, or open
\* a socket.
Connects ==
    /\ socket # None => conn[socket].cut
    /\ \/ opening # None /\ UNCHANGED <<conn, opening>>
       \/ /\ opening = None
          /\ \E c \in Conns :
                /\ Unused(c)
                /\ conn' = [conn EXCEPT ![c] = [NoSocket EXCEPT !.client = "connecting"]]
                /\ opening' = c

\* The socket's connect event: attach it and send the hello.  If it takes the place
\* of a dead one, that one's lines and close event are ignored (handleData,
\* handleDisconnect), and what is pending on it is not told.
Connected(c) ==
    /\ conn[c].client = "connecting"
    /\ conn' = [d \in Conns |->
                  IF d = c THEN [conn[d] EXCEPT !.client = "up", !.broker = "open",
                                                !.up = <<Line("hello")>>]
                  ELSE IF d = socket /\ conn[d].cut THEN Dropped(conn[d])
                  ELSE conn[d]]
    /\ socket' = c
    /\ UNCHANGED <<opening, closed, reconnecting, runner, call, hasSent, broker>>

\* Mutant: a connection attempt that fails is not reported to those who wait.
InterruptedPendingOnly(c) ==
    [r \in Runners |->
        IF socket = c /\ runner[r].phase = "sent"
        THEN [runner[r] EXCEPT !.phase = "start"] ELSE runner[r]]

\* What waits for the connection attempt, if it fails with the socket, and what
\* is pending on the socket go back to the top of their loops.
Interrupted(c) ==
    [r \in Runners |->
        IF \/ opening = c /\ runner[r].phase = "connecting"
           \/ socket = c /\ runner[r].phase = "sent"
        THEN [runner[r] EXCEPT !.phase = "start"] ELSE runner[r]]

\* Mutant: a lost connection is only noticed by the next call.
ClientLosesQuietly(c) ==
    /\ conn[c].client # "none"
    /\ conn[c].cut \/ opening = c
    /\ conn' = [conn EXCEPT ![c] = Dropped(@)]
    /\ runner' = Interrupted(c)
    /\ reconnecting' = IF opening = c /\ reconnecting = "connecting" THEN "due"
                       ELSE reconnecting
    /\ opening' = IF opening = c THEN None ELSE opening
    /\ socket' = IF socket = c THEN None ELSE socket
    /\ UNCHANGED <<closed, call, hasSent, broker>>

\* The client's close event, a failed connect or a connect timeout.
ClientLoses(c) ==
    /\ conn[c].client # "none"
    /\ conn[c].cut \/ opening = c
    /\ conn' = [conn EXCEPT ![c] = Dropped(@)]
    /\ runner' = Interrupted(c)
    /\ reconnecting' = IF \/ opening = c /\ reconnecting = "connecting"
                          \/ socket = c /\ reconnecting = "no"
                       THEN "due" ELSE reconnecting
    /\ opening' = IF opening = c THEN None ELSE opening
    /\ socket' = IF socket = c THEN None ELSE socket
    /\ UNCHANGED <<closed, call, hasSent, broker>>

-----------------------------------------------------------------------------
(* The client's calls *)

\* Mutant: forgets the socket that is still connecting.
ShutAttachedOnly(s) ==
    /\ closed' = "yes" /\ socket' = None /\ opening' = None /\ reconnecting' = "no"
    /\ runner' = [r \in Runners |-> Resting]
    /\ conn' = [c \in Conns |-> IF c = socket THEN Dropped(s[c]) ELSE s[c]]

\* close() and closeFromBroker: every socket is given up and every call fails.
Shut(s) ==
    /\ closed' = "yes" /\ socket' = None /\ opening' = None /\ reconnecting' = "no"
    /\ runner' = [r \in Runners |-> Resting]
    /\ conn' = [c \in Conns |-> IF s[c].client = "none" THEN s[c] ELSE Dropped(s[c])]

\* requestWithRecovery returns or throws; close() goes on after its vm_unlock.
Return(r, s) ==
    IF r = "unlock" THEN Shut(s)
    ELSE /\ runner' = [runner EXCEPT ![r] = Resting]
         /\ conn' = s
         /\ UNCHANGED <<socket, opening, closed, reconnecting>>

\* request: calls wait in requestChain for the one before.
StartCall ==
    /\ closed # "yes" /\ runner["call"].phase = "idle" /\ call < MaxCalls
    /\ call' = call + 1
    /\ runner' = [runner EXCEPT !["call"].phase = "start"]
    /\ UNCHANGED <<conn, socket, opening, closed, reconnecting, hasSent, broker>>

CallConnects(r) ==
    /\ runner[r].phase = "start" /\ Connects
    /\ runner' = [runner EXCEPT ![r].phase = "connecting"]
    /\ UNCHANGED <<socket, closed, reconnecting, call, hasSent, broker>>

Attempt(r, try) == <<IF r = "call" THEN call ELSE 0, try>>

\* Mutant: replays without regard to the deadline.
SendOnceForever(r) ==
    /\ runner[r].phase = "start" /\ socket # None
    /\ runner' = [runner EXCEPT ![r] = [phase |-> "sent", try |-> @.try + 1]]
    /\ conn' = [conn EXCEPT ![socket].up =
                   Append(@, [kind |-> "request", id |-> Attempt(r, runner[r].try + 1)])]
    /\ hasSent' = TRUE
    /\ UNCHANGED <<socket, opening, closed, reconnecting, call, broker>>

\* sendOnce, on a socket that is attached; the broker may not have confirmed
\* the session on it yet.
SendOnce(r) ==
    /\ runner[r].phase = "start" /\ socket # None /\ runner[r].try < MaxTries
    /\ runner' = [runner EXCEPT ![r] = [phase |-> "sent", try |-> @.try + 1]]
    /\ conn' = [conn EXCEPT ![socket].up =
                   Append(@, [kind |-> "request", id |-> Attempt(r, runner[r].try + 1)])]
    /\ hasSent' = TRUE
    /\ UNCHANGED <<socket, opening, closed, reconnecting, call, broker>>

\* The request's timer, which is not replayed, or the deadline.
GivesUp(r) ==
    /\ runner[r].phase \in {"start", "sent"}
    /\ Return(r, conn)
    /\ UNCHANGED <<call, hasSent, broker>>

\* close: the vm_unlock does not wait for the calls in requestChain.
Close(cleanup) ==
    /\ closed = "no"
    /\ IF cleanup /\ hasSent
       THEN /\ closed' = "closing"
            /\ runner' = [runner EXCEPT !["unlock"].phase = "start"]
            /\ UNCHANGED <<conn, socket, opening, reconnecting>>
       ELSE Shut(conn)
    /\ UNCHANGED <<call, hasSent, broker>>

\* reconnectForever goes round until there is a socket.
Reconnect ==
    /\ reconnecting = "due"
    /\ \/ /\ socket # None
          /\ reconnecting' = "no"
          /\ UNCHANGED <<conn, opening>>
       \/ socket = None /\ Connects /\ reconnecting' = "connecting"
    /\ UNCHANGED <<socket, closed, runner, call, hasSent, broker>>

-----------------------------------------------------------------------------
(* Lines for the client *)

Hears(c, kind) ==
    /\ conn[c].client = "up" /\ conn[c].down # <<>>
    /\ Head(conn[c].down).kind = kind

Heard(c) == [conn EXCEPT ![c].down = Tail(@)]

\* broker_ready: what waits for the connection goes on.
HearsReady(c) ==
    /\ Hears(c, "ready")
    /\ conn' = Heard(c)
    /\ IF opening = c
       THEN /\ opening' = None
            /\ runner' = [r \in Runners |->
                  IF runner[r].phase = "connecting" THEN [runner[r] EXCEPT !.phase = "start"]
                  ELSE runner[r]]
            /\ reconnecting' = IF reconnecting = "connecting" THEN "no" ELSE reconnecting
       ELSE UNCHANGED <<opening, runner, reconnecting>>
    /\ UNCHANGED <<socket, closed, call, hasSent, broker>>

\* broker_session_closed
HearsClosed(c) ==
    /\ Hears(c, "closed")
    /\ Shut(Heard(c))
    /\ UNCHANGED <<call, hasSent, broker>>

\* An answer settles the attempt it belongs to, if that is pending.
HearsAnswer(c) ==
    /\ Hears(c, "answer")
    /\ LET mine == {r \in Runners : /\ runner[r].phase = "sent"
                                    /\ Attempt(r, runner[r].try) = Head(conn[c].down).id}
       IN  IF mine = {}
           THEN conn' = Heard(c) /\ UNCHANGED client
           ELSE /\ \E r \in mine : Return(r, Heard(c))
                /\ UNCHANGED <<call, hasSent>>
    /\ UNCHANGED broker

-----------------------------------------------------------------------------
(* The broker *)

Reads(c, kind) ==
    /\ conn[c].broker = "open" /\ conn[c].up # <<>>
    /\ Head(conn[c].up).kind = kind

\* The broker destroys its end; it reads no more.
Destroyed(s) == [s EXCEPT !.broker = "none", !.cut = TRUE, !.up = <<>>,
                          !.down = IF s.client = "none" THEN <<>> ELSE @]

Tell(s, line) == IF s.client = "none" THEN s ELSE [s EXCEPT !.down = Append(@, line)]

\* A hello puts its socket in the place of the session's former one.
AcceptHello(c) ==
    /\ Reads(c, "hello") /\ ~revoked
    /\ LET read == [conn EXCEPT ![c].up = Tail(@), ![c].greeted = TRUE]
           told == [read EXCEPT ![c] = Tell(@, Line("ready"))]
       IN  conn' = IF adapter = None \/ conn[adapter].broker = "none" THEN told
                   ELSE [told EXCEPT ![adapter] = Destroyed(@)]
    /\ adapter' = c
    /\ timers' = timers \ {adapter}
    /\ UNCHANGED <<client, revoked, chain>>

\* Mutant: drops the socket without a word.
RefuseHelloSilently(c) ==
    /\ Reads(c, "hello") /\ revoked
    /\ conn' = [conn EXCEPT ![c] = [@ EXCEPT !.up = Tail(@), !.cut = TRUE]]
    /\ UNCHANGED <<client, broker>>

\* A session an administrator disconnected is told again.
RefuseHello(c) ==
    /\ Reads(c, "hello") /\ revoked
    /\ conn' = [conn EXCEPT ![c] =
                   Tell([conn[c] EXCEPT !.up = Tail(@), !.cut = TRUE], Line("closed"))]
    /\ UNCHANGED <<client, broker>>

\* Mutant: accepts what any greeted socket sends.
AcceptRequestFromAny(c) ==
    /\ Reads(c, "request")
    /\ chain' = IF conn[c].greeted THEN Append(chain, Head(conn[c].up)) ELSE chain
    /\ conn' = IF conn[c].greeted THEN [conn EXCEPT ![c].up = Tail(@)]
               ELSE [conn EXCEPT ![c] = Destroyed(@)]
    /\ UNCHANGED <<client, adapter, timers, revoked>>

\* A request joins the session's chain, unless its socket is not the session's
\* any more; before a hello it is an error.
AcceptRequest(c) ==
    /\ Reads(c, "request")
    /\ chain' = IF conn[c].greeted /\ adapter = c THEN Append(chain, Head(conn[c].up))
                ELSE chain
    /\ conn' = IF conn[c].greeted THEN [conn EXCEPT ![c].up = Tail(@)]
               ELSE [conn EXCEPT ![c] = Destroyed(@)]
    /\ UNCHANGED <<client, adapter, timers, revoked>>

\* The request under way is done; its answer goes to the session's socket of
\* the moment.
Executes ==
    /\ chain # <<>>
    /\ chain' = Tail(chain)
    /\ LET answer == [kind |-> "answer", id |-> Head(chain).id]
       IN  conn' = IF \/ Head(chain).kind # "request" \/ adapter = None
                      \/ conn[adapter].broker = "none"
                   THEN conn ELSE [conn EXCEPT ![adapter] = Tell(@, answer)]
    /\ UNCHANGED <<client, adapter, timers, revoked>>

\* A request that throws takes the session's socket of the moment with it.
ExecuteThrows ==
    /\ chain # <<>> /\ Head(chain).kind = "request"
    /\ chain' = Tail(chain)
    /\ conn' = IF adapter = None THEN conn ELSE [conn EXCEPT ![adapter].cut = TRUE]
    /\ UNCHANGED <<client, adapter, timers, revoked>>

\* adapterClosed: only the session's own socket starts the grace period.
BrokerLoses(c) ==
    /\ conn[c].broker = "open" /\ conn[c].cut
    /\ conn' = [conn EXCEPT ![c] = Destroyed(@)]
    /\ timers' = IF adapter = c THEN timers \cup {c} ELSE timers
    /\ UNCHANGED <<client, adapter, revoked, chain>>

\* enqueueFinalSessionCleanup, if the session is the owner or in parallel mode.
Finalize(cleanup) ==
    /\ adapter' = None
    /\ timers' = timers \ {adapter}
    /\ chain' = IF cleanup THEN Append(chain, Line("closed")) ELSE chain

GraceExpires(c, cleanup) ==
    /\ c \in timers /\ Len(chain) < MaxChain
    /\ IF adapter = c THEN Finalize(cleanup)
       ELSE timers' = timers \ {c} /\ UNCHANGED <<adapter, chain>>
    /\ UNCHANGED <<conn, client, revoked>>

\* broker_disconnect_session: the socket is destroyed once the notice is out.
AdminDisconnects(cleanup) ==
    /\ adapter # None
    /\ revoked' = TRUE
    /\ Finalize(cleanup)
    /\ conn' = IF conn[adapter].broker = "none" THEN conn
               ELSE [conn EXCEPT ![adapter] = Tell([@ EXCEPT !.cut = TRUE], Line("closed"))]
    /\ UNCHANGED <<client>>

-----------------------------------------------------------------------------
(* The network *)

LinkFails(c) ==
    /\ conn[c].client = "up" /\ conn[c].broker = "open" /\ ~conn[c].cut
    /\ conn' = [conn EXCEPT ![c].cut = TRUE]
    /\ UNCHANGED <<client, broker>>

Next ==
    \/ \E c \in Conns :
          \/ Connected(c)
          \/ ClientLoses(c)
          \/ HearsReady(c)
          \/ HearsClosed(c)
          \/ HearsAnswer(c)
          \/ AcceptHello(c)
          \/ RefuseHello(c)
          \/ AcceptRequest(c)
          \/ BrokerLoses(c)
          \/ \E cleanup \in BOOLEAN : GraceExpires(c, cleanup)
          \/ LinkFails(c)
    \/ StartCall
    \/ \E r \in Runners : CallConnects(r) \/ SendOnce(r) \/ GivesUp(r)
    \/ \E cleanup \in BOOLEAN : Close(cleanup)
    \/ Reconnect
    \/ Executes
    \/ ExecuteThrows
    \/ \E cleanup \in BOOLEAN : AdminDisconnects(cleanup)

Spec == Init /\ [][Next]_vars

-----------------------------------------------------------------------------
\* Every variable keeps its type.
TypeOK ==
    /\ conn \in [Conns -> Sockets]
    /\ socket \in Conns \cup {None} /\ opening \in Conns \cup {None}
    /\ closed \in {"no", "closing", "yes"}
    /\ reconnecting \in {"no", "due", "connecting"}
    /\ runner \in [Runners -> [phase : {"idle", "start", "connecting", "sent"},
                               try : 0..MaxTries]]
    /\ call \in 0..MaxCalls /\ hasSent \in BOOLEAN
    /\ adapter \in Conns \cup {None} /\ timers \subseteq Conns
    /\ revoked \in BOOLEAN
    /\ chain \in Seq(Lines)

\* No socket leaks: the client's end of a socket is open only while the client
\* uses it or opens it, and a closed client has none; the broker keeps no
\* greeted socket alive that is not the session's.
NoLeakedSocket ==
    \A c \in Conns :
        /\ conn[c].client # "none" => c \in {socket, opening}
        /\ closed = "yes" => conn[c].client = "none"
        /\ conn[c].broker = "open" /\ conn[c].greeted /\ ~conn[c].cut => adapter = c

\* A session an administrator disconnected gets no more work in, whatever lines
\* of it are still on their way: its chain only runs out.
NoLateWork == [][revoked => Len(chain') <= Len(chain)]_vars

-----------------------------------------------------------------------------
(* Liveness *)

\* Both ends read what arrives and notice a dead socket, and a connection attempt
\* ends.  The loops of a call check the deadline on every turn, so it ends them
\* sometime, and a notice that is sent again and again is read sometime.
Fairness ==
    /\ \A c \in Conns :
          /\ WF_vars(Connected(c)) /\ WF_vars(ClientLoses(c)) /\ WF_vars(BrokerLoses(c))
          /\ WF_vars(HearsReady(c)) /\ WF_vars(HearsAnswer(c)) /\ SF_vars(HearsClosed(c))
          /\ WF_vars(AcceptHello(c) \/ RefuseHello(c)) /\ WF_vars(AcceptRequest(c))
    /\ \A r \in Runners : SF_vars(GivesUp(r))
    /\ WF_vars(Reconnect)

LiveSpec == Spec /\ Fairness

\* The network fails, or a connection attempt times out on a good socket.
Disturbed == \E c \in Conns : LinkFails(c) \/ (~conn[c].cut /\ ClientLoses(c))

\* From some time on the broker can be reached.
Calm == <>[][~Disturbed]_vars

\* Every call returns or throws, wherever its connection is lost (before the
\* socket connects, before the session is confirmed, with the request sent) and
\* however often: requestWithRecovery never waits for ever.
CallReturns == runner["call"].phase # "idle" ~> runner["call"].phase = "idle"

\* README.md:76 "The adapter also resumes short broker connection losses": a session
\* whose client has lost it is resumed without a new call, unless it is closed.
SessionResumes ==
    Calm => (closed # "yes" /\ adapter # None /\ socket # adapter
                ~> closed = "yes" \/ (socket # None /\ socket = adapter))

\* A client that an administrator disconnected learns it, also if the notice is lost
\* with the socket, and does not try again for ever.
DisconnectIsFinal == Calm => (revoked ~> closed = "yes")

=============================================================================
