-------------------------------- MODULE Broker --------------------------------
(***************************************************************************)
(* The broker (src/host/broker.ts) between adapter sessions and the one    *)
(* Windows 98 guest (guest/win98ctl.c): lease, guest connection, guest     *)
(* requests, session cleanup and the switch between exclusive and parallel *)
(* operation.                                                              *)
(*                                                                         *)
(* The broker is a Node process: code between two awaits runs without      *)
(* interruption, and promise continuations that wait for no I/O run before *)
(* the next event.  An action is one event with all the continuations that *)
(* follow from it, except that starting a queued cleanup is an action of   *)
(* its own; while one can start (Settling) no event is handled.            *)
(***************************************************************************)
EXTENDS LeaseManager

CONSTANTS Kinds,    \* guest operations sessions ask for, a subset of OpKinds
          Modes,    \* values config.lockingEnabled may take
          MaxWire,  \* bound on the operations under way on one connection
          LongLease \* leaseTtlMs exceeds the 10 s a cleanup may take; the default
                    \* is 30 minutes, config.ts accepts one second

\* shell_start; mouse_down or a key held down; shell_close.
OpKinds == {"term", "hold", "close"}

ASSUME BrokerAssumption ==
    /\ Kinds \subseteq OpKinds
    /\ Modes \subseteq BOOLEAN /\ Modes # {}
    /\ MaxWire \in Nat \ {0}
    /\ LongLease \in BOOLEAN

VARIABLES
    lease,      \* LeaseManager
    locking,    \* config.lockingEnabled
    state,      \* connectionState.state; "unseen" is offline with no lastSeenAt
    conn,       \* this.guest with the requests under way on it
    residue,    \* what sessions left in the guest: held input, terminals
    tracked,    \* sessions with an entry in openResources
    present,    \* sessions in the adapters map
    work,       \* the call at the head of a session's adapterRequestChain
    final,      \* final cleanup queued behind that call
    cleanups,   \* cleanupChain: cleanups not finished, oldest first
    phase       \* where the first of them is; "idle" is not started

vars == <<lease, locking, state, conn, residue, tracked, present, work, final,
          cleanups, phase>>

\* A guest request: what it does, for which session ("broker" is None), who
\* awaits the response ("start" is the sanitize of a new connection), whether
\* its promise is pending, and whether it went through advisoryRequestChain.
Request == [kind : OpKinds \cup {"abort"}, by : Sessions \cup {None},
            job : {"op", "cleanup", "start"}, live : BOOLEAN, queued : BOOLEAN]

\* link "destroyed": the socket is destroyed, its close event not yet handled.
\* wire: requests the guest has not executed; answers: responses on their way
\* back; advisory: requests behind the one under way in advisoryRequestChain.
Connection == [link     : {"none", "hello", "ready", "destroyed"},
               wire     : Seq(Request),
               answers  : Seq([req : Request, ok : BOOLEAN]),
               advisory : Seq(Request)]

NoGuest == [link |-> "none", wire |-> <<>>, answers |-> <<>>, advisory |-> <<>>]

\* release: the cleanup releases the lease.  awaited: the session's chain is
\* waiting for it (vm_unlock, final cleanup).  reply: it answers a vm_unlock.
Cleanup == [session : Sessions, release : BOOLEAN, awaited : BOOLEAN, reply : BOOLEAN]

NoResidue == [held |-> {}, terms |-> {}]

Init ==
    /\ lease = InitLease
    /\ locking \in Modes
    /\ state = "unseen" /\ conn = NoGuest
    /\ residue = NoResidue /\ tracked = {}
    /\ present = [s \in Sessions |-> TRUE]
    /\ work = [s \in Sessions |-> "idle"]
    /\ final = [s \in Sessions |-> "none"]
    /\ cleanups = <<>> /\ phase = "idle"

-----------------------------------------------------------------------------
(* The guest connection *)

Elements(q) == {q[i] : i \in DOMAIN q}

\* Requests with a timer: sent and, if live, not yet answered to the caller.
Sent(c) == Elements(c.wire) \cup {a.req : a \in Elements(c.answers)}

ChainBusy(c) == \E r \in Sent(c) : r.live /\ r.queued

\* requestNow: throws unless the socket can be written.
RequestNow(c, r) == IF c.link = "ready" THEN [c EXCEPT !.wire = Append(@, r)] ELSE c

\* Mutant: does not wait for the request before it.
NextAdvisoryEager(c) ==
    IF c.advisory = <<>> THEN c
    ELSE IF c.link = "ready" THEN RequestNow([c EXCEPT !.advisory = Tail(@)], Head(c.advisory))
    ELSE [c EXCEPT !.advisory = <<>>]

\* The next advisory request is sent when the one before it settles; on a dead
\* connection each of them fails in turn.
NextAdvisory(c) ==
    IF c.advisory = <<>> \/ ChainBusy(c) THEN c
    ELSE IF c.link = "ready" THEN RequestNow([c EXCEPT !.advisory = Tail(@)], Head(c.advisory))
    ELSE [c EXCEPT !.advisory = <<>>]

\* GuestConnection.request; an abort bypasses the advisory chain.
GuestRequest(c, kind, by, job) ==
    LET r == [kind |-> kind, by |-> by, job |-> job, live |-> TRUE,
              queued |-> ~locking /\ kind # "abort"]
    IN  IF r.queued THEN NextAdvisory([c EXCEPT !.advisory = Append(@, r)])
        ELSE RequestNow(c, r)

\* The request's promise is rejected by its timer; the guest may still run it.
Abandon(c, r) ==
    LET dead(x) == IF x = r THEN [r EXCEPT !.live = FALSE] ELSE x
    IN  [c EXCEPT !.wire    = [i \in DOMAIN c.wire |-> dead(c.wire[i])],
                  !.answers = [i \in DOMAIN c.answers |->
                                  [req |-> dead(c.answers[i].req), ok |-> c.answers[i].ok]]]

\* The connections in which request r has settled with this result: its answer
\* has arrived or, for a failure, its timer has fired.
Settled(r, ok) ==
    (IF /\ conn.link = "ready" /\ conn.answers # <<>>
        /\ Head(conn.answers) = [req |-> r, ok |-> ok]
     THEN {NextAdvisory([conn EXCEPT !.answers = Tail(@)])} ELSE {})
    \cup (IF ok THEN {} ELSE {NextAdvisory(Abandon(conn, r))})

Destroyed(c) == [c EXCEPT !.link = IF @ = "none" THEN "none" ELSE "destroyed"]

\* waitForGuest's condition: guest.closed is only set by the close event.
Online == state = "online" /\ conn.link \in {"ready", "destroyed"}

-----------------------------------------------------------------------------
(* Sessions and cleanups *)

\* The next lease; a settled vm_wait promise is consumed by its caller.
SetLease(l) ==
    lease' = [l EXCEPT !.call = [s \in Sessions |->
                 IF l.call[s] = "waiting" THEN "waiting" ELSE "idle"]]

\* Mutant: the listener also runs when there is no owner to expire.
NoticedOwnerless(l) ==
    IF Expires(l) \/ l.owner = None
    THEN <<[session |-> l.owner, release |-> FALSE, awaited |-> FALSE, reply |-> FALSE]>>
    ELSE <<>>

\* The "expired" listener: the cleanup added where the expiry of l is noticed.
Noticed(l) ==
    IF Expires(l)
    THEN <<[session |-> l.owner, release |-> FALSE, awaited |-> FALSE, reply |-> FALSE]>>
    ELSE <<>>

\* A call is answered: result() takes a lease snapshot, which notices expiry.
Answer(l) == SetLease(ExpireIfDue(l)) /\ cleanups' = cleanups \o Noticed(l)

\* No call of the session is being executed.
Idle(s) == work[s] = "idle" /\ lease.call[s] # "waiting"

\* Continuations that run before the next event.
Settling ==
    \/ cleanups # <<>> /\ phase = "idle"
    \/ \E s \in Sessions : final[s] # "none" /\ Idle(s)

\* Mutant: a session's calls do not wait for its vm_unlock.
ReadyWhileUnlocking(s) ==
    /\ ~Settling /\ present[s] /\ final[s] = "none"
    /\ work[s] # "cleaning" /\ lease.call[s] # "waiting"

\* The session can start a call now.
Ready(s) == ~Settling /\ present[s] /\ Idle(s) /\ final[s] = "none"

\* Sessions whose guest operation has settled once the connection is c.
Returned(c) ==
    {s \in Sessions :
        /\ work[s] = "op"
        /\ ~ \E r \in Sent(c) \cup Elements(c.advisory) : r.by = s /\ r.job = "op" /\ r.live}

WorkAfter(c) == [s \in Sessions |-> IF s \in Returned(c) THEN "idle" ELSE work[s]]

\* Success or failure, an operation that returns renews its session's lease.
LeaseAfter(c) ==
    IF locking /\ lease.owner \in Returned(c) THEN Touch(lease, lease.owner) ELSE lease

\* The operations that settled are answered.
AnswerReturned(c) ==
    /\ work' = WorkAfter(c)
    /\ IF Returned(c) = {} THEN UNCHANGED <<lease, cleanups>> ELSE Answer(LeaseAfter(c))

\* Mutant: the caller of a finished cleanup is never resumed.
EndCleanupUnanswered(c, l) ==
    LET job == Head(cleanups)
        answers == job.reply \/ Returned(c) # {}
    IN  /\ SetLease(IF answers THEN ExpireIfDue(l) ELSE l)
        /\ cleanups' = Tail(cleanups) \o (IF answers THEN Noticed(l) ELSE <<>>)
        /\ phase' = "idle"
        /\ work' = WorkAfter(c)

\* The cleanup leaves the chain with lease l and its caller continues.
EndCleanup(c, l) ==
    LET job == Head(cleanups)
        answers == job.reply \/ Returned(c) # {}
    IN  /\ SetLease(IF answers THEN ExpireIfDue(l) ELSE l)
        /\ cleanups' = Tail(cleanups) \o (IF answers THEN Noticed(l) ELSE <<>>)
        /\ phase' = "idle"
        /\ work' = [WorkAfter(c) EXCEPT
                        ![job.session] = IF job.awaited THEN "idle" ELSE @]

\* The end of a cleanup in exclusive mode: only a sanitized guest is unblocked.
EndExclusive(c, l, sanitized) ==
    LET job == Head(cleanups)
        released == IF job.release THEN Release(l, job.session) ELSE l
    IN  EndCleanup(c, IF sanitized THEN SetBlocked(released, FALSE) ELSE released)

\* The end of a cleanup in parallel mode: blocked and owner are left alone.
EndParallel(c, l) ==
    /\ EndCleanup(c, l)
    /\ tracked' = tracked \ {Head(cleanups).session}

\* Mutant: leaves the session's resources in openResources.
AbortInGuestStillTracked(l) ==
    LET s == Head(cleanups).session
    IN  /\ conn' = GuestRequest(conn, "abort", s, "cleanup")
        /\ IF conn.link = "ready"
           THEN /\ phase' = "abort" /\ state' = "sanitizing"
                /\ SetLease(l)
                /\ UNCHANGED <<work, cleanups>>
           ELSE /\ EndExclusive(conn, l, FALSE)
                /\ state' = IF conn.link = "destroyed" THEN "sanitizing" ELSE state
        /\ UNCHANGED tracked

\* abortSession is done: ask a connected guest to abort the session.  Without
\* one, or if its socket is destroyed, the cleanup ends unsanitized.
AbortInGuest(l) ==
    LET s == Head(cleanups).session
    IN  /\ tracked' = tracked \ {s}
        /\ conn' = GuestRequest(conn, "abort", s, "cleanup")
        /\ IF conn.link = "ready"
           THEN /\ phase' = "abort" /\ state' = "sanitizing"
                /\ SetLease(l)
                /\ UNCHANGED <<work, cleanups>>
           ELSE /\ EndExclusive(conn, l, FALSE)
                /\ state' = IF conn.link = "destroyed" THEN "sanitizing" ELSE state

\* closeSessionResources: one request stands for the terminate and close of the
\* session's terminals.
CloseInGuest ==
    LET s == Head(cleanups).session
    IN  IF s \in tracked /\ conn.link = "ready"
        THEN /\ phase' = "closing"
             /\ conn' = GuestRequest(conn, "close", s, "cleanup")
             /\ UNCHANGED <<lease, cleanups, work, tracked>>
        ELSE /\ EndParallel(conn, lease)
             /\ UNCHANGED conn

\* Requests have settled, connection c is what is left: the operations among
\* them are answered, and so is the close request of a parallel cleanup.
Resume(c) ==
    IF /\ phase = "closing"
       /\ ~ \E r \in Sent(c) \cup Elements(c.advisory) : r.job = "cleanup" /\ r.live
    THEN EndParallel(c, LeaseAfter(c))
    ELSE AnswerReturned(c) /\ UNCHANGED <<phase, tracked>>

-----------------------------------------------------------------------------
(* Adapters *)

\* A session says hello again after it was removed.
Connect(s) ==
    /\ ~Settling /\ ~present[s]
    /\ present' = [present EXCEPT ![s] = TRUE]
    /\ UNCHANGED <<lease, locking, state, conn, residue, tracked, work, final,
                   cleanups, phase>>

\* Mutant: a session that owns nothing is forgotten in parallel mode too.
DisconnectedForgotten(s) ==
    /\ ~Settling /\ present[s] /\ final[s] = "none" /\ work[s] # "cleaning"
    /\ present' = [present EXCEPT ![s] = FALSE]
    /\ SetLease(Disconnect(lease, s))
    /\ final' = [final EXCEPT ![s] = IF lease.owner = s THEN "release" ELSE "none"]
    /\ UNCHANGED <<locking, state, conn, residue, tracked, work, cleanups, phase>>

\* finalizeAdapterDisconnect, after the resume grace period or by an
\* administrator.  In exclusive mode a session that does not own the lease now
\* gets no cleanup.  A session is removed again only after its final cleanup.
Disconnected(s) ==
    /\ ~Settling /\ present[s] /\ final[s] = "none" /\ work[s] # "cleaning"
    /\ present' = [present EXCEPT ![s] = FALSE]
    /\ SetLease(Disconnect(lease, s))
    /\ final' = [final EXCEPT ![s] = IF lease.owner = s THEN "release"
                                     ELSE IF ~locking THEN "keep" ELSE "none"]
    /\ UNCHANGED <<locking, state, conn, residue, tracked, work, cleanups, phase>>

-----------------------------------------------------------------------------
(* Lease calls *)

VmLock(s) ==
    /\ Ready(s) /\ locking
    /\ SetLease(Acquire(lease, s, TRUE))
    /\ cleanups' = cleanups \o Noticed(lease)
    /\ UNCHANGED <<locking, state, conn, residue, tracked, present, work, final, phase>>

VmWait(s, ticketMatches) ==
    /\ Ready(s) /\ locking
    /\ SetLease(Wait(lease, s, ticketMatches))
    /\ cleanups' = cleanups \o Noticed(lease)
    /\ UNCHANGED <<locking, state, conn, residue, tracked, present, work, final, phase>>

\* A session with open resources must force; a session that does not own the
\* lease only leaves the queue.
VmUnlock(s, force) ==
    /\ Ready(s)
    /\ IF locking /\ lease.owner # s
       THEN Answer(Disconnect(lease, s)) /\ UNCHANGED work
       ELSE IF s \in tracked /\ ~force
       THEN Answer(lease) /\ UNCHANGED work
       ELSE /\ cleanups' = Append(cleanups, [session |-> s, release |-> locking,
                                             awaited |-> TRUE, reply |-> TRUE])
            /\ work' = [work EXCEPT ![s] = "unlock"]
            /\ UNCHANGED lease
    /\ UNCHANGED <<locking, state, conn, residue, tracked, present, final, phase>>

\* broker_set_locking, called by an administrator's session.
SetLocking(enabled) ==
    /\ ~Settling
    /\ IF \/ enabled = locking
          \/ lease.owner # None
          \/ enabled /\ tracked # {}
       THEN Answer(lease) /\ UNCHANGED locking
       ELSE Answer(ClearWaiters(lease)) /\ locking' = enabled
    /\ UNCHANGED <<state, conn, residue, tracked, present, work, final, phase>>

-----------------------------------------------------------------------------
(* Guest operations *)

KnownGuestOffline == state = "offline"

\* A call that cannot go on at once: refused if the guest is known to be
\* offline, otherwise it polls for the guest.
CallOperation(s) ==
    /\ Ready(s) /\ ~Online
    /\ IF KnownGuestOffline THEN Answer(lease) /\ UNCHANGED work
       ELSE work' = [work EXCEPT ![s] = "polling"] /\ UNCHANGED <<lease, cleanups>>
    /\ UNCHANGED <<locking, state, conn, residue, tracked, present, final, phase>>

\* Mutant: sends the request without the lease.
StartOperationUnleased(s, kind) ==
    /\ Ready(s) \/ (~Settling /\ work[s] = "polling")
    /\ Online
    /\ Len(conn.wire) + Len(conn.answers) + Len(conn.advisory) < MaxWire
    /\ LET l == IF locking THEN Acquire(lease, s, TRUE) ELSE lease
           c == GuestRequest(conn, kind, s, "op")
       IN  /\ SetLease(l)
           /\ cleanups' = cleanups \o (IF locking THEN Noticed(lease) ELSE <<>>)
           /\ conn' = c
           /\ work' = [work EXCEPT ![s] = IF c = conn THEN "idle" ELSE "op"]
    /\ UNCHANGED <<locking, state, residue, tracked, present, final, phase>>

\* The guest is online: take the lease in exclusive mode, then send.  On a
\* destroyed socket the request fails at once.
StartOperation(s, kind) ==
    /\ Ready(s) \/ (~Settling /\ work[s] = "polling")
    /\ Online
    /\ Len(conn.wire) + Len(conn.answers) + Len(conn.advisory) < MaxWire
    /\ LET l == IF locking THEN Acquire(lease, s, TRUE) ELSE lease
           c == IF locking /\ l.owner # s THEN conn ELSE GuestRequest(conn, kind, s, "op")
       IN  /\ SetLease(l)
           /\ cleanups' = cleanups \o (IF locking THEN Noticed(lease) ELSE <<>>)
           /\ conn' = c
           /\ work' = [work EXCEPT ![s] = IF c = conn THEN "idle" ELSE "op"]
    /\ UNCHANGED <<locking, state, residue, tracked, present, final, phase>>

PollTimeout(s) ==
    /\ ~Settling /\ work[s] = "polling"
    /\ work' = [work EXCEPT ![s] = "idle"]
    /\ Answer(lease)
    /\ UNCHANGED <<locking, state, conn, residue, tracked, present, final, phase>>

\* openResources after the success of r.
TrackResources(r) ==
    CASE r.kind = "term"  -> tracked \cup {r.by}
      [] r.kind = "close" -> tracked \ {r.by}
      [] OTHER            -> tracked

\* An operation succeeds, fails or times out; its caller is answered, and what
\* it opened or closed is recorded.
OperationReturns(r, ok) ==
    /\ ~Settling /\ r.job = "op" /\ r.live
    /\ \E c \in Settled(r, ok) :
          /\ conn' = c
          /\ IF ok
             THEN /\ AnswerReturned(c)
                  /\ tracked' = TrackResources(r)
                  /\ UNCHANGED phase
             ELSE Resume(c)
    /\ UNCHANGED <<locking, state, residue, present, final>>

\* The answer to a request that timed out is dropped.
StaleAnswer ==
    /\ ~Settling /\ conn.link = "ready" /\ conn.answers # <<>>
    /\ ~Head(conn.answers).req.live
    /\ conn' = [conn EXCEPT !.answers = Tail(@)]
    /\ UNCHANGED <<lease, locking, state, residue, tracked, present, work, final,
                   cleanups, phase>>

-----------------------------------------------------------------------------
(* Cleanup *)

\* The final cleanup of a removed session joins the chain once the session's
\* last call is done.
StartFinal(s) ==
    /\ final[s] # "none" /\ Idle(s)
    /\ cleanups' = Append(cleanups, [session |-> s, release |-> final[s] = "release",
                                     awaited |-> TRUE, reply |-> FALSE])
    /\ final' = [final EXCEPT ![s] = "none"]
    /\ work' = [work EXCEPT ![s] = "cleaning"]
    /\ UNCHANGED <<lease, locking, state, conn, residue, tracked, present, phase>>

\* The next cleanup starts, in the mode of the moment.  partials: abortSession
\* has files to remove, so the cleanup goes on after other events.
StartCleanup(partials) ==
    /\ cleanups # <<>> /\ phase = "idle"
    /\ IF partials
       THEN /\ phase' = IF locking THEN "transfers" ELSE "partials"
            /\ IF locking THEN SetLease(SetBlocked(lease, TRUE)) ELSE UNCHANGED lease
            /\ UNCHANGED <<state, conn, tracked, work, cleanups>>
       ELSE IF locking THEN AbortInGuest(SetBlocked(lease, TRUE))
       ELSE CloseInGuest /\ UNCHANGED state
    /\ UNCHANGED <<locking, residue, present, final>>

TransfersAborted ==
    /\ ~Settling
    /\ \/ phase = "transfers" /\ AbortInGuest(lease)
       \/ phase = "partials" /\ CloseInGuest /\ UNCHANGED state
    /\ UNCHANGED <<locking, residue, present, final>>

\* The guest answers the session_abort of a cleanup, or does not in time.
AbortReturns(r, ok) ==
    /\ ~Settling /\ r.job = "cleanup" /\ r.kind = "abort" /\ r.live
    /\ \E c \in Settled(r, ok) :
          /\ conn' = IF ok THEN c ELSE Destroyed(c)
          /\ EndExclusive(c, lease, ok)
    /\ state' = IF ok THEN "online" ELSE state
    /\ UNCHANGED <<locking, residue, tracked, present, final>>

\* The guest answers the close request of a parallel cleanup, or does not in
\* time: a failure is ignored.
CloseReturns(r, ok) ==
    /\ ~Settling /\ r.job = "cleanup" /\ r.kind = "close" /\ r.live
    /\ \E c \in Settled(r, ok) : conn' = c /\ Resume(c)
    /\ UNCHANGED <<locking, state, residue, present, final>>

-----------------------------------------------------------------------------
(* The guest connection *)

\* The guest cleans itself before it connects again.
AcceptGuest ==
    /\ ~Settling /\ conn.link = "none"
    /\ conn' = [NoGuest EXCEPT !.link = "hello"]
    /\ state' = "connecting"
    /\ residue' = NoResidue
    /\ UNCHANGED <<lease, locking, tracked, present, work, final, cleanups, phase>>

\* Mutant: a new connection is online at once.
GuestHelloOnline ==
    /\ ~Settling /\ conn.link = "hello"
    /\ conn' = GuestRequest([conn EXCEPT !.link = "ready"], "abort", None, "start")
    /\ state' = "online"
    /\ SetLease(SetBlocked(lease, TRUE))
    /\ UNCHANGED <<locking, residue, tracked, present, work, final, cleanups, phase>>

\* A new connection is sanitized, with hand-over blocked, before it is online.
GuestHello ==
    /\ ~Settling /\ conn.link = "hello"
    /\ conn' = GuestRequest([conn EXCEPT !.link = "ready"], "abort", None, "start")
    /\ state' = "sanitizing"
    /\ SetLease(SetBlocked(lease, TRUE))
    /\ UNCHANGED <<locking, residue, tracked, present, work, final, cleanups, phase>>

\* Mutant: goes online but leaves the VM blocked.
StartReturnsBlocked(r, ok) ==
    /\ ~Settling /\ r.job = "start" /\ r.live
    /\ \E c \in Settled(r, ok) : conn' = IF ok THEN c ELSE Destroyed(c)
    /\ state' = IF ok THEN "online" ELSE state
    /\ UNCHANGED <<lease, locking, residue, tracked, present, work, final, cleanups, phase>>

\* The guest answers the sanitize of its connection, or does not in time.
StartReturns(r, ok) ==
    /\ ~Settling /\ r.job = "start" /\ r.live
    /\ \E c \in Settled(r, ok) : conn' = IF ok THEN c ELSE Destroyed(c)
    /\ state' = IF ok THEN "online" ELSE state
    /\ IF ok THEN SetLease(SetBlocked(lease, FALSE)) ELSE UNCHANGED lease
    /\ UNCHANGED <<locking, residue, tracked, present, work, final, cleanups, phase>>

\* Hello timeout, protocol failure or heartbeat timeout destroys the socket.
GuestFails ==
    /\ ~Settling /\ conn.link \in {"hello", "ready"}
    /\ conn' = Destroyed(conn)
    /\ UNCHANGED <<lease, locking, state, residue, tracked, present, work, final,
                   cleanups, phase>>

\* The socket's close event: every pending request is rejected.
GuestCloses ==
    /\ ~Settling /\ conn.link # "none"
    /\ conn' = NoGuest
    /\ state' = "offline"
    /\ IF phase = "abort"
       THEN EndExclusive(NoGuest, LeaseAfter(NoGuest), FALSE) /\ UNCHANGED tracked
       ELSE Resume(NoGuest)
    /\ UNCHANGED <<locking, residue, present, final>>

-----------------------------------------------------------------------------
(* The guest *)

\* What executing a request leaves behind.  Every abort cleans all of it,
\* whoever asked; every failure releases held input.
Executed(r, ok) ==
    IF r.kind = "abort" THEN NoResidue
    ELSE IF ~ok THEN [residue EXCEPT !.held = {}]
    ELSE CASE r.kind = "term"  -> [residue EXCEPT !.terms = @ \cup {r.by}]
           [] r.kind = "hold"  -> [residue EXCEPT !.held = @ \cup {r.by}]
           [] r.kind = "close" -> [residue EXCEPT !.terms = @ \ {r.by}]

GuestExecutes(ok) ==
    /\ ~Settling /\ conn.link = "ready" /\ conn.wire # <<>>
    /\ LET r == Head(conn.wire)
       IN  /\ conn' = [conn EXCEPT !.wire = Tail(@),
                                   !.answers = Append(@, [req |-> r, ok |-> ok])]
           /\ residue' = Executed(r, ok)
    /\ UNCHANGED <<lease, locking, state, tracked, present, work, final, cleanups,
                   phase>>

\* cooperative_stop: a request that arrives during another one is answered
\* first, an abort after cancelling the running one, anything else VM_BUSY.
GuestInterrupted ==
    /\ ~Settling /\ conn.link = "ready" /\ Len(conn.wire) > 1
    /\ conn.wire[1].kind # "abort"
    /\ LET r == conn.wire[2]
           aborts == r.kind = "abort"
       IN  /\ conn' = [conn EXCEPT
                 !.wire = IF aborts THEN Tail(Tail(@)) ELSE RemoveAt(@, 2),
                 !.answers = IF aborts
                             THEN @ \o <<[req |-> r, ok |-> TRUE],
                                         [req |-> conn.wire[1], ok |-> FALSE]>>
                             ELSE Append(@, [req |-> r, ok |-> FALSE])]
           /\ residue' = IF aborts THEN NoResidue ELSE residue
    /\ UNCHANGED <<lease, locking, state, tracked, present, work, final, cleanups,
                   phase>>

-----------------------------------------------------------------------------
(* Lease time and timers *)

\* ttlMs pass without activity.  The lease of an operation under way is renewed by
\* an interval timer in time, which a lease of the one second config.ts accepts
\* would not allow: the interval is no shorter.  A long lease taken during a cleanup
\* outlasts it: only the owner that is being cleaned up has held its lease for longer.
OwnerDue ==
    /\ ~Settling /\ lease.owner # None /\ ~lease.due
    /\ work[lease.owner] # "op"
    /\ LongLease /\ phase # "idle" =>
          Head(cleanups).session = lease.owner /\ Head(cleanups).release
    /\ lease' = [lease EXCEPT !.due = TRUE]
    /\ UNCHANGED <<locking, state, conn, residue, tracked, present, work, final,
                   cleanups, phase>>

ExpirationTimer ==
    /\ ~Settling /\ Expires(lease)
    /\ Answer(lease)
    /\ UNCHANGED <<locking, state, conn, residue, tracked, present, work, final,
                   phase>>

\* A ticket's lifetime ends and its timer drops it; a vm_wait is answered.
TicketTimer(s) ==
    /\ ~Settling /\ Queued(lease, s)
    /\ Answer(ExpireTicket(lease, s))
    /\ UNCHANGED <<locking, state, conn, residue, tracked, present, work, final,
                   phase>>

WaitTimer(s) ==
    /\ ~Settling /\ lease.call[s] = "waiting"
    /\ Answer(WaitTimedOut(lease, s))
    /\ UNCHANGED <<locking, state, conn, residue, tracked, present, work, final,
                   phase>>

-----------------------------------------------------------------------------
Session(s) ==
    \/ Connect(s)
    \/ Disconnected(s)
    \/ VmLock(s)
    \/ \E ticketMatches \in BOOLEAN : VmWait(s, ticketMatches)
    \/ \E force \in BOOLEAN : VmUnlock(s, force)
    \/ CallOperation(s)
    \/ \E kind \in Kinds : StartOperation(s, kind)
    \/ PollTimeout(s)
    \/ StartFinal(s)
    \/ TicketTimer(s)
    \/ WaitTimer(s)

Settles(r) ==
    \E ok \in BOOLEAN :
        OperationReturns(r, ok) \/ AbortReturns(r, ok) \/ CloseReturns(r, ok) \/ StartReturns(r, ok)

Next ==
    \/ \E s \in Sessions : Session(s)
    \/ \E enabled \in Modes : SetLocking(enabled)
    \/ \E partials \in BOOLEAN : StartCleanup(partials)
    \/ TransfersAborted
    \/ \E r \in Sent(conn) : Settles(r)
    \/ StaleAnswer
    \/ AcceptGuest
    \/ GuestHello
    \/ GuestFails
    \/ GuestCloses
    \/ \E ok \in BOOLEAN : GuestExecutes(ok)
    \/ GuestInterrupted
    \/ OwnerDue
    \/ ExpirationTimer

Spec == Init /\ [][Next]_vars

-----------------------------------------------------------------------------
(* Safety *)

\* Every variable keeps its type.
TypeOK ==
    /\ lease \in LeaseState
    /\ locking \in Modes
    /\ state \in {"unseen", "offline", "connecting", "sanitizing", "online"}
    /\ conn \in Connection
    /\ residue \in [held : SUBSET Sessions, terms : SUBSET Sessions]
    /\ tracked \subseteq Sessions
    /\ present \in [Sessions -> BOOLEAN]
    /\ work \in [Sessions -> {"idle", "polling", "op", "unlock", "cleaning"}]
    /\ final \in [Sessions -> {"none", "release", "keep"}]
    /\ cleanups \in Seq(Cleanup)
    /\ phase \in {"idle", "transfers", "abort", "partials", "closing"}

\* Exclusive mode: whatever is in a connected guest, or on its way there, is the
\* lease owner's.  What a former owner left can only be there while there is no
\* owner and hand-over is blocked, however connection losses, timeouts, expiry
\* and cleanups interleave.
Isolation ==
    locking /\ conn.link = "ready" =>
        \A s \in residue.held \cup residue.terms
                 \cup {r.by : r \in {x \in Elements(conn.wire) : x.job = "op"}} :
            \/ lease.owner = s
            \/ lease.owner = None /\ lease.blocked

\* A new connection carries no session's work before its sanitize has been
\* answered, so nothing is sent that the sanitize would wipe, also when calls
\* were polling while the guest was away or a cleanup was under way.
SanitizedFirst ==
    (\E r \in Sent(conn) : r.job = "start" /\ r.live) =>
        /\ \A r \in Sent(conn) : r.job # "op"
        /\ conn.advisory = <<>>

CleanupPending(s) ==
    \/ final[s] # "none"
    \/ \E i \in DOMAIN cleanups : cleanups[i].session = s

\* Exclusive mode: the resources the broker believes open are the owner's, or
\* a cleanup that will forget them is on its way, so a new owner is never asked
\* to account for a former one's and no entry is left behind.
TrackedByOwner ==
    locking => \A s \in tracked : lease.owner = s \/ CleanupPending(s)

\* Parallel mode: a session that is gone has no open resources left, except
\* while its last call or its final cleanup is under way.
NoResourceOutlivesSession ==
    ~locking => \A s \in tracked : present[s] \/ CleanupPending(s)

\* The places of requests that were sent through the chain and have not settled.
UnderWay ==
    LET inChain(r) == r.live /\ r.queued
    IN  {<<"wire", i>> : i \in {k \in DOMAIN conn.wire : inChain(conn.wire[k])}}
        \cup {<<"answers", i>> :
                 i \in {k \in DOMAIN conn.answers : inChain(conn.answers[k].req)}}

\* Parallel mode: the advisory chain never stalls and never overlaps.  While a
\* request is queued, exactly one is under way.
AdvisoryChainServed ==
    /\ \A x, y \in UnderWay : x = y
    /\ conn.advisory # <<>> => UnderWay # {}

-----------------------------------------------------------------------------
(* The queue *)

NewOwner == lease'.owner \notin {None, lease.owner}

\* Whoever becomes owner passes only tickets that have expired, or the ticket a
\* removed session's last call drew, which goes with that session's final cleanup.
PassesNobody ==
    NewOwner =>
        \A i \in DOMAIN lease.waiters :
            (\A j \in 1..i : lease.waiters[j].session # lease'.owner)
                => \/ lease.waiters[i].due
                   \/ /\ cleanups # <<>> /\ Head(cleanups).session = lease.waiters[i].session
                      /\ work[lease.waiters[i].session] = "cleaning"
                      /\ ~Queued(lease', lease.waiters[i].session)

\* Two valid tickets that stay in the queue keep their order.
PlacesKept ==
    \A i, j \in DOMAIN lease.waiters :
        (/\ i < j /\ ~lease.waiters[i].due /\ ~lease.waiters[j].due
         /\ Queued(lease', lease.waiters[i].session)
         /\ Queued(lease', lease.waiters[j].session))
        => PositionOf(lease'.waiters, lease.waiters[i].session)
               < PositionOf(lease'.waiters, lease.waiters[j].session)

\* FIFO through the broker, whichever step it is: a call, a new connection's
\* sanitize, or the end of a cleanup, which may release one session, unblock the VM
\* for another and answer a third at once.  A vm_unlock never costs anybody a place.
QueueIsFair == [][PassesNobody /\ PlacesKept]_vars

-----------------------------------------------------------------------------
(* Liveness *)

\* The next step of the cleanup chain: a continuation, an answer or a timer.
CleanupStep ==
    \/ \E s \in Sessions : StartFinal(s)
    \/ \E partials \in BOOLEAN : StartCleanup(partials)
    \/ TransfersAborted
    \/ \E r \in Sent(conn), ok \in BOOLEAN : AbortReturns(r, ok) \/ CloseReturns(r, ok)

\* A dead connection is noticed and the guest connects again.
ReconnectStep ==
    \/ conn.link = "destroyed" /\ GuestCloses
    \/ AcceptGuest
    \/ \E r \in Sent(conn), ok \in BOOLEAN : StartReturns(r, ok)

SanitizeExecuted ==
    /\ conn.wire # <<>> /\ Head(conn.wire).job = "start"
    /\ GuestExecutes(TRUE)

\* Continuations and timers run, and the guest reconnects every two seconds
\* (agent_network_thread); Settling, which keeps continuations ahead of events,
\* disables handlers briefly, so fairness is strong.  A guest that reconnects
\* again and again sometime completes its hello and its sanitize.
Fairness ==
    /\ SF_vars(CleanupStep)
    /\ SF_vars(ReconnectStep)
    /\ SF_vars(GuestHello)
    /\ SF_vars(SanitizeExecuted)
    /\ SF_vars(\E r \in Sent(conn) : StartReturns(r, TRUE))

LiveSpec == Spec /\ Fairness

\* vm_unlock returns: whatever else is in the cleanup chain and whatever happens
\* to the guest, its caller is answered.
UnlockReturns == \A s \in Sessions : work[s] = "unlock" ~> work[s] # "unlock"

\* Hand-over never stays blocked: a cleanup that fails, an expiry without a guest
\* or a switch of mode is made good by the next sanitize.
BlockedIsTemporary == lease.blocked ~> ~lease.blocked

=============================================================================
