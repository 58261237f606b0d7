---------------------------- MODULE LeaseManager ----------------------------
(***************************************************************************)
(* The methods of the LeaseManager class (src/host/lease.ts) as operators  *)
(* from one value of its fields to the next.  Node runs each method to its *)
(* end without interruption, so a method is one step; the broker calls     *)
(* several of them inside one of its own steps by composing the operators. *)
(*                                                                         *)
(* Wall-clock instants are abstracted to "the deadline has passed": the    *)
(* flag due of the lease stands for Date.now() >= lastActivityAt + ttlMs   *)
(* and the flag due of a ticket for expiresAt <= Date.now().               *)
(***************************************************************************)
EXTENDS Naturals, Sequences

CONSTANTS Sessions,  \* logical adapter sessions
          None       \* "no owner"

ASSUME NoneAssumption == None \notin Sessions

\* A queued ticket: waiting is "resolve is set", i.e. its session is inside
\* vm_wait; due is "the ticket's ten minutes are over".
Waiter == [session : Sessions, waiting : BOOLEAN, due : BOOLEAN]

\* The promise a vm_wait call of a session holds: none, unsettled, or the
\* answer it was settled with.
CallState == {"idle", "waiting", "acquired", "refused"}

LeaseState == [owner   : Sessions \cup {None},
               due     : BOOLEAN,
               blocked : BOOLEAN,
               waiters : Seq(Waiter),
               call    : [Sessions -> CallState]]

InitLease == [owner   |-> None,
              due     |-> FALSE,
              blocked |-> FALSE,
              waiters |-> <<>>,
              call    |-> [s \in Sessions |-> "idle"]]

-----------------------------------------------------------------------------
(* Queue helpers *)

Queued(l, s) == \E i \in DOMAIN l.waiters : l.waiters[i].session = s

Free(l) == l.owner = None /\ ~l.blocked

\* waiter.resolve?.({ acquired: false }) for every waiter in the set gone.
Refuse(call, gone) ==
    [s \in Sessions |->
        IF \E w \in gone : w.session = s /\ w.waiting THEN "refused" ELSE call[s]]

RemoveAt(q, i) ==
    [j \in 1..(Len(q) - 1) |-> IF j < i THEN q[j] ELSE q[j + 1]]

PositionOf(q, s) == CHOOSE i \in DOMAIN q : q[i].session = s

\* Drop one waiter, settle its promise, clear its timers.
DropWaiter(l, s) ==
    LET i == PositionOf(l.waiters, s)
    IN  [l EXCEPT !.waiters = RemoveAt(@, i),
                  !.call    = Refuse(@, {l.waiters[i]})]

\* A session holds at most one ticket (acquire hands out the existing one), so
\* the loop over the queue drops at most one waiter.
RemoveWaitersForSession(l, s) == IF Queued(l, s) THEN DropWaiter(l, s) ELSE l

\* The first waiter whose ticket is still valid, if there is one.
FirstValid(q) == {i \in DOMAIN q : ~q[i].due /\ \A j \in 1..(i - 1) : q[j].due}

ExpiredHeads(q) == {q[i] : i \in {k \in DOMAIN q : \A j \in 1..k : q[j].due}}

\* Mutant: shifts expired waiters without settling their promises.
DropExpiredHeadsUnsettled(l) ==
    [l EXCEPT !.waiters = IF FirstValid(@) = {} THEN <<>>
                          ELSE SubSeq(@, CHOOSE i \in FirstValid(@) : TRUE, Len(@))]

\* The loop that shifts waiters with an expired ticket off the head.
DropExpiredHeads(l) ==
    [l EXCEPT !.waiters = IF FirstValid(@) = {} THEN <<>>
                          ELSE SubSeq(@, CHOOSE i \in FirstValid(@) : TRUE, Len(@)),
              !.call    = Refuse(@, ExpiredHeads(l.waiters))]

-----------------------------------------------------------------------------
(* Methods *)

AssignOwner(l, s) == [l EXCEPT !.owner = s, !.due = FALSE]

\* The lease has run out and nobody has noticed yet.
Expires(l) == l.owner # None /\ l.due

\* Mutant: forgets to block the VM until the expired owner is cleaned up.
ExpireIfDueUnblocked(l) ==
    IF Expires(l) THEN [l EXCEPT !.owner = None, !.due = FALSE] ELSE l

\* An expired lease leaves the VM blocked: the "expired" listener cleans up.
ExpireIfDue(l) ==
    IF Expires(l) THEN [l EXCEPT !.owner = None, !.due = FALSE, !.blocked = TRUE]
    ELSE l

\* Mutant: grants the head even if nobody is inside vm_wait for it.
GrantNextAbandoned(l) ==
    IF ~Free(l) THEN l
    ELSE LET m == DropExpiredHeads(l)
         IN  IF m.waiters = <<>> THEN m
             ELSE [AssignOwner(m, m.waiters[1].session) EXCEPT !.waiters = RemoveAt(@, 1)]

\* Hand a free VM to the head of the queue, if the head is inside vm_wait.
GrantNext(l) ==
    IF ~Free(l) THEN l
    ELSE LET m == DropExpiredHeads(l)
         IN  IF m.waiters = <<>> \/ ~m.waiters[1].waiting THEN m
             ELSE LET s == m.waiters[1].session
                  IN  [AssignOwner(m, s) EXCEPT !.waiters  = RemoveAt(@, 1),
                                                !.call[s] = "acquired"]

SetBlocked(l, blocked) ==
    IF blocked THEN [l EXCEPT !.blocked = TRUE]
    ELSE GrantNext([l EXCEPT !.blocked = FALSE])

Touch(l, s) == IF l.owner = s THEN [l EXCEPT !.due = FALSE] ELSE l

Enqueue(l, s) ==
    [l EXCEPT !.waiters = Append(@, [session |-> s, waiting |-> FALSE, due |-> FALSE])]

\* Mutant: a free VM goes to whoever asks, past the queue.
AcquireFreshBypass(l, s, enqueue) ==
    IF l.owner = s THEN Touch(l, s)
    ELSE IF Free(l) THEN AssignOwner(RemoveWaitersForSession(l, s), s)
    ELSE IF Queued(l, s) \/ ~enqueue THEN l
    ELSE Enqueue(l, s)

\* Mutant: every refused call gets a new ticket.
AcquireFreshDuplicate(l, s, enqueue) ==
    LET q == IF Free(l) THEN DropExpiredHeads(l) ELSE l
        mayTake == Free(l) /\ (q.waiters = <<>> \/ q.waiters[1].session = s)
    IN  IF l.owner = s THEN Touch(l, s)
        ELSE IF mayTake THEN AssignOwner(RemoveWaitersForSession(q, s), s)
        ELSE IF ~enqueue THEN q
        ELSE Enqueue(q, s)

\* What acquire does once expiry has been noticed: l.owner is not stale.
AcquireFresh(l, s, enqueue) ==
    LET q == IF Free(l) THEN DropExpiredHeads(l) ELSE l
        mayTake == Free(l) /\ (q.waiters = <<>> \/ q.waiters[1].session = s)
    IN  IF l.owner = s THEN Touch(l, s)
        ELSE IF mayTake THEN AssignOwner(RemoveWaitersForSession(q, s), s)
        ELSE IF Queued(q, s) \/ ~enqueue THEN q
        ELSE Enqueue(q, s)

\* The call succeeded exactly when the result's owner is s.
Acquire(l, s, enqueue) == AcquireFresh(ExpireIfDue(l), s, enqueue)

\* Attach a resolver and a wait timer to the session's ticket.
AttachResolver(l, s) ==
    [l EXCEPT !.waiters[PositionOf(l.waiters, s)].waiting = TRUE,
              !.call[s] = "waiting"]

\* ticketMatches: no ticket id was given, or it is the queued ticket's.
Wait(l, s, ticketMatches) ==
    LET a == Acquire(l, s, TRUE)
    IN  IF a.owner = s \/ ~ticketMatches \/ a.waiters[PositionOf(a.waiters, s)].waiting
        THEN a
        ELSE AttachResolver(a, s)

\* Mutant: a timed-out wait sends its ticket to the tail.
WaitTimedOutRequeue(l, s) == Enqueue(DropWaiter(l, s), s)

\* Mutant: the timed-out call is answered with its queue position only.
WaitTimedOutUntyped(l, s) ==
    [l EXCEPT !.waiters[PositionOf(l.waiters, s)].waiting = FALSE,
              !.call[s] = "queued"]

\* The wait timer: the call is answered, the ticket stays in the queue.
WaitTimedOut(l, s) ==
    [l EXCEPT !.waiters[PositionOf(l.waiters, s)].waiting = FALSE,
              !.call[s] = "refused"]

\* The ticket timer removes the ticket wherever it is in the queue.
ExpireTicket(l, s) == DropWaiter(l, s)

Release(l, s) ==
    IF l.owner # s THEN RemoveWaitersForSession(l, s)
    ELSE GrantNext([l EXCEPT !.owner = None, !.due = FALSE])

\* An owner keeps the lease until its cleanup releases it.
Disconnect(l, s) == IF l.owner = s THEN l ELSE RemoveWaitersForSession(l, s)

ClearWaiters(l) ==
    [l EXCEPT !.waiters = <<>>,
              !.call    = Refuse(@, {l.waiters[i] : i \in DOMAIN l.waiters})]

=============================================================================
