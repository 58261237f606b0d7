-------------------------------- MODULE Lease --------------------------------
(***************************************************************************)
(* The LeaseManager as a state machine: sessions acquire, wait for, touch, *)
(* release and abandon the lease, the broker blocks and unblocks hand-over *)
(* and clears the queue, and the clock and the four kinds of timers run,   *)
(* in any order.                                                           *)
(***************************************************************************)
EXTENDS LeaseManager

VARIABLES lease,  \* the LeaseManager's fields
          told    \* the session the last step answered "acquired" directly

vars == <<lease, told>>

Init == lease = InitLease /\ told = None

-----------------------------------------------------------------------------
(* Calls by a session *)

DoAcquire(s, enqueue) ==
    /\ lease' = Acquire(lease, s, enqueue)
    /\ told' = IF lease'.owner = s THEN s ELSE None

DoWait(s, ticketMatches) ==
    /\ lease' = Wait(lease, s, ticketMatches)
    /\ told' = IF lease'.owner = s THEN s ELSE None

DoTouch(s) ==
    /\ lease' = Touch(lease, s)
    /\ told' = None

DoRelease(s) ==
    /\ lease' = Release(lease, s)
    /\ told' = None

DoDisconnect(s) ==
    /\ lease' = Disconnect(lease, s)
    /\ told' = None

-----------------------------------------------------------------------------
(* Calls by the broker *)

DoSetBlocked(blocked) ==
    /\ lease' = SetBlocked(lease, blocked)
    /\ told' = None

\* snapshot() notices an expired lease before it reports it.
DoSnapshot ==
    /\ lease' = ExpireIfDue(lease)
    /\ told' = None

DoClearWaiters ==
    /\ lease' = ClearWaiters(lease)
    /\ told' = None

-----------------------------------------------------------------------------
(* Time and timers *)

\* ttlMs pass without activity.
OwnerDue ==
    /\ lease.owner # None /\ ~lease.due
    /\ lease' = [lease EXCEPT !.due = TRUE]
    /\ told' = None

\* Tickets have one lifetime, so they run out in queue order.
TicketDue(i) ==
    /\ i \in FirstValid(lease.waiters)
    /\ lease' = [lease EXCEPT !.waiters[i].due = TRUE]
    /\ told' = None

ExpirationTimer ==
    /\ Expires(lease)
    /\ lease' = ExpireIfDue(lease)
    /\ told' = None

TicketTimer(s) ==
    /\ \E i \in DOMAIN lease.waiters : lease.waiters[i].session = s /\ lease.waiters[i].due
    /\ lease' = ExpireTicket(lease, s)
    /\ told' = None

WaitTimer(s) ==
    /\ \E i \in DOMAIN lease.waiters : lease.waiters[i].session = s /\ lease.waiters[i].waiting
    /\ lease' = WaitTimedOut(lease, s)
    /\ told' = None

Next ==
    \/ \E s \in Sessions :
          \/ \E enqueue \in BOOLEAN : DoAcquire(s, enqueue)
          \/ \E ticketMatches \in BOOLEAN : DoWait(s, ticketMatches)
          \/ DoTouch(s)
          \/ DoRelease(s)
          \/ DoDisconnect(s)
          \/ TicketTimer(s)
          \/ WaitTimer(s)
    \/ \E blocked \in BOOLEAN : DoSetBlocked(blocked)
    \/ DoSnapshot
    \/ DoClearWaiters
    \/ OwnerDue
    \/ \E i \in DOMAIN lease.waiters : TicketDue(i)
    \/ ExpirationTimer

Spec == Init /\ [][Next]_vars

-----------------------------------------------------------------------------
(* Invariants *)

\* The fields of the LeaseManager keep their types.
TypeOK == lease \in LeaseState /\ told \in Sessions \cup {None}

\* No session is queued twice and the owner is never queued: acquire hands out
\* the existing ticket, and every way to become owner removes the ticket.
OneClaimPerSession ==
    /\ \A i, j \in DOMAIN lease.waiters :
          lease.waiters[i].session = lease.waiters[j].session => i = j
    /\ \A i \in DOMAIN lease.waiters : lease.waiters[i].session # lease.owner

\* A vm_wait call is unsettled exactly while its session's ticket carries the
\* resolver: however a ticket leaves the queue, its caller gets an answer, and
\* a resolver never outlives its call.
NoOrphanedWait ==
    \A s \in Sessions :
        lease.call[s] = "waiting" <=>
            \E i \in DOMAIN lease.waiters :
                lease.waiters[i].session = s /\ lease.waiters[i].waiting

\* A vm_wait call at the head of the queue is not left waiting for a VM that is
\* free (tests/lease.test.ts:35 "grants the head ticket while vm_wait is
\* actively pending").  The code does not ensure it: see the README.
HeadWaiterGranted ==
    ~ /\ Free(lease)
      /\ lease.waiters # <<>>
      /\ lease.waiters[1].waiting

-----------------------------------------------------------------------------
(* Action properties *)

NewOwner == lease'.owner \notin {None, lease.owner}

\* FIFO: a session becomes owner only past tickets that have expired.  An
\* abandoned but valid ticket at the head keeps its place.
NoBypass ==
    [][NewOwner =>
          \A i \in DOMAIN lease.waiters :
              (\A j \in 1..i : lease.waiters[j].session # lease'.owner)
                  => lease.waiters[i].due]_vars

\* Two valid tickets that stay in the queue keep their order, whatever calls
\* and timers of other sessions come between.
KeepsPlace ==
    [][\A i, j \in DOMAIN lease.waiters :
          (/\ i < j /\ ~lease.waiters[i].due /\ ~lease.waiters[j].due
           /\ Queued(lease', lease.waiters[i].session)
           /\ Queued(lease', lease.waiters[j].session))
          => PositionOf(lease'.waiters, lease.waiters[i].session)
                 < PositionOf(lease'.waiters, lease.waiters[j].session)]_vars

\* Nobody owns the VM without knowing: a new owner is answered "acquired" in the
\* same step, by the call it makes or by the vm_wait it is inside.
NoSilentGrant ==
    [][NewOwner => \/ told' = lease'.owner
                   \/ /\ lease.call[lease'.owner] = "waiting"
                      /\ lease'.call[lease'.owner] = "acquired"]_vars

\* No VM changes hands while it is blocked, and an owner is only succeeded
\* directly by its own release: a caller that finds an expired lease does not
\* take the VM over before the expired owner has been cleaned up.
HandoverDiscipline ==
    [][NewOwner => /\ ~lease'.blocked
                   /\ lease.owner # None => lease' = Release(lease, lease.owner)]_vars

=============================================================================
