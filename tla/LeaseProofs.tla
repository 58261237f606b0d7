----------------------------- MODULE LeaseProofs -----------------------------
(***************************************************************************)
(* Proofs about the lease for any set of sessions and queues of any        *)
(* length: that it is sound, and how it changes hands: who may become      *)
(* owner, who is told, and who keeps its place.                            *)
(***************************************************************************)
EXTENDS Lease, LeaseManagerProofs

-----------------------------------------------------------------------------
(* The specification *)

\* The inductive invariant: the lease is sound, and told names a session.
Inv == LeaseOK(lease) /\ told \in Sessions \cup {None}

\* Inv is what the three invariants of Lease say together.
LEMMA InvMeaning == Inv <=> TypeOK /\ OneClaimPerSession /\ NoOrphanedWait
  BY DEF Inv, LeaseOK, TypeOK, OneClaimPerSession, NoOrphanedWait, DistinctTickets, Pending

\* A new LeaseManager is sound.
LEMMA InitInv == Init => Inv
  BY InitLeaseOK DEF Init, Inv

\* Every call, every broker step and every timer keeps the invariant.
LEMMA NextInv == Inv /\ [Next]_vars => Inv'
<1> SUFFICES ASSUME Inv, [Next]_vars PROVE Inv'
  OBVIOUS
<1>0. LeaseOK(lease) /\ told \in Sessions \cup {None}
  BY DEF Inv
<1>1. ASSUME NEW s \in Sessions, NEW enqueue \in BOOLEAN, DoAcquire(s, enqueue) PROVE Inv'
  BY <1>0, <1>1, AcquireOK DEF DoAcquire, Inv
<1>2. ASSUME NEW s \in Sessions, NEW ticketMatches \in BOOLEAN, DoWait(s, ticketMatches) PROVE Inv'
  BY <1>0, <1>2, WaitOK DEF DoWait, Inv
<1>3. ASSUME NEW s \in Sessions, DoTouch(s) PROVE Inv'
  BY <1>0, <1>3, TouchOK DEF DoTouch, Inv
<1>4. ASSUME NEW s \in Sessions, DoRelease(s) PROVE Inv'
  BY <1>0, <1>4, ReleaseOK DEF DoRelease, Inv
<1>5. ASSUME NEW s \in Sessions, DoDisconnect(s) PROVE Inv'
  BY <1>0, <1>5, DisconnectOK DEF DoDisconnect, Inv
<1>6. ASSUME NEW s \in Sessions, TicketTimer(s) PROVE Inv'
  BY <1>0, <1>6, DropWaiterOK DEF TicketTimer, ExpireTicket, Queued, Inv
<1>7. ASSUME NEW s \in Sessions, WaitTimer(s) PROVE Inv'
  BY <1>0, <1>7, WaitTimedOutOK DEF WaitTimer, Queued, Inv
<1>8. ASSUME NEW blocked \in BOOLEAN, DoSetBlocked(blocked) PROVE Inv'
  BY <1>0, <1>8, SetBlockedOK DEF DoSetBlocked, Inv
<1>9. ASSUME DoSnapshot \/ ExpirationTimer PROVE Inv'
  BY <1>0, <1>9, ExpireIfDueOK DEF DoSnapshot, ExpirationTimer, Inv
<1>10. ASSUME DoClearWaiters PROVE Inv'
  BY <1>0, <1>10, ClearWaitersOK DEF DoClearWaiters, Inv
<1>11. ASSUME OwnerDue PROVE Inv'
  BY <1>0, <1>11, DueOK DEF OwnerDue, Inv
<1>12. ASSUME NEW i \in DOMAIN lease.waiters, TicketDue(i) PROVE Inv'
  BY <1>0, <1>12, TicketDueOK DEF TicketDue, Inv
<1>13. CASE UNCHANGED vars
  BY <1>0, <1>13 DEF vars, Inv
<1>14. QED
  BY <1>1, <1>2, <1>3, <1>4, <1>5, <1>6, <1>7, <1>8, <1>9, <1>10, <1>11, <1>12, <1>13
     DEF Next

\* The lease is always sound.
THEOREM LeaseSound == Spec => []Inv
  BY InitInv, NextInv, PTL DEF Spec

\* The LeaseManager's fields keep their types, for any number of sessions.
THEOREM TypeCorrect == Spec => []TypeOK
<1>1. Inv => TypeOK
  BY InvMeaning
<1>2. QED
  BY <1>1, LeaseSound, PTL

\* No session is queued twice and the owner is never queued.
THEOREM OneClaim == Spec => []OneClaimPerSession
<1>1. Inv => OneClaimPerSession
  BY InvMeaning
<1>2. QED
  BY <1>1, LeaseSound, PTL

\* No vm_wait is left without an answer: a call is unsettled exactly while its
\* ticket is queued with its resolver.
THEOREM EveryWaitSettled == Spec => []NoOrphanedWait
<1>1. Inv => NoOrphanedWait
  BY InvMeaning
<1>2. QED
  BY <1>1, LeaseSound, PTL

-----------------------------------------------------------------------------
(* The steps of the specification *)

\* What a step that makes a session owner looks like.
HandoverStep ==
    /\ ~lease'.blocked
    /\ lease.owner # None => lease' = Release(lease, lease.owner)
    /\ OnlyExpiredBefore(lease.waiters, lease'.owner)
    /\ \/ told' = lease'.owner
       \/ lease.call[lease'.owner] = "waiting" /\ lease'.call[lease'.owner] = "acquired"

\* Every step that makes a session owner is a fair, announced hand-over of a
\* VM that is not blocked.
LEMMA EveryHandover == Inv /\ [Next]_vars /\ NewOwner => HandoverStep
<1> SUFFICES ASSUME Inv, [Next]_vars, NewOwner PROVE HandoverStep
  OBVIOUS
<1>0. LeaseOK(lease) /\ lease \in LeaseState /\ lease'.owner # None /\ lease'.owner # lease.owner
  BY DEF Inv, LeaseOK, NewOwner
<1>1. ASSUME NEW s \in Sessions, NEW enqueue \in BOOLEAN, DoAcquire(s, enqueue) PROVE HandoverStep
  <2>1. /\ lease'.owner = s /\ Free(lease) /\ ~lease'.blocked
        /\ OnlyExpiredBefore(lease.waiters, s)
    BY <1>0, <1>1, AcquireOwner DEF DoAcquire
  <2>2. told' = s
    BY <1>1, <2>1 DEF DoAcquire
  <2>3. QED
    BY <2>1, <2>2 DEF HandoverStep, Free
<1>2. ASSUME NEW s \in Sessions, NEW ticketMatches \in BOOLEAN, DoWait(s, ticketMatches)
      PROVE  HandoverStep
  <2>1. /\ lease'.owner = s /\ Free(lease) /\ ~lease'.blocked
        /\ OnlyExpiredBefore(lease.waiters, s)
    BY <1>0, <1>2, WaitOwner DEF DoWait
  <2>2. told' = s
    BY <1>2, <2>1 DEF DoWait
  <2>3. QED
    BY <2>1, <2>2 DEF HandoverStep, Free
<1>3. ASSUME NEW s \in Sessions, DoTouch(s) PROVE HandoverStep
  BY <1>0, <1>3, TouchOK DEF DoTouch
<1>4. ASSUME NEW s \in Sessions, DoRelease(s) PROVE HandoverStep
  BY <1>0, <1>4, ReleaseOwner DEF DoRelease, HandoverStep
<1>5. ASSUME NEW s \in Sessions, DoDisconnect(s) PROVE HandoverStep
  BY <1>0, <1>5, RemoveWaitersForSessionOK DEF DoDisconnect, Disconnect
<1>6. ASSUME NEW s \in Sessions, TicketTimer(s) PROVE HandoverStep
  BY <1>0, <1>6, DropWaiterOK DEF TicketTimer, ExpireTicket, Queued
<1>7. ASSUME NEW s \in Sessions, WaitTimer(s) PROVE HandoverStep
  BY <1>0, <1>7 DEF WaitTimer, WaitTimedOut, LeaseState
<1>8. ASSUME NEW blocked \in BOOLEAN, DoSetBlocked(blocked) PROVE HandoverStep
  BY <1>0, <1>8, SetBlockedOwner DEF DoSetBlocked, HandoverStep
<1>9. ASSUME DoSnapshot \/ ExpirationTimer PROVE HandoverStep
  BY <1>0, <1>9 DEF DoSnapshot, ExpirationTimer, ExpireIfDue, LeaseState
<1>10. ASSUME DoClearWaiters PROVE HandoverStep
  BY <1>0, <1>10 DEF DoClearWaiters, ClearWaiters, LeaseState
<1>11. ASSUME OwnerDue PROVE HandoverStep
  BY <1>0, <1>11 DEF OwnerDue, LeaseState
<1>12. ASSUME NEW i \in DOMAIN lease.waiters, TicketDue(i) PROVE HandoverStep
  BY <1>0, <1>12 DEF TicketDue, LeaseState
<1>13. CASE UNCHANGED vars
  BY <1>0, <1>13 DEF vars
<1>14. QED
  BY <1>1, <1>2, <1>3, <1>4, <1>5, <1>6, <1>7, <1>8, <1>9, <1>10, <1>11, <1>12, <1>13
     DEF Next

\* No step reorders two valid tickets.
LEMMA EveryStepKeepsOrder == Inv /\ [Next]_vars => KeepsOrder(lease, lease')
<1> SUFFICES ASSUME Inv, [Next]_vars PROVE KeepsOrder(lease, lease')
  OBVIOUS
<1>0. /\ LeaseOK(lease) /\ lease \in LeaseState
      /\ lease'.waiters \in Seq(Waiter) /\ lease.waiters \in Seq(Waiter)
  BY NextInv DEF Inv, LeaseOK, LeaseState
<1>e. ASSUME Embeds(lease'.waiters, lease.waiters) PROVE KeepsOrder(lease, lease')
  BY <1>0, <1>e, EmbeddedKeepsOrder
<1>1. ASSUME NEW s \in Sessions, NEW enqueue \in BOOLEAN, DoAcquire(s, enqueue)
      PROVE  KeepsOrder(lease, lease')
  BY <1>0, <1>1, AcquireKeepsOrder DEF DoAcquire
<1>2. ASSUME NEW s \in Sessions, NEW ticketMatches \in BOOLEAN, DoWait(s, ticketMatches)
      PROVE  KeepsOrder(lease, lease')
  BY <1>0, <1>2, WaitKeepsOrder DEF DoWait
<1>3. ASSUME NEW s \in Sessions, DoTouch(s) PROVE KeepsOrder(lease, lease')
  <2>1. lease'.waiters = lease.waiters
    BY <1>0, <1>3 DEF DoTouch, Touch, LeaseState
  <2>2. QED
    BY <1>e, <2>1, SameSessionsEmbed
<1>4. ASSUME NEW s \in Sessions, DoRelease(s) PROVE KeepsOrder(lease, lease')
  BY <1>0, <1>4, <1>e, ReleaseEmbeds DEF DoRelease
<1>5. ASSUME NEW s \in Sessions, DoDisconnect(s) PROVE KeepsOrder(lease, lease')
  BY <1>0, <1>5, <1>e, RemoveWaitersForSessionEmbeds, SameSessionsEmbed DEF DoDisconnect, Disconnect
<1>6. ASSUME NEW s \in Sessions, TicketTimer(s) PROVE KeepsOrder(lease, lease')
  <2>1. lease' = RemoveWaitersForSession(lease, s)
    BY <1>6 DEF TicketTimer, ExpireTicket, RemoveWaitersForSession, Queued
  <2>2. QED
    BY <1>0, <1>e, <2>1, RemoveWaitersForSessionEmbeds
<1>7. ASSUME NEW s \in Sessions, WaitTimer(s) PROVE KeepsOrder(lease, lease')
  BY <1>0, <1>7, <1>e, WaitTimedOutEmbeds DEF WaitTimer
<1>8. ASSUME NEW blocked \in BOOLEAN, DoSetBlocked(blocked) PROVE KeepsOrder(lease, lease')
  BY <1>0, <1>8, <1>e, SetBlockedEmbeds DEF DoSetBlocked
<1>9. ASSUME DoSnapshot \/ ExpirationTimer \/ OwnerDue PROVE KeepsOrder(lease, lease')
  <2>1. lease'.waiters = lease.waiters
    BY <1>0, <1>9 DEF DoSnapshot, ExpirationTimer, OwnerDue, ExpireIfDue, LeaseState
  <2>2. QED
    BY <1>e, <2>1, SameSessionsEmbed
<1>10. ASSUME DoClearWaiters PROVE KeepsOrder(lease, lease')
  <2>1. lease'.waiters = <<>>
    BY <1>0, <1>10 DEF DoClearWaiters, ClearWaiters, LeaseState
  <2>2. QED
    BY <2>1 DEF KeepsOrder
<1>12. ASSUME NEW i \in DOMAIN lease.waiters, TicketDue(i) PROVE KeepsOrder(lease, lease')
  BY <1>0, <1>12, <1>e, FlagEmbeds DEF TicketDue
<1>13. CASE UNCHANGED vars
  BY <1>13, <1>e, SameSessionsEmbed DEF vars
<1>14. QED
  BY <1>1, <1>2, <1>3, <1>4, <1>5, <1>6, <1>7, <1>8, <1>9, <1>10, <1>12, <1>13
     DEF Next

-----------------------------------------------------------------------------
(* The action properties *)

\* FIFO, for any number of sessions: whoever becomes owner, by its own acquire or
\* by grantNext, passes only tickets that have expired.
THEOREM Fifo == Spec => NoBypass
<1>1. Inv /\ [Next]_vars =>
        [NewOwner => \A i \in DOMAIN lease.waiters :
                        (\A j \in 1..i : lease.waiters[j].session # lease'.owner)
                            => lease.waiters[i].due]_vars
  BY EveryHandover DEF HandoverStep, OnlyExpiredBefore
<1>2. QED
  BY <1>1, LeaseSound, PTL DEF Spec, NoBypass

\* A new owner always learns of it in the step that makes it owner.
THEOREM OwnerIsTold == Spec => NoSilentGrant
<1>1. Inv /\ [Next]_vars =>
        [NewOwner => \/ told' = lease'.owner
                     \/ /\ lease.call[lease'.owner] = "waiting"
                        /\ lease'.call[lease'.owner] = "acquired"]_vars
  BY EveryHandover DEF HandoverStep
<1>2. QED
  BY <1>1, LeaseSound, PTL DEF Spec, NoSilentGrant

\* A VM never changes hands while it is blocked for cleanup, and an owner is
\* succeeded directly only by its own release, never by a caller that finds the
\* lease expired.
THEOREM CleanHandover == Spec => HandoverDiscipline
<1>1. Inv /\ [Next]_vars =>
        [NewOwner => /\ ~lease'.blocked
                     /\ lease.owner # None => lease' = Release(lease, lease.owner)]_vars
  BY EveryHandover DEF HandoverStep
<1>2. QED
  BY <1>1, LeaseSound, PTL DEF Spec, HandoverDiscipline

\* Two valid tickets that stay queued never swap places.
THEOREM PlaceIsKept == Spec => KeepsPlace
<1>1. Inv /\ [Next]_vars =>
        [\A i, j \in DOMAIN lease.waiters :
          (/\ i < j /\ ~lease.waiters[i].due /\ ~lease.waiters[j].due
           /\ Queued(lease', lease.waiters[i].session)
           /\ Queued(lease', lease.waiters[j].session))
          => PositionOf(lease'.waiters, lease.waiters[i].session)
                 < PositionOf(lease'.waiters, lease.waiters[j].session)]_vars
  <2> SUFFICES ASSUME Inv, [Next]_vars,
                      NEW i \in DOMAIN lease.waiters, NEW j \in DOMAIN lease.waiters,
                      i < j, ~lease.waiters[i].due, ~lease.waiters[j].due,
                      Queued(lease', lease.waiters[i].session),
                      Queued(lease', lease.waiters[j].session)
               PROVE  PositionOf(lease'.waiters, lease.waiters[i].session)
                          < PositionOf(lease'.waiters, lease.waiters[j].session)
    OBVIOUS
  <2>1. KeepsOrder(lease, lease')
    BY EveryStepKeepsOrder
  <2>2. \A s : Queued(lease', s) =>
            /\ PositionOf(lease'.waiters, s) \in DOMAIN lease'.waiters
            /\ lease'.waiters[PositionOf(lease'.waiters, s)].session = s
    BY PositionOfQueued
  <2>3. QED
    BY <2>1, <2>2 DEF KeepsOrder
<1>2. QED
  BY <1>1, LeaseSound, PTL DEF Spec, KeepsPlace
=============================================================================
