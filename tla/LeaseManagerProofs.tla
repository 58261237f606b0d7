------------------------- MODULE LeaseManagerProofs -------------------------
(***************************************************************************)
(* Lemmas about the methods of the LeaseManager, for any set of sessions   *)
(* and queues of any length.  LeaseOK, a predicate on one value of its     *)
(* fields, is kept by each method; a second lemma for each says who can    *)
(* own the lease after it, a third that the queue keeps its order.  The    *)
(* proofs about Lease and about Broker rest on them.                       *)
(***************************************************************************)
EXTENDS LeaseManager, SequenceTheorems, WellFoundedInduction, TLAPS

\* No session has two tickets.
DistinctTickets(q) ==
    \A i, j \in DOMAIN q : q[i].session = q[j].session => i = j

\* The session's ticket carries a resolver.
Pending(q, s) == \E i \in DOMAIN q : q[i].session = s /\ q[i].waiting

LeaseOK(l) ==
    /\ l \in LeaseState
    /\ DistinctTickets(l.waiters)
    /\ \A i \in DOMAIN l.waiters : l.waiters[i].session # l.owner
    /\ \A s \in Sessions : l.call[s] = "waiting" <=> Pending(l.waiters, s)

-----------------------------------------------------------------------------
(* Queues *)

\* A set of numbers that has a member has a least one.
LEMMA LeastNat ==
    ASSUME NEW T \in SUBSET Nat, T # {}
    PROVE  \E x \in T : \A y \in T : x <= y
<1> DEFINE R == OpToRel(<, Nat)
<1>1. IsWellFoundedOn(R, Nat)
  BY NatLessThanWellFounded
<1>2. \A x, y \in Nat : x < y => <<x, y>> \in R
  BY DEF OpToRel
<1> HIDE DEF R
<1>3. PICK x \in T : \A y \in T : ~(<<y, x>> \in R)
  BY <1>1, WFMin
<1>4. ASSUME NEW y \in T PROVE x <= y
  <2>1. x \in Nat /\ y \in Nat
    OBVIOUS
  <2>2. ~(y < x)
    BY <1>2, <1>3, <2>1, Zenon
  <2>3. QED
    BY <2>1, <2>2
<1>5. QED
  BY <1>4

\* What a queue is made of.
LEMMA QueueProperties ==
    ASSUME NEW q \in Seq(Waiter)
    PROVE  /\ Len(q) \in Nat
           /\ DOMAIN q = 1..Len(q)
           /\ \A i \in DOMAIN q : q[i] \in Waiter /\ q[i].session \in Sessions
<1>1. Len(q) \in Nat /\ DOMAIN q = 1..Len(q)
  BY LenProperties
<1>2. \A i \in DOMAIN q : q[i] \in Waiter
  BY <1>1, ElementOfSeq
<1>3. \A w \in Waiter : w.session \in Sessions
  BY DEF Waiter
<1>4. QED
  BY <1>1, <1>2, <1>3

\* FirstValid finds the first valid ticket whenever there is a valid one.
LEMMA FirstValidExists ==
    ASSUME NEW q \in Seq(Waiter), NEW k \in DOMAIN q, ~q[k].due
    PROVE  \E i \in FirstValid(q) : i <= k
<1> DEFINE T == {i \in DOMAIN q : ~q[i].due}
<1>1. Len(q) \in Nat /\ DOMAIN q = 1..Len(q)
  BY LenProperties
<1>2. T \in SUBSET Nat /\ k \in T
  BY <1>1
<1>3. PICK i \in T : \A y \in T : i <= y
  BY <1>2, LeastNat
<1>4. i <= k /\ i \in DOMAIN q /\ ~q[i].due
  BY <1>2, <1>3
<1>5. \A j \in 1..(i - 1) : q[j].due
  BY <1>1, <1>3, <1>4
<1>6. QED
  BY <1>4, <1>5 DEF FirstValid

\* RemoveAt yields a queue without the one ticket.
LEMMA RemoveAtProperties ==
    ASSUME NEW S, NEW q \in Seq(S), NEW i \in DOMAIN q
    PROVE  /\ RemoveAt(q, i) \in Seq(S)
           /\ Len(RemoveAt(q, i)) = Len(q) - 1
           /\ DOMAIN RemoveAt(q, i) = 1..(Len(q) - 1)
           /\ \A j \in 1..(Len(q) - 1) :
                 RemoveAt(q, i)[j] = IF j < i THEN q[j] ELSE q[j + 1]
<1>1. Len(q) \in Nat /\ DOMAIN q = 1..Len(q) /\ \A j \in 1..Len(q) : q[j] \in S
  BY LenProperties, ElementOfSeq
<1> DEFINE n == Len(q) - 1
           r == [j \in 1..n |-> IF j < i THEN q[j] ELSE q[j + 1]]
<1>2. n \in Nat
  BY <1>1
<1>3. r \in [1..n -> S]
  <2>1. \A j \in 1..n : (IF j < i THEN q[j] ELSE q[j + 1]) \in S
    BY <1>1
  <2>2. QED
    BY <2>1
<1>4. r \in Seq(S)
  BY <1>2, <1>3, SeqDef
<1>5. Len(r) = n
  BY <1>2, <1>3, <1>4, LenProperties
<1>6. QED
  BY <1>2, <1>3, <1>4, <1>5 DEF RemoveAt

\* A queue some of whose tickets are gone, with their promises refused, is as
\* good as it was: what stays keeps its resolver, what goes is settled.
LEMMA Shrink ==
    ASSUME NEW l, LeaseOK(l), NEW q \in Seq(Waiter), NEW gone,
           DistinctTickets(q),
           \A i \in DOMAIN q : \E j \in DOMAIN l.waiters :
               q[i] = l.waiters[j] /\ l.waiters[j] \notin gone,
           \A w \in gone : \E j \in DOMAIN l.waiters : w = l.waiters[j],
           \A j \in DOMAIN l.waiters :
               l.waiters[j] \in gone \/ \E i \in DOMAIN q : q[i] = l.waiters[j]
    PROVE  LeaseOK([l EXCEPT !.waiters = q, !.call = Refuse(@, gone)])
<1> DEFINE m == [l EXCEPT !.waiters = q, !.call = Refuse(@, gone)]
<1>1. l \in LeaseState
  BY DEF LeaseOK
<1>2. /\ m.waiters = q
      /\ m.owner = l.owner
      /\ m.due = l.due
      /\ m.blocked = l.blocked
      /\ m.call = Refuse(l.call, gone)
  BY <1>1 DEF LeaseState
<1>3. Refuse(l.call, gone) \in [Sessions -> CallState]
  BY <1>1 DEF Refuse, LeaseState, CallState
<1>4. m \in LeaseState
  BY <1>1, <1>3 DEF LeaseState
<1>5. \A i \in DOMAIN q : q[i].session # l.owner
  BY DEF LeaseOK
<1>6. ASSUME NEW s \in Sessions
      PROVE  m.call[s] = "waiting" <=> Pending(q, s)
  <2>1. l.call[s] = "waiting" <=> Pending(l.waiters, s)
    BY DEF LeaseOK
  <2>2. m.call[s] = IF \E w \in gone : w.session = s /\ w.waiting
                    THEN "refused" ELSE l.call[s]
    BY <1>2 DEF Refuse
  <2>3. ASSUME m.call[s] = "waiting" PROVE Pending(q, s)
    <3>1. l.call[s] = "waiting" /\ ~ \E w \in gone : w.session = s /\ w.waiting
      BY <2>2, <2>3
    <3>2. PICK j \in DOMAIN l.waiters : l.waiters[j].session = s /\ l.waiters[j].waiting
      BY <2>1, <3>1 DEF Pending
    <3>3. QED
      BY <3>1, <3>2 DEF Pending
  <2>4. ASSUME Pending(q, s) PROVE m.call[s] = "waiting"
    <3>1. PICK i \in DOMAIN q : q[i].session = s /\ q[i].waiting
      BY <2>4 DEF Pending
    <3>2. PICK j \in DOMAIN l.waiters : q[i] = l.waiters[j] /\ l.waiters[j] \notin gone
      OBVIOUS
    <3>3. l.call[s] = "waiting"
      BY <2>1, <3>1, <3>2 DEF Pending
    <3>4. \A w \in gone : w.session # s
      <4>1. SUFFICES ASSUME NEW w \in gone, w.session = s PROVE FALSE
        OBVIOUS
      <4>2. PICK k \in DOMAIN l.waiters : w = l.waiters[k]
        OBVIOUS
      <4>3. k = j
        BY <3>1, <3>2, <4>1, <4>2 DEF LeaseOK, DistinctTickets
      <4>4. QED
        BY <3>2, <4>1, <4>2, <4>3
    <3>5. QED
      BY <2>2, <3>3, <3>4
  <2>5. QED
    BY <2>3, <2>4
<1>7. QED
  BY <1>2, <1>4, <1>5, <1>6 DEF LeaseOK

-----------------------------------------------------------------------------
(* Methods *)

\* The position of a queued session's ticket.
LEMMA PositionOfQueued ==
    ASSUME NEW l, NEW s, Queued(l, s)
    PROVE  /\ PositionOf(l.waiters, s) \in DOMAIN l.waiters
           /\ l.waiters[PositionOf(l.waiters, s)].session = s
  BY DEF Queued, PositionOf

\* Dropping a ticket keeps the lease sound and the session is not queued then.
LEMMA DropWaiterOK ==
    ASSUME NEW l, LeaseOK(l), NEW s \in Sessions, Queued(l, s)
    PROVE  /\ LeaseOK(DropWaiter(l, s))
           /\ ~Queued(DropWaiter(l, s), s)
           /\ DropWaiter(l, s).owner = l.owner
           /\ DropWaiter(l, s).due = l.due
           /\ DropWaiter(l, s).blocked = l.blocked
<1> DEFINE w == l.waiters
           p == PositionOf(w, s)
           q == RemoveAt(w, p)
           m == DropWaiter(l, s)
<1>1. w \in Seq(Waiter) /\ l \in LeaseState
  BY DEF LeaseOK, LeaseState
<1>2. p \in DOMAIN w /\ w[p].session = s
  BY PositionOfQueued
<1>3. Len(w) \in Nat /\ DOMAIN w = 1..Len(w)
  BY <1>1, LenProperties
<1>4. /\ q \in Seq(Waiter)
      /\ DOMAIN q = 1..(Len(w) - 1)
      /\ \A j \in 1..(Len(w) - 1) : q[j] = IF j < p THEN w[j] ELSE w[j + 1]
  BY <1>1, <1>2, RemoveAtProperties
<1>5. DistinctTickets(w)
  BY DEF LeaseOK
<1> HIDE DEF w, p, q
<1>6. \A j \in DOMAIN w : j # p => w[j].session # s
  BY <1>2, <1>5 DEF DistinctTickets
<1>7. \A i \in DOMAIN q : \E j \in DOMAIN w : q[i] = w[j] /\ j # p /\ (j = i \/ j = i + 1)
                                              /\ (j = i <=> i < p)
  <2> TAKE i \in DOMAIN q
  <2>1. CASE i < p
    BY <1>2, <1>3, <1>4, <2>1
  <2>2. CASE ~(i < p)
    <3>1. i + 1 \in DOMAIN w /\ q[i] = w[i + 1] /\ i + 1 # p /\ i + 1 # i
      BY <1>2, <1>3, <1>4, <2>2
    <3>2. QED
      BY <2>2, <3>1
  <2>3. QED
    BY <2>1, <2>2
<1>8. DistinctTickets(q)
  <2>1. SUFFICES ASSUME NEW i \in DOMAIN q, NEW j \in DOMAIN q, q[i].session = q[j].session
                 PROVE  i = j
    BY DEF DistinctTickets
  <2>2. PICK a \in DOMAIN w : q[i] = w[a] /\ (a = i \/ a = i + 1) /\ (a = i <=> i < p)
    BY <1>7
  <2>3. PICK b \in DOMAIN w : q[j] = w[b] /\ (b = j \/ b = j + 1) /\ (b = j <=> j < p)
    BY <1>7
  <2>4. a = b
    BY <1>5, <2>1, <2>2, <2>3 DEF DistinctTickets
  <2>5. i \in Int /\ j \in Int /\ p \in Int
    BY <1>2, <1>3, <1>4
  <2>6. QED
    BY <2>2, <2>3, <2>4, <2>5
<1>9. \A i \in DOMAIN q : q[i].session # s
  BY <1>6, <1>7
<1>10. \A i \in DOMAIN q : \E j \in DOMAIN w : q[i] = w[j] /\ w[j] \notin {w[p]}
  BY <1>2, <1>6, <1>7
<1>11. ASSUME NEW j \in DOMAIN w
       PROVE  w[j] \in {w[p]} \/ \E i \in DOMAIN q : q[i] = w[j]
  <2>1. CASE j = p
    BY <2>1
  <2>2. CASE j < p
    BY <1>2, <1>3, <1>4, <2>2
  <2>3. CASE j > p
    <3>1. j - 1 \in DOMAIN q /\ q[j - 1] = w[j]
      BY <1>2, <1>3, <1>4, <2>3
    <3>2. QED
      BY <3>1
  <2>4. QED
    BY <1>2, <1>3, <2>1, <2>2, <2>3
<1>12. m = [l EXCEPT !.waiters = q, !.call = Refuse(@, {w[p]})]
  BY DEF DropWaiter, w, p, q
<1>13. LeaseOK(m)
  <2>1. \A x \in {w[p]} : \E j \in DOMAIN w : x = w[j]
    BY <1>2
  <2>2. LeaseOK([l EXCEPT !.waiters = q, !.call = Refuse(@, {w[p]})])
    BY <1>4, <1>8, <1>10, <1>11, <2>1, Shrink DEF w
  <2>3. QED
    BY <1>12, <2>2
<1>14. m.waiters = q /\ m.owner = l.owner /\ m.due = l.due /\ m.blocked = l.blocked
  BY <1>1, <1>12 DEF LeaseState
<1>15. ~Queued(m, s)
  BY <1>9, <1>14 DEF Queued
<1>16. QED
  BY <1>13, <1>14, <1>15

\* release, disconnect and acquire remove the session's ticket, if any.
LEMMA RemoveWaitersForSessionOK ==
    ASSUME NEW l, LeaseOK(l), NEW s \in Sessions
    PROVE  /\ LeaseOK(RemoveWaitersForSession(l, s))
           /\ ~Queued(RemoveWaitersForSession(l, s), s)
           /\ RemoveWaitersForSession(l, s).owner = l.owner
           /\ RemoveWaitersForSession(l, s).blocked = l.blocked
  BY DropWaiterOK DEF RemoveWaitersForSession

\* Shifting expired tickets off the head keeps the lease sound.
LEMMA DropExpiredHeadsOK ==
    ASSUME NEW l, LeaseOK(l)
    PROVE  /\ LeaseOK(DropExpiredHeads(l))
           /\ DropExpiredHeads(l).owner = l.owner
           /\ DropExpiredHeads(l).due = l.due
           /\ DropExpiredHeads(l).blocked = l.blocked
<1> DEFINE w == l.waiters
           q == IF FirstValid(w) = {} THEN <<>>
                ELSE SubSeq(w, CHOOSE i \in FirstValid(w) : TRUE, Len(w))
           gone == ExpiredHeads(w)
           m == DropExpiredHeads(l)
<1>1. w \in Seq(Waiter) /\ l \in LeaseState /\ DistinctTickets(w)
  BY DEF LeaseOK, LeaseState
<1>2. Len(w) \in Nat /\ DOMAIN w = 1..Len(w) /\ \A i \in DOMAIN w : w[i] \in Waiter
  BY <1>1, LenProperties, ElementOfSeq
<1>3. m = [l EXCEPT !.waiters = q, !.call = Refuse(@, gone)]
  BY DEF DropExpiredHeads
<1>4. m.owner = l.owner /\ m.due = l.due /\ m.blocked = l.blocked
  BY <1>1, <1>3 DEF LeaseState
<1>5. \A x \in gone : \E j \in DOMAIN w : x = w[j]
  BY DEF ExpiredHeads
<1>6. CASE FirstValid(w) = {}
  <2>1. q = <<>> /\ q \in Seq(Waiter) /\ DOMAIN q = {}
    BY <1>6
  <2>2. \A j \in DOMAIN w : w[j].due
    BY <1>1, <1>6, FirstValidExists
  <2>3. \A j \in DOMAIN w : w[j] \in gone
    BY <1>2, <2>2 DEF ExpiredHeads
  <2>4. DistinctTickets(q)
    BY <2>1 DEF DistinctTickets
  <2> HIDE DEF w, q, gone
  <2>5. LeaseOK([l EXCEPT !.waiters = q, !.call = Refuse(@, gone)])
    BY <1>5, <2>1, <2>3, <2>4, Shrink DEF w
  <2>6. QED
    BY <1>3, <1>4, <2>5
<1>7. CASE FirstValid(w) # {}
  <2> DEFINE f == CHOOSE i \in FirstValid(w) : TRUE
  <2>1. f \in DOMAIN w /\ ~w[f].due /\ \A j \in 1..(f - 1) : w[j].due
    BY <1>7 DEF FirstValid
  <2>2. q = SubSeq(w, f, Len(w))
    BY <1>7
  <2> HIDE DEF w, q, f
  <2>3. /\ q \in Seq(Waiter)
        /\ Len(q) = Len(w) - f + 1
        /\ \A i \in 1..(Len(w) - f + 1) : q[i] = w[f + i - 1]
    <3>1. \A i \in f..Len(w) : w[i] \in Waiter
      BY <1>2, <2>1
    <3>2. f \in Int /\ Len(w) \in Int /\ f <= Len(w)
      BY <1>2, <2>1
    <3>3. /\ SubSeq(w, f, Len(w)) \in Seq(Waiter)
          /\ Len(SubSeq(w, f, Len(w))) = IF f <= Len(w) THEN Len(w) - f + 1 ELSE 0
          /\ \A i \in 1..(Len(w) - f + 1) : SubSeq(w, f, Len(w))[i] = w[f + i - 1]
      BY <3>1, <3>2, SubSeqProperties
    <3>4. QED
      BY <2>2, <3>2, <3>3
  <2>4. DOMAIN q = 1..(Len(w) - f + 1)
    BY <2>3, LenProperties
  <2>5. \A i \in DOMAIN q : f + i - 1 \in DOMAIN w /\ q[i] = w[f + i - 1] /\ f + i - 1 >= f
    BY <1>2, <2>1, <2>3, <2>4
  <2>6. DistinctTickets(q)
    <3>1. SUFFICES ASSUME NEW i \in DOMAIN q, NEW j \in DOMAIN q, q[i].session = q[j].session
                   PROVE  i = j
      BY DEF DistinctTickets
    <3>2. f + i - 1 = f + j - 1
      BY <1>1, <2>5, <3>1 DEF DistinctTickets
    <3>3. QED
      BY <1>2, <2>1, <2>4, <3>2
  <2>7. \A x \in gone : \E k \in DOMAIN w : x = w[k] /\ k < f
    <3>1. SUFFICES ASSUME NEW k \in DOMAIN w, \A j \in 1..k : w[j].due
                   PROVE  k < f
      BY DEF ExpiredHeads
    <3>2. QED
      BY <1>2, <2>1, <3>1
  <2>8. \A j \in DOMAIN w : j >= f => w[j] \notin gone
    <3>1. SUFFICES ASSUME NEW j \in DOMAIN w, j >= f, NEW k \in DOMAIN w, w[j] = w[k], k < f
                   PROVE  FALSE
      BY <2>7
    <3>2. j = k
      BY <1>1, <3>1 DEF DistinctTickets
    <3>3. QED
      BY <1>2, <2>1, <3>1, <3>2
  <2>9. \A i \in DOMAIN q : \E j \in DOMAIN w : q[i] = w[j] /\ w[j] \notin gone
    BY <2>5, <2>8
  <2>10. ASSUME NEW j \in DOMAIN w
         PROVE  w[j] \in gone \/ \E i \in DOMAIN q : q[i] = w[j]
    <3>1. CASE j < f
      <4>1. \A k \in 1..j : w[k].due
        BY <1>2, <2>1, <3>1
      <4>2. QED
        BY <4>1 DEF ExpiredHeads
    <3>2. CASE j >= f
      <4>1. j - f + 1 \in DOMAIN q /\ f + (j - f + 1) - 1 = j
        BY <1>2, <2>1, <2>4, <3>2
      <4>2. q[j - f + 1] = w[j]
        BY <2>5, <4>1
      <4>3. QED
        BY <4>1, <4>2
    <3>3. QED
      BY <1>2, <2>1, <3>1, <3>2
  <2> HIDE DEF gone
  <2>11. LeaseOK([l EXCEPT !.waiters = q, !.call = Refuse(@, gone)])
    BY <1>5, <2>3, <2>6, <2>9, <2>10, Shrink DEF w
  <2>12. QED
    BY <1>3, <1>4, <2>11
<1>8. QED
  BY <1>6, <1>7

\* A session that is not queued may be made owner.
LEMMA AssignOwnerOK ==
    ASSUME NEW l, LeaseOK(l), NEW s \in Sessions, ~Queued(l, s)
    PROVE  LeaseOK(AssignOwner(l, s))
<1>1. l \in LeaseState
  BY DEF LeaseOK
<1>2. /\ AssignOwner(l, s) \in LeaseState
      /\ AssignOwner(l, s).owner = s
      /\ AssignOwner(l, s).waiters = l.waiters
      /\ AssignOwner(l, s).call = l.call
  BY <1>1 DEF AssignOwner, LeaseState
<1>3. QED
  BY <1>2 DEF LeaseOK, Queued

\* An owner may lose the lease.
LEMMA NoOwnerOK ==
    ASSUME NEW l, LeaseOK(l), NEW b \in BOOLEAN
    PROVE  LeaseOK([l EXCEPT !.owner = None, !.due = FALSE, !.blocked = b])
<1> DEFINE m == [l EXCEPT !.owner = None, !.due = FALSE, !.blocked = b]
<1>1. l \in LeaseState /\ l.waiters \in Seq(Waiter)
  BY DEF LeaseOK, LeaseState
<1>2. /\ m \in LeaseState
      /\ m.owner = None
      /\ m.waiters = l.waiters
      /\ m.call = l.call
  BY <1>1 DEF LeaseState
<1>3. \A i \in DOMAIN l.waiters : l.waiters[i].session \in Sessions
  BY <1>1, QueueProperties
<1>4. \A i \in DOMAIN m.waiters : m.waiters[i].session # m.owner
  BY <1>2, <1>3, NoneAssumption
<1>5. QED
  BY <1>2, <1>4 DEF LeaseOK

\* Blocking alone touches neither owner nor queue.
LEMMA BlockedOK ==
    ASSUME NEW l, LeaseOK(l), NEW b \in BOOLEAN
    PROVE  LeaseOK([l EXCEPT !.blocked = b])
<1> DEFINE m == [l EXCEPT !.blocked = b]
<1>1. l \in LeaseState
  BY DEF LeaseOK
<1>2. m \in LeaseState /\ m.owner = l.owner /\ m.waiters = l.waiters /\ m.call = l.call
  BY <1>1 DEF LeaseState
<1>3. QED
  BY <1>2 DEF LeaseOK

\* Neither does the passing or the renewal of its deadline.
LEMMA DueOK ==
    ASSUME NEW l, LeaseOK(l), NEW d \in BOOLEAN
    PROVE  LeaseOK([l EXCEPT !.due = d])
<1> DEFINE m == [l EXCEPT !.due = d]
<1>1. l \in LeaseState
  BY DEF LeaseOK
<1>2. m \in LeaseState /\ m.owner = l.owner /\ m.waiters = l.waiters /\ m.call = l.call
  BY <1>1 DEF LeaseState
<1>3. QED
  BY <1>2 DEF LeaseOK

\* A new LeaseManager is sound.
LEMMA InitLeaseOK == LeaseOK(InitLease)
<1>1. <<>> \in Seq(Waiter) /\ DOMAIN <<>> = {}
  OBVIOUS
<1>2. InitLease \in LeaseState
  BY <1>1 DEF InitLease, LeaseState, CallState
<1>3. InitLease.waiters = <<>> /\ InitLease.call = [s \in Sessions |-> "idle"]
  BY DEF InitLease
<1>4. QED
  BY <1>1, <1>2, <1>3 DEF LeaseOK, DistinctTickets, Pending

\* touch renews the owner's deadline only.
LEMMA TouchOK ==
    ASSUME NEW l, LeaseOK(l), NEW s \in Sessions
    PROVE  LeaseOK(Touch(l, s)) /\ Touch(l, s).owner = l.owner
<1>1. l \in LeaseState
  BY DEF LeaseOK
<1>2. QED
  BY <1>1, DueOK DEF Touch, LeaseState

\* expireIfDue takes the lease from the owner and blocks the VM.
LEMMA ExpireIfDueOK ==
    ASSUME NEW l, LeaseOK(l)
    PROVE  LeaseOK(ExpireIfDue(l))
  BY NoOwnerOK DEF ExpireIfDue

\* grantNext removes the head's ticket and settles its vm_wait as acquired.
LEMMA GrantNextOK ==
    ASSUME NEW l, LeaseOK(l)
    PROVE  LeaseOK(GrantNext(l))
<1> DEFINE m == DropExpiredHeads(l)
           w == m.waiters
           s == w[1].session
           q == RemoveAt(w, 1)
           g == [AssignOwner(m, s) EXCEPT !.waiters  = RemoveAt(@, 1),
                                          !.call[s] = "acquired"]
<1>1. LeaseOK(m)
  BY DropExpiredHeadsOK
<1>2. CASE Free(l) /\ w # <<>> /\ w[1].waiting
  <2>1. GrantNext(l) = g
    BY <1>2 DEF GrantNext
  <2> HIDE DEF m
  <2>2. m \in LeaseState /\ w \in Seq(Waiter) /\ DistinctTickets(w)
    BY <1>1 DEF LeaseOK, LeaseState
  <2>3. Len(w) \in Nat /\ DOMAIN w = 1..Len(w) /\ 1 \in DOMAIN w
    BY <1>2, <2>2, LenProperties, EmptySeq
  <2>4. w[1] \in Waiter /\ s \in Sessions
    BY <2>2, <2>3, QueueProperties
  <2>5. /\ q \in Seq(Waiter)
        /\ DOMAIN q = 1..(Len(w) - 1)
        /\ \A j \in 1..(Len(w) - 1) : q[j] = w[j + 1]
    <3>1. \A j \in 1..(Len(w) - 1) : ~(j < 1)
      BY <2>3
    <3>2. QED
      BY <2>2, <2>3, <3>1, RemoveAtProperties
  <2>6. /\ g \in LeaseState
        /\ g.owner = s
        /\ g.waiters = q
        /\ g.call = [m.call EXCEPT ![s] = "acquired"]
    BY <2>2, <2>4, <2>5 DEF AssignOwner, LeaseState, CallState
  <2> HIDE DEF g, q, w
  <2>7. \A i \in DOMAIN q : i + 1 \in DOMAIN w /\ i + 1 # 1 /\ q[i] = w[i + 1] /\ i \in Int
    BY <2>3, <2>5
  <2>8. DistinctTickets(q)
    <3>1. SUFFICES ASSUME NEW i \in DOMAIN q, NEW j \in DOMAIN q, q[i].session = q[j].session
                   PROVE  i = j
      BY DEF DistinctTickets
    <3>2. i + 1 = j + 1
      BY <2>2, <2>7, <3>1 DEF DistinctTickets
    <3>3. QED
      BY <2>7, <3>2
  <2>9. \A i \in DOMAIN q : q[i].session # s
    BY <2>2, <2>3, <2>7 DEF DistinctTickets
  <2>10. ASSUME NEW t \in Sessions
         PROVE  g.call[t] = "waiting" <=> Pending(q, t)
    <3>1. m.call[t] = "waiting" <=> Pending(w, t)
      BY <1>1 DEF LeaseOK, w
    <3>2. CASE t = s
      <4>1. g.call[t] # "waiting"
        BY <2>2, <2>4, <2>6, <3>2 DEF LeaseState
      <4>2. ~Pending(q, t)
        BY <2>9, <3>2 DEF Pending
      <4>3. QED
        BY <4>1, <4>2
    <3>3. CASE t # s
      <4>1. g.call[t] = m.call[t]
        BY <2>2, <2>4, <2>6, <3>3 DEF LeaseState
      <4>2. Pending(q, t) => Pending(w, t)
        BY <2>7 DEF Pending
      <4>3. ASSUME Pending(w, t) PROVE Pending(q, t)
        <5>1. PICK j \in DOMAIN w : w[j].session = t /\ w[j].waiting
          BY <4>3 DEF Pending
        <5>2. j # 1
          BY <3>3, <5>1
        <5>3. j - 1 \in DOMAIN q /\ q[j - 1] = w[j]
          <6>1. j \in 1..Len(w) /\ j - 1 \in 1..(Len(w) - 1) /\ (j - 1) + 1 = j
            BY <2>3, <5>1, <5>2
          <6>2. QED
            BY <2>5, <6>1
        <5>4. QED
          BY <5>1, <5>3 DEF Pending
      <4>4. QED
        BY <3>1, <4>1, <4>2, <4>3
    <3>4. QED
      BY <3>2, <3>3
  <2>11. LeaseOK(g)
    BY <2>6, <2>8, <2>9, <2>10 DEF LeaseOK
  <2>12. QED
    BY <2>1, <2>11
<1>3. CASE ~Free(l)
  BY <1>3 DEF GrantNext
<1>4. CASE Free(l) /\ (w = <<>> \/ ~w[1].waiting)
  BY <1>1, <1>4 DEF GrantNext
<1>5. QED
  BY <1>2, <1>3, <1>4

\* setBlocked blocks, or unblocks and grants to the head.
LEMMA SetBlockedOK ==
    ASSUME NEW l, LeaseOK(l), NEW b \in BOOLEAN
    PROVE  LeaseOK(SetBlocked(l, b))
  BY BlockedOK, GrantNextOK DEF SetBlocked

\* A new ticket for a session that has none and is not the owner.
LEMMA EnqueueOK ==
    ASSUME NEW l, LeaseOK(l), NEW s \in Sessions, ~Queued(l, s), l.owner # s
    PROVE  LeaseOK(Enqueue(l, s)) /\ Queued(Enqueue(l, s), s)
<1> DEFINE w == l.waiters
           t == [session |-> s, waiting |-> FALSE, due |-> FALSE]
           q == Append(w, t)
           m == Enqueue(l, s)
<1>1. l \in LeaseState /\ w \in Seq(Waiter) /\ DistinctTickets(w)
  BY DEF LeaseOK, LeaseState
<1>2. Len(w) \in Nat /\ DOMAIN w = 1..Len(w)
  BY <1>1, LenProperties
<1>3. t \in Waiter /\ t.session = s /\ ~t.waiting
  BY DEF Waiter
<1>4. /\ q \in Seq(Waiter)
      /\ Len(q) = Len(w) + 1
      /\ \A i \in 1..Len(w) : q[i] = w[i]
      /\ q[Len(w) + 1] = t
  <2> HIDE DEF w, t
  <2>1. QED
    BY <1>1, <1>2, <1>3, AppendProperties
<1>5. DOMAIN q = 1..(Len(w) + 1)
  BY <1>4, LenProperties
<1>6. /\ m \in LeaseState
      /\ m.owner = l.owner
      /\ m.waiters = q
      /\ m.call = l.call
  BY <1>1, <1>4 DEF Enqueue, LeaseState
<1>7. \A i \in DOMAIN w : w[i].session # s
  BY DEF Queued
<1> HIDE DEF w, t, q, m
<1>8. \A i \in DOMAIN q : (i \in DOMAIN w /\ q[i] = w[i]) \/ (i = Len(w) + 1 /\ q[i] = t)
  BY <1>2, <1>4, <1>5
<1>9. DistinctTickets(q)
  BY <1>1, <1>3, <1>7, <1>8 DEF DistinctTickets
<1>10. \A i \in DOMAIN q : q[i].session # l.owner
  BY <1>3, <1>8 DEF LeaseOK, w
<1>11. ASSUME NEW u \in Sessions
       PROVE  l.call[u] = "waiting" <=> Pending(q, u)
  <2>1. l.call[u] = "waiting" <=> Pending(w, u)
    BY DEF LeaseOK, w
  <2>2. Pending(q, u) => Pending(w, u)
    BY <1>3, <1>8 DEF Pending
  <2>3. Pending(w, u) => Pending(q, u)
    <3>1. \A i \in DOMAIN w : i \in DOMAIN q /\ q[i] = w[i]
      BY <1>2, <1>4, <1>5
    <3>2. QED
      BY <3>1 DEF Pending
  <2>4. QED
    BY <2>1, <2>2, <2>3
<1>12. LeaseOK(m)
  BY <1>6, <1>9, <1>10, <1>11 DEF LeaseOK
<1>13. Queued(m, s)
  <2>1. Len(w) + 1 \in DOMAIN q
    BY <1>2, <1>5
  <2>2. QED
    BY <1>3, <1>4, <1>6, <2>1 DEF Queued
<1>14. QED
  BY <1>12, <1>13 DEF m

\* acquire gives the session the lease or, if asked to, a ticket.
LEMMA AcquireFreshOK ==
    ASSUME NEW l, LeaseOK(l), NEW s \in Sessions, NEW enqueue \in BOOLEAN
    PROVE  /\ LeaseOK(AcquireFresh(l, s, enqueue))
           /\ enqueue => \/ AcquireFresh(l, s, enqueue).owner = s
                         \/ Queued(AcquireFresh(l, s, enqueue), s)
<1> DEFINE q == IF Free(l) THEN DropExpiredHeads(l) ELSE l
           mayTake == Free(l) /\ (q.waiters = <<>> \/ q.waiters[1].session = s)
           a == AcquireFresh(l, s, enqueue)
<1>1. LeaseOK(q) /\ q.owner = l.owner
  BY DropExpiredHeadsOK
<1>2. CASE l.owner = s
  <2>1. a = Touch(l, s)
    BY <1>2 DEF AcquireFresh
  <2>2. QED
    BY <1>2, <2>1, TouchOK
<1>3. CASE l.owner # s /\ mayTake
  <2> DEFINE r == RemoveWaitersForSession(q, s)
  <2>1. a = AssignOwner(r, s)
    BY <1>3 DEF AcquireFresh
  <2>2. LeaseOK(r) /\ ~Queued(r, s)
    BY <1>1, RemoveWaitersForSessionOK
  <2>3. r \in LeaseState
    BY <2>2 DEF LeaseOK
  <2> HIDE DEF r
  <2>4. AssignOwner(r, s).owner = s
    BY <2>3 DEF AssignOwner, LeaseState
  <2>5. QED
    BY <2>1, <2>2, <2>4, AssignOwnerOK
<1>4. CASE l.owner # s /\ ~mayTake /\ (Queued(q, s) \/ ~enqueue)
  <2>1. a = q
    BY <1>4 DEF AcquireFresh
  <2>2. QED
    BY <1>1, <1>4, <2>1
<1>5. CASE l.owner # s /\ ~mayTake /\ ~Queued(q, s) /\ enqueue
  <2>1. a = Enqueue(q, s)
    BY <1>5 DEF AcquireFresh
  <2>2. QED
    BY <1>1, <1>5, <2>1, EnqueueOK
<1>6. QED
  BY <1>2, <1>3, <1>4, <1>5

\* acquire notices expiry first; who is not made owner then has a ticket.
LEMMA AcquireOK ==
    ASSUME NEW l, LeaseOK(l), NEW s \in Sessions, NEW enqueue \in BOOLEAN
    PROVE  /\ LeaseOK(Acquire(l, s, enqueue))
           /\ enqueue => \/ Acquire(l, s, enqueue).owner = s
                         \/ Queued(Acquire(l, s, enqueue), s)
  BY ExpireIfDueOK, AcquireFreshOK DEF Acquire

\* Flags of one ticket change together with the promise of its session.
LEMMA TicketOK ==
    ASSUME NEW l, LeaseOK(l), NEW s \in Sessions, Queued(l, s),
           NEW b \in BOOLEAN, NEW c \in CallState, b <=> c = "waiting"
    PROVE  LeaseOK([l EXCEPT !.waiters[PositionOf(l.waiters, s)].waiting = b,
                             !.call[s] = c])
<1> DEFINE w == l.waiters
           p == PositionOf(w, s)
           q == [w EXCEPT ![p].waiting = b]
           m == [l EXCEPT !.waiters[p].waiting = b, !.call[s] = c]
<1>1. l \in LeaseState /\ w \in Seq(Waiter) /\ DistinctTickets(w)
  BY DEF LeaseOK, LeaseState
<1>2. Len(w) \in Nat /\ DOMAIN w = 1..Len(w) /\ \A i \in DOMAIN w : w[i] \in Waiter
  BY <1>1, QueueProperties
<1>3. p \in DOMAIN w /\ w[p].session = s
  BY PositionOfQueued
<1> HIDE DEF w, p
<1>4. [w[p] EXCEPT !.waiting = b] \in Waiter
  BY <1>2, <1>3 DEF Waiter
<1>5. q \in Seq(Waiter) /\ DOMAIN q = DOMAIN w
  <2>1. q \in [1..Len(w) -> Waiter]
    BY <1>2, <1>3, <1>4
  <2>2. QED
    BY <1>2, <2>1, SeqDef
<1>6. /\ \A i \in DOMAIN w : q[i].session = w[i].session
      /\ \A i \in DOMAIN w : i # p => q[i] = w[i]
      /\ q[p].waiting = b
  BY <1>2, <1>3 DEF Waiter
<1>7. /\ m \in LeaseState
      /\ m.owner = l.owner
      /\ m.waiters = q
      /\ m.call = [l.call EXCEPT ![s] = c]
  <2> HIDE DEF q
  <2>1. m = [l EXCEPT !.waiters = q, !.call = [l.call EXCEPT ![s] = c]]
    BY <1>1 DEF LeaseState, w, q
  <2>2. [l.call EXCEPT ![s] = c] \in [Sessions -> CallState]
    BY <1>1 DEF LeaseState
  <2> HIDE DEF m
  <2>3. QED
    BY <1>1, <1>5, <2>1, <2>2 DEF LeaseState
<1> HIDE DEF q, m
<1>8. DistinctTickets(q)
  BY <1>1, <1>5, <1>6 DEF DistinctTickets
<1>9. \A i \in DOMAIN q : q[i].session # l.owner
  BY <1>5, <1>6 DEF LeaseOK, w
<1>10. ASSUME NEW t \in Sessions
       PROVE  m.call[t] = "waiting" <=> Pending(q, t)
  <2>1. l.call[t] = "waiting" <=> Pending(w, t)
    BY DEF LeaseOK, w
  <2>2. CASE t = s
    <3>1. m.call[t] = c
      BY <1>1, <1>7, <2>2 DEF LeaseState
    <3>2. \A i \in DOMAIN q : q[i].session = s => i = p
      BY <1>1, <1>3, <1>5, <1>6 DEF DistinctTickets
    <3>3. Pending(q, t) <=> b
      BY <1>3, <1>5, <1>6, <2>2, <3>2 DEF Pending
    <3>4. QED
      BY <3>1, <3>3
  <2>3. CASE t # s
    <3>1. m.call[t] = l.call[t]
      BY <1>1, <1>7, <2>3 DEF LeaseState
    <3>2. Pending(q, t) <=> Pending(w, t)
      BY <1>3, <1>5, <1>6, <2>3 DEF Pending
    <3>3. QED
      BY <2>1, <3>1, <3>2
  <2>4. QED
    BY <2>2, <2>3
<1>11. LeaseOK(m)
  BY <1>7, <1>8, <1>9, <1>10 DEF LeaseOK
<1>12. QED
  BY <1>11 DEF m, p, w

\* wait attaches its resolver to a ticket that has none.
LEMMA WaitOK ==
    ASSUME NEW l, LeaseOK(l), NEW s \in Sessions, NEW ticketMatches \in BOOLEAN
    PROVE  LeaseOK(Wait(l, s, ticketMatches))
<1> DEFINE a == Acquire(l, s, TRUE)
<1>1. LeaseOK(a) /\ (a.owner = s \/ Queued(a, s))
  BY AcquireOK
<1>2. CASE a.owner = s \/ ~ticketMatches \/ a.waiters[PositionOf(a.waiters, s)].waiting
  <2>1. Wait(l, s, ticketMatches) = a
    BY <1>2 DEF Wait
  <2>2. QED
    BY <1>1, <2>1
<1>3. CASE ~(a.owner = s \/ ~ticketMatches \/ a.waiters[PositionOf(a.waiters, s)].waiting)
  <2>1. Wait(l, s, ticketMatches) = AttachResolver(a, s)
    BY <1>3 DEF Wait
  <2> HIDE DEF a
  <2>2. LeaseOK(AttachResolver(a, s))
    <3>1. "waiting" \in CallState /\ Queued(a, s)
      BY <1>1, <1>3 DEF CallState
    <3>2. QED
      BY <1>1, <3>1, TicketOK DEF AttachResolver
  <2>3. QED
    BY <2>1, <2>2
<1>4. QED
  BY <1>2, <1>3

\* The wait timer takes the resolver away and settles the call.
LEMMA WaitTimedOutOK ==
    ASSUME NEW l, LeaseOK(l), NEW s \in Sessions, Queued(l, s)
    PROVE  LeaseOK(WaitTimedOut(l, s))
<1>1. "refused" \in CallState
  BY DEF CallState
<1>2. QED
  BY <1>1, TicketOK DEF WaitTimedOut

\* The passing of a ticket's deadline changes nothing the lease promises.
LEMMA TicketDueOK ==
    ASSUME NEW l, LeaseOK(l), NEW p \in DOMAIN l.waiters
    PROVE  LeaseOK([l EXCEPT !.waiters[p].due = TRUE])
<1> DEFINE w == l.waiters
           q == [w EXCEPT ![p].due = TRUE]
           m == [l EXCEPT !.waiters[p].due = TRUE]
<1>1. l \in LeaseState /\ w \in Seq(Waiter) /\ DistinctTickets(w)
  BY DEF LeaseOK, LeaseState
<1>2. Len(w) \in Nat /\ DOMAIN w = 1..Len(w) /\ \A i \in DOMAIN w : w[i] \in Waiter
  BY <1>1, QueueProperties
<1>3. p \in DOMAIN w
  OBVIOUS
<1> HIDE DEF w
<1>4. [w[p] EXCEPT !.due = TRUE] \in Waiter
  BY <1>2, <1>3 DEF Waiter
<1>5. q \in Seq(Waiter) /\ DOMAIN q = DOMAIN w
  <2>1. q \in [1..Len(w) -> Waiter]
    BY <1>2, <1>3, <1>4
  <2>2. QED
    BY <1>2, <2>1, SeqDef
<1>6. \A i \in DOMAIN w : q[i].session = w[i].session /\ q[i].waiting = w[i].waiting
  BY <1>2, <1>3 DEF Waiter
<1>7. m \in LeaseState /\ m.owner = l.owner /\ m.waiters = q /\ m.call = l.call
  <2> HIDE DEF q
  <2>1. m = [l EXCEPT !.waiters = q]
    BY <1>1 DEF LeaseState, w, q
  <2> HIDE DEF m
  <2>2. QED
    BY <1>1, <1>5, <2>1 DEF LeaseState
<1> HIDE DEF q, m
<1>8. DistinctTickets(q)
  BY <1>1, <1>5, <1>6 DEF DistinctTickets
<1>9. \A i \in DOMAIN q : q[i].session # l.owner
  BY <1>5, <1>6 DEF LeaseOK, w
<1>10. \A s \in Sessions : Pending(q, s) <=> Pending(w, s)
  BY <1>5, <1>6 DEF Pending
<1>11. LeaseOK(m)
  BY <1>7, <1>8, <1>9, <1>10 DEF LeaseOK, w
<1>12. QED
  BY <1>11 DEF m

\* release frees the owner's lease, or drops the caller's ticket.
LEMMA ReleaseOK ==
    ASSUME NEW l, LeaseOK(l), NEW s \in Sessions
    PROVE  LeaseOK(Release(l, s))
<1>1. CASE l.owner # s
  BY <1>1, RemoveWaitersForSessionOK DEF Release
<1>2. CASE l.owner = s
  <2> DEFINE m == [l EXCEPT !.owner = None, !.due = FALSE]
  <2>1. l \in LeaseState
    BY DEF LeaseOK
  <2>2. m = [l EXCEPT !.owner = None, !.due = FALSE, !.blocked = l.blocked]
        /\ l.blocked \in BOOLEAN
    BY <2>1 DEF LeaseState
  <2>3. LeaseOK([l EXCEPT !.owner = None, !.due = FALSE, !.blocked = l.blocked])
    BY <2>2, NoOwnerOK
  <2>4. LeaseOK(m)
    BY <2>2, <2>3
  <2>5. Release(l, s) = GrantNext(m)
    BY <1>2 DEF Release
  <2>6. QED
    BY <2>4, <2>5, GrantNextOK
<1>3. QED
  BY <1>1, <1>2

\* disconnect drops the ticket of a session that does not own the lease.
LEMMA DisconnectOK ==
    ASSUME NEW l, LeaseOK(l), NEW s \in Sessions
    PROVE  LeaseOK(Disconnect(l, s))
  BY RemoveWaitersForSessionOK DEF Disconnect

\* clearWaiters settles every vm_wait of the queue it empties.
LEMMA ClearWaitersOK ==
    ASSUME NEW l, LeaseOK(l)
    PROVE  LeaseOK(ClearWaiters(l))
<1> DEFINE w == l.waiters
           q == <<>>
           gone == {w[i] : i \in DOMAIN w}
<1>1. q \in Seq(Waiter) /\ DOMAIN q = {}
  OBVIOUS
<1>2. DistinctTickets(q)
  BY <1>1 DEF DistinctTickets
<1>3. /\ \A x \in gone : \E j \in DOMAIN w : x = w[j]
      /\ \A j \in DOMAIN w : w[j] \in gone
  OBVIOUS
<1>4. ClearWaiters(l) = [l EXCEPT !.waiters = q, !.call = Refuse(@, gone)]
  BY DEF ClearWaiters
<1> HIDE DEF q, gone
<1>5. LeaseOK([l EXCEPT !.waiters = q, !.call = Refuse(@, gone)])
  BY <1>1, <1>2, <1>3, Shrink
<1>6. QED
  BY <1>4, <1>5


\* Every ticket in front of s's ticket (all tickets, if s has none) is expired.
OnlyExpiredBefore(q, s) ==
    \A i \in DOMAIN q : (\A j \in 1..i : q[j].session # s) => q[i].due

\* What a step l -> m that makes someone owner without a call of its own does:
\* the VM is free, and the new owner is the first valid ticket, inside vm_wait.
Granted(l, m) ==
    /\ Free(l)
    /\ ~m.blocked
    /\ m.owner \in Sessions
    /\ OnlyExpiredBefore(l.waiters, m.owner)
    /\ l.call[m.owner] = "waiting"
    /\ m.call[m.owner] = "acquired"

-----------------------------------------------------------------------------
(* Shifting expired tickets off the head *)

\* The loop drops the first f - 1 tickets, all expired, and stops at a valid one.
LEMMA DropExpiredHeadsShifts ==
    ASSUME NEW l, LeaseOK(l)
    PROVE  \E f \in 1..(Len(l.waiters) + 1) :
              /\ \A j \in 1..(f - 1) : l.waiters[j].due
              /\ f \in DOMAIN l.waiters => ~l.waiters[f].due
              /\ Len(DropExpiredHeads(l).waiters) = Len(l.waiters) + 1 - f
              /\ DropExpiredHeads(l).waiters \in Seq(Waiter)
              /\ \A i \in 1..(Len(l.waiters) + 1 - f) :
                    DropExpiredHeads(l).waiters[i] = l.waiters[f + i - 1]
<1> DEFINE w == l.waiters
           m == DropExpiredHeads(l)
<1>1. l \in LeaseState /\ w \in Seq(Waiter)
  BY DEF LeaseOK, LeaseState
<1>2. Len(w) \in Nat /\ DOMAIN w = 1..Len(w) /\ \A i \in DOMAIN w : w[i] \in Waiter
  BY <1>1, QueueProperties
<1>3. m.waiters = IF FirstValid(w) = {} THEN <<>>
                  ELSE SubSeq(w, CHOOSE i \in FirstValid(w) : TRUE, Len(w))
  BY <1>1 DEF DropExpiredHeads, LeaseState
<1>4. CASE FirstValid(w) = {}
  <2>1. \A j \in DOMAIN w : w[j].due
    BY <1>1, <1>4, FirstValidExists
  <2>2. m.waiters = <<>>
    BY <1>3, <1>4
  <2> HIDE DEF w, m
  <2>3. /\ Len(w) + 1 \in 1..(Len(w) + 1)
        /\ \A j \in 1..((Len(w) + 1) - 1) : w[j].due
        /\ Len(w) + 1 \notin DOMAIN w
        /\ Len(m.waiters) = Len(w) + 1 - (Len(w) + 1)
        /\ m.waiters \in Seq(Waiter)
        /\ 1..(Len(w) + 1 - (Len(w) + 1)) = {}
    BY <1>2, <2>1, <2>2
  <2>4. QED
    BY <2>3 DEF w, m
<1>5. CASE FirstValid(w) # {}
  <2> DEFINE f == CHOOSE i \in FirstValid(w) : TRUE
  <2>1. f \in DOMAIN w /\ ~w[f].due /\ \A j \in 1..(f - 1) : w[j].due
    BY <1>5 DEF FirstValid
  <2>2. m.waiters = SubSeq(w, f, Len(w))
    BY <1>3, <1>5
  <2> HIDE DEF w, m, f
  <2>3. f \in Int /\ Len(w) \in Int /\ f <= Len(w) /\ f \in 1..(Len(w) + 1)
    BY <1>2, <2>1
  <2>4. \A i \in f..Len(w) : w[i] \in Waiter
    BY <1>2, <2>1
  <2>5. /\ SubSeq(w, f, Len(w)) \in Seq(Waiter)
        /\ Len(SubSeq(w, f, Len(w))) = IF f <= Len(w) THEN Len(w) - f + 1 ELSE 0
        /\ \A i \in 1..(Len(w) - f + 1) : SubSeq(w, f, Len(w))[i] = w[f + i - 1]
    BY <2>3, <2>4, SubSeqProperties
  <2>6. Len(w) - f + 1 = Len(w) + 1 - f
    BY <2>3
  <2>7. QED
    BY <2>1, <2>2, <2>3, <2>5, <2>6 DEF w, m
<1>6. QED
  BY <1>4, <1>5

-----------------------------------------------------------------------------
(* Who owns the lease after a method *)

\* If the session at the head after the shift is s, or the queue is empty then,
\* every ticket in front of s's was expired.
LEMMA HeadAfterShift ==
    ASSUME NEW l, LeaseOK(l), NEW s \in Sessions,
           \/ DropExpiredHeads(l).waiters = <<>>
           \/ DropExpiredHeads(l).waiters[1].session = s
    PROVE  OnlyExpiredBefore(l.waiters, s)
<1> DEFINE w == l.waiters
           q == DropExpiredHeads(l).waiters
<1>1. Len(w) \in Nat /\ DOMAIN w = 1..Len(w)
  BY QueueProperties DEF LeaseOK, LeaseState
<1>2. PICK f \in 1..(Len(w) + 1) :
              /\ \A j \in 1..(f - 1) : w[j].due
              /\ Len(q) = Len(w) + 1 - f
              /\ q \in Seq(Waiter)
              /\ \A i \in 1..(Len(w) + 1 - f) : q[i] = w[f + i - 1]
  BY DropExpiredHeadsShifts
<1> HIDE DEF q
<1>3. SUFFICES ASSUME NEW i \in DOMAIN w, \A j \in 1..i : w[j].session # s
               PROVE  w[i].due
  BY DEF OnlyExpiredBefore
<1> HIDE DEF w
<1>4. CASE i < f
  BY <1>1, <1>2, <1>4
<1>5. CASE ~(i < f)
  <2>1. Len(q) > 0 /\ 1 \in 1..(Len(w) + 1 - f) /\ f \in 1..i /\ f + 1 - 1 = f
    BY <1>1, <1>2, <1>3, <1>5
  <2>2. q # <<>> /\ q[1] = w[f]
    BY <1>2, <2>1, EmptySeq
  <2>3. q[1].session = s
    BY <2>2 DEF q
  <2>4. QED
    BY <1>3, <2>1, <2>2, <2>3
<1>6. QED
  BY <1>4, <1>5

\* grantNext leaves the owner alone, or grants to the first valid ticket.
LEMMA GrantNextOwner ==
    ASSUME NEW l, LeaseOK(l)
    PROVE  GrantNext(l).owner = l.owner \/ Granted(l, GrantNext(l))
<1> DEFINE m == DropExpiredHeads(l)
           w == m.waiters
           s == w[1].session
           g == [AssignOwner(m, s) EXCEPT !.waiters  = RemoveAt(@, 1),
                                          !.call[s] = "acquired"]
<1>1. LeaseOK(m) /\ m.owner = l.owner /\ m.blocked = l.blocked
  BY DropExpiredHeadsOK
<1>2. CASE Free(l) /\ w # <<>> /\ w[1].waiting
  <2>1. GrantNext(l) = g
    BY <1>2 DEF GrantNext
  <2>2. PICK f \in 1..(Len(l.waiters) + 1) :
              /\ Len(w) = Len(l.waiters) + 1 - f
              /\ \A i \in 1..(Len(l.waiters) + 1 - f) : w[i] = l.waiters[f + i - 1]
    BY DropExpiredHeadsShifts
  <2>3. w \in Seq(Waiter) /\ m \in LeaseState
    BY <1>1 DEF LeaseOK, LeaseState
  <2>4. 1 \in DOMAIN w /\ Len(w) \in Nat /\ DOMAIN w = 1..Len(w)
    BY <1>2, <2>3, LenProperties, EmptySeq
  <2>5. s \in Sessions
    BY <2>3, <2>4, QueueProperties
  <2>6. l.call \in [Sessions -> CallState] /\ l.waiters \in Seq(Waiter)
    BY DEF LeaseOK, LeaseState
  <2>7. Len(l.waiters) \in Nat /\ DOMAIN l.waiters = 1..Len(l.waiters)
    BY <2>6, QueueProperties
  <2>8. f \in DOMAIN l.waiters /\ w[1] = l.waiters[f]
    <3>1. 1 \in 1..(Len(l.waiters) + 1 - f) /\ f \in 1..Len(l.waiters) /\ f + 1 - 1 = f
      BY <2>2, <2>4, <2>7
    <3>2. QED
      BY <2>2, <2>7, <3>1
  <2>9. l.call[s] = "waiting"
    <3>1. Pending(l.waiters, s)
      BY <1>2, <2>8 DEF Pending
    <3>2. QED
      BY <2>5, <3>1 DEF LeaseOK
  <2>10. OnlyExpiredBefore(l.waiters, s)
    BY <2>5, HeadAfterShift
  <2> HIDE DEF m
  <2>11. g.owner = s /\ g.blocked = m.blocked /\ g.call[s] = "acquired"
    BY <2>3, <2>5 DEF AssignOwner, LeaseState
  <2>12. QED
    BY <1>1, <1>2, <2>1, <2>5, <2>9, <2>10, <2>11 DEF Granted, Free
<1>3. CASE ~Free(l)
  BY <1>3 DEF GrantNext
<1>4. CASE Free(l) /\ (w = <<>> \/ ~w[1].waiting)
  BY <1>1, <1>4 DEF GrantNext
<1>5. QED
  BY <1>2, <1>3, <1>4

\* Once expiry has been noticed, acquire leaves the owner alone, or gives a free
\* VM to the caller past expired tickets only.
LEMMA AcquireFreshOwner ==
    ASSUME NEW l, LeaseOK(l), NEW s \in Sessions, NEW enqueue \in BOOLEAN
    PROVE  LET a == AcquireFresh(l, s, enqueue)
           IN  \/ a.owner = l.owner
               \/ a.owner = s /\ Free(l) /\ ~a.blocked /\ OnlyExpiredBefore(l.waiters, s)
<1> DEFINE q == IF Free(l) THEN DropExpiredHeads(l) ELSE l
           mayTake == Free(l) /\ (q.waiters = <<>> \/ q.waiters[1].session = s)
           a == AcquireFresh(l, s, enqueue)
<1>1. LeaseOK(q) /\ q.owner = l.owner /\ q.blocked = l.blocked
  BY DropExpiredHeadsOK
<1>2. CASE l.owner = s
  <2>1. a = Touch(l, s)
    BY <1>2 DEF AcquireFresh
  <2>2. QED
    BY <2>1, TouchOK
<1>3. CASE l.owner # s /\ mayTake
  <2> DEFINE r == RemoveWaitersForSession(q, s)
  <2>1. a = AssignOwner(r, s)
    BY <1>3 DEF AcquireFresh
  <2>2. LeaseOK(r) /\ r.blocked = q.blocked
    BY <1>1, RemoveWaitersForSessionOK
  <2>3. r \in LeaseState
    BY <2>2 DEF LeaseOK
  <2>4. OnlyExpiredBefore(l.waiters, s)
    BY <1>3, HeadAfterShift
  <2> HIDE DEF r
  <2>5. AssignOwner(r, s).owner = s /\ AssignOwner(r, s).blocked = r.blocked
    BY <2>3 DEF AssignOwner, LeaseState
  <2>6. QED
    BY <1>1, <1>3, <2>1, <2>2, <2>4, <2>5 DEF Free
<1>4. CASE l.owner # s /\ ~mayTake /\ (Queued(q, s) \/ ~enqueue)
  <2>1. a = q
    BY <1>4 DEF AcquireFresh
  <2>2. QED
    BY <1>1, <2>1
<1>5. CASE l.owner # s /\ ~mayTake /\ ~Queued(q, s) /\ enqueue
  <2>1. a = Enqueue(q, s)
    BY <1>5 DEF AcquireFresh
  <2>2. q \in LeaseState
    BY <1>1 DEF LeaseOK
  <2> HIDE DEF q
  <2>3. Enqueue(q, s).owner = q.owner
    BY <2>2 DEF Enqueue, LeaseState
  <2>4. QED
    BY <1>1, <2>1, <2>3
<1>6. QED
  BY <1>2, <1>3, <1>4, <1>5

\* A caller that finds an expired lease does not take the VM over: acquire makes
\* the caller owner only if the VM was free before.
LEMMA AcquireOwner ==
    ASSUME NEW l, LeaseOK(l), NEW s \in Sessions, NEW enqueue \in BOOLEAN
    PROVE  LET a == Acquire(l, s, enqueue)
           IN  \/ a.owner \in {None, l.owner}
               \/ a.owner = s /\ Free(l) /\ ~a.blocked /\ OnlyExpiredBefore(l.waiters, s)
<1> DEFINE e == ExpireIfDue(l)
           a == Acquire(l, s, enqueue)
<1>1. LeaseOK(e) /\ a = AcquireFresh(e, s, enqueue)
  BY ExpireIfDueOK DEF Acquire
<1>2. \/ a.owner = e.owner
      \/ a.owner = s /\ Free(e) /\ ~a.blocked /\ OnlyExpiredBefore(e.waiters, s)
  <2> HIDE DEF e
  <2>1. QED
    BY <1>1, AcquireFreshOwner
<1>3. CASE Expires(l)
  <2>1. l \in LeaseState
    BY DEF LeaseOK
  <2>2. e.owner = None /\ ~Free(e)
    BY <1>3, <2>1 DEF ExpireIfDue, Free, LeaseState
  <2>3. QED
    BY <1>2, <2>2
<1>4. CASE ~Expires(l)
  <2>1. e = l
    BY <1>4 DEF ExpireIfDue
  <2>2. QED
    BY <1>2, <2>1
<1>5. QED
  BY <1>3, <1>4

\* vm_wait makes its caller owner as acquire does.
LEMMA WaitOwner ==
    ASSUME NEW l, LeaseOK(l), NEW s \in Sessions, NEW ticketMatches \in BOOLEAN
    PROVE  LET a == Wait(l, s, ticketMatches)
           IN  \/ a.owner \in {None, l.owner}
               \/ a.owner = s /\ Free(l) /\ ~a.blocked /\ OnlyExpiredBefore(l.waiters, s)
<1> DEFINE a == Acquire(l, s, TRUE)
           b == Wait(l, s, ticketMatches)
<1>1. LeaseOK(a)
  BY AcquireOK
<1>2. \/ a.owner \in {None, l.owner}
      \/ a.owner = s /\ Free(l) /\ ~a.blocked /\ OnlyExpiredBefore(l.waiters, s)
  BY AcquireOwner
<1>3. CASE b = a
  BY <1>2, <1>3
<1>4. CASE b = AttachResolver(a, s)
  <2>1. a \in LeaseState
    BY <1>1 DEF LeaseOK
  <2> HIDE DEF a
  <2>2. AttachResolver(a, s).owner = a.owner /\ AttachResolver(a, s).blocked = a.blocked
    BY <2>1 DEF AttachResolver, LeaseState
  <2>3. QED
    BY <1>2, <1>4, <2>2
<1>5. b = a \/ b = AttachResolver(a, s)
  BY DEF Wait
<1>6. QED
  BY <1>3, <1>4, <1>5

\* Releasing makes someone else owner only if the VM is not blocked, the queue's
\* first valid ticket is inside vm_wait, and the caller was the owner.
LEMMA ReleaseOwner ==
    ASSUME NEW l, LeaseOK(l), NEW s \in Sessions
    PROVE  LET r == Release(l, s)
           IN  \/ r.owner \in {None, l.owner}
               \/ /\ l.owner = s
                  /\ ~r.blocked
                  /\ r.owner \in Sessions
                  /\ OnlyExpiredBefore(l.waiters, r.owner)
                  /\ l.call[r.owner] = "waiting"
                  /\ r.call[r.owner] = "acquired"
<1> DEFINE r == Release(l, s)
<1>1. CASE l.owner # s
  BY <1>1, RemoveWaitersForSessionOK DEF Release
<1>2. CASE l.owner = s
  <2> DEFINE m == [l EXCEPT !.owner = None, !.due = FALSE]
  <2>1. l \in LeaseState /\ l.blocked \in BOOLEAN
    BY DEF LeaseOK, LeaseState
  <2>2. m = [l EXCEPT !.owner = None, !.due = FALSE, !.blocked = l.blocked]
    BY <2>1 DEF LeaseState
  <2>3. LeaseOK([l EXCEPT !.owner = None, !.due = FALSE, !.blocked = l.blocked])
    BY <2>1, NoOwnerOK
  <2>4. LeaseOK(m)
    BY <2>2, <2>3
  <2>5. r = GrantNext(m)
    BY <1>2 DEF Release
  <2>6. m.owner = None /\ m.waiters = l.waiters /\ m.call = l.call
    BY <2>1 DEF LeaseState
  <2> HIDE DEF m
  <2>7. r.owner = m.owner \/ Granted(m, r)
    BY <2>4, <2>5, GrantNextOwner
  <2>8. QED
    BY <1>2, <2>6, <2>7 DEF Granted
<1>3. QED
  BY <1>1, <1>2

\* setBlocked makes someone owner only by granting a free VM.
LEMMA SetBlockedOwner ==
    ASSUME NEW l, LeaseOK(l), NEW b \in BOOLEAN
    PROVE  LET r == SetBlocked(l, b)
           IN  \/ r.owner = l.owner
               \/ /\ l.owner = None
                  /\ ~r.blocked
                  /\ r.owner \in Sessions
                  /\ OnlyExpiredBefore(l.waiters, r.owner)
                  /\ l.call[r.owner] = "waiting"
                  /\ r.call[r.owner] = "acquired"
<1> DEFINE m == [l EXCEPT !.blocked = FALSE]
           r == SetBlocked(l, b)
<1>1. l \in LeaseState
  BY DEF LeaseOK
<1>2. CASE b
  BY <1>1, <1>2 DEF SetBlocked, LeaseState
<1>3. CASE ~b
  <2>1. r = GrantNext(m) /\ LeaseOK(m)
    BY <1>3, BlockedOK DEF SetBlocked
  <2>2. m.owner = l.owner /\ m.waiters = l.waiters /\ m.call = l.call
    BY <1>1 DEF LeaseState
  <2> HIDE DEF m
  <2>3. r.owner = m.owner \/ Granted(m, r)
    BY <2>1, GrantNextOwner
  <2>4. QED
    BY <2>2, <2>3 DEF Granted, Free
<1>4. QED
  BY <1>2, <1>3

-----------------------------------------------------------------------------
(* Keeping one's place *)

\* The tickets of q are tickets of w, in the order they have in w.
Embeds(q, w) ==
    \E g \in [DOMAIN q -> DOMAIN w] :
        /\ \A a \in DOMAIN q : q[a].session = w[g[a]].session
        /\ \A a, b \in DOMAIN q : a < b => g[a] < g[b]

\* Valid tickets of l that are still queued in m keep their order.
KeepsOrder(l, m) ==
    \A i, j \in DOMAIN l.waiters :
        (i < j /\ ~l.waiters[i].due /\ ~l.waiters[j].due)
        => \A a, b \in DOMAIN m.waiters :
              (/\ m.waiters[a].session = l.waiters[i].session
               /\ m.waiters[b].session = l.waiters[j].session) => a < b

\* A queue of tickets in their old order keeps everybody's place.
LEMMA EmbeddedKeepsOrder ==
    ASSUME NEW l, NEW m, LeaseOK(l), m.waiters \in Seq(Waiter), Embeds(m.waiters, l.waiters)
    PROVE  KeepsOrder(l, m)
<1> DEFINE w == l.waiters
           q == m.waiters
<1>1. w \in Seq(Waiter) /\ DistinctTickets(w)
  BY DEF LeaseOK, LeaseState
<1>2. DOMAIN w = 1..Len(w) /\ Len(w) \in Nat /\ DOMAIN q = 1..Len(q) /\ Len(q) \in Nat
  BY <1>1, QueueProperties
<1>3. SUFFICES ASSUME NEW i \in DOMAIN w, NEW j \in DOMAIN w, i < j,
                      NEW a \in DOMAIN q, NEW b \in DOMAIN q,
                      q[a].session = w[i].session, q[b].session = w[j].session
               PROVE  a < b
  BY DEF KeepsOrder
<1>4. PICK g \in [DOMAIN q -> DOMAIN w] :
              /\ \A x \in DOMAIN q : q[x].session = w[g[x]].session
              /\ \A x, y \in DOMAIN q : x < y => g[x] < g[y]
  BY DEF Embeds
<1>5. g[a] = i /\ g[b] = j
  <2>1. g[a] \in DOMAIN w /\ g[b] \in DOMAIN w
    BY <1>3, <1>4
  <2>2. w[g[a]].session = w[i].session /\ w[g[b]].session = w[j].session
    BY <1>3, <1>4
  <2> HIDE DEF w, q
  <2>3. QED
    BY <1>1, <2>1, <2>2 DEF DistinctTickets
<1> HIDE DEF w, q
<1>6. a \in Int /\ b \in Int /\ i \in Int /\ j \in Int
  BY <1>2
<1>7. a # b
  BY <1>3, <1>5, <1>6
<1>8. ~(b < a)
  BY <1>3, <1>4, <1>5, <1>6
<1>9. QED
  BY <1>6, <1>7, <1>8

\* A queue whose sessions stay the same, whatever flags change, keeps its order.
LEMMA SameSessionsEmbed ==
    ASSUME NEW q, NEW w, DOMAIN q = DOMAIN w,
           \A i \in DOMAIN w : q[i].session = w[i].session
    PROVE  Embeds(q, w)
<1> DEFINE g == [i \in DOMAIN q |-> i]
<1>1. g \in [DOMAIN q -> DOMAIN w]
  OBVIOUS
<1>2. /\ \A a \in DOMAIN q : q[a].session = w[g[a]].session
      /\ \A a, b \in DOMAIN q : a < b => g[a] < g[b]
  OBVIOUS
<1> HIDE DEF g
<1>3. QED
  BY <1>1, <1>2 DEF Embeds

\* Taking one ticket out moves the tickets behind it up by one.
LEMMA RemoveAtEmbeds ==
    ASSUME NEW w \in Seq(Waiter), NEW p \in DOMAIN w
    PROVE  Embeds(RemoveAt(w, p), w)
<1> DEFINE q == RemoveAt(w, p)
           g == [i \in DOMAIN q |-> IF i < p THEN i ELSE i + 1]
<1>1. Len(w) \in Nat /\ DOMAIN w = 1..Len(w)
  BY QueueProperties
<1>2. /\ DOMAIN q = 1..(Len(w) - 1)
      /\ \A j \in 1..(Len(w) - 1) : q[j] = IF j < p THEN w[j] ELSE w[j + 1]
  BY RemoveAtProperties
<1> HIDE DEF q
<1>3. \A i \in DOMAIN q : (IF i < p THEN i ELSE i + 1) \in DOMAIN w
  BY <1>1, <1>2
<1>4. g \in [DOMAIN q -> DOMAIN w]
  BY <1>3
<1>5. \A a \in DOMAIN q : q[a].session = w[g[a]].session
  BY <1>2
<1>6. \A a, b \in DOMAIN q : a < b => g[a] < g[b]
  BY <1>1, <1>2
<1> HIDE DEF g
<1>7. Embeds(q, w)
  BY <1>4, <1>5, <1>6 DEF Embeds
<1>8. QED
  BY <1>7 DEF q

\* Shifting expired tickets off the head keeps the order of the others.
LEMMA DropExpiredHeadsEmbeds ==
    ASSUME NEW l, LeaseOK(l)
    PROVE  Embeds(DropExpiredHeads(l).waiters, l.waiters)
<1> DEFINE w == l.waiters
           q == DropExpiredHeads(l).waiters
<1>1. Len(w) \in Nat /\ DOMAIN w = 1..Len(w)
  BY QueueProperties DEF LeaseOK, LeaseState
<1>2. PICK f \in 1..(Len(w) + 1) :
              /\ Len(q) = Len(w) + 1 - f
              /\ q \in Seq(Waiter)
              /\ \A i \in 1..(Len(w) + 1 - f) : q[i] = w[f + i - 1]
  BY DropExpiredHeadsShifts
<1>3. DOMAIN q = 1..(Len(w) + 1 - f)
  BY <1>2, QueueProperties
<1> HIDE DEF q, w
<1> DEFINE g == [i \in DOMAIN q |-> f + i - 1]
<1>4. g \in [DOMAIN q -> DOMAIN w]
  <2>1. \A i \in DOMAIN q : f + i - 1 \in DOMAIN w
    BY <1>1, <1>3
  <2>2. QED
    BY <2>1
<1>5. \A a \in DOMAIN q : q[a].session = w[g[a]].session
  BY <1>2, <1>3
<1>6. \A a, b \in DOMAIN q : a < b => g[a] < g[b]
  BY <1>1, <1>3
<1> HIDE DEF g
<1>7. Embeds(q, w)
  BY <1>4, <1>5, <1>6 DEF Embeds
<1>8. QED
  BY <1>7 DEF q, w

\* Order is kept through several changes of the queue.
LEMMA EmbedsTransitive ==
    ASSUME NEW q, NEW r, NEW w, Embeds(q, r), Embeds(r, w)
    PROVE  Embeds(q, w)
<1>1. PICK g \in [DOMAIN q -> DOMAIN r] :
              /\ \A x \in DOMAIN q : q[x].session = r[g[x]].session
              /\ \A x, y \in DOMAIN q : x < y => g[x] < g[y]
  BY DEF Embeds
<1>2. PICK h \in [DOMAIN r -> DOMAIN w] :
              /\ \A x \in DOMAIN r : r[x].session = w[h[x]].session
              /\ \A x, y \in DOMAIN r : x < y => h[x] < h[y]
  BY DEF Embeds
<1> DEFINE k == [x \in DOMAIN q |-> h[g[x]]]
<1>3. k \in [DOMAIN q -> DOMAIN w]
  BY <1>1, <1>2
<1>4. /\ \A a \in DOMAIN q : q[a].session = w[k[a]].session
      /\ \A a, b \in DOMAIN q : a < b => k[a] < k[b]
  BY <1>1, <1>2
<1> HIDE DEF k
<1>5. QED
  BY <1>3, <1>4 DEF Embeds

\* Dropping a session's ticket keeps the order of the others.
LEMMA RemoveWaitersForSessionEmbeds ==
    ASSUME NEW l, LeaseOK(l), NEW s \in Sessions
    PROVE  Embeds(RemoveWaitersForSession(l, s).waiters, l.waiters)
<1>1. l \in LeaseState /\ l.waiters \in Seq(Waiter)
  BY DEF LeaseOK, LeaseState
<1>2. CASE Queued(l, s)
  <2> DEFINE p == PositionOf(l.waiters, s)
  <2>1. p \in DOMAIN l.waiters
    BY <1>2, PositionOfQueued
  <2> HIDE DEF p
  <2>2. RemoveWaitersForSession(l, s).waiters = RemoveAt(l.waiters, p)
    BY <1>1, <1>2 DEF RemoveWaitersForSession, DropWaiter, LeaseState, p
  <2>3. QED
    BY <1>1, <2>1, <2>2, RemoveAtEmbeds
<1>3. CASE ~Queued(l, s)
  BY <1>3, SameSessionsEmbed DEF RemoveWaitersForSession
<1>4. QED
  BY <1>2, <1>3

\* Granting to the head keeps the order of those behind it.
LEMMA GrantNextEmbeds ==
    ASSUME NEW l, LeaseOK(l)
    PROVE  Embeds(GrantNext(l).waiters, l.waiters)
<1> DEFINE m == DropExpiredHeads(l)
           w == m.waiters
           s == w[1].session
           g == [AssignOwner(m, s) EXCEPT !.waiters  = RemoveAt(@, 1),
                                          !.call[s] = "acquired"]
<1>1. LeaseOK(m) /\ Embeds(w, l.waiters)
  BY DropExpiredHeadsOK, DropExpiredHeadsEmbeds
<1>2. CASE Free(l) /\ w # <<>> /\ w[1].waiting
  <2>1. GrantNext(l) = g
    BY <1>2 DEF GrantNext
  <2> HIDE DEF m
  <2>2. w \in Seq(Waiter) /\ m \in LeaseState
    BY <1>1 DEF LeaseOK, LeaseState
  <2>3. 1 \in DOMAIN w
    BY <1>2, <2>2, LenProperties, EmptySeq
  <2>4. g.waiters = RemoveAt(w, 1)
    BY <2>2 DEF AssignOwner, LeaseState
  <2>5. Embeds(RemoveAt(w, 1), w)
    BY <2>2, <2>3, RemoveAtEmbeds
  <2>6. QED
    BY <1>1, <2>1, <2>4, <2>5, EmbedsTransitive
<1>3. CASE ~Free(l)
  BY <1>3, SameSessionsEmbed DEF GrantNext
<1>4. CASE Free(l) /\ (w = <<>> \/ ~w[1].waiting)
  BY <1>1, <1>4 DEF GrantNext
<1>5. QED
  BY <1>2, <1>3, <1>4

\* acquire keeps the order of valid tickets: a new ticket goes to the tail, and
\* only a session whose ticket had expired can lose its place by that.
LEMMA AcquireFreshKeepsOrder ==
    ASSUME NEW l, LeaseOK(l), NEW s \in Sessions, NEW enqueue \in BOOLEAN
    PROVE  KeepsOrder(l, AcquireFresh(l, s, enqueue))
<1> DEFINE q == IF Free(l) THEN DropExpiredHeads(l) ELSE l
           mayTake == Free(l) /\ (q.waiters = <<>> \/ q.waiters[1].session = s)
           a == AcquireFresh(l, s, enqueue)
<1>1. LeaseOK(q) /\ Embeds(q.waiters, l.waiters)
  BY DropExpiredHeadsOK, DropExpiredHeadsEmbeds, SameSessionsEmbed
<1>2. LeaseOK(a)
  BY AcquireFreshOK
<1>3. a.waiters \in Seq(Waiter) /\ l \in LeaseState /\ l.waiters \in Seq(Waiter)
      /\ q \in LeaseState /\ q.waiters \in Seq(Waiter)
  BY <1>1, <1>2 DEF LeaseOK, LeaseState
<1>4. CASE l.owner = s
  <2>1. a.waiters = l.waiters
    BY <1>3, <1>4 DEF AcquireFresh, Touch, LeaseState
  <2>2. QED
    BY <1>3, <2>1, SameSessionsEmbed, EmbeddedKeepsOrder
<1>5. CASE l.owner # s /\ mayTake
  <2> DEFINE r == RemoveWaitersForSession(q, s)
  <2>1. a = AssignOwner(r, s)
    BY <1>5 DEF AcquireFresh
  <2>2. LeaseOK(r) /\ Embeds(r.waiters, q.waiters)
    BY <1>1, RemoveWaitersForSessionOK, RemoveWaitersForSessionEmbeds
  <2>3. r \in LeaseState
    BY <2>2 DEF LeaseOK
  <2> HIDE DEF r, q
  <2>4. AssignOwner(r, s).waiters = r.waiters
    BY <2>3 DEF AssignOwner, LeaseState
  <2>5. Embeds(a.waiters, l.waiters)
    BY <1>1, <2>1, <2>2, <2>4, EmbedsTransitive
  <2>6. QED
    BY <1>3, <2>5, EmbeddedKeepsOrder
<1>6. CASE l.owner # s /\ ~mayTake /\ (Queued(q, s) \/ ~enqueue)
  <2>1. a = q
    BY <1>6 DEF AcquireFresh
  <2>2. QED
    BY <1>1, <1>3, <2>1, EmbeddedKeepsOrder
<1>7. CASE l.owner # s /\ ~mayTake /\ ~Queued(q, s) /\ enqueue
  <2> DEFINE w == l.waiters
             t == [session |-> s, waiting |-> FALSE, due |-> FALSE]
  <2>1. a = Enqueue(q, s)
    BY <1>7 DEF AcquireFresh
  <2>2. KeepsOrder(l, q)
    BY <1>1, <1>3, EmbeddedKeepsOrder
  <2>3. \A i \in DOMAIN w : ~w[i].due => \E x \in DOMAIN q.waiters : q.waiters[x] = w[i]
    <3>1. CASE Free(l)
      <4>1. q = DropExpiredHeads(l)
        BY <3>1
      <4>2. PICK f \in 1..(Len(w) + 1) :
              /\ \A j \in 1..(f - 1) : w[j].due
              /\ Len(q.waiters) = Len(w) + 1 - f
              /\ \A i \in 1..(Len(w) + 1 - f) : q.waiters[i] = w[f + i - 1]
        BY <4>1, DropExpiredHeadsShifts
      <4>3. /\ DOMAIN w = 1..Len(w) /\ Len(w) \in Nat
            /\ DOMAIN q.waiters = 1..(Len(w) + 1 - f)
        BY <1>3, <4>2, QueueProperties
      <4>4. SUFFICES ASSUME NEW i \in DOMAIN w, ~w[i].due
                     PROVE  \E x \in DOMAIN q.waiters : q.waiters[x] = w[i]
        OBVIOUS
      <4> HIDE DEF q, w
      <4>5. i >= f
        BY <4>2, <4>3, <4>4
      <4>6. i + 1 - f \in DOMAIN q.waiters /\ f + (i + 1 - f) - 1 = i
        BY <4>3, <4>5
      <4>7. q.waiters[i + 1 - f] = w[i]
        BY <4>2, <4>3, <4>6
      <4>8. QED
        BY <4>6, <4>7
    <3>2. CASE ~Free(l)
      <4>1. q = l
        BY <3>2
      <4>2. QED
        BY <4>1
    <3>3. QED
      BY <3>1, <3>2
  <2> HIDE DEF q, t
  <2>4. Enqueue(q, s).waiters = Append(q.waiters, t)
    BY <1>3 DEF Enqueue, LeaseState, t
  <2>5. t.session = s /\ t \in Waiter
    BY DEF t, Waiter
  <2>6. \A x \in DOMAIN a.waiters :
            \/ x \in DOMAIN q.waiters /\ a.waiters[x] = q.waiters[x]
            \/ a.waiters[x].session = s
    <3>1. /\ Len(a.waiters) = Len(q.waiters) + 1
          /\ \A i \in 1..Len(q.waiters) : a.waiters[i] = q.waiters[i]
          /\ a.waiters[Len(q.waiters) + 1] = t
      BY <1>3, <2>1, <2>4, <2>5, AppendProperties
    <3>2. /\ DOMAIN a.waiters = 1..Len(a.waiters)
          /\ DOMAIN q.waiters = 1..Len(q.waiters) /\ Len(q.waiters) \in Nat
      BY <1>3, LenProperties
    <3>3. QED
      BY <2>5, <3>1, <3>2
  <2>7. \A i \in DOMAIN w : ~w[i].due => w[i].session # s
    BY <1>7, <2>3 DEF Queued
  <2> HIDE DEF a, w
  <2>8. SUFFICES ASSUME NEW i \in DOMAIN w, NEW j \in DOMAIN w, i < j, ~w[i].due, ~w[j].due,
                        NEW x \in DOMAIN a.waiters, NEW y \in DOMAIN a.waiters,
                        a.waiters[x].session = w[i].session,
                        a.waiters[y].session = w[j].session
                 PROVE  x < y
    BY DEF KeepsOrder, a, w
  <2>9. /\ x \in DOMAIN q.waiters /\ q.waiters[x].session = w[i].session
        /\ y \in DOMAIN q.waiters /\ q.waiters[y].session = w[j].session
    BY <2>6, <2>7, <2>8
  <2>10. QED
    BY <2>2, <2>8, <2>9 DEF KeepsOrder, w
<1>8. QED
  BY <1>4, <1>5, <1>6, <1>7

\* Noticing expiry does not touch the queue, so acquire keeps the order too.
LEMMA AcquireKeepsOrder ==
    ASSUME NEW l, LeaseOK(l), NEW s \in Sessions, NEW enqueue \in BOOLEAN
    PROVE  KeepsOrder(l, Acquire(l, s, enqueue))
<1> DEFINE e == ExpireIfDue(l)
<1>1. LeaseOK(e) /\ Acquire(l, s, enqueue) = AcquireFresh(e, s, enqueue)
  BY ExpireIfDueOK DEF Acquire
<1>2. e.waiters = l.waiters
  BY DEF ExpireIfDue, LeaseOK, LeaseState
<1> HIDE DEF e
<1>3. KeepsOrder(e, Acquire(l, s, enqueue))
  BY <1>1, AcquireFreshKeepsOrder
<1>4. QED
  BY <1>2, <1>3 DEF KeepsOrder

\* Changing flags of one ticket leaves every session where it is.
LEMMA FlagEmbeds ==
    ASSUME NEW l, l \in LeaseState, NEW p, NEW c,
           NEW b \in BOOLEAN
    PROVE  /\ Embeds([l EXCEPT !.waiters[p].waiting = b, !.call = c].waiters, l.waiters)
           /\ Embeds([l EXCEPT !.waiters[p].due = b].waiters, l.waiters)
<1> DEFINE w == l.waiters
<1>1. w \in Seq(Waiter)
  BY DEF LeaseState
<1>2. DOMAIN w = 1..Len(w) /\ \A i \in DOMAIN w : w[i] \in Waiter
  BY <1>1, QueueProperties
<1>3. /\ [l EXCEPT !.waiters[p].waiting = b, !.call = c].waiters = [w EXCEPT ![p].waiting = b]
      /\ [l EXCEPT !.waiters[p].due = b].waiters = [w EXCEPT ![p].due = b]
  BY DEF LeaseState
<1> HIDE DEF w
<1>4. /\ DOMAIN [w EXCEPT ![p].waiting = b] = DOMAIN w
      /\ \A i \in DOMAIN w : [w EXCEPT ![p].waiting = b][i].session = w[i].session
  BY <1>2 DEF Waiter
<1>5. /\ DOMAIN [w EXCEPT ![p].due = b] = DOMAIN w
      /\ \A i \in DOMAIN w : [w EXCEPT ![p].due = b][i].session = w[i].session
  BY <1>2 DEF Waiter
<1>6. Embeds([w EXCEPT ![p].waiting = b], w) /\ Embeds([w EXCEPT ![p].due = b], w)
  BY <1>4, <1>5, SameSessionsEmbed
<1>7. QED
  BY <1>3, <1>6 DEF w

\* vm_wait queues as acquire does; its resolver does not move anybody.
LEMMA WaitKeepsOrder ==
    ASSUME NEW l, LeaseOK(l), NEW s \in Sessions, NEW ticketMatches \in BOOLEAN
    PROVE  KeepsOrder(l, Wait(l, s, ticketMatches))
<1> DEFINE a == Acquire(l, s, TRUE)
           b == Wait(l, s, ticketMatches)
           p == PositionOf(a.waiters, s)
<1>1. LeaseOK(a) /\ KeepsOrder(l, a)
  BY AcquireOK, AcquireKeepsOrder
<1>2. CASE b = a
  BY <1>1, <1>2
<1>3. CASE b = AttachResolver(a, s)
  <2>1. a \in LeaseState /\ a.waiters \in Seq(Waiter)
    BY <1>1 DEF LeaseOK, LeaseState
  <2>2. DOMAIN a.waiters = 1..Len(a.waiters) /\ \A i \in DOMAIN a.waiters : a.waiters[i] \in Waiter
    BY <2>1, QueueProperties
  <2>3. b = [a EXCEPT !.waiters[p].waiting = TRUE, !.call[s] = "waiting"]
    BY <1>3 DEF AttachResolver
  <2> HIDE DEF a, p
  <2>4. b.waiters = [a.waiters EXCEPT ![p].waiting = TRUE]
    BY <2>1, <2>3 DEF LeaseState
  <2>5. /\ DOMAIN b.waiters = DOMAIN a.waiters
        /\ \A i \in DOMAIN a.waiters : b.waiters[i].session = a.waiters[i].session
    BY <2>2, <2>4 DEF Waiter
  <2>6. QED
    BY <1>1, <2>5 DEF KeepsOrder
<1>4. b = a \/ b = AttachResolver(a, s)
  BY DEF Wait
<1>5. QED
  BY <1>2, <1>3, <1>4

\* Releasing drops the caller's ticket, or grants to the head.
LEMMA ReleaseEmbeds ==
    ASSUME NEW l, LeaseOK(l), NEW s \in Sessions
    PROVE  Embeds(Release(l, s).waiters, l.waiters)
<1>1. CASE l.owner # s
  BY <1>1, RemoveWaitersForSessionEmbeds DEF Release
<1>2. CASE l.owner = s
  <2> DEFINE m == [l EXCEPT !.owner = None, !.due = FALSE]
  <2>1. l \in LeaseState /\ l.blocked \in BOOLEAN
    BY DEF LeaseOK, LeaseState
  <2>2. m = [l EXCEPT !.owner = None, !.due = FALSE, !.blocked = l.blocked]
    BY <2>1 DEF LeaseState
  <2>3. LeaseOK([l EXCEPT !.owner = None, !.due = FALSE, !.blocked = l.blocked])
    BY <2>1, NoOwnerOK
  <2>4. LeaseOK(m) /\ m.waiters = l.waiters
    BY <2>1, <2>2, <2>3 DEF LeaseState
  <2>5. Release(l, s) = GrantNext(m)
    BY <1>2 DEF Release
  <2> HIDE DEF m
  <2>6. QED
    BY <2>4, <2>5, GrantNextEmbeds
<1>3. QED
  BY <1>1, <1>2

\* setBlocked leaves the queue alone, or grants to the head.
LEMMA SetBlockedEmbeds ==
    ASSUME NEW l, LeaseOK(l), NEW b \in BOOLEAN
    PROVE  Embeds(SetBlocked(l, b).waiters, l.waiters)
<1>1. l \in LeaseState
  BY DEF LeaseOK
<1>2. CASE b
  <2>1. SetBlocked(l, b).waiters = l.waiters
    BY <1>1, <1>2 DEF SetBlocked, LeaseState
  <2>2. QED
    BY <2>1, SameSessionsEmbed
<1>3. CASE ~b
  <2> DEFINE m == [l EXCEPT !.blocked = FALSE]
  <2>1. SetBlocked(l, b) = GrantNext(m) /\ LeaseOK(m)
    BY <1>3, BlockedOK DEF SetBlocked
  <2>2. m.waiters = l.waiters
    BY <1>1 DEF LeaseState
  <2> HIDE DEF m
  <2>3. QED
    BY <2>1, <2>2, GrantNextEmbeds
<1>4. QED
  BY <1>2, <1>3

\* A vm_wait that times out leaves its ticket where it is.
LEMMA WaitTimedOutEmbeds ==
    ASSUME NEW l, LeaseOK(l), NEW s \in Sessions
    PROVE  Embeds(WaitTimedOut(l, s).waiters, l.waiters)
<1> DEFINE p == PositionOf(l.waiters, s)
           c == [l.call EXCEPT ![s] = "refused"]
           m == [l EXCEPT !.waiters[p].waiting = FALSE, !.call = c]
           t == WaitTimedOut(l, s)
<1>1. l \in LeaseState
  BY DEF LeaseOK
<1>2. t = [l EXCEPT !.waiters[p].waiting = FALSE, !.call[s] = "refused"]
  BY DEF WaitTimedOut
<1> HIDE DEF p
<1>3. t.waiters = m.waiters
  BY <1>1, <1>2 DEF LeaseState
<1> HIDE DEF c
<1>4. QED
  BY <1>1, <1>3, FlagEmbeds

-----------------------------------------------------------------------------
(* Who is in the queue *)

\* The tickets of w that are not in q have expired or are a ticket of x.
Kept(q, w, x) ==
    \A i \in DOMAIN w :
        w[i].due \/ w[i].session = x \/ \E k \in DOMAIN q : q[k] = w[i]

\* Nobody joins a queue by the loss of tickets.
LEMMA EmbeddedQueued ==
    ASSUME NEW l, NEW m, Embeds(m.waiters, l.waiters), NEW t, Queued(m, t)
    PROVE  Queued(l, t)
  BY DEF Embeds, Queued

\* Whoever passes only expired tickets of a queue that lost expired tickets and
\* x's passes only those in the queue as it was.
LEMMA KeptTurn ==
    ASSUME NEW q \in Seq(Waiter), NEW w \in Seq(Waiter), DistinctTickets(w), Embeds(q, w),
           NEW x, Kept(q, w, x), NEW o, OnlyExpiredBefore(q, o),
           NEW i \in DOMAIN w, \A j \in 1..i : w[j].session # o
    PROVE  w[i].due \/ w[i].session = x
<1>1. DOMAIN w = 1..Len(w) /\ Len(w) \in Nat /\ DOMAIN q = 1..Len(q) /\ Len(q) \in Nat
  BY QueueProperties
<1>2. SUFFICES ASSUME NEW k \in DOMAIN q, q[k] = w[i] PROVE w[i].due
  BY DEF Kept
<1>3. PICK g \in [DOMAIN q -> DOMAIN w] :
              /\ \A a \in DOMAIN q : q[a].session = w[g[a]].session
              /\ \A a, b \in DOMAIN q : a < b => g[a] < g[b]
  BY DEF Embeds
<1>4. g[k] = i
  <2>1. g[k] \in DOMAIN w /\ w[g[k]].session = w[i].session
    BY <1>2, <1>3
  <2>2. QED
    BY <2>1 DEF DistinctTickets
<1>5. ASSUME NEW a \in 1..k PROVE q[a].session # o
  <2>1. a \in DOMAIN q /\ (a < k \/ a = k)
    BY <1>1
  <2>2. g[a] \in 1..i
    BY <1>1, <1>3, <1>4, <2>1
  <2>3. QED
    BY <1>3, <2>1, <2>2
<1>6. q[k].due
  BY <1>5 DEF OnlyExpiredBefore
<1>7. QED
  BY <1>2, <1>6

\* Shifting drops expired tickets only.
LEMMA DropExpiredHeadsKept ==
    ASSUME NEW l, LeaseOK(l), NEW x
    PROVE  Kept(DropExpiredHeads(l).waiters, l.waiters, x)
<1> DEFINE w == l.waiters
           q == DropExpiredHeads(l).waiters
<1>1. Len(w) \in Nat /\ DOMAIN w = 1..Len(w)
  BY QueueProperties DEF LeaseOK, LeaseState
<1>2. PICK f \in 1..(Len(w) + 1) :
              /\ \A j \in 1..(f - 1) : w[j].due
              /\ Len(q) = Len(w) + 1 - f
              /\ q \in Seq(Waiter)
              /\ \A i \in 1..(Len(w) + 1 - f) : q[i] = w[f + i - 1]
  BY DropExpiredHeadsShifts
<1>3. DOMAIN q = 1..(Len(w) + 1 - f)
  BY <1>2, QueueProperties
<1> HIDE DEF q, w
<1>4. ASSUME NEW i \in DOMAIN w, ~w[i].due PROVE \E k \in DOMAIN q : q[k] = w[i]
  <2>1. ~(i \in 1..(f - 1))
    BY <1>2, <1>4
  <2>2. i - f + 1 \in 1..(Len(w) + 1 - f) /\ f + (i - f + 1) - 1 = i
    BY <1>1, <2>1
  <2>3. QED
    BY <1>2, <1>3, <2>2
<1>5. Kept(q, w, x)
  BY <1>4 DEF Kept
<1>6. QED
  BY <1>5 DEF q, w

\* Leaving the queue takes one's own ticket only.
LEMMA RemoveWaitersKept ==
    ASSUME NEW l, LeaseOK(l), NEW s \in Sessions
    PROVE  Kept(RemoveWaitersForSession(l, s).waiters, l.waiters, s)
<1> DEFINE w == l.waiters
<1>1. l \in LeaseState /\ w \in Seq(Waiter)
  BY DEF LeaseOK, LeaseState
<1>2. CASE Queued(l, s)
  <2> DEFINE p == PositionOf(w, s)
             q == RemoveAt(w, p)
  <2>1. p \in DOMAIN w /\ w[p].session = s
    BY <1>2, PositionOfQueued
  <2>2. Len(w) \in Nat /\ DOMAIN w = 1..Len(w)
    BY <1>1, QueueProperties
  <2> HIDE DEF p
  <2>3. RemoveWaitersForSession(l, s).waiters = q
    BY <1>1, <1>2 DEF RemoveWaitersForSession, DropWaiter, LeaseState, p
  <2> HIDE DEF w
  <2>4. /\ DOMAIN q = 1..(Len(w) - 1)
        /\ \A j \in 1..(Len(w) - 1) : q[j] = IF j < p THEN w[j] ELSE w[j + 1]
    BY <1>1, <2>1, RemoveAtProperties
  <2> HIDE DEF q
  <2>5. ASSUME NEW i \in DOMAIN w, w[i].session # s PROVE \E k \in DOMAIN q : q[k] = w[i]
    <3>1. CASE i < p
      <4>1. i \in DOMAIN q /\ q[i] = w[i]
        BY <2>1, <2>2, <2>4, <3>1
      <4>2. QED
        BY <4>1
    <3>2. CASE ~(i < p)
      <4>1. i # p
        BY <2>1, <2>5
      <4>2. i - 1 \in DOMAIN q /\ ~(i - 1 < p) /\ (i - 1) + 1 = i
        BY <2>1, <2>2, <2>4, <3>2, <4>1
      <4>3. QED
        BY <2>4, <4>2
    <3>3. QED
      BY <3>1, <3>2
  <2>6. Kept(q, w, s)
    BY <2>5 DEF Kept
  <2>7. QED
    BY <2>3, <2>6 DEF w
<1>3. CASE ~Queued(l, s)
  BY <1>3 DEF RemoveWaitersForSession, Kept
<1>4. QED
  BY <1>2, <1>3

\* grantNext that grants nothing drops expired tickets only.
LEMMA GrantNextKept ==
    ASSUME NEW l, LeaseOK(l), GrantNext(l).owner = None, NEW x
    PROVE  Kept(GrantNext(l).waiters, l.waiters, x)
<1> DEFINE m == DropExpiredHeads(l)
           w == m.waiters
           s == w[1].session
           g == [AssignOwner(m, s) EXCEPT !.waiters  = RemoveAt(@, 1),
                                          !.call[s] = "acquired"]
<1>1. LeaseOK(m)
  BY DropExpiredHeadsOK
<1>2. CASE Free(l) /\ w # <<>> /\ w[1].waiting
  <2>1. GrantNext(l) = g
    BY <1>2 DEF GrantNext
  <2> HIDE DEF m
  <2>2. w \in Seq(Waiter) /\ m \in LeaseState
    BY <1>1 DEF LeaseOK, LeaseState
  <2>3. 1 \in DOMAIN w
    BY <1>2, <2>2, LenProperties, EmptySeq
  <2>4. s \in Sessions
    BY <2>2, <2>3, QueueProperties
  <2>5. g.owner = s
    BY <2>2 DEF AssignOwner, LeaseState
  <2>6. QED
    BY <2>1, <2>4, <2>5, NoneAssumption
<1>3. CASE ~Free(l)
  BY <1>3 DEF GrantNext, Kept
<1>4. CASE Free(l) /\ (w = <<>> \/ ~w[1].waiting)
  <2>1. GrantNext(l) = m
    BY <1>4 DEF GrantNext
  <2>2. QED
    BY <2>1, DropExpiredHeadsKept
<1>5. QED
  BY <1>2, <1>3, <1>4

\* release takes the caller out of the queue and, if it grants nothing, drops
\* nobody else's valid ticket.
LEMMA ReleaseKept ==
    ASSUME NEW l, LeaseOK(l), NEW s \in Sessions
    PROVE  /\ ~Queued(Release(l, s), s)
           /\ Release(l, s).owner = None => Kept(Release(l, s).waiters, l.waiters, s)
<1>1. CASE l.owner # s
  BY <1>1, RemoveWaitersForSessionOK, RemoveWaitersKept DEF Release
<1>2. CASE l.owner = s
  <2> DEFINE m == [l EXCEPT !.owner = None, !.due = FALSE]
  <2>1. l \in LeaseState /\ l.blocked \in BOOLEAN
    BY DEF LeaseOK, LeaseState
  <2>2. m = [l EXCEPT !.owner = None, !.due = FALSE, !.blocked = l.blocked]
    BY <2>1 DEF LeaseState
  <2>3. LeaseOK([l EXCEPT !.owner = None, !.due = FALSE, !.blocked = l.blocked])
    BY <2>1, NoOwnerOK
  <2>4. LeaseOK(m) /\ m.waiters = l.waiters
    BY <2>1, <2>2, <2>3 DEF LeaseState
  <2>5. Release(l, s) = GrantNext(m)
    BY <1>2 DEF Release
  <2> HIDE DEF m
  <2>6. Release(l, s).owner = None => Kept(Release(l, s).waiters, l.waiters, s)
    BY <2>4, <2>5, GrantNextKept
  <2>7. ~Queued(l, s)
    BY <1>2 DEF LeaseOK, Queued
  <2>8. ~Queued(Release(l, s), s)
    BY <2>7, ReleaseEmbeds, EmbeddedQueued
  <2>9. QED
    BY <2>6, <2>8
<1>3. QED
  BY <1>1, <1>2

\* acquire queues nobody but its caller.
LEMMA AcquireQueues ==
    ASSUME NEW l, LeaseOK(l), NEW s \in Sessions, NEW enqueue \in BOOLEAN,
           NEW t, Queued(Acquire(l, s, enqueue), t)
    PROVE  Queued(l, t) \/ t = s
<1> DEFINE e == ExpireIfDue(l)
           q == IF Free(e) THEN DropExpiredHeads(e) ELSE e
           a == Acquire(l, s, enqueue)
<1>1. LeaseOK(e) /\ e.waiters = l.waiters
  BY ExpireIfDueOK DEF ExpireIfDue, LeaseOK, LeaseState
<1>2. a = AcquireFresh(e, s, enqueue)
  BY DEF Acquire
<1> HIDE DEF e
<1>3. LeaseOK(q) /\ Embeds(q.waiters, l.waiters)
  BY <1>1, DropExpiredHeadsOK, DropExpiredHeadsEmbeds, SameSessionsEmbed
<1>4. a \in {Touch(e, s), AssignOwner(RemoveWaitersForSession(q, s), s), q, Enqueue(q, s)}
  BY <1>2 DEF AcquireFresh
<1> HIDE DEF q, a
<1>5. e \in LeaseState /\ q \in LeaseState /\ q.waiters \in Seq(Waiter)
  BY <1>1, <1>3 DEF LeaseOK, LeaseState
<1>6. CASE a = Touch(e, s)
  <2>1. a.waiters = l.waiters
    BY <1>1, <1>5, <1>6 DEF Touch, LeaseState
  <2>2. QED
    BY <2>1 DEF a, Queued
<1>7. CASE a = AssignOwner(RemoveWaitersForSession(q, s), s)
  <2> DEFINE r == RemoveWaitersForSession(q, s)
  <2>1. LeaseOK(r) /\ Embeds(r.waiters, q.waiters)
    BY <1>3, RemoveWaitersForSessionOK, RemoveWaitersForSessionEmbeds
  <2> HIDE DEF r
  <2>2. AssignOwner(r, s).waiters = r.waiters
    BY <2>1 DEF AssignOwner, LeaseOK, LeaseState
  <2>3. Embeds(a.waiters, l.waiters)
    BY <1>3, <1>7, <2>1, <2>2, EmbedsTransitive DEF r
  <2>4. QED
    BY <2>3, EmbeddedQueued DEF a
<1>8. CASE a = q
  BY <1>3, <1>8, EmbeddedQueued DEF a
<1>9. CASE a = Enqueue(q, s)
  <2> DEFINE x == [session |-> s, waiting |-> FALSE, due |-> FALSE]
  <2>1. x \in Waiter /\ x.session = s
    BY DEF Waiter
  <2> HIDE DEF x
  <2>2. a.waiters = Append(q.waiters, x)
    BY <1>5, <1>9 DEF Enqueue, LeaseState, x
  <2>3. PICK i \in DOMAIN a.waiters : a.waiters[i].session = t
    BY DEF Queued, a
  <2>4. /\ Len(q.waiters) \in Nat /\ DOMAIN q.waiters = 1..Len(q.waiters)
        /\ DOMAIN a.waiters = 1..(Len(q.waiters) + 1)
        /\ \A j \in 1..Len(q.waiters) : a.waiters[j] = q.waiters[j]
        /\ a.waiters[Len(q.waiters) + 1] = x
    BY <1>5, <2>1, <2>2, AppendProperties, QueueProperties
  <2>5. CASE i \in DOMAIN q.waiters
    <3>1. Queued(q, t)
      BY <2>3, <2>4, <2>5 DEF Queued
    <3>2. QED
      BY <1>3, <3>1, EmbeddedQueued
  <2>6. CASE i \notin DOMAIN q.waiters
    <3>1. i = Len(q.waiters) + 1
      BY <2>3, <2>4, <2>6
    <3>2. QED
      BY <2>1, <2>3, <2>4, <3>1
  <2>7. QED
    BY <2>5, <2>6
<1>10. QED
  BY <1>4, <1>6, <1>7, <1>8, <1>9

\* vm_wait queues nobody but its caller.
LEMMA WaitQueues ==
    ASSUME NEW l, LeaseOK(l), NEW s \in Sessions, NEW ticketMatches \in BOOLEAN,
           NEW t, Queued(Wait(l, s, ticketMatches), t)
    PROVE  Queued(l, t) \/ t = s
<1> DEFINE a == Acquire(l, s, TRUE)
           b == Wait(l, s, ticketMatches)
           p == PositionOf(a.waiters, s)
<1>1. LeaseOK(a) /\ (Queued(a, t) => Queued(l, t) \/ t = s)
  BY AcquireOK, AcquireQueues
<1>2. CASE b = a
  BY <1>1, <1>2
<1>3. CASE b = AttachResolver(a, s)
  <2>1. b = [a EXCEPT !.waiters[p].waiting = TRUE, !.call[s] = "waiting"]
    BY <1>3 DEF AttachResolver
  <2> DEFINE c == [a.call EXCEPT ![s] = "waiting"]
             m == [a EXCEPT !.waiters[p].waiting = TRUE, !.call = c]
  <2> HIDE DEF a, p
  <2>2. a \in LeaseState
    BY <1>1 DEF LeaseOK
  <2>3. b.waiters = m.waiters
    BY <2>1, <2>2 DEF LeaseState
  <2> HIDE DEF c
  <2>4. Embeds(b.waiters, a.waiters)
    BY <2>2, <2>3, FlagEmbeds
  <2> HIDE DEF b
  <2>5. Queued(a, t)
    BY <2>4, EmbeddedQueued DEF b
  <2>6. QED
    BY <1>1, <2>5
<1>4. b = a \/ b = AttachResolver(a, s)
  BY DEF Wait
<1>5. QED
  BY <1>2, <1>3, <1>4

-----------------------------------------------------------------------------
(* Owner, deadline and block *)

\* m has the owner, the deadline and the block of l.
Same(l, m) == m.owner = l.owner /\ m.due = l.due /\ m.blocked = l.blocked

\* The free VM of l is given to a session in m.
Handed(l, m) == Free(l) /\ m.owner \in Sessions /\ ~m.due /\ ~m.blocked

\* Leaving the queue concerns neither the lease nor the calls of others.
LEMMA RemoveWaitersSame ==
    ASSUME NEW l, LeaseOK(l), NEW s \in Sessions
    PROVE  /\ Same(l, RemoveWaitersForSession(l, s))
           /\ \A t \in Sessions : t # s => RemoveWaitersForSession(l, s).call[t] = l.call[t]
<1>1. CASE Queued(l, s)
  <2> DEFINE i == PositionOf(l.waiters, s)
  <2>1. l.waiters[i].session = s
    BY <1>1 DEF Queued, PositionOf
  <2>2. DropWaiter(l, s).call = Refuse(l.call, {l.waiters[i]})
    BY DEF DropWaiter, LeaseOK, LeaseState
  <2> HIDE DEF i
  <2>3. \A t \in Sessions : t # s => DropWaiter(l, s).call[t] = l.call[t]
    BY <2>1, <2>2 DEF Refuse
  <2>4. QED
    BY <1>1, <2>3, DropWaiterOK DEF RemoveWaitersForSession, Same
<1>2. CASE ~Queued(l, s)
  BY <1>2 DEF RemoveWaitersForSession, Same
<1>3. QED
  BY <1>1, <1>2

\* disconnect does not touch the lease.
LEMMA DisconnectSame ==
    ASSUME NEW l, LeaseOK(l), NEW s \in Sessions
    PROVE  /\ Same(l, Disconnect(l, s))
           /\ \A t \in Sessions : t # s => Disconnect(l, s).call[t] = l.call[t]
  BY RemoveWaitersSame DEF Disconnect, Same

\* grantNext hands over a free VM or changes nothing of the lease.
LEMMA GrantNextFate ==
    ASSUME NEW l, LeaseOK(l)
    PROVE  Same(l, GrantNext(l)) \/ Handed(l, GrantNext(l))
<1> DEFINE m == DropExpiredHeads(l)
           w == m.waiters
           s == w[1].session
           g == [AssignOwner(m, s) EXCEPT !.waiters  = RemoveAt(@, 1),
                                          !.call[s] = "acquired"]
<1>1. LeaseOK(m) /\ Same(l, m)
  BY DropExpiredHeadsOK DEF Same
<1>2. CASE Free(l) /\ w # <<>> /\ w[1].waiting
  <2>1. GrantNext(l) = g
    BY <1>2 DEF GrantNext
  <2>2. w \in Seq(Waiter) /\ m \in LeaseState
    BY <1>1 DEF LeaseOK, LeaseState
  <2>3. 1 \in DOMAIN w
    BY <1>2, <2>2, LenProperties, EmptySeq
  <2>4. s \in Sessions
    BY <2>2, <2>3, QueueProperties
  <2> HIDE DEF m
  <2>5. g.owner = s /\ ~g.due /\ g.blocked = m.blocked
    BY <2>2, <2>4 DEF AssignOwner, LeaseState
  <2>6. QED
    BY <1>1, <1>2, <2>1, <2>4, <2>5 DEF Handed, Free, Same
<1>3. CASE ~Free(l)
  BY <1>3 DEF GrantNext, Same
<1>4. CASE Free(l) /\ (w = <<>> \/ ~w[1].waiting)
  BY <1>1, <1>4 DEF GrantNext
<1>5. QED
  BY <1>2, <1>3, <1>4

\* setBlocked keeps an owner; unblocking a VM without one may hand it over.
LEMMA SetBlockedFate ==
    ASSUME NEW l, LeaseOK(l)
    PROVE  /\ LET r == SetBlocked(l, TRUE) IN r.owner = l.owner /\ r.due = l.due /\ r.blocked
           /\ LET r == SetBlocked(l, FALSE)
              IN  /\ ~r.blocked
                  /\ \/ r.owner = l.owner /\ r.due = l.due
                     \/ l.owner = None /\ r.owner \in Sessions /\ ~r.due
<1> DEFINE m == [l EXCEPT !.blocked = FALSE]
<1>1. m.owner = l.owner /\ m.due = l.due /\ ~m.blocked
  BY DEF LeaseOK, LeaseState
<1>2. LeaseOK(m)
  BY BlockedOK
<1> HIDE DEF m
<1>3. Same(m, GrantNext(m)) \/ Handed(m, GrantNext(m))
  BY <1>2, GrantNextFate
<1>4. SetBlocked(l, FALSE) = GrantNext(m)
  BY DEF SetBlocked, m
<1>5. LET r == SetBlocked(l, TRUE) IN r.owner = l.owner /\ r.due = l.due /\ r.blocked
  BY DEF SetBlocked, LeaseOK, LeaseState
<1>6. QED
  BY <1>1, <1>3, <1>4, <1>5 DEF Same, Handed, Free

\* release concerns the owner only, and hands over an unblocked VM only.
LEMMA ReleaseFate ==
    ASSUME NEW l, LeaseOK(l), NEW s \in Sessions
    PROVE  LET r == Release(l, s)
           IN  /\ l.owner # s => Same(l, r)
               /\ l.owner = s => /\ ~r.due /\ r.blocked = l.blocked
                                 /\ r.owner = None \/ (r.owner \in Sessions /\ ~r.blocked)
<1>1. CASE l.owner # s
  BY <1>1, RemoveWaitersSame DEF Release
<1>2. CASE l.owner = s
  <2> DEFINE m == [l EXCEPT !.owner = None, !.due = FALSE]
  <2>1. m.owner = None /\ ~m.due /\ m.blocked = l.blocked
    BY DEF LeaseOK, LeaseState
  <2>2. LeaseOK(m)
    <3>1. l.blocked \in BOOLEAN /\ l \in LeaseState
      BY DEF LeaseOK, LeaseState
    <3>2. m = [l EXCEPT !.owner = None, !.due = FALSE, !.blocked = l.blocked]
      BY <3>1 DEF LeaseState
    <3>3. QED
      BY <3>1, <3>2, NoOwnerOK
  <2> HIDE DEF m
  <2>3. Same(m, GrantNext(m)) \/ Handed(m, GrantNext(m))
    BY <2>2, GrantNextFate
  <2>4. Release(l, s) = GrantNext(m)
    BY <1>2 DEF Release, m
  <2>5. GrantNext(m).blocked \in BOOLEAN /\ m.blocked \in BOOLEAN
    BY <2>2, GrantNextOK DEF LeaseOK, LeaseState
  <2>6. QED
    BY <1>2, <2>1, <2>3, <2>4, <2>5 DEF Same, Handed, Free
<1>3. QED
  BY <1>1, <1>2

\* What acquire leaves: the same lease, an expired one without an owner and
\* blocked, or the caller as the new owner.  Nobody's deadline has passed.
Acquired(l, m, s) ==
    /\ ~m.due
    /\ \/ ~Expires(l) /\ m.owner = l.owner /\ m.blocked = l.blocked
       \/ Expires(l) /\ m.owner = None /\ m.blocked
       \/ ~Expires(l) /\ Free(l) /\ m.owner = s /\ ~m.blocked

\* acquire notices an expiry before it looks at the owner.
LEMMA AcquireFate ==
    ASSUME NEW l, LeaseOK(l), l.due => l.owner # None, NEW s \in Sessions,
           NEW enqueue \in BOOLEAN
    PROVE  Acquired(l, Acquire(l, s, enqueue), s)
<1> DEFINE e == ExpireIfDue(l)
           q == IF Free(e) THEN DropExpiredHeads(e) ELSE e
           mayTake == Free(e) /\ (q.waiters = <<>> \/ q.waiters[1].session = s)
           a == Acquire(l, s, enqueue)
<1>1. LeaseOK(e) /\ e \in LeaseState
  BY ExpireIfDueOK DEF LeaseOK
<1>2. /\ ~e.due
      /\ Expires(l) => e.owner = None /\ e.blocked
      /\ ~Expires(l) => e = l
  BY DEF ExpireIfDue, Expires, LeaseOK, LeaseState
<1> HIDE DEF e
<1>3. LeaseOK(q) /\ Same(e, q) /\ q \in LeaseState
  BY <1>1, DropExpiredHeadsOK DEF Same, LeaseOK
<1>4. a = AcquireFresh(e, s, enqueue)
  BY DEF Acquire, e
<1>5. CASE e.owner = s
  <2>1. a = [e EXCEPT !.due = FALSE]
    BY <1>4, <1>5 DEF AcquireFresh, Touch
  <2>2. Same(e, a)
    BY <1>1, <1>2, <2>1 DEF Same, LeaseState
  <2>3. QED
    BY <1>2, <2>2 DEF Same, Acquired
<1>6. CASE e.owner # s /\ mayTake
  <2> DEFINE r == RemoveWaitersForSession(q, s)
  <2>1. a = AssignOwner(r, s)
    BY <1>4, <1>6 DEF AcquireFresh
  <2>2. Same(q, r) /\ r \in LeaseState
    BY <1>3, RemoveWaitersSame, RemoveWaitersForSessionOK DEF LeaseOK
  <2> HIDE DEF r
  <2>3. a.owner = s /\ ~a.due /\ a.blocked = r.blocked
    BY <2>1, <2>2 DEF AssignOwner, LeaseState
  <2>4. QED
    BY <1>2, <1>3, <1>6, <2>2, <2>3 DEF Same, Acquired, Free
<1>7. CASE e.owner # s /\ ~mayTake
  <2>1. a = q \/ a = Enqueue(q, s)
    BY <1>4, <1>7 DEF AcquireFresh
  <2> HIDE DEF q
  <2>2. Same(q, Enqueue(q, s))
    BY <1>3 DEF Same, Enqueue, LeaseState
  <2>3. QED
    BY <1>2, <1>3, <2>1, <2>2 DEF Same, Acquired
<1>8. QED
  BY <1>5, <1>6, <1>7

\* waitFor acquires and at most attaches a resolver.
LEMMA WaitFate ==
    ASSUME NEW l, LeaseOK(l), l.due => l.owner # None, NEW s \in Sessions,
           NEW ticketMatches \in BOOLEAN
    PROVE  Acquired(l, Wait(l, s, ticketMatches), s)
<1> DEFINE a == Acquire(l, s, TRUE)
<1>1. Acquired(l, a, s) /\ a \in LeaseState
  BY AcquireFate, AcquireOK DEF LeaseOK
<1>2. Wait(l, s, ticketMatches) = a \/ Wait(l, s, ticketMatches) = AttachResolver(a, s)
  BY DEF Wait
<1> HIDE DEF a
<1>3. Same(a, AttachResolver(a, s))
  BY <1>1 DEF Same, AttachResolver, LeaseState
<1>4. QED
  BY <1>1, <1>2, <1>3 DEF Acquired, Same

\* Timers that end a vm_wait or a ticket, and clearWaiters, leave the lease alone.
LEMMA QueueTimersSame ==
    ASSUME NEW l, LeaseOK(l), NEW s \in Sessions
    PROVE  /\ Same(l, WaitTimedOut(l, s))
           /\ Queued(l, s) => Same(l, ExpireTicket(l, s))
           /\ Same(l, ClearWaiters(l))
<1>1. l \in LeaseState
  BY DEF LeaseOK
<1>2. Same(l, WaitTimedOut(l, s)) /\ Same(l, ClearWaiters(l))
  BY <1>1 DEF Same, WaitTimedOut, ClearWaiters, LeaseState
<1>3. Queued(l, s) => Same(l, ExpireTicket(l, s))
  BY DropWaiterOK DEF Same, ExpireTicket
<1>4. QED
  BY <1>2, <1>3

=============================================================================
