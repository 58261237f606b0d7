----------------------------- MODULE PushProofs -----------------------------
(***************************************************************************)
(* Proofs about Push for any set of sessions, files, requests and versions *)
(* of any size: what a commit moves into place is what was hashed, and a   *)
(* push implements AtomicCopy.                                             *)
(*                                                                         *)
(* A transfer of the guest is written and committed by whoever knows its   *)
(* id.  The inductive invariant says who that is: at most one session,     *)
(* with at most one request under way (Handles), and nobody once a request *)
(* was lost or a write has failed.  Without it a failed write could be     *)
(* followed by a chunk or by a commit of the same transfer.                *)
(***************************************************************************)
EXTENDS Push, SequenceTheorems, FiniteSetTheorems, WellFoundedInduction, TLAPS

Entry == [from : Sources, to : Dests]

Transfer ==
    [pc : Steps, entries : Seq(Entry), overwrite : BOOLEAN, cancelled : BOOLEAN,
     since : Nat \cup {None}, guestTransferId : Nat \cup {None}, offset : Nat]

\* The transfer is at work on a file; it has a transfer in the guest.
Working == Steps \ {"idle", "list"}
Writing == {"read", "chunk", "commit"}

FromOf(t) == Head(t.entries).from
ToOf(t) == Head(t.entries).to

TransferOK(t, src) ==
    /\ t \in Transfer
    /\ t.pc # "idle" => t.entries # <<>>
    /\ t.pc \in Working => t.since \in 1 .. src[FromOf(t)]
    /\ t.pc \in Writing <=> t.guestTransferId # None
    /\ t.guestTransferId # 0

\* Requests that write to a transfer of the guest, and requests that name the file.
Posts == {"file_write_chunk", "file_write_commit"}
Naming == {"file_write_begin", "file_write_commit"}

RequestOK(q, src) ==
    /\ q \in Request
    /\ q.method \in Naming => q.from \in Sources /\ q.to \in Dests /\ q.since \in 1 .. src[q.from]
    /\ q.method \in Posts => q.id # 0
    /\ q.method \in {"file_write_begin", "session_abort"} => q.id = 0
    /\ q.live => q.by \in Sessions /\ q.method # "session_abort"

\* A request of a transfer whose sender waits for the answer.
Pending(q) == q.live /\ q.method # "file_write_abort"

Awaited(q, t) ==
    /\ q.method = "file_write_begin" => t.pc = "begin" /\ q.to = ToOf(t)
    /\ q.method = "file_write_chunk" => t.pc = "chunk" /\ q.id = t.guestTransferId
    /\ q.method = "file_write_commit" => t.pc = "commit" /\ q.id = t.guestTransferId

\* A transfer waits for one request at a time, the one its step is about.
Awaiting(f, w) ==
    /\ \A i \in DOMAIN w : Pending(w[i]) => Awaited(w[i], f[w[i].by])
    /\ \A i, j \in DOMAIN w : Pending(w[i]) /\ Pending(w[j]) /\ w[i].by = w[j].by => i = j

\* Who writes to a transfer of the guest: one session, with one request.
Handles(f, w) ==
    /\ \A s, o \in Sessions :
          f[s].guestTransferId = f[o].guestTransferId /\ f[s].guestTransferId # None => s = o
    /\ \A i, j \in DOMAIN w :
          w[i].method \in Posts /\ w[j].method \in Posts /\ w[i].id = w[j].id => i = j
    /\ \A i \in DOMAIN w, s \in Sessions :
          w[i].method \in Posts /\ w[i].id = f[s].guestTransferId => w[i].live /\ w[i].by = s

\* An id names the transfer of the destination that its holder copies to.
Places(sl, f, w) ==
    /\ \A d, e \in Dests : sl[d] # None /\ sl[e] # None /\ sl[d].id = sl[e].id => d = e
    /\ \A d \in Dests, s \in Sessions :
          sl[d] # None /\ sl[d].id = f[s].guestTransferId => ToOf(f[s]) = d
    /\ \A d \in Dests, i \in DOMAIN w :
          sl[d] # None /\ w[i].method = "file_write_commit" /\ sl[d].id = w[i].id => w[i].to = d

\* Nobody can write to the transfer any more, only close it.
Abandoned(id, f, w) ==
    /\ \A s \in Sessions : f[s].guestTransferId # id
    /\ \A i \in DOMAIN w : w[i].id = id => w[i].method = "file_write_abort"

FilesOK ==
    /\ source \in [Sources -> Nat \ {0}] /\ \A g \in Sources : source[g] <= Len(Sizes[g])
    /\ dest \in [Dests -> Seq(Chunks) \cup {None}]
    /\ temp \in [Dests -> Seq(Chunks) \cup {None}]
    /\ meta \in [Dests -> Seq(Chunks) \cup {None, Torn}]
    /\ slots \in [Dests -> Slot \cup {None}]
    /\ abort \in [Sessions -> {"none", "sent", "done"}]

TransfersOK ==
    /\ tr \in [Sessions -> Transfer]
    /\ \A s \in Sessions : TransferOK(tr[s], source)

WireOK ==
    /\ wire \in Seq(Request)
    /\ \A i \in DOMAIN wire : RequestOK(wire[i], source)

Inv ==
    /\ FilesOK /\ TransfersOK /\ WireOK
    /\ Awaiting(tr, wire) /\ Handles(tr, wire) /\ Places(slots, tr, wire)
    /\ CommitsWhatItHashed

-----------------------------------------------------------------------------
(* Operators *)

\* A non-empty set of numbers has a least one.
LEMMA LeastOf ==
    ASSUME NEW T \in SUBSET Nat, T # {}
    PROVE  Min(T) \in T
<1> DEFINE R == OpToRel(<, Nat)
<1>1. IsWellFoundedOn(R, Nat)
  BY NatLessThanWellFounded
<1>2. \A x, y \in Nat : <<x, y>> \in R <=> x < y
  BY DEF OpToRel
<1> HIDE DEF R
<1>3. PICK x \in T : \A y \in T : ~(<<y, x>> \in R)
  BY <1>1, WFMin
<1>4. ASSUME NEW y \in T PROVE x <= y
  <2>1. x \in Nat /\ y \in Nat
    OBVIOUS
  <2>2. ~(y < x)
    BY <1>2, <1>3, <2>1, Zenon
  <2>3. QED
    BY <2>1, <2>2
<1>5. QED
  BY <1>4 DEF Min

\* The image of a finite set is finite.
LEMMA FiniteImage ==
    ASSUME NEW S, IsFiniteSet(S), NEW f, f \in [S -> {f[x] : x \in S}]
    PROVE  IsFiniteSet({f[x] : x \in S})
<1> DEFINE T == {f[x] : x \in S}
<1>1. f \in Surjection(S, T)
  BY DEF Surjection
<1> HIDE DEF T
<1>2. IsFiniteSet(T)
  BY <1>1, FS_Surjection
<1>3. QED
  BY <1>2 DEF T

\* The ids in use are finitely many.
LEMMA FiniteIds ==
    ASSUME wire \in Seq(Request)
    PROVE  IsFiniteSet(Ids)
<1> DEFINE a == [d \in Used |-> slots[d].id]
           W == DOMAIN wire
           b == [i \in W |-> wire[i].id]
           H == {t \in Sessions : tr[t].guestTransferId # None}
           c == [s \in H |-> tr[s].guestTransferId]
<1>1. IsFiniteSet(Used) /\ IsFiniteSet(H)
  BY PushAssumption, FS_Subset DEF Used
<1>2. IsFiniteSet(W)
  BY LenProperties, FS_Interval
<1>3. IsFiniteSet({a[d] : d \in Used})
  BY <1>1, FiniteImage
<1>4. IsFiniteSet({b[i] : i \in W})
  <2> HIDE DEF W
  <2>1. QED
    BY <1>2, FiniteImage
<1>5. IsFiniteSet({c[s] : s \in H})
  <2> HIDE DEF H
  <2>1. QED
    BY <1>1, FiniteImage
<1>6. Ids = {a[d] : d \in Used} \cup {b[i] : i \in W} \cup {c[s] : s \in H}
  BY DEF Ids
<1> HIDE DEF a, b, c, W, H
<1>7. QED
  BY <1>3, <1>4, <1>5, <1>6, FS_Union

\* next_transfer++ gives an id that is used nowhere.
LEMMA FreshIdIsFresh ==
    ASSUME wire \in Seq(Request)
    PROVE  FreshId \in Nat \ {0} /\ FreshId \notin Ids
<1> DEFINE n == Cardinality(Ids)
           T == (1 .. n + 1) \ Ids
<1>1. IsFiniteSet(Ids) /\ n \in Nat
  BY FiniteIds, FS_CardinalityType
<1>2. Cardinality(1 .. n + 1) = n + 1 /\ IsFiniteSet(1 .. n + 1)
  <2> DEFINE k == n + 1
  <2>1. k \in Int /\ 1 \in Int /\ ~(1 > k) /\ k - 1 + 1 = k
    BY <1>1
  <2> HIDE DEF k
  <2>2. IsFiniteSet(1 .. k) /\ Cardinality(1 .. k) = IF 1 > k THEN 0 ELSE k - 1 + 1
    BY <2>1, FS_Interval
  <2>3. QED
    BY <2>1, <2>2 DEF k
<1>3. T # {}
  <2>1. SUFFICES ASSUME 1 .. n + 1 \subseteq Ids PROVE FALSE
    OBVIOUS
  <2>2. Cardinality(1 .. n + 1) <= n
    BY <1>1, <2>1, FS_Subset
  <2>3. QED
    BY <1>1, <1>2, <2>2
<1>4. T \in SUBSET Nat
  BY <1>1
<1>5. Min(T) \in T
  BY <1>3, <1>4, LeastOf
<1>6. FreshId = Min(T)
  BY DEF FreshId
<1>7. QED
  BY <1>1, <1>5, <1>6

\* The content of a version is a file of as many chunks as the version has.
LEMMA ContentType ==
    ASSUME NEW g \in Sources, NEW v \in 1 .. Len(Sizes[g])
    PROVE  Content(g, v) \in Seq(Chunks)
<1>1. Sizes[g] \in Seq(Nat)
  BY PushAssumption
<1>2. Sizes[g][v] \in Nat /\ v \in Nat \ {0}
  BY <1>1, ElementOfSeq, LenProperties
<1> DEFINE n == Sizes[g][v]
<1>3. <<g, v>> \in Chunks
  BY <1>2 DEF Chunks
<1> HIDE DEF n
<1>4. n \in Nat
  BY <1>2 DEF n
<1>5. Content(g, v) \in [1 .. n -> Chunks]
  BY <1>3 DEF Content, n
<1>6. QED
  BY <1>4, <1>5, SeqDef

\* What is read of a file is a sequence of chunks.
LEMMA PieceType ==
    ASSUME NEW file \in Seq(Chunks), NEW offset \in Nat, NEW size \in Nat
    PROVE  SubSeq(file, offset + 1, Min({offset + 1, size, Len(file)})) \in Seq(Chunks)
<1> DEFINE m == Min({offset + 1, size, Len(file)})
<1>1. Len(file) \in Nat
  BY LenProperties
<1>2. m \in {offset + 1, size, Len(file)} /\ m <= Len(file)
  <2>1. \E x \in {offset + 1, size, Len(file)} : \A y \in {offset + 1, size, Len(file)} : x <= y
    BY <1>1
  <2>2. QED
    BY <2>1 DEF Min
<1>3. m \in Nat
  BY <1>1, <1>2
<1> HIDE DEF m
<1>4. \A i \in offset + 1 .. m : i \in 1 .. Len(file)
  BY <1>1, <1>2, <1>3
<1>5. \A i \in offset + 1 .. m : file[i] \in Chunks
  BY <1>4, ElementOfSeq
<1>6. SubSeq(file, offset + 1, m) \in Seq(Chunks)
  BY <1>1, <1>3, <1>5, SubSeqProperties
<1>7. QED
  BY <1>6 DEF m

-----------------------------------------------------------------------------
(* Requests and transfers *)

\* A request nobody waits for is otherwise the same.
LEMMA OrphanFields ==
    ASSUME NEW q \in Request
    PROVE  /\ Orphan(q) \in Request /\ ~Orphan(q).live
           /\ Orphan(q).method = q.method /\ Orphan(q).id = q.id /\ Orphan(q).to = q.to
           /\ Orphan(q).from = q.from /\ Orphan(q).since = q.since
           /\ \A src : RequestOK(q, src) => RequestOK(Orphan(q), src)
<1>1. /\ Orphan(q) \in Request /\ Orphan(q).live = FALSE
      /\ Orphan(q).method = q.method /\ Orphan(q).id = q.id /\ Orphan(q).to = q.to
      /\ Orphan(q).from = q.from /\ Orphan(q).since = q.since
  BY DEF Orphan, Request
<1>2. QED
  BY <1>1 DEF RequestOK

\* After a step the wire v holds requests that were on it, in place f[i], and of
\* some of them nobody waits for the answer any more.
Left(v, f) ==
    /\ \A i \in DOMAIN v :
          /\ f[i] \in DOMAIN wire
          /\ v[i] = wire[f[i]] \/ v[i] = Orphan(wire[f[i]])
    /\ \A i, j \in DOMAIN v : f[i] = f[j] => i = j

\* The transfer of s after a step in which it has sent nothing: it has let go of
\* its transfer in the guest, or not; what it waited for is over, or it still waits.
GoesOn(s, t, v) ==
    /\ \/ t.guestTransferId = None
       \/ t.guestTransferId = tr[s].guestTransferId /\ ToOf(t) = ToOf(tr[s])
    /\ \/ t.pc = tr[s].pc /\ t.guestTransferId = tr[s].guestTransferId /\ ToOf(t) = ToOf(tr[s])
       \/ \A i \in DOMAIN v : ~(Pending(v[i]) /\ v[i].by = s)

\* Facts about the wire and the transfers.
LEMMA Given ==
    ASSUME Inv
    PROVE  /\ wire \in Seq(Request)
           /\ \A i \in DOMAIN wire : wire[i] \in Request /\ RequestOK(wire[i], source)
           /\ tr \in [Sessions -> Transfer]
           /\ \A s \in Sessions : tr[s] \in Transfer /\ TransferOK(tr[s], source)
           /\ \A d \in Dests : slots[d] # None => slots[d] \in Slot /\ slots[d].id \in Nat \ {0}
           /\ Used \subseteq Dests
<1>1. \A i \in DOMAIN wire : wire[i] \in Request /\ RequestOK(wire[i], source)
  BY DEF Inv, WireOK, RequestOK
<1>2. \A d \in Dests : slots[d] # None => slots[d] \in Slot /\ slots[d].id \in Nat \ {0}
  BY DEF Inv, FilesOK, Slot
<1>3. QED
  BY <1>1, <1>2 DEF Inv, TransfersOK, WireOK, TransferOK, Used

\* The invariant after such a step, for the transfers h, the wire v and the slots sl.
LEMMA LeftSound ==
    ASSUME Inv, NEW v, NEW f, Left(v, f), NEW h, NEW sl,
           \A s \in Sessions : GoesOn(s, h[s], v),
           \A i \in DOMAIN v :
              v[i] # wire[f[i]] /\ wire[f[i]].method \in Posts /\ wire[f[i]].live
              => h[wire[f[i]].by].guestTransferId = None,
           \A d \in Dests : sl[d] # None => slots[d] # None /\ sl[d].id = slots[d].id
    PROVE  /\ Awaiting(h, v) /\ Handles(h, v) /\ Places(sl, h, v)
           /\ \A id \in Nat \ {0} : Abandoned(id, tr, wire) => Abandoned(id, h, v)
<1>1. ASSUME NEW i \in DOMAIN v
      PROVE  /\ f[i] \in DOMAIN wire /\ v[i].method = wire[f[i]].method
             /\ v[i].id = wire[f[i]].id /\ v[i].to = wire[f[i]].to
             /\ v[i].live => v[i] = wire[f[i]]
             /\ v[i] = wire[f[i]] \/ ~v[i].live
             /\ v[i].live => v[i].by \in Sessions
             /\ v[i].method \in Posts => v[i].id \in Nat \ {0}
  <2>1. f[i] \in DOMAIN wire /\ (v[i] = wire[f[i]] \/ v[i] = Orphan(wire[f[i]]))
    BY DEF Left
  <2>2. wire[f[i]] \in Request /\ RequestOK(wire[f[i]], source)
    BY <2>1, Given
  <2>3. wire[f[i]].id \in Nat
    BY <2>2 DEF Request
  <2>4. QED
    BY <2>1, <2>2, <2>3, OrphanFields DEF RequestOK
<1>2. \A i, j \in DOMAIN v : f[i] = f[j] => i = j
  BY DEF Left
<1>3. Awaiting(h, v)
  <2>1. ASSUME NEW i \in DOMAIN v, Pending(v[i]) PROVE Awaited(v[i], h[v[i].by])
    <3>1. /\ v[i] = wire[f[i]] /\ f[i] \in DOMAIN wire /\ Pending(wire[f[i]])
          /\ v[i].by \in Sessions
      BY <1>1, <2>1 DEF Pending
    <3>2. Awaited(v[i], tr[v[i].by])
      BY <3>1 DEF Inv, Awaiting
    <3>3. LET t == h[v[i].by]
              u == tr[v[i].by]
          IN  t.pc = u.pc /\ t.guestTransferId = u.guestTransferId /\ ToOf(t) = ToOf(u)
      BY <2>1, <3>1 DEF GoesOn
    <3>4. QED
      BY <3>2, <3>3 DEF Awaited
  <2>2. ASSUME NEW i \in DOMAIN v, NEW j \in DOMAIN v,
               Pending(v[i]), Pending(v[j]), v[i].by = v[j].by
        PROVE  i = j
    <3>1. v[i] = wire[f[i]] /\ v[j] = wire[f[j]] /\ f[i] \in DOMAIN wire /\ f[j] \in DOMAIN wire
      BY <1>1, <2>2 DEF Pending
    <3>2. f[i] = f[j]
      BY <2>2, <3>1 DEF Inv, Awaiting
    <3>3. QED
      BY <1>2, <3>2
  <2>3. QED
    BY <2>1, <2>2 DEF Awaiting
<1>4. \A s \in Sessions : h[s].guestTransferId # None =>
         h[s].guestTransferId = tr[s].guestTransferId /\ ToOf(h[s]) = ToOf(tr[s])
  BY DEF GoesOn
<1>5. Handles(h, v)
  <2>1. ASSUME NEW s \in Sessions, NEW o \in Sessions,
               h[s].guestTransferId = h[o].guestTransferId, h[s].guestTransferId # None
        PROVE  s = o
    BY <1>4, <2>1 DEF Inv, Handles
  <2>2. ASSUME NEW i \in DOMAIN v, NEW j \in DOMAIN v,
               v[i].method \in Posts, v[j].method \in Posts, v[i].id = v[j].id
        PROVE  i = j
    <3>1. f[i] = f[j]
      BY <1>1, <2>2 DEF Inv, Handles
    <3>2. QED
      BY <1>2, <3>1
  <2>3. ASSUME NEW i \in DOMAIN v, NEW s \in Sessions,
               v[i].method \in Posts, v[i].id = h[s].guestTransferId
        PROVE  v[i].live /\ v[i].by = s
    <3>1. h[s].guestTransferId # None
      BY <1>1, <2>3, PushAssumption
    <3>2. wire[f[i]].live /\ wire[f[i]].by = s
      BY <1>1, <1>4, <2>3, <3>1 DEF Inv, Handles
    <3>3. v[i] = wire[f[i]]
      BY <1>1, <2>3, <3>1, <3>2
    <3>4. QED
      BY <3>2, <3>3
  <2>4. QED
    BY <2>1, <2>2, <2>3 DEF Handles
<1>6. Places(sl, h, v)
  <2>1. \A d, e \in Dests : sl[d] # None /\ sl[e] # None /\ sl[d].id = sl[e].id => d = e
    BY DEF Inv, Places
  <2>2. ASSUME NEW d \in Dests, NEW s \in Sessions, sl[d] # None, sl[d].id = h[s].guestTransferId
        PROVE  ToOf(h[s]) = d
    <3>1. slots[d] # None /\ slots[d].id = h[s].guestTransferId /\ slots[d].id \in Nat \ {0}
      BY <2>2, Given
    <3>2. h[s].guestTransferId # None
      BY <3>1, PushAssumption
    <3>3. QED
      BY <1>4, <3>1, <3>2 DEF Inv, Places
  <2>3. ASSUME NEW d \in Dests, NEW i \in DOMAIN v, sl[d] # None,
               v[i].method = "file_write_commit", sl[d].id = v[i].id
        PROVE  v[i].to = d
    BY <1>1, <2>3 DEF Inv, Places
  <2>4. QED
    BY <2>1, <2>2, <2>3 DEF Places
<1>7. ASSUME NEW id \in Nat \ {0}, Abandoned(id, tr, wire) PROVE Abandoned(id, h, v)
  <2>1. id # None
    BY PushAssumption
  <2>2. \A s \in Sessions : h[s].guestTransferId # id
    BY <1>4, <1>7, <2>1 DEF Abandoned
  <2>3. \A i \in DOMAIN v : v[i].id = id => v[i].method = "file_write_abort"
    BY <1>1, <1>7 DEF Abandoned
  <2>4. QED
    BY <2>2, <2>3 DEF Abandoned
<1>8. QED
  BY <1>3, <1>5, <1>6, <1>7

\* A request that is sent: by a transfer, which then waits for it, or by a cleanup.
LEMMA SentSound ==
    ASSUME Inv, NEW q, RequestOK(q, source), NEW h,
           \A s \in Sessions :
              /\ h[s].guestTransferId = tr[s].guestTransferId /\ ToOf(h[s]) = ToOf(tr[s])
              /\ h[s].pc = tr[s].pc \/ (Pending(q) /\ q.by = s),
           Pending(q) => /\ Awaited(q, h[q.by])
                         /\ tr[q.by].pc \notin {"begin", "chunk", "commit"},
           q.method \in Posts => q.live /\ q.id = tr[q.by].guestTransferId,
           q.method = "file_write_commit" => q.to = ToOf(tr[q.by])
    PROVE  LET v == Append(wire, q)
           IN  /\ v \in Seq(Request) /\ \A i \in DOMAIN v : RequestOK(v[i], source)
               /\ Awaiting(h, v) /\ Handles(h, v) /\ Places(slots, h, v)
               /\ \A id \in Nat \ {0} : Abandoned(id, tr, wire) => Abandoned(id, h, v)
<1> DEFINE v == Append(wire, q)
           n == Len(wire)
<1>1. q \in Request /\ wire \in Seq(Request)
  BY Given DEF RequestOK
<1>2. /\ v \in Seq(Request) /\ n \in Nat /\ DOMAIN wire = 1 .. n /\ DOMAIN v = 1 .. (n + 1)
      /\ v[n + 1] = q /\ \A i \in 1 .. n : v[i] = wire[i]
  BY <1>1, AppendProperties, LenProperties
<1>3. \A i \in DOMAIN v : (i \in DOMAIN wire /\ v[i] = wire[i]) \/ (i = n + 1 /\ v[i] = q)
  BY <1>2
<1> HIDE DEF v, n
<1>4. \A i \in DOMAIN v : RequestOK(v[i], source)
  BY <1>3, Given
<1>5. \A i \in DOMAIN wire :
         /\ wire[i].live => wire[i].by \in Sessions /\ wire[i].method # "session_abort"
         /\ wire[i].method \in Methods
  BY Given DEF RequestOK, Request
<1>6. q.live => q.by \in Sessions
  BY DEF RequestOK
<1>7. Pending(q) => \A i \in DOMAIN wire : ~(Pending(wire[i]) /\ wire[i].by = q.by)
  <2>1. SUFFICES ASSUME Pending(q), NEW i \in DOMAIN wire, Pending(wire[i]), wire[i].by = q.by
                 PROVE  FALSE
    OBVIOUS
  <2>2. Awaited(wire[i], tr[q.by])
    BY <2>1 DEF Inv, Awaiting
  <2>3. QED
    BY <1>5, <2>1, <2>2 DEF Awaited, Pending, Methods
<1>8. q.method \in Posts => Pending(q)
  BY DEF Posts, Pending
<1>9. q.method \in Posts => \A i \in DOMAIN wire : ~(wire[i].method \in Posts /\ wire[i].id = q.id)
  <2>1. SUFFICES ASSUME q.method \in Posts, NEW i \in DOMAIN wire, wire[i].method \in Posts,
                        wire[i].id = q.id
                 PROVE  FALSE
    OBVIOUS
  <2>2. wire[i].live /\ wire[i].by = q.by
    BY <1>6, <2>1 DEF Inv, Handles
  <2>3. Pending(wire[i])
    BY <2>1, <2>2 DEF Pending, Posts
  <2>4. QED
    BY <1>7, <1>8, <2>1, <2>2, <2>3
<1>10. Awaiting(h, v)
  <2>1. ASSUME NEW i \in DOMAIN v, Pending(v[i]) PROVE Awaited(v[i], h[v[i].by])
    <3>1. CASE i \in DOMAIN wire /\ v[i] = wire[i]
      <4>1. wire[i].by \in Sessions /\ Awaited(wire[i], tr[wire[i].by])
        BY <1>5, <2>1, <3>1 DEF Inv, Awaiting, Pending
      <4>2. ~(Pending(q) /\ q.by = wire[i].by)
        BY <1>7, <2>1, <3>1
      <4>3. QED
        BY <3>1, <4>1, <4>2 DEF Awaited
    <3>2. QED
      BY <1>3, <2>1, <3>1
  <2>2. ASSUME NEW i \in DOMAIN v, NEW j \in DOMAIN v,
               Pending(v[i]), Pending(v[j]), v[i].by = v[j].by
        PROVE  i = j
    BY <1>3, <1>7, <2>2 DEF Inv, Awaiting
  <2>3. QED
    BY <2>1, <2>2 DEF Awaiting
<1>11. Handles(h, v)
  <2>1. \A s, o \in Sessions :
           h[s].guestTransferId = h[o].guestTransferId /\ h[s].guestTransferId # None => s = o
    BY DEF Inv, Handles
  <2>2. ASSUME NEW i \in DOMAIN v, NEW j \in DOMAIN v,
               v[i].method \in Posts, v[j].method \in Posts, v[i].id = v[j].id
        PROVE  i = j
    BY <1>3, <1>9, <2>2 DEF Inv, Handles
  <2>3. ASSUME NEW i \in DOMAIN v, NEW s \in Sessions,
               v[i].method \in Posts, v[i].id = h[s].guestTransferId
        PROVE  v[i].live /\ v[i].by = s
    <3>1. CASE i \in DOMAIN wire /\ v[i] = wire[i]
      BY <2>3, <3>1 DEF Inv, Handles
    <3>2. CASE v[i] = q
      <4>1. q.id \in Nat
        BY <1>1 DEF Request
      <4>2. tr[s].guestTransferId = tr[q.by].guestTransferId /\ tr[s].guestTransferId # None
        BY <2>3, <3>2, <4>1, PushAssumption
      <4>3. QED
        BY <1>6, <2>3, <3>2, <4>2 DEF Inv, Handles
    <3>3. QED
      BY <1>3, <3>1, <3>2
  <2>4. QED
    BY <2>1, <2>2, <2>3 DEF Handles
<1>12. Places(slots, h, v)
  <2>1. ASSUME NEW d \in Dests, NEW i \in DOMAIN v, slots[d] # None,
               v[i].method = "file_write_commit", slots[d].id = v[i].id
        PROVE  v[i].to = d
    <3>1. CASE i \in DOMAIN wire /\ v[i] = wire[i]
      BY <2>1, <3>1 DEF Inv, Places
    <3>2. CASE v[i] = q
      <4>1. q.method \in Posts
        BY <2>1, <3>2 DEF Posts
      <4>2. q.by \in Sessions /\ slots[d].id = tr[q.by].guestTransferId
        BY <1>6, <2>1, <3>2, <4>1
      <4>3. QED
        BY <2>1, <3>2, <4>2 DEF Inv, Places
    <3>3. QED
      BY <1>3, <3>1, <3>2
  <2>2. QED
    BY <2>1 DEF Inv, Places
<1>13. ASSUME NEW id \in Nat \ {0}, Abandoned(id, tr, wire) PROVE Abandoned(id, h, v)
  <2>1. q.id = id => q.method = "file_write_abort"
    <3>1. q.method \in Methods
      BY <1>1 DEF Request
    <3>2. q.method \in Posts => q.id # id
      BY <1>6, <1>13 DEF Abandoned
    <3>3. q.method \in {"file_write_begin", "session_abort"} => q.id = 0
      BY DEF RequestOK
    <3>4. QED
      BY <3>1, <3>2, <3>3 DEF Methods, Posts
  <2>2. QED
    BY <1>3, <1>13, <2>1 DEF Abandoned
<1>14. QED
  BY <1>2, <1>4, <1>10, <1>11, <1>12, <1>13 DEF v

\* The transfer that file_write_begin opens has a new id; its sender, if it still
\* waits, is the only one who knows it.
Opened(v, f, h, sl, k, d) ==
    /\ Left(v, f) /\ \A i \in DOMAIN v : v[i] = wire[f[i]]
    /\ sl[d].id = k /\ \A e \in Dests : e # d => sl[e] = slots[e]
    /\ \A s \in Sessions :
          \/ h[s] = tr[s]
          \/ /\ h[s].guestTransferId = k /\ ToOf(h[s]) = d
             /\ \A i \in DOMAIN v : ~(Pending(v[i]) /\ v[i].by = s)
    /\ \A s, o \in Sessions : h[s].guestTransferId = k /\ h[o].guestTransferId = k => s = o

\* The invariant then.
LEMMA OpenedSound ==
    ASSUME Inv, NEW k \in Nat \ {0}, k \notin Ids, NEW d \in Dests,
           NEW v, NEW f, NEW h, NEW sl, Opened(v, f, h, sl, k, d)
    PROVE  /\ Awaiting(h, v) /\ Handles(h, v) /\ Places(sl, h, v)
           /\ \A id \in Nat \ {0} : id # k /\ Abandoned(id, tr, wire) => Abandoned(id, h, v)
<1> USE DEF Opened
<1>1. /\ Awaiting(tr, v) /\ Handles(tr, v) /\ Places(slots, tr, v)
      /\ \A id \in Nat \ {0} : Abandoned(id, tr, wire) => Abandoned(id, tr, v)
  <2>1. \A s \in Sessions : GoesOn(s, tr[s], v)
    BY DEF GoesOn
  <2>2. QED
    BY <2>1, LeftSound
<1>2. /\ \A s \in Sessions : tr[s].guestTransferId # k
      /\ \A i \in DOMAIN wire : wire[i].id # k
      /\ \A e \in Dests : slots[e] # None => slots[e].id # k
  <2>1. k # None
    BY PushAssumption
  <2>2. QED
    BY <2>1 DEF Ids, Used
<1>3. \A i \in DOMAIN v : v[i].id # k /\ (v[i].live => v[i].by \in Sessions)
  BY <1>2, Given DEF Left, RequestOK
<1>4. Awaiting(h, v)
  <2>1. ASSUME NEW i \in DOMAIN v, Pending(v[i]) PROVE Awaited(v[i], h[v[i].by])
    <3>1. v[i].by \in Sessions
      BY <1>3, <2>1 DEF Pending
    <3>2. h[v[i].by] = tr[v[i].by]
      BY <2>1, <3>1
    <3>3. QED
      BY <1>1, <2>1, <3>2 DEF Awaiting
  <2>2. QED
    BY <1>1, <2>1 DEF Awaiting
<1>5. Handles(h, v)
  <2>1. ASSUME NEW s \in Sessions, NEW o \in Sessions,
               h[s].guestTransferId = h[o].guestTransferId, h[s].guestTransferId # None
        PROVE  s = o
    BY <1>1, <1>2, <2>1 DEF Handles
  <2>2. ASSUME NEW i \in DOMAIN v, NEW s \in Sessions,
               v[i].method \in Posts, v[i].id = h[s].guestTransferId
        PROVE  v[i].live /\ v[i].by = s
    <3>1. h[s] = tr[s]
      BY <1>3, <2>2
    <3>2. QED
      BY <1>1, <2>2, <3>1 DEF Handles
  <2>3. QED
    BY <1>1, <2>1, <2>2 DEF Handles
<1>6. Places(sl, h, v)
  <2>1. \A a, b \in Dests : sl[a] # None /\ sl[b] # None /\ sl[a].id = sl[b].id => a = b
    BY <1>1, <1>2 DEF Places
  <2>2. ASSUME NEW e \in Dests, NEW s \in Sessions, sl[e] # None, sl[e].id = h[s].guestTransferId
        PROVE  ToOf(h[s]) = e
    <3>1. CASE e = d
      BY <1>2, <2>2, <3>1
    <3>2. CASE e # d
      <4>1. h[s].guestTransferId # k /\ sl[e] = slots[e]
        BY <1>2, <2>2, <3>2
      <4>2. h[s] = tr[s]
        BY <4>1
      <4>3. QED
        BY <1>1, <2>2, <4>1, <4>2 DEF Places
    <3>3. QED
      BY <3>1, <3>2
  <2>3. ASSUME NEW e \in Dests, NEW i \in DOMAIN v, sl[e] # None,
               v[i].method = "file_write_commit", sl[e].id = v[i].id
        PROVE  v[i].to = e
    BY <1>1, <1>3, <2>3 DEF Places
  <2>4. QED
    BY <2>1, <2>2, <2>3 DEF Places
<1>7. ASSUME NEW id \in Nat \ {0}, id # k, Abandoned(id, tr, wire) PROVE Abandoned(id, h, v)
  <2>1. Abandoned(id, tr, v)
    BY <1>1, <1>7
  <2>2. QED
    BY <1>7, <2>1 DEF Abandoned
<1>8. QED
  BY <1>4, <1>5, <1>6, <1>7

-----------------------------------------------------------------------------
(* Steps of the host *)

\* No transfer.
LEMMA NoTransferOK ==
    /\ NoTransfer.pc = "idle" /\ NoTransfer.guestTransferId = None
    /\ NoTransfer.overwrite \in BOOLEAN /\ NoTransfer.cancelled \in BOOLEAN
    /\ \A src : TransferOK(NoTransfer, src)
<1>1. <<>> \in Seq(Entry)
  OBVIOUS
<1>2. /\ NoTransfer.pc = "idle" /\ NoTransfer.guestTransferId = None
      /\ NoTransfer.overwrite \in BOOLEAN /\ NoTransfer.cancelled \in BOOLEAN
      /\ NoTransfer \in Transfer
  BY <1>1 DEF NoTransfer, Transfer, Steps
<1>3. QED
  BY <1>2, PushAssumption DEF TransferOK, Working, Writing

\* The file a transfer is at.
LEMMA HeadEntry ==
    ASSUME NEW entries \in Seq(Entry), entries # <<>>
    PROVE  /\ Head(entries).from \in Sources /\ Head(entries).to \in Dests
           /\ Tail(entries) \in Seq(Entry)
<1>1. Head(entries) \in Entry /\ Tail(entries) \in Seq(Entry)
  BY HeadTailProperties
<1>2. QED
  BY <1>1 DEF Entry

\* A file is begun with the version its source has.
LEMMA BeginFileOK ==
    ASSUME FilesOK, NEW t, t.overwrite \in BOOLEAN, t.cancelled \in BOOLEAN,
           NEW entries \in Seq(Entry), entries # <<>>
    PROVE  LET b == BeginFile(t, entries)
           IN  /\ TransferOK(b, source) /\ b.guestTransferId = None /\ b.pc = "hash"
               /\ b.entries = entries /\ b.since = source[Head(entries).from]
<1> DEFINE b == BeginFile(t, entries)
<1>1. Head(entries).from \in Sources
  BY HeadEntry
<1>2. source[Head(entries).from] \in Nat \ {0}
  BY <1>1 DEF FilesOK
<1>3. /\ b \in Transfer /\ b.guestTransferId = None /\ b.pc = "hash" /\ b.entries = entries
      /\ b.since = source[Head(entries).from]
  BY <1>2 DEF BeginFile, NoTransfer, Transfer, Steps
<1> HIDE DEF b
<1>4. TransferOK(b, source)
  BY <1>2, <1>3, PushAssumption DEF TransferOK, Working, Writing, FromOf
<1>5. QED
  BY <1>3, <1>4 DEF b

\* The next file of a directory, or the end.
LEMMA NextFileOK ==
    ASSUME FilesOK, NEW t, t.overwrite \in BOOLEAN, t.cancelled \in BOOLEAN,
           NEW entries \in Seq(Entry)
    PROVE  /\ TransferOK(NextFile(t, entries), source)
           /\ NextFile(t, entries).guestTransferId = None
<1>1. CASE entries = <<>> \/ t.cancelled
  BY <1>1, NoTransferOK DEF NextFile
<1>2. CASE ~(entries = <<>> \/ t.cancelled)
  BY <1>2, BeginFileOK DEF NextFile
<1>3. QED
  BY <1>1, <1>2

\* A hash that agrees with its file, or whose transfer nobody can write to.
LEMMA HashKept ==
    ASSUME Inv, slots' \in [Dests -> Slot \cup {None}],
           \A d \in Dests : slots'[d] # None =>
              \/ temp'[d] = slots'[d].sha /\ meta'[d] = slots'[d].expected
              \/ Abandoned(slots'[d].id, tr', wire')
              \/ slots'[d] = slots[d] /\ temp'[d] = temp[d] /\ meta'[d] = meta[d],
           \A d \in Dests : /\ slots[d] # None /\ slots'[d] # None /\ slots'[d].id = slots[d].id
                            /\ Abandoned(slots[d].id, tr, wire)
                            => Abandoned(slots[d].id, tr', wire')
    PROVE  CommitsWhatItHashed'
<1>1. \A d \in Dests : slots[d] # None =>
         \/ temp[d] = slots[d].sha /\ meta[d] = slots[d].expected
         \/ Abandoned(slots[d].id, tr, wire)
  BY DEF Inv, CommitsWhatItHashed, Used, Abandoned
<1>2. \A d \in Dests : slots'[d] # None =>
         \/ temp'[d] = slots'[d].sha /\ meta'[d] = slots'[d].expected
         \/ Abandoned(slots'[d].id, tr', wire')
  BY <1>1
<1>3. QED
  BY <1>2 DEF CommitsWhatItHashed, Used, Abandoned

\* The whole invariant after a step on transfers and wire that leaves the files alone.
LEMMA HostSound ==
    ASSUME Inv, UNCHANGED <<source, disk, slots>>, abort' \in [Sessions -> {"none", "sent", "done"}],
           tr' \in [Sessions -> Transfer], \A s \in Sessions : TransferOK(tr'[s], source),
           wire' \in Seq(Request), \A i \in DOMAIN wire' : RequestOK(wire'[i], source),
           Awaiting(tr', wire'), Handles(tr', wire'), Places(slots, tr', wire'),
           \A id \in Nat \ {0} : Abandoned(id, tr, wire) => Abandoned(id, tr', wire')
    PROVE  Inv'
<1>1. FilesOK' /\ TransfersOK' /\ WireOK'
  BY DEF Inv, FilesOK, TransfersOK, WireOK, disk
<1>2. CommitsWhatItHashed'
  <2>1. \A d \in Dests : slots[d] # None => slots[d].id \in Nat \ {0}
    BY Given
  <2>2. slots' \in [Dests -> Slot \cup {None}] /\ UNCHANGED <<slots, temp, meta>>
    BY DEF Inv, FilesOK, disk
  <2>3. QED
    BY <2>1, <2>2, HashKept
<1>3. QED
  BY <1>1, <1>2 DEF Inv

\* A transfer that waits for nothing goes on without a transfer in the guest.
LEMMA TransferSound ==
    ASSUME Inv, NEW s \in Sessions, NEW t, TransferOK(t, source), t.guestTransferId = None,
           tr[s].pc \notin {"begin", "chunk", "commit"},
           tr' = [tr EXCEPT ![s] = t], UNCHANGED <<source, disk, slots, wire, abort>>
    PROVE  Inv'
<1> DEFINE f == [i \in DOMAIN wire |-> i]
<1>1. Left(wire, f)
  BY DEF Left
<1>2. \A i \in DOMAIN wire : f[i] = i
  OBVIOUS
<1> HIDE DEF f
<1>3. t \in Transfer /\ tr \in [Sessions -> Transfer]
  BY Given DEF TransferOK
<1>4. tr' \in [Sessions -> Transfer] /\ \A o \in Sessions : tr'[o] = IF o = s THEN t ELSE tr[o]
  BY <1>3
<1>5. \A i \in DOMAIN wire : ~(Pending(wire[i]) /\ wire[i].by = s)
  <2>1. SUFFICES ASSUME NEW i \in DOMAIN wire, Pending(wire[i]), wire[i].by = s PROVE FALSE
    OBVIOUS
  <2>2. Awaited(wire[i], tr[s])
    BY <2>1 DEF Inv, Awaiting
  <2>3. wire[i].method \in Methods /\ wire[i].method # "session_abort"
    BY <2>1, Given DEF RequestOK, Request, Pending
  <2>4. QED
    BY <2>1, <2>2, <2>3 DEF Awaited, Pending, Methods
<1>6. \A o \in Sessions : GoesOn(o, tr'[o], wire)
  BY <1>4, <1>5 DEF GoesOn
<1>7. \A i \in DOMAIN wire : wire[i] = wire[f[i]]
  BY <1>2
<1>8. /\ Awaiting(tr', wire) /\ Handles(tr', wire) /\ Places(slots, tr', wire)
      /\ \A id \in Nat \ {0} : Abandoned(id, tr, wire) => Abandoned(id, tr', wire)
  <2>1. \A i \in DOMAIN wire :
           wire[i] # wire[f[i]] /\ wire[f[i]].method \in Posts /\ wire[f[i]].live
           => tr'[wire[f[i]].by].guestTransferId = None
    BY <1>7
  <2>2. \A d \in Dests : slots[d] # None => slots[d] # None /\ slots[d].id = slots[d].id
    OBVIOUS
  <2>3. QED
    BY Zenon, <1>1, <1>6, <2>1, <2>2, LeftSound
<1>9. abort' \in [Sessions -> {"none", "sent", "done"}]
  BY DEF Inv, FilesOK
<1>10. \A o \in Sessions : TransferOK(tr'[o], source)
  BY <1>4, Given
<1>11. wire' \in Seq(Request) /\ \A i \in DOMAIN wire' : RequestOK(wire'[i], source)
  BY Given
<1>12. QED
  BY <1>4, <1>8, <1>9, <1>10, <1>11, HostSound

\* execute.
LEMMA BeginInv ==
    ASSUME Inv, NEW s \in Sessions, NEW r \in Requests, NEW o \in Overwrites, Begin(s, r, o)
    PROVE  Inv'
<1>1. tr[s].pc = "idle" /\ UNCHANGED <<source, disk, slots, wire, abort>>
  BY DEF Begin
<1>2. r.entries \in Seq(Entry) /\ o \in BOOLEAN /\ r.entries # <<>> /\ FilesOK
  <2>1. r \in [dir : BOOLEAN, entries : Seq(Entry)] /\ o \in BOOLEAN /\ Len(r.entries) > 0
    BY PushAssumption DEF Entry
  <2>2. Len(<<>>) = 0
    OBVIOUS
  <2>3. QED
    BY <2>1, <2>2 DEF Inv
<1>3. CASE r.dir
  <2> DEFINE k == [NoTransfer EXCEPT !.pc = "list", !.entries = r.entries, !.overwrite = o]
  <2>1. tr' = [tr EXCEPT ![s] = k]
    BY <1>3 DEF Begin
  <2>2. k \in Transfer /\ k.pc = "list" /\ k.entries = r.entries /\ k.guestTransferId = None
    BY <1>2 DEF NoTransfer, Transfer, Steps
  <2> HIDE DEF k
  <2>3. TransferOK(k, source)
    BY <1>2, <2>2, PushAssumption DEF TransferOK, Working, Writing
  <2>4. QED
    BY <1>1, <2>1, <2>2, <2>3, TransferSound
<1>4. CASE ~r.dir
  <2> DEFINE n == [NoTransfer EXCEPT !.overwrite = o]
             b == BeginFile(n, r.entries)
  <2>1. tr' = [tr EXCEPT ![s] = b]
    BY <1>4 DEF Begin
  <2>2. n.overwrite \in BOOLEAN /\ n.cancelled \in BOOLEAN
    BY <1>2 DEF NoTransfer
  <2> HIDE DEF n
  <2>3. TransferOK(b, source) /\ b.guestTransferId = None
    BY <1>2, <2>2, BeginFileOK
  <2> HIDE DEF b
  <2>4. QED
    BY <1>1, <2>1, <2>3, TransferSound
<1>5. QED
  BY <1>3, <1>4

\* A call ends while it waits for nothing.
LEMMA UnregisterInv ==
    ASSUME Inv, NEW s \in Sessions, tr[s].pc \notin {"begin", "chunk", "commit"}, Unregister(s),
           UNCHANGED <<source, disk, slots, wire, abort>>
    PROVE  Inv'
  BY NoTransferOK, TransferSound DEF Unregister

\* The directory is listed, or a file of it is done.
LEMMA NextFileInv ==
    ASSUME Inv, NEW s \in Sessions, CollectHostTree(s) \/ StatSource(s)
    PROVE  Inv'
<1>1. /\ tr[s].pc \in {"list", "stat"} /\ UNCHANGED <<source, disk, slots, wire, abort>>
  BY DEF CollectHostTree, StatSource
<1>2. /\ tr \in [Sessions -> Transfer] /\ tr[s] \in Transfer /\ FilesOK
      /\ tr[s].entries \in Seq(Entry) /\ tr[s].entries # <<>>
      /\ tr[s].overwrite \in BOOLEAN /\ tr[s].cancelled \in BOOLEAN
  BY <1>1, Given DEF Inv, Transfer, TransferOK
<1>3. ASSUME NEW e \in Seq(Entry), tr' = [tr EXCEPT ![s] = NextFile(tr[s], e)] PROVE Inv'
  <2>1. TransferOK(NextFile(tr[s], e), source) /\ NextFile(tr[s], e).guestTransferId = None
    BY <1>2, NextFileOK
  <2>2. QED
    BY <1>1, <1>3, <2>1, TransferSound
<1>4. CASE CollectHostTree(s)
  <2>1. tr' = [tr EXCEPT ![s] = NextFile(tr[s], tr[s].entries)]
    BY <1>2, <1>4 DEF CollectHostTree
  <2>2. QED
    BY <1>2, <1>3, <2>1
<1>5. CASE StatSource(s)
  <2>1. CASE Unregister(s)
    BY <1>1, <2>1, UnregisterInv
  <2>2. CASE tr' = [tr EXCEPT ![s] = NextFile(@, Tail(@.entries))]
    <3>1. tr' = [tr EXCEPT ![s] = NextFile(tr[s], Tail(tr[s].entries))]
      BY <1>2, <2>2
    <3>2. Tail(tr[s].entries) \in Seq(Entry)
      BY <1>2, HeadEntry
    <3>3. QED
      BY <1>3, <3>1, <3>2
  <2>3. QED
    BY <1>5, <2>1, <2>2 DEF StatSource
<1>6. QED
  BY <1>4, <1>5

\* A transfer sends a request and waits for it.
LEMMA SendSound ==
    ASSUME Inv, NEW s \in Sessions, NEW q, RequestOK(q, source), q.by = s, q.live,
           q.method # "file_write_abort", NEW pc,
           tr' = [tr EXCEPT ![s].pc = pc], wire' = Append(wire, q),
           \/ q.method = "file_write_begin" /\ tr[s].pc = "hash" /\ pc = "begin"
           \/ q.method = "file_write_chunk" /\ tr[s].pc = "read" /\ pc = "chunk"
           \/ q.method = "file_write_commit" /\ tr[s].pc = "read" /\ pc = "commit",
           q.method \in Posts => q.id = tr[s].guestTransferId,
           q.method \in Naming => q.to = ToOf(tr[s]),
           UNCHANGED <<source, disk, slots, abort>>
    PROVE  Inv'
<1> DEFINE t == [tr[s] EXCEPT !.pc = pc]
<1>1. tr \in [Sessions -> Transfer] /\ tr[s] \in Transfer /\ TransferOK(tr[s], source)
  BY Given
<1>2. /\ t \in Transfer /\ t.pc = pc /\ t.entries = tr[s].entries /\ t.since = tr[s].since
      /\ t.guestTransferId = tr[s].guestTransferId
  BY <1>1 DEF Transfer, Steps
<1>3. tr' = [tr EXCEPT ![s] = t]
  BY <1>1
<1> HIDE DEF t
<1>4. TransferOK(t, source)
  BY <1>1, <1>2 DEF TransferOK, Working, Writing, FromOf, Steps
<1>5. tr' \in [Sessions -> Transfer] /\ \A o \in Sessions : tr'[o] = IF o = s THEN t ELSE tr[o]
  BY <1>1, <1>2, <1>3
<1>6. \A o \in Sessions :
         /\ tr'[o].guestTransferId = tr[o].guestTransferId /\ ToOf(tr'[o]) = ToOf(tr[o])
         /\ tr'[o].pc = tr[o].pc \/ (Pending(q) /\ q.by = o)
  BY <1>2, <1>5 DEF ToOf, Pending
<1>7. Awaited(q, tr'[q.by]) /\ tr[q.by].pc \notin {"begin", "chunk", "commit"}
  BY <1>2, <1>5, <1>6 DEF Awaited, Posts, Naming
<1>8. /\ Pending(q) => /\ Awaited(q, tr'[q.by])
                      /\ tr[q.by].pc \notin {"begin", "chunk", "commit"}
      /\ q.method \in Posts => q.live /\ q.id = tr[q.by].guestTransferId
      /\ q.method = "file_write_commit" => q.to = ToOf(tr[q.by])
  BY <1>7 DEF Naming
<1>9. /\ wire' \in Seq(Request) /\ \A i \in DOMAIN wire' : RequestOK(wire'[i], source)
      /\ Awaiting(tr', wire') /\ Handles(tr', wire') /\ Places(slots, tr', wire')
      /\ \A id \in Nat \ {0} : Abandoned(id, tr, wire) => Abandoned(id, tr', wire')
  <2> DEFINE h == tr'
             v == Append(wire, q)
  <2>1. /\ \A o \in Sessions :
              /\ h[o].guestTransferId = tr[o].guestTransferId /\ ToOf(h[o]) = ToOf(tr[o])
              /\ h[o].pc = tr[o].pc \/ (Pending(q) /\ q.by = o)
        /\ Pending(q) => /\ Awaited(q, h[q.by])
                         /\ tr[q.by].pc \notin {"begin", "chunk", "commit"}
    BY <1>6, <1>8
  <2> HIDE DEF h
  <2>2. /\ v \in Seq(Request) /\ \A i \in DOMAIN v : RequestOK(v[i], source)
        /\ Awaiting(h, v) /\ Handles(h, v) /\ Places(slots, h, v)
        /\ \A id \in Nat \ {0} : Abandoned(id, tr, wire) => Abandoned(id, h, v)
    BY <1>8, <2>1, SentSound
  <2>3. QED
    BY <2>2 DEF h
<1>10. abort' \in [Sessions -> {"none", "sent", "done"}]
  BY DEF Inv, FilesOK
<1>11. \A o \in Sessions : TransferOK(tr'[o], source)
  BY <1>4, <1>5, Given
<1>12. QED
  BY <1>5, <1>9, <1>10, <1>11, HostSound

\* A working transfer and its file.
LEMMA WorkingFacts ==
    ASSUME Inv, NEW s \in Sessions, tr[s].pc \in Working
    PROVE  /\ tr[s] \in Transfer /\ TransferOK(tr[s], source)
           /\ From(s) = FromOf(tr[s]) /\ To(s) = ToOf(tr[s])
           /\ From(s) \in Sources /\ To(s) \in Dests
           /\ tr[s].since \in 1 .. source[From(s)] /\ tr[s].since \in 1 .. Len(Sizes[From(s)])
           /\ tr[s].since \in Nat /\ source[From(s)] \in 1 .. Len(Sizes[From(s)])
           /\ tr[s].overwrite \in BOOLEAN /\ tr[s].offset \in Nat
<1>1. tr[s] \in Transfer /\ TransferOK(tr[s], source)
  BY Given
<1>2. tr[s].entries \in Seq(Entry) /\ tr[s].entries # <<>>
  BY <1>1 DEF Transfer, TransferOK, Working
<1>3. From(s) \in Sources /\ To(s) \in Dests
  BY <1>2, HeadEntry DEF From, To
<1>4. From(s) = FromOf(tr[s]) /\ To(s) = ToOf(tr[s])
  BY DEF From, To, FromOf, ToOf
<1>5. /\ source[From(s)] \in Nat \ {0} /\ source[From(s)] <= Len(Sizes[From(s)])
      /\ Len(Sizes[From(s)]) \in Nat
  BY <1>3, PushAssumption, LenProperties DEF Inv, FilesOK
<1>6. tr[s].since \in 1 .. source[From(s)]
  BY <1>1, <1>4 DEF TransferOK
<1>7. QED
  BY <1>1, <1>3, <1>4, <1>5, <1>6 DEF Transfer

\* The source is hashed.
LEMMA HashFileInv ==
    ASSUME Inv, NEW s \in Sessions, HashFile(s)
    PROVE  Inv'
<1>1. tr[s].pc = "hash" /\ UNCHANGED <<source, disk, slots, abort>>
  BY DEF HashFile
<1>2. CASE Unregister(s) /\ UNCHANGED wire
  BY <1>1, <1>2, UnregisterInv
<1>3. CASE /\ Goto(s, "begin")
           /\ Send(s, [NoRequest EXCEPT !.method = "file_write_begin", !.from = From(s), !.to = To(s),
                                        !.since = tr[s].since, !.overwrite = tr[s].overwrite])
  <2> DEFINE n == [NoRequest EXCEPT !.method = "file_write_begin", !.from = From(s), !.to = To(s),
                                    !.since = tr[s].since, !.overwrite = tr[s].overwrite]
             q == [n EXCEPT !.by = s, !.live = TRUE]
  <2>1. /\ From(s) = FromOf(tr[s]) /\ To(s) = ToOf(tr[s]) /\ From(s) \in Sources /\ To(s) \in Dests
        /\ tr[s].since \in 1 .. source[From(s)] /\ tr[s].since \in Nat /\ tr[s].overwrite \in BOOLEAN
    BY <1>1, WorkingFacts DEF Working, Steps
  <2>2. <<>> \in Seq(Chunks)
    OBVIOUS
  <2>3. /\ q \in Request /\ q.method = "file_write_begin" /\ q.from = From(s) /\ q.to = To(s)
        /\ q.since = tr[s].since /\ q.id = 0 /\ q.by = s /\ q.live = TRUE
    BY <2>1, <2>2 DEF NoRequest, Request, Methods
  <2>4. wire' = Append(wire, q) /\ tr' = [tr EXCEPT ![s].pc = "begin"]
    BY <1>3 DEF Send, Goto
  <2> HIDE DEF q, n
  <2>5. RequestOK(q, source) /\ q.method \notin Posts
    BY <2>1, <2>3 DEF RequestOK, Posts
  <2>6. QED
    BY <1>1, <2>1, <2>3, <2>4, <2>5, SendSound
<1>4. QED
  BY <1>2, <1>3 DEF HashFile

\* A chunk is read and sent, or the commit.
LEMMA ReadSourceInv ==
    ASSUME Inv, NEW s \in Sessions, ReadSource(s)
    PROVE  Inv'
<1>1. tr[s].pc = "read" /\ UNCHANGED <<source, disk, slots, abort>>
  BY DEF ReadSource
<1>2. /\ From(s) = FromOf(tr[s]) /\ To(s) = ToOf(tr[s]) /\ From(s) \in Sources /\ To(s) \in Dests
      /\ tr[s].since \in 1 .. source[From(s)] /\ tr[s].since \in Nat /\ tr[s].offset \in Nat
      /\ tr[s].since \in 1 .. Len(Sizes[From(s)]) /\ source[From(s)] \in 1 .. Len(Sizes[From(s)])
  BY <1>1, WorkingFacts DEF Working, Steps
<1>3. tr[s].guestTransferId \in Nat \ {0}
  BY <1>1, Given DEF TransferOK, Transfer, Writing
<1>4. <<>> \in Seq(Chunks)
  OBVIOUS
<1> DEFINE size == Len(Expected(s))
           file == Content(From(s), source[From(s)])
           got == SubSeq(file, tr[s].offset + 1, Min({tr[s].offset + 1, size, Len(file)}))
<1>5. got \in Seq(Chunks)
  <2>1. file \in Seq(Chunks) /\ Expected(s) \in Seq(Chunks)
    BY <1>2, ContentType DEF Expected
  <2> HIDE DEF file
  <2>2. size \in Nat
    BY <2>1, LenProperties
  <2> HIDE DEF size
  <2>3. QED
    BY <1>2, <2>1, <2>2, PieceType
<1>6. CASE Unregister(s) /\ UNCHANGED wire
  BY <1>1, <1>6, UnregisterInv
<1>7. CASE /\ Goto(s, "commit")
           /\ Send(s, [NoRequest EXCEPT !.method = "file_write_commit", !.id = tr[s].guestTransferId,
                          !.from = From(s), !.to = To(s), !.since = tr[s].since])
  <2> DEFINE n == [NoRequest EXCEPT !.method = "file_write_commit", !.id = tr[s].guestTransferId,
                      !.from = From(s), !.to = To(s), !.since = tr[s].since]
             q == [n EXCEPT !.by = s, !.live = TRUE]
  <2>1. /\ q \in Request /\ q.method = "file_write_commit" /\ q.from = From(s) /\ q.to = To(s)
        /\ q.since = tr[s].since /\ q.id = tr[s].guestTransferId /\ q.by = s /\ q.live = TRUE
    BY <1>2, <1>3, <1>4 DEF NoRequest, Request, Methods
  <2>2. wire' = Append(wire, q) /\ tr' = [tr EXCEPT ![s].pc = "commit"]
    BY <1>7 DEF Send, Goto
  <2> HIDE DEF q, n
  <2>3. RequestOK(q, source)
    BY <1>2, <1>3, <2>1 DEF RequestOK
  <2>4. QED
    BY <1>1, <1>2, <2>1, <2>2, <2>3, SendSound
<1>8. CASE /\ Goto(s, "chunk")
           /\ Send(s, [NoRequest EXCEPT !.method = "file_write_chunk", !.offset = tr[s].offset,
                          !.id = tr[s].guestTransferId, !.data = got])
  <2> HIDE DEF got
  <2> DEFINE n == [NoRequest EXCEPT !.method = "file_write_chunk", !.offset = tr[s].offset,
                      !.id = tr[s].guestTransferId, !.data = got]
             q == [n EXCEPT !.by = s, !.live = TRUE]
  <2>1. /\ q \in Request /\ q.method = "file_write_chunk"
        /\ q.id = tr[s].guestTransferId /\ q.by = s /\ q.live = TRUE
    BY <1>2, <1>3, <1>5 DEF NoRequest, Request, Methods
  <2>2. wire' = Append(wire, q) /\ tr' = [tr EXCEPT ![s].pc = "chunk"]
    BY <1>8 DEF Send, Goto
  <2> HIDE DEF q, n
  <2>3. RequestOK(q, source) /\ q.method \notin Naming
    BY <1>2, <1>3, <2>1 DEF RequestOK, Naming
  <2>4. QED
    BY <1>1, <1>2, <2>1, <2>2, <2>3, SendSound
<1>9. QED
  BY <1>6, <1>7, <1>8 DEF ReadSource

\* Requests become orphans.
LEMMA OrphansLeft ==
    ASSUME Inv, NEW v, v = [i \in DOMAIN wire |-> v[i]],
           \A i \in DOMAIN wire : v[i] = wire[i] \/ v[i] = Orphan(wire[i])
    PROVE  /\ Left(v, [i \in DOMAIN wire |-> i]) /\ DOMAIN v = DOMAIN wire
           /\ v \in Seq(Request) /\ \A i \in DOMAIN v : RequestOK(v[i], source)
<1>1. DOMAIN v = DOMAIN wire /\ \A i \in DOMAIN v : v[i] = wire[i] \/ v[i] = Orphan(wire[i])
  OBVIOUS
<1>2. \A i \in DOMAIN v : v[i] \in Request /\ RequestOK(v[i], source)
  BY <1>1, Given, OrphanFields
<1>3. v \in Seq(Request)
  <2>1. Len(wire) \in Nat /\ DOMAIN wire = 1 .. Len(wire)
    BY Given, LenProperties
  <2>2. v \in [1 .. Len(wire) -> Request]
    BY <1>1, <1>2, <2>1
  <2>3. QED
    BY <2>1, <2>2, SeqDef
<1>4. QED
  BY <1>1, <1>2, <1>3 DEF Left

\* The invariant after a step of the host in which requests became orphans.
LEMMA OrphanedSound ==
    ASSUME Inv, UNCHANGED <<source, disk, slots>>, abort' \in [Sessions -> {"none", "sent", "done"}],
           tr' \in [Sessions -> Transfer], \A s \in Sessions : TransferOK(tr'[s], source),
           wire' = [i \in DOMAIN wire |-> wire'[i]],
           \A i \in DOMAIN wire : wire'[i] = wire[i] \/ wire'[i] = Orphan(wire[i]),
           \A s \in Sessions : GoesOn(s, tr'[s], wire'),
           \A i \in DOMAIN wire :
              wire'[i] # wire[i] /\ wire[i].method \in Posts /\ wire[i].live
              => tr'[wire[i].by].guestTransferId = None
    PROVE  Inv'
<1> DEFINE f == [i \in DOMAIN wire |-> i]
           v == wire'
           h == tr'
<1>1. /\ Left(v, f) /\ DOMAIN v = DOMAIN wire
      /\ v \in Seq(Request) /\ \A i \in DOMAIN v : RequestOK(v[i], source)
  BY OrphansLeft
<1>2. \A i \in DOMAIN wire : f[i] = i
  OBVIOUS
<1>3. /\ \A i \in DOMAIN v :
            v[i] # wire[f[i]] /\ wire[f[i]].method \in Posts /\ wire[f[i]].live
            => h[wire[f[i]].by].guestTransferId = None
      /\ \A s \in Sessions : GoesOn(s, h[s], v)
  BY <1>1, <1>2
<1> HIDE DEF f, v, h
<1>4. /\ Awaiting(h, v) /\ Handles(h, v) /\ Places(slots, h, v)
      /\ \A id \in Nat \ {0} : Abandoned(id, tr, wire) => Abandoned(id, h, v)
  BY <1>1, <1>3, LeftSound
<1>5. QED
  BY <1>1, <1>4, HostSound DEF v, h

\* A request is not answered in time, or cannot be sent.
LEMMA RequestFailsInv ==
    ASSUME Inv, NEW s \in Sessions, RequestFails(s)
    PROVE  Inv'
<1>1. /\ UNCHANGED <<source, disk, slots, abort>>
      /\ wire' = [i \in DOMAIN wire |->
                    IF wire[i].by = s /\ wire[i].method # "file_write_abort"
                    THEN Orphan(wire[i]) ELSE wire[i]]
  BY DEF RequestFails
<1>2. tr' \in [Sessions -> Transfer] /\ \A o \in Sessions : tr'[o] = IF o = s THEN NoTransfer ELSE tr[o]
  BY NoTransferOK, Given DEF RequestFails, Unregister, TransferOK
<1>3. \A o \in Sessions : TransferOK(tr'[o], source)
  BY <1>2, NoTransferOK, Given
<1>4. /\ DOMAIN wire' = DOMAIN wire /\ wire' = [i \in DOMAIN wire |-> wire'[i]]
      /\ \A i \in DOMAIN wire :
            /\ wire'[i] = wire[i] \/ wire'[i] = Orphan(wire[i])
            /\ wire'[i] # wire[i] => wire[i].by = s
            /\ wire[i].by = s /\ wire[i].method # "file_write_abort" => wire'[i] = Orphan(wire[i])
  BY <1>1
<1>5. \A i \in DOMAIN wire' : ~(Pending(wire'[i]) /\ wire'[i].by = s)
  <2>1. SUFFICES ASSUME NEW i \in DOMAIN wire, Pending(wire'[i]), wire'[i].by = s PROVE FALSE
    BY <1>4
  <2>2. wire'[i] = wire[i]
    BY <1>4, <2>1, OrphanFields, Given DEF Pending
  <2>3. wire[i].by = s /\ wire[i].method # "file_write_abort"
    BY <2>1, <2>2 DEF Pending
  <2>4. ~wire'[i].live
    BY <1>4, <2>3, OrphanFields, Given
  <2>5. QED
    BY <2>1, <2>4 DEF Pending
<1>6. \A o \in Sessions : GoesOn(o, tr'[o], wire')
  BY <1>2, <1>5, NoTransferOK DEF GoesOn
<1>7. \A i \in DOMAIN wire :
         wire'[i] # wire[i] /\ wire[i].method \in Posts /\ wire[i].live
         => tr'[wire[i].by].guestTransferId = None
  BY <1>2, <1>4, NoTransferOK
<1>8. abort' \in [Sessions -> {"none", "sent", "done"}]
  BY <1>1 DEF Inv, FilesOK
<1>9. QED
  BY <1>1, <1>2, <1>3, <1>4, <1>6, <1>7, <1>8, OrphanedSound

\* file_write_abort is not answered in time.
LEMMA AbortTimesOutInv ==
    ASSUME Inv, NEW s \in Sessions, AbortTimesOut(s)
    PROVE  Inv'
<1>1. /\ UNCHANGED <<source, disk, slots, tr>>
      /\ wire' = [i \in DOMAIN wire |->
                    IF wire[i].by = s /\ wire[i].method = "file_write_abort"
                    THEN Orphan(wire[i]) ELSE wire[i]]
  BY DEF AbortTimesOut
<1>2. abort' \in [Sessions -> {"none", "sent", "done"}]
  BY DEF AbortTimesOut, Inv, FilesOK
<1>3. /\ wire' = [i \in DOMAIN wire |-> wire'[i]]
      /\ \A i \in DOMAIN wire :
            /\ wire'[i] = wire[i] \/ wire'[i] = Orphan(wire[i])
            /\ wire'[i] # wire[i] => wire[i].method \notin Posts
  BY <1>1 DEF Posts
<1>4. \A o \in Sessions : GoesOn(o, tr'[o], wire')
  BY <1>1 DEF GoesOn
<1>5. tr' \in [Sessions -> Transfer] /\ \A o \in Sessions : TransferOK(tr'[o], source)
  BY <1>1, Given
<1>6. QED
  BY <1>1, <1>2, <1>3, <1>4, <1>5, OrphanedSound

\* A cleanup sends a request, or nothing.
LEMMA CleanupSendSound ==
    ASSUME Inv, NEW q, RequestOK(q, source), q.method \in {"file_write_abort", "session_abort"},
           \/ wire' = Append(wire, q)
           \/ wire' = wire,
           tr' \in [Sessions -> Transfer], \A s \in Sessions : TransferOK(tr'[s], source),
           \A s \in Sessions :
              /\ tr'[s].guestTransferId = tr[s].guestTransferId /\ ToOf(tr'[s]) = ToOf(tr[s])
              /\ tr'[s].pc = tr[s].pc,
           UNCHANGED <<source, disk, slots>>, abort' \in [Sessions -> {"none", "sent", "done"}]
    PROVE  Inv'
<1> DEFINE h == tr'
           v == Append(wire, q)
<1>1. ~Pending(q) /\ q.method \notin Posts /\ q.method # "file_write_commit"
  BY DEF Pending, Posts, RequestOK
<1>2. CASE wire' = v
  <2>1. \A s \in Sessions :
           /\ h[s].guestTransferId = tr[s].guestTransferId /\ ToOf(h[s]) = ToOf(tr[s])
           /\ h[s].pc = tr[s].pc \/ (Pending(q) /\ q.by = s)
    OBVIOUS
  <2> HIDE DEF h
  <2>2. /\ v \in Seq(Request) /\ \A i \in DOMAIN v : RequestOK(v[i], source)
        /\ Awaiting(h, v) /\ Handles(h, v) /\ Places(slots, h, v)
        /\ \A id \in Nat \ {0} : Abandoned(id, tr, wire) => Abandoned(id, h, v)
    BY <1>1, <2>1, SentSound
  <2> HIDE DEF v
  <2>3. QED
    BY <1>2, <2>2, HostSound DEF h
<1>3. CASE wire' = wire
  <2>1. wire' = [i \in DOMAIN wire |-> wire'[i]]
    BY <1>3, Given, SeqDef
  <2>2. \A s \in Sessions : GoesOn(s, tr'[s], wire')
    BY DEF GoesOn
  <2>3. QED
    BY <1>3, <2>1, <2>2, OrphanedSound
<1>4. QED
  BY <1>2, <1>3

\* abortSession.
LEMMA AbortSessionInv ==
    ASSUME Inv, NEW s \in Sessions, AbortSession(s)
    PROVE  Inv'
<1> DEFINE c == (tr[s].pc # "idle")
           t == [tr[s] EXCEPT !.cancelled = c]
           k == tr[s].guestTransferId
           n == [NoRequest EXCEPT !.method = "file_write_abort", !.id = k]
           q == [n EXCEPT !.by = s, !.live = TRUE]
<1>1. tr \in [Sessions -> Transfer] /\ tr[s] \in Transfer /\ TransferOK(tr[s], source)
  BY Given
<1>2. /\ UNCHANGED <<source, disk, slots>> /\ abort' \in [Sessions -> {"none", "sent", "done"}]
      /\ \/ k # None /\ wire' = Append(wire, q)
         \/ wire' = wire
      /\ tr' = [tr EXCEPT ![s] = t]
  BY <1>1 DEF AbortSession, Send, Inv, FilesOK
<1>3. c \in BOOLEAN
  OBVIOUS
<1> HIDE DEF c
<1>4. /\ t \in Transfer /\ t.pc = tr[s].pc /\ t.entries = tr[s].entries /\ t.since = tr[s].since
      /\ t.guestTransferId = tr[s].guestTransferId
  BY <1>1, <1>3 DEF Transfer
<1> HIDE DEF t
<1>5. TransferOK(t, source) /\ ToOf(t) = ToOf(tr[s])
  BY <1>1, <1>4 DEF TransferOK, FromOf, ToOf
<1>6. tr' \in [Sessions -> Transfer] /\ \A o \in Sessions : tr'[o] = IF o = s THEN t ELSE tr[o]
  BY <1>1, <1>2, <1>4
<1>7. /\ \A o \in Sessions : TransferOK(tr'[o], source)
      /\ \A o \in Sessions :
              /\ tr'[o].guestTransferId = tr[o].guestTransferId /\ ToOf(tr'[o]) = ToOf(tr[o])
              /\ tr'[o].pc = tr[o].pc
  BY <1>4, <1>5, <1>6, Given
<1>8. <<>> \in Seq(Chunks)
  OBVIOUS
<1>9. CASE k # None /\ wire' = Append(wire, q)
  <2>1. k \in Nat
    BY <1>1, <1>9 DEF Transfer
  <2> HIDE DEF k
  <2>2. /\ q \in Request /\ q.method = "file_write_abort" /\ q.by = s /\ q.live = TRUE
    BY <1>8, <2>1 DEF NoRequest, Request, Methods
  <2> HIDE DEF q, n
  <2>3. RequestOK(q, source)
    BY <2>2 DEF RequestOK, Naming, Posts
  <2>4. QED
    BY <1>2, <1>6, <1>7, <1>9, <2>2, <2>3, CleanupSendSound
<1>10. CASE wire' = wire
  <2>1. wire' = [i \in DOMAIN wire |-> wire'[i]]
    BY <1>10, Given, SeqDef
  <2>2. \A o \in Sessions : GoesOn(o, tr'[o], wire')
    BY <1>7 DEF GoesOn
  <2>3. QED
    BY <1>2, <1>6, <1>7, <1>10, <2>1, <2>2, OrphanedSound
<1>11. QED
  BY <1>2, <1>9, <1>10

\* The cleanup goes on with session_abort, or ends.
LEMMA EndAbortInv ==
    ASSUME Inv, NEW s \in Sessions, NEW locking, EndAbort(s, locking)
    PROVE  Inv'
<1>1. /\ UNCHANGED <<source, disk, slots, tr>> /\ abort' \in [Sessions -> {"none", "sent", "done"}]
      /\ wire' = Append(wire, NoRequest) \/ wire' = wire
  BY DEF EndAbort, Inv, FilesOK
<1>2. <<>> \in Seq(Chunks)
  OBVIOUS
<1>3. NoRequest \in Request /\ NoRequest.method = "session_abort" /\ ~NoRequest.live /\ NoRequest.id = 0
  BY <1>2 DEF NoRequest, Request, Methods
<1>4. RequestOK(NoRequest, source)
  BY <1>3 DEF RequestOK, Naming, Posts
<1>5. tr' \in [Sessions -> Transfer] /\ \A o \in Sessions : TransferOK(tr'[o], source)
  BY <1>1, Given
<1>6. QED
  BY <1>1, <1>3, <1>4, <1>5, CleanupSendSound

-----------------------------------------------------------------------------
(* Steps of the guest *)

\* The requests that are left when the oldest one is executed.
LEMMA RestOfWire ==
    ASSUME Inv, wire # <<>>
    PROVE  LET q == Head(wire)
               v == Tail(wire)
               f == [i \in DOMAIN v |-> i + 1]
           IN  /\ 1 \in DOMAIN wire /\ q = wire[1] /\ q \in Request /\ RequestOK(q, source)
               /\ v \in Seq(Request) /\ Left(v, f)
               /\ \A i \in DOMAIN v : v[i] = wire[f[i]] /\ f[i] # 1 /\ f[i] \in DOMAIN wire
<1> DEFINE q == Head(wire)
           v == Tail(wire)
           f == [i \in DOMAIN v |-> i + 1]
           n == Len(wire)
<1>1. wire \in Seq(Request)
  BY Given
<1>2. /\ n \in Nat \ {0} /\ DOMAIN wire = 1 .. n /\ q = wire[1]
      /\ v \in Seq(Request) /\ DOMAIN v = 1 .. n - 1 /\ \A i \in 1 .. n - 1 : v[i] = wire[i + 1]
  <2>1. n \in Nat /\ DOMAIN wire = 1 .. n /\ n # 0
    BY <1>1, LenProperties, EmptySeq
  <2>2. /\ q = wire[1] /\ v \in Seq(Request) /\ Len(v) = n - 1
        /\ \A i \in 1 .. Len(v) : v[i] = wire[i + 1]
    BY <1>1, HeadTailProperties
  <2>3. DOMAIN v = 1 .. Len(v)
    BY <2>2, LenProperties
  <2>4. QED
    BY <2>1, <2>2, <2>3
<1> HIDE DEF v, q, n
<1>3. \A i \in DOMAIN v : f[i] = i + 1 /\ f[i] \in DOMAIN wire /\ f[i] # 1 /\ v[i] = wire[f[i]] /\ i \in Nat
  BY <1>2
<1> HIDE DEF f
<1>4. Left(v, f)
  BY <1>3 DEF Left
<1>5. 1 \in DOMAIN wire /\ q \in Request /\ RequestOK(q, source)
  BY <1>2, Given
<1>6. QED
  BY <1>2, <1>3, <1>4, <1>5 DEF v, q, f

\* The same, for the invariant.
LEMMA ExecutedFacts ==
    ASSUME Inv, wire # <<>>, NEW q, q = Head(wire), NEW v, v = Tail(wire)
    PROVE  /\ \A i \in DOMAIN v : RequestOK(v[i], source)
           /\ Pending(q) => \A i \in DOMAIN v : ~(Pending(v[i]) /\ v[i].by = q.by)
           /\ Pending(q) => q.by \in Sessions /\ Awaited(q, tr[q.by])
           /\ q.method \in Posts => \A i \in DOMAIN v : ~(v[i].method \in Posts /\ v[i].id = q.id)
           /\ \A s \in Sessions : q.method \in Posts /\ tr[s].guestTransferId = q.id => q.live /\ q.by = s
           /\ q.live \in BOOLEAN
<1> DEFINE f == [i \in DOMAIN v |-> i + 1]
<1>1. /\ 1 \in DOMAIN wire /\ q = wire[1] /\ q \in Request /\ RequestOK(q, source)
      /\ \A i \in DOMAIN v : v[i] = wire[f[i]] /\ f[i] # 1 /\ f[i] \in DOMAIN wire
  BY RestOfWire
<1> HIDE DEF f
<1>2. \A i \in DOMAIN v : RequestOK(v[i], source)
  BY <1>1, Given
<1>3. Pending(q) => \A i \in DOMAIN v : ~(Pending(v[i]) /\ v[i].by = q.by)
  BY <1>1 DEF Inv, Awaiting
<1>4. Pending(q) => q.by \in Sessions /\ Awaited(q, tr[q.by])
  BY <1>1 DEF Inv, Awaiting, RequestOK, Pending
<1>5. q.method \in Posts => \A i \in DOMAIN v : ~(v[i].method \in Posts /\ v[i].id = q.id)
  BY <1>1 DEF Inv, Handles
<1>6. \A s \in Sessions : q.method \in Posts /\ tr[s].guestTransferId = q.id => q.live /\ q.by = s
  BY <1>1 DEF Inv, Handles
<1>7. q.live \in BOOLEAN
  BY <1>1 DEF Request
<1>8. QED
  BY <1>2, <1>3, <1>4, <1>5, <1>6, <1>7

\* The invariant after a step of the guest that opens no transfer.
LEMMA GuestSound ==
    ASSUME Inv, UNCHANGED source, FilesOK', TransfersOK', WireOK',
           NEW f, Left(wire', f), \A i \in DOMAIN wire' : wire'[i] = wire[f[i]],
           \A s \in Sessions : GoesOn(s, tr'[s], wire'),
           \A d \in Dests : slots'[d] # None =>
              /\ slots[d] # None /\ slots'[d].id = slots[d].id
              /\ \/ temp'[d] = slots'[d].sha /\ meta'[d] = slots'[d].expected
                 \/ Abandoned(slots'[d].id, tr', wire')
                 \/ slots'[d] = slots[d] /\ temp'[d] = temp[d] /\ meta'[d] = meta[d]
    PROVE  Inv'
<1> DEFINE h == tr'
           v == wire'
           sl == slots'
<1>1. /\ Left(v, f) /\ \A i \in DOMAIN v : v[i] = wire[f[i]]
      /\ \A s \in Sessions : GoesOn(s, h[s], v)
      /\ \A d \in Dests : sl[d] # None => slots[d] # None /\ sl[d].id = slots[d].id
  OBVIOUS
<1> HIDE DEF h, v, sl
<1>2. /\ Awaiting(h, v) /\ Handles(h, v) /\ Places(sl, h, v)
      /\ \A id \in Nat \ {0} : Abandoned(id, tr, wire) => Abandoned(id, h, v)
  BY <1>1, LeftSound
<1>3. /\ Awaiting(tr', wire') /\ Handles(tr', wire') /\ Places(slots', tr', wire')
      /\ \A id \in Nat \ {0} : Abandoned(id, tr, wire) => Abandoned(id, tr', wire')
  BY <1>2 DEF h, v, sl
<1>4. \A d \in Dests : slots[d] # None => slots[d].id \in Nat \ {0}
  BY Given
<1>5. CommitsWhatItHashed'
  <2>1. slots' \in [Dests -> Slot \cup {None}]
    BY DEF FilesOK
  <2>2. QED
    BY <1>3, <1>4, <2>1, HashKept
<1>6. QED
  BY <1>3, <1>5 DEF Inv

\* The transfers when a request of a transfer has been executed and answered.
LEMMA AnsweredSound ==
    ASSUME Inv, wire # <<>>, wire' = Tail(wire), UNCHANGED source, NEW t, Answered(Head(wire), t),
           Head(wire).method # "file_write_abort",
           Head(wire).live =>
              /\ TransferOK(t, source)
              /\ \/ t.guestTransferId = None
                 \/ /\ t.guestTransferId = tr[Head(wire).by].guestTransferId
                    /\ ToOf(t) = ToOf(tr[Head(wire).by])
    PROVE  TransfersOK' /\ WireOK' /\ \A s \in Sessions : GoesOn(s, tr'[s], wire')
<1> DEFINE q == Head(wire)
           v == Tail(wire)
<1>1. v \in Seq(Request)
  BY RestOfWire
<1>2. /\ \A i \in DOMAIN v : RequestOK(v[i], source)
      /\ Pending(q) => \A i \in DOMAIN v : ~(Pending(v[i]) /\ v[i].by = q.by)
      /\ Pending(q) => q.by \in Sessions
  BY ExecutedFacts
<1>3. tr \in [Sessions -> Transfer] /\ \A s \in Sessions : TransferOK(tr[s], source)
  BY Given
<1> HIDE DEF v
<1>4. wire' = v /\ WireOK'
  BY <1>1, <1>2 DEF WireOK, v
<1>5. CASE q.live
  <2>1. Pending(q) /\ tr' = [tr EXCEPT ![q.by] = t] /\ TransferOK(t, source) /\ t \in Transfer
    BY <1>5 DEF Pending, Answered, TransferOK
  <2>2. /\ tr' \in [Sessions -> Transfer]
        /\ \A s \in Sessions : tr'[s] = IF s = q.by THEN t ELSE tr[s]
    BY <1>2, <1>3, <2>1
  <2>3. TransfersOK'
    BY <1>3, <2>1, <2>2 DEF TransfersOK
  <2>4. ASSUME NEW s \in Sessions PROVE GoesOn(s, tr'[s], wire')
    BY <1>2, <1>4, <1>5, <2>1, <2>2 DEF GoesOn
  <2>5. QED
    BY <1>4, <2>3, <2>4
<1>6. CASE ~q.live
  <2>1. tr' = tr
    BY <1>6 DEF Answered
  <2>2. QED
    BY <1>3, <1>4, <2>1 DEF TransfersOK, GoesOn
<1>7. QED
  BY <1>5, <1>6

\* A request to write or to commit that is answered with an error leaves the
\* transfer it names to nobody.
LEMMA RefusedIsAbandoned ==
    ASSUME Inv, wire # <<>>, wire' = Tail(wire), Head(wire).method \in Posts,
           Answered(Head(wire), NoTransfer)
    PROVE  Abandoned(Head(wire).id, tr', wire')
<1> DEFINE q == Head(wire)
           v == Tail(wire)
<1>1. /\ \A i \in DOMAIN v : RequestOK(v[i], source)
      /\ Pending(q) => q.by \in Sessions
      /\ \A i \in DOMAIN v : ~(v[i].method \in Posts /\ v[i].id = q.id)
      /\ \A s \in Sessions : tr[s].guestTransferId = q.id => q.live /\ q.by = s
  BY ExecutedFacts
<1>2. q.id \in Nat \ {0}
  BY RestOfWire DEF RequestOK, Request
<1> HIDE DEF v
<1>3. \A i \in DOMAIN v : v[i].id = q.id => v[i].method = "file_write_abort"
  BY <1>1, <1>2 DEF RequestOK, Request, Methods, Posts
<1>4. ASSUME NEW s \in Sessions PROVE tr'[s].guestTransferId # q.id
  <2>1. q.id # None /\ tr \in [Sessions -> Transfer]
    BY <1>2, PushAssumption, Given
  <2>2. CASE q.live /\ q.by = s
    <3>1. tr'[s] = NoTransfer
      BY <2>1, <2>2 DEF Answered
    <3>2. QED
      BY <2>1, <3>1, NoTransferOK
  <2>3. CASE ~(q.live /\ q.by = s)
    <3>1. tr'[s] = tr[s]
      BY <2>1, <2>3 DEF Answered
    <3>2. QED
      BY <1>1, <2>3, <3>1
  <2>4. QED
    BY <2>2, <2>3
<1>5. wire' = v
  BY DEF v
<1>6. QED
  BY <1>3, <1>4, <1>5 DEF Abandoned

\* The transfer that a chunk or a commit names: its hash agrees with its file.
LEMMA NamedFacts ==
    ASSUME Inv, wire # <<>>, Head(wire).method \in Posts, NEW d \in Named(Head(wire))
    PROVE  /\ d \in Dests /\ slots[d] # None /\ slots[d] \in Slot /\ slots[d].id = Head(wire).id
           /\ temp[d] = slots[d].sha /\ meta[d] = slots[d].expected
           /\ slots[d].sha \in Seq(Chunks) /\ slots[d].expected \in Seq(Chunks)
           /\ Head(wire).data \in Seq(Chunks)
<1> DEFINE q == Head(wire)
<1>1. 1 \in DOMAIN wire /\ q = wire[1] /\ q \in Request
  BY RestOfWire
<1>2. d \in Used /\ d \in Dests /\ slots[d] # None /\ slots[d].id = q.id
  BY DEF Named, Used
<1>3. slots[d] \in Slot
  BY <1>2, Given
<1>4. temp[d] = slots[d].sha /\ meta[d] = slots[d].expected
  <2>1. q.method # "file_write_abort"
    BY DEF Posts
  <2>2. QED
    BY <1>1, <1>2, <2>1 DEF Inv, CommitsWhatItHashed
<1>5. QED
  BY <1>1, <1>2, <1>3, <1>4 DEF Slot, Request

\* No transfer has the id.
LEMMA NotFoundInv ==
    ASSUME Inv, NotFound
    PROVE  Inv'
<1>1. /\ wire # <<>> /\ wire' = Tail(wire) /\ Head(wire).method \in Posts
      /\ Answered(Head(wire), NoTransfer) /\ UNCHANGED <<source, dest, temp, meta, slots, abort>>
  BY DEF NotFound, Executes, Posts, disk
<1>2. TransfersOK' /\ WireOK' /\ \A s \in Sessions : GoesOn(s, tr'[s], wire')
  BY <1>1, NoTransferOK, AnsweredSound DEF Posts
<1>3. FilesOK'
  BY <1>1 DEF Inv, FilesOK
<1> DEFINE f == [i \in DOMAIN Tail(wire) |-> i + 1]
<1>4. Left(wire', f) /\ \A i \in DOMAIN wire' : wire'[i] = wire[f[i]]
  BY <1>1, RestOfWire
<1> HIDE DEF f
<1>5. QED
  BY <1>1, <1>2, <1>3, <1>4, GuestSound

\* A chunk is written.
LEMMA FileWriteChunkInv ==
    ASSUME Inv, FileWriteChunk
    PROVE  Inv'
<1> DEFINE q == Head(wire)
           f == [i \in DOMAIN Tail(wire) |-> i + 1]
           u == [tr[q.by] EXCEPT !.pc = "read", !.offset = @ + Len(q.data)]
<1>1. /\ wire # <<>> /\ wire' = Tail(wire) /\ q.method = "file_write_chunk" /\ q.method \in Posts
      /\ q.method # "file_write_abort" /\ UNCHANGED <<source, dest, meta, abort>>
  BY DEF FileWriteChunk, Executes, Posts
<1>2. PICK d \in Named(q) :
         \/ /\ slots' = [slots EXCEPT ![d].sha = @ \o q.data]
            /\ temp' = [temp EXCEPT ![d] = @ \o q.data]
            /\ Answered(q, u)
         \/ Answered(q, NoTransfer) /\ UNCHANGED <<temp, slots>>
  BY DEF FileWriteChunk
<1>3. Left(wire', f) /\ \A i \in DOMAIN wire' : wire'[i] = wire[f[i]]
  BY <1>1, RestOfWire
<1> HIDE DEF f
<1>4. CASE Answered(q, NoTransfer) /\ UNCHANGED <<temp, slots>>
  <2>1. TransfersOK' /\ WireOK' /\ \A s \in Sessions : GoesOn(s, tr'[s], wire')
    BY <1>1, <1>4, NoTransferOK, AnsweredSound
  <2>2. FilesOK'
    BY <1>1, <1>4 DEF Inv, FilesOK
  <2>3. QED
    BY <1>1, <1>3, <1>4, <2>1, <2>2, GuestSound
<1>5. CASE /\ slots' = [slots EXCEPT ![d].sha = @ \o q.data]
           /\ temp' = [temp EXCEPT ![d] = @ \o q.data]
           /\ Answered(q, u)
  <2>1. /\ d \in Dests /\ slots[d] # None /\ slots[d] \in Slot
        /\ temp[d] = slots[d].sha /\ meta[d] = slots[d].expected
        /\ slots[d].sha \in Seq(Chunks) /\ q.data \in Seq(Chunks)
    BY <1>1, NamedFacts
  <2>2. q.live => /\ TransferOK(u, source) /\ u.guestTransferId = tr[q.by].guestTransferId
                  /\ ToOf(u) = ToOf(tr[q.by])
    <3>1. SUFFICES ASSUME q.live
                   PROVE  /\ TransferOK(u, source) /\ u.guestTransferId = tr[q.by].guestTransferId
                          /\ ToOf(u) = ToOf(tr[q.by])
      OBVIOUS
    <3>2. q.by \in Sessions /\ tr[q.by].pc = "chunk"
      BY <1>1, <3>1, ExecutedFacts DEF Pending, Awaited
    <3>3. tr[q.by] \in Transfer /\ TransferOK(tr[q.by], source)
      BY <3>2, Given
    <3>4. Len(q.data) \in Nat
      BY <2>1, LenProperties
    <3>5. /\ u \in Transfer /\ u.pc = "read" /\ u.guestTransferId = tr[q.by].guestTransferId
          /\ u.entries = tr[q.by].entries /\ u.since = tr[q.by].since
      <4> DEFINE b == tr[q.by]
                 m == b.offset + Len(q.data)
      <4>1. b \in Transfer /\ m \in Nat
        BY <3>3, <3>4 DEF Transfer
      <4>2. u = [b EXCEPT !.pc = "read", !.offset = m]
        BY <4>1 DEF Transfer
      <4> HIDE DEF b, m, u
      <4>3. /\ u \in Transfer /\ u.pc = "read" /\ u.guestTransferId = b.guestTransferId
            /\ u.entries = b.entries /\ u.since = b.since
        BY <4>1, <4>2 DEF Transfer, Steps
      <4>4. QED
        BY <4>3 DEF b
    <3> HIDE DEF u
    <3>6. QED
      BY <3>2, <3>3, <3>5 DEF TransferOK, Working, Writing, Steps, FromOf, ToOf
  <2>3. TransfersOK' /\ WireOK' /\ \A s \in Sessions : GoesOn(s, tr'[s], wire')
    <3> HIDE DEF u
    <3>1. QED
      BY <1>1, <1>5, <2>2, AnsweredSound
  <2>4. slots[d].sha \o q.data \in Seq(Chunks)
    BY <2>1, ConcatProperties
  <2> DEFINE c == slots[d].sha \o q.data
             n == [slots[d] EXCEPT !.sha = c]
  <2>5. /\ slots \in [Dests -> Slot \cup {None}] /\ temp \in [Dests -> Seq(Chunks) \cup {None}]
    BY DEF Inv, FilesOK
  <2>6. slots' = [slots EXCEPT ![d] = n] /\ temp' = [temp EXCEPT ![d] = c]
    BY <1>5, <2>1, <2>5
  <2> HIDE DEF c
  <2>7. n \in Slot /\ n.id = slots[d].id /\ n.sha = c /\ n.expected = slots[d].expected
    BY <2>1, <2>4 DEF Slot, c
  <2> HIDE DEF n
  <2>8. FilesOK'
    BY <1>1, <2>4, <2>6, <2>7 DEF Inv, FilesOK, c
  <2>9. \A e \in Dests : /\ slots'[e] = IF e = d THEN n ELSE slots[e]
                         /\ temp'[e] = IF e = d THEN c ELSE temp[e]
    BY <2>5, <2>6
  <2>10. \A e \in Dests : slots'[e] # None =>
              /\ slots[e] # None /\ slots'[e].id = slots[e].id
              /\ \/ temp'[e] = slots'[e].sha /\ meta'[e] = slots'[e].expected
                 \/ slots'[e] = slots[e] /\ temp'[e] = temp[e] /\ meta'[e] = meta[e]
    BY <1>1, <2>1, <2>7, <2>9
  <2>11. QED
    BY <1>1, <1>3, <2>3, <2>8, <2>10, GuestSound
<1>6. QED
  BY <1>2, <1>4, <1>5

\* A write fails: the data may be in the file, and is not in the hash.
LEMMA WriteFailsInv ==
    ASSUME Inv, WriteFails
    PROVE  Inv'
<1> DEFINE q == Head(wire)
           f == [i \in DOMAIN Tail(wire) |-> i + 1]
<1>1. /\ wire # <<>> /\ wire' = Tail(wire) /\ q.method \in Posts
      /\ q.method # "file_write_abort" /\ UNCHANGED <<source, dest, meta, slots, abort>>
      /\ Answered(q, NoTransfer)
  BY DEF WriteFails, Executes, Posts
<1>2. PICK d \in Named(q) : temp' = [temp EXCEPT ![d] = @ \o q.data] \/ UNCHANGED temp
  BY DEF WriteFails
<1>3. Left(wire', f) /\ \A i \in DOMAIN wire' : wire'[i] = wire[f[i]]
  BY <1>1, RestOfWire
<1> HIDE DEF f
<1>4. TransfersOK' /\ WireOK' /\ \A s \in Sessions : GoesOn(s, tr'[s], wire')
  BY <1>1, NoTransferOK, AnsweredSound
<1>5. /\ d \in Dests /\ slots[d].id = q.id /\ temp[d] = slots[d].sha
      /\ slots[d].sha \in Seq(Chunks) /\ q.data \in Seq(Chunks)
  BY <1>1, NamedFacts
<1>6. Abandoned(slots'[d].id, tr', wire')
  BY <1>1, <1>5, RefusedIsAbandoned
<1>7. temp[d] \o q.data \in Seq(Chunks) /\ temp \in [Dests -> Seq(Chunks) \cup {None}]
  BY <1>5, ConcatProperties DEF Inv, FilesOK
<1>8. /\ temp' \in [Dests -> Seq(Chunks) \cup {None}]
      /\ \A e \in Dests : e # d => temp'[e] = temp[e]
  BY <1>2, <1>7
<1>9. FilesOK'
  BY <1>1, <1>8 DEF Inv, FilesOK
<1>10. \A e \in Dests : slots'[e] # None =>
          /\ slots[e] # None /\ slots'[e].id = slots[e].id
          /\ \/ Abandoned(slots'[e].id, tr', wire')
             \/ slots'[e] = slots[e] /\ temp'[e] = temp[e] /\ meta'[e] = meta[e]
  BY <1>1, <1>6, <1>8
<1>11. QED
  BY <1>1, <1>3, <1>4, <1>9, <1>10, GuestSound

\* A transfer is committed, or its commit fails; it is over in any case.
LEMMA FileWriteCommitInv ==
    ASSUME Inv, FileWriteCommit
    PROVE  Inv'
<1> DEFINE q == Head(wire)
           f == [i \in DOMAIN Tail(wire) |-> i + 1]
           u == [tr[q.by] EXCEPT !.pc = "stat", !.guestTransferId = None]
<1>1. /\ wire # <<>> /\ wire' = Tail(wire) /\ q.method = "file_write_commit" /\ q.method \in Posts
      /\ q.method # "file_write_abort" /\ UNCHANGED <<source, abort>>
  BY DEF FileWriteCommit, Executes, Posts
<1>2. PICK d \in Named(q) :
         /\ slots' = [slots EXCEPT ![d] = None]
         /\ Answered(q, u) \/ Answered(q, NoTransfer)
         /\ \/ dest' = [dest EXCEPT ![d] = temp[d]]
            \/ dest' = [dest EXCEPT ![d] = None]
            \/ dest' = [dest EXCEPT ![d] = dest[d]]
            \/ dest' = dest
         /\ temp' = temp \/ temp' = [temp EXCEPT ![d] = None]
         /\ meta' = meta \/ meta' = [meta EXCEPT ![d] = None]
  <2>1. PICK d \in Named(q) :
          LET full == Len(slots[d].sha) = Len(slots[d].expected)
              free == slots[d].overwrite \/ dest[d] = None
          IN /\ slots' = [slots EXCEPT ![d] = None]
             /\ IF full /\ Sha256Matches(q, d) /\ free
                THEN \/ /\ dest' = [dest EXCEPT ![d] = temp[d]]
                        /\ temp' = [temp EXCEPT ![d] = None]
                        /\ meta' = [meta EXCEPT ![d] = None]
                        /\ Answered(q, u)
                     \/ /\ \E old \in {None, dest[d]} : dest' = [dest EXCEPT ![d] = old]
                        /\ Answered(q, NoTransfer) /\ UNCHANGED <<temp, meta>>
                ELSE /\ Answered(q, NoTransfer) /\ UNCHANGED dest
                     /\ LET keep == ~full \/ Sha256Matches(q, d)
                        IN /\ temp' = IF keep THEN temp ELSE [temp EXCEPT ![d] = None]
                           /\ meta' = IF keep THEN meta ELSE [meta EXCEPT ![d] = None]
    BY DEF FileWriteCommit
  <2> HIDE DEF q, u
  <2>2. QED
    BY <2>1
<1>3. Left(wire', f) /\ \A i \in DOMAIN wire' : wire'[i] = wire[f[i]]
  BY <1>1, RestOfWire
<1> HIDE DEF f
<1>4. d \in Dests /\ temp[d] \in Seq(Chunks)
  BY <1>1, NamedFacts
<1>5. q.live => TransferOK(u, source) /\ u.guestTransferId = None
  <2>1. SUFFICES ASSUME q.live PROVE TransferOK(u, source) /\ u.guestTransferId = None
    OBVIOUS
  <2>2. q.by \in Sessions /\ tr[q.by].pc = "commit"
    BY <1>1, <2>1, ExecutedFacts DEF Pending, Awaited
  <2>3. tr[q.by] \in Transfer /\ TransferOK(tr[q.by], source)
    BY <2>2, Given
  <2>4. /\ u \in Transfer /\ u.pc = "stat" /\ u.guestTransferId = None
        /\ u.entries = tr[q.by].entries /\ u.since = tr[q.by].since
    BY <2>3 DEF Transfer, Steps
  <2> HIDE DEF u
  <2>5. tr[q.by].entries # <<>> /\ tr[q.by].since \in 1 .. source[FromOf(tr[q.by])]
    BY <2>2, <2>3 DEF TransferOK, Working, Steps
  <2>6. FromOf(u) = FromOf(tr[q.by])
    BY <2>4 DEF FromOf
  <2>7. u.pc \notin Writing /\ u.guestTransferId # 0
    BY <2>4, PushAssumption DEF Writing
  <2>8. TransferOK(u, source)
    BY <2>4, <2>5, <2>6, <2>7 DEF TransferOK
  <2>9. QED
    BY <2>4, <2>8
<1>6. TransfersOK' /\ WireOK' /\ \A s \in Sessions : GoesOn(s, tr'[s], wire')
  <2> HIDE DEF u
  <2>1. QED
    BY <1>1, <1>2, <1>5, NoTransferOK, AnsweredSound
<1>7. FilesOK'
  BY <1>1, <1>2, <1>4 DEF Inv, FilesOK
<1>8. \A e \in Dests : slots'[e] # None =>
         e # d /\ slots'[e] = slots[e] /\ temp'[e] = temp[e] /\ meta'[e] = meta[e]
  BY <1>2, <1>4 DEF Inv, FilesOK
<1>9. \A e \in Dests : slots'[e] # None =>
         /\ slots[e] # None /\ slots'[e].id = slots[e].id
         /\ slots'[e] = slots[e] /\ temp'[e] = temp[e] /\ meta'[e] = meta[e]
  BY <1>8
<1>10. QED
  BY <1>1, <1>3, <1>6, <1>7, <1>9, GuestSound

\* A transfer is closed, or all of them.
LEMMA TransfersClosedInv ==
    ASSUME Inv, FileWriteAbort \/ CleanupTransfers
    PROVE  Inv'
<1> DEFINE q == Head(wire)
           f == [i \in DOMAIN Tail(wire) |-> i + 1]
<1>1. /\ wire # <<>> /\ wire' = Tail(wire) /\ UNCHANGED <<source, dest, temp, meta, tr>>
      /\ slots' \in [Dests -> Slot \cup {None}]
      /\ \A d \in Dests : slots'[d] # None => slots'[d] = slots[d]
  BY DEF FileWriteAbort, CleanupTransfers, Executes, Inv, FilesOK, disk
<1>2. abort' \in [Sessions -> {"none", "sent", "done"}]
  BY DEF FileWriteAbort, CleanupTransfers, Inv, FilesOK
<1>3. Left(wire', f) /\ (\A i \in DOMAIN wire' : wire'[i] = wire[f[i]]) /\ wire' \in Seq(Request)
  BY <1>1, RestOfWire
<1> HIDE DEF f
<1>4. WireOK'
  BY <1>1, <1>3, ExecutedFacts DEF WireOK
<1>5. TransfersOK' /\ FilesOK'
  BY <1>1, <1>2 DEF Inv, FilesOK, TransfersOK
<1>6. \A s \in Sessions : GoesOn(s, tr'[s], wire')
  BY <1>1 DEF GoesOn
<1>7. QED
  BY <1>1, <1>3, <1>4, <1>5, <1>6, GuestSound

\* What transfer_meta_state finds.
LEMMA SameMeta ==
    ASSUME Inv, NEW q, q.to \in Dests, TransferMetaState(q) = "same"
    PROVE  temp[q.to] \in Seq(Chunks) /\ meta[q.to] = Content(q.from, q.since)
<1>1. temp[q.to] # None /\ meta[q.to] = Content(q.from, q.since)
  BY DEF TransferMetaState
<1>2. QED
  BY <1>1 DEF Inv, FilesOK

\* The partial file is opened, or a new one made.
LEMMA OpenInv ==
    ASSUME Inv, wire # <<>>, wire' = Tail(wire), Head(wire).method = "file_write_begin",
           UNCHANGED <<source, dest, abort>>, slots[Head(wire).to] = None,
           NEW prefix \in Seq(Chunks), NEW slot,
           slot = [id |-> FreshId, expected |-> Content(Head(wire).from, Head(wire).since),
                   overwrite |-> Head(wire).overwrite, sha |-> prefix],
           slots' = [slots EXCEPT ![Head(wire).to] = slot],
           temp' = [temp EXCEPT ![Head(wire).to] = prefix],
           meta' = [meta EXCEPT ![Head(wire).to] = Content(Head(wire).from, Head(wire).since)],
           Answered(Head(wire), [tr[Head(wire).by] EXCEPT !.pc = "read", !.guestTransferId = FreshId,
                                                          !.offset = Len(prefix)])
    PROVE  Inv'
<1> DEFINE q == Head(wire)
           v == Tail(wire)
           f == [i \in DOMAIN v |-> i + 1]
           k == FreshId
           d == q.to
           c == Content(q.from, q.since)
           u == [tr[q.by] EXCEPT !.pc = "read", !.guestTransferId = k, !.offset = Len(prefix)]
<1>1. /\ q \in Request /\ RequestOK(q, source) /\ v \in Seq(Request) /\ Left(v, f)
      /\ \A i \in DOMAIN v : v[i] = wire[f[i]]
  BY RestOfWire
<1>2. /\ \A i \in DOMAIN v : RequestOK(v[i], source)
      /\ Pending(q) => \A i \in DOMAIN v : ~(Pending(v[i]) /\ v[i].by = q.by)
      /\ Pending(q) => q.by \in Sessions /\ Awaited(q, tr[q.by])
  BY ExecutedFacts
<1>3. k \in Nat \ {0} /\ k \notin Ids
  BY FreshIdIsFresh, Given
<1>4. q.from \in Sources /\ d \in Dests /\ q.since \in 1 .. source[q.from] /\ q.overwrite \in BOOLEAN
  BY <1>1 DEF RequestOK, Naming, Request
<1>5. c \in Seq(Chunks)
  <2>1. source[q.from] \in Nat /\ source[q.from] <= Len(Sizes[q.from]) /\ Len(Sizes[q.from]) \in Nat
    BY <1>4, PushAssumption, LenProperties DEF Inv, FilesOK
  <2>2. q.since \in 1 .. Len(Sizes[q.from])
    BY <1>4, <2>1
  <2>3. QED
    BY <1>4, <2>2, ContentType
<1> HIDE DEF f, v, k, c
<1>6. slot \in Slot /\ slot.id = k /\ slot.sha = prefix /\ slot.expected = c
  BY <1>3, <1>4, <1>5 DEF Slot, k, c
<1>7. q.live => /\ Pending(q) /\ TransferOK(u, source) /\ u.guestTransferId = k /\ ToOf(u) = d
                /\ u \in Transfer /\ q.by \in Sessions
  <2>1. SUFFICES ASSUME q.live
                 PROVE  /\ Pending(q) /\ TransferOK(u, source) /\ u.guestTransferId = k /\ ToOf(u) = d
                        /\ u \in Transfer /\ q.by \in Sessions
    OBVIOUS
  <2>2. Pending(q) /\ q.by \in Sessions /\ tr[q.by].pc = "begin" /\ d = ToOf(tr[q.by])
    BY <1>2, <2>1 DEF Pending, Awaited
  <2>3. tr[q.by] \in Transfer /\ TransferOK(tr[q.by], source)
    BY <2>2, Given
  <2>4. Len(prefix) \in Nat
    BY LenProperties
  <2>5. /\ u \in Transfer /\ u.pc = "read" /\ u.guestTransferId = k
        /\ u.entries = tr[q.by].entries /\ u.since = tr[q.by].since
    BY <1>3, <2>3, <2>4 DEF Transfer, Steps
  <2> HIDE DEF u
  <2>6. QED
    BY <1>3, <2>2, <2>3, <2>5, PushAssumption DEF TransferOK, Working, Writing, Steps, FromOf, ToOf
<1> HIDE DEF u
<1>8. tr \in [Sessions -> Transfer] /\ \A s \in Sessions : TransferOK(tr[s], source)
  BY Given
<1>9. tr' = IF q.live THEN [tr EXCEPT ![q.by] = u] ELSE tr
  BY DEF Answered, u, k
<1>10. /\ tr' \in [Sessions -> Transfer] /\ \A s \in Sessions : TransferOK(tr'[s], source)
       /\ \A s \in Sessions : tr'[s] = IF q.live /\ q.by = s THEN u ELSE tr[s]
  BY <1>7, <1>8, <1>9
<1>11. TransfersOK' /\ WireOK'
  <2>1. wire' = v
    BY DEF v
  <2>2. QED
    BY <1>1, <1>2, <1>10, <2>1 DEF TransfersOK, WireOK
<1>12. /\ slots \in [Dests -> Slot \cup {None}] /\ temp \in [Dests -> Seq(Chunks) \cup {None}]
       /\ meta \in [Dests -> Seq(Chunks) \cup {None, Torn}]
  BY DEF Inv, FilesOK
<1>13. \A e \in Dests :
          /\ slots'[e] = IF e = d THEN slot ELSE slots[e]
          /\ temp'[e] = IF e = d THEN prefix ELSE temp[e]
          /\ meta'[e] = IF e = d THEN c ELSE meta[e]
  BY <1>4, <1>12 DEF c
<1>14. FilesOK'
  <2>1. meta' = [meta EXCEPT ![d] = c]
    BY DEF c
  <2>2. QED
    BY <1>4, <1>5, <1>6, <2>1 DEF Inv, FilesOK
<1> DEFINE h == tr'
           sl == slots'
<1>15. /\ Awaiting(h, v) /\ Handles(h, v) /\ Places(sl, h, v)
       /\ \A id \in Nat \ {0} : id # k /\ Abandoned(id, tr, wire) => Abandoned(id, h, v)
  <2>1. \A s \in Sessions :
              \/ h[s] = tr[s]
              \/ /\ h[s].guestTransferId = k /\ ToOf(h[s]) = d
                 /\ \A i \in DOMAIN v : ~(Pending(v[i]) /\ v[i].by = s)
    BY <1>2, <1>7, <1>10
  <2>2. \A s, o \in Sessions :
              h[s].guestTransferId = k /\ h[o].guestTransferId = k => s = o
    <3>1. \A s \in Sessions : tr[s].guestTransferId # k
      BY <1>3, PushAssumption DEF Ids
    <3>2. QED
      BY <1>10, <3>1
  <2>3. sl[d].id = k /\ \A e \in Dests : e # d => sl[e] = slots[e]
    BY <1>4, <1>6, <1>13
  <2>4. Left(v, f) /\ (\A i \in DOMAIN v : v[i] = wire[f[i]]) /\ d \in Dests
    BY <1>1, <1>4
  <2> HIDE DEF h, sl, d, q
  <2>5. Opened(v, f, h, sl, k, d)
    BY <2>1, <2>2, <2>3, <2>4 DEF Opened
  <2>6. QED
    BY <1>3, <2>4, <2>5, OpenedSound
<1>16. /\ Awaiting(tr', wire') /\ Handles(tr', wire') /\ Places(slots', tr', wire')
       /\ \A id \in Nat \ {0} : id # k /\ Abandoned(id, tr, wire) => Abandoned(id, tr', wire')
  BY <1>15 DEF v
<1>17. CommitsWhatItHashed'
  <2>1. \A e \in Dests : slots[e] # None => e # d /\ slots[e].id \in Nat \ {0} /\ slots[e].id # k
    BY <1>3, Given DEF Ids, Used
  <2>2. \A e \in Dests : slots'[e] # None =>
           \/ temp'[e] = slots'[e].sha /\ meta'[e] = slots'[e].expected
           \/ slots'[e] = slots[e] /\ temp'[e] = temp[e] /\ meta'[e] = meta[e]
    <3>1. SUFFICES ASSUME NEW e \in Dests
                   PROVE  \/ temp'[e] = slots'[e].sha /\ meta'[e] = slots'[e].expected
                          \/ slots'[e] = slots[e] /\ temp'[e] = temp[e] /\ meta'[e] = meta[e]
      OBVIOUS
    <3>2. CASE e = d
      <4>1. slots'[e] = slot /\ temp'[e] = prefix /\ meta'[e] = c
        BY Zenon, <1>13, <3>1, <3>2
      <4>2. QED
        BY Zenon, <1>6, <4>1
    <3>3. CASE e # d
      BY Zenon, <1>13, <3>1, <3>3
    <3>4. QED
      BY <3>2, <3>3
  <2>3. slots' \in [Dests -> Slot \cup {None}]
    BY <1>14 DEF FilesOK
  <2>4. QED
    BY <1>16, <2>1, <2>2, <2>3, HashKept
<1>18. QED
  BY <1>11, <1>14, <1>16, <1>17 DEF Inv

\* file_write_begin.
LEMMA FileWriteBeginInv ==
    ASSUME Inv, FileWriteBegin
    PROVE  Inv'
<1> DEFINE q == Head(wire)
           f == [i \in DOMAIN Tail(wire) |-> i + 1]
           resume == TransferMetaState(q) = "same" /\ Len(temp[q.to]) <= Len(meta[q.to])
           prefix == IF resume THEN temp[q.to] ELSE <<>>
           slot == [id |-> FreshId, expected |-> Content(q.from, q.since),
                    overwrite |-> q.overwrite, sha |-> prefix]
           u == [tr[q.by] EXCEPT !.pc = "read", !.guestTransferId = FreshId, !.offset = Len(prefix)]
<1>1. /\ wire # <<>> /\ wire' = Tail(wire) /\ q.method = "file_write_begin"
      /\ q.method # "file_write_abort" /\ UNCHANGED <<source, dest, abort>>
  BY DEF FileWriteBegin, Executes
<1>2. q.to \in Dests
  BY <1>1, RestOfWire DEF RequestOK, Naming
<1>3. Admitted(q) => slots[q.to] = None
  BY <1>2 DEF Admitted, Used
<1>4. \/ /\ Admitted(q) /\ slots' = [slots EXCEPT ![q.to] = slot]
         /\ temp' = [temp EXCEPT ![q.to] = prefix]
         /\ meta' = [meta EXCEPT ![q.to] = Content(q.from, q.since)]
         /\ Answered(q, u)
      \/ /\ Admitted(q)
         /\ temp' = [temp EXCEPT ![q.to] = None]
         /\ meta' = [meta EXCEPT ![q.to] = None]
         /\ Answered(q, NoTransfer) /\ UNCHANGED slots
      \/ Answered(q, NoTransfer) /\ UNCHANGED <<temp, meta, slots>>
  BY DEF FileWriteBegin, RehashTransferPrefix
<1>5. CASE /\ Admitted(q) /\ slots' = [slots EXCEPT ![q.to] = slot]
           /\ temp' = [temp EXCEPT ![q.to] = prefix]
           /\ meta' = [meta EXCEPT ![q.to] = Content(q.from, q.since)]
           /\ Answered(q, u)
  <2>1. prefix \in Seq(Chunks)
    <3>1. <<>> \in Seq(Chunks)
      OBVIOUS
    <3>2. QED
      BY <1>2, <3>1, SameMeta
  <2> HIDE DEF prefix
  <2>2. QED
    BY <1>1, <1>3, <1>5, <2>1, OpenInv
<1>6. CASE /\ \/ /\ Admitted(q)
                 /\ temp' = [temp EXCEPT ![q.to] = None] /\ meta' = [meta EXCEPT ![q.to] = None]
              \/ UNCHANGED <<temp, meta>>
           /\ Answered(q, NoTransfer) /\ UNCHANGED slots
  <2>1. TransfersOK' /\ WireOK' /\ \A s \in Sessions : GoesOn(s, tr'[s], wire')
    BY <1>1, <1>6, NoTransferOK, AnsweredSound
  <2>2. FilesOK'
    BY <1>1, <1>2, <1>6 DEF Inv, FilesOK
  <2>3. \A e \in Dests : slots'[e] # None =>
           slots'[e] = slots[e] /\ temp'[e] = temp[e] /\ meta'[e] = meta[e]
    BY <1>2, <1>3, <1>6 DEF Inv, FilesOK
  <2>4. Left(wire', f) /\ \A i \in DOMAIN wire' : wire'[i] = wire[f[i]]
    BY <1>1, RestOfWire
  <2> HIDE DEF f
  <2>5. QED
    BY <1>1, <1>6, <2>1, <2>2, <2>3, <2>4, GuestSound
<1>7. QED
  BY <1>4, <1>5, <1>6

\* The guest executes a request.
LEMMA GuestExecutesInv ==
    ASSUME Inv, GuestExecutes
    PROVE  Inv'
  BY FileWriteBeginInv, NotFoundInv, FileWriteChunkInv, WriteFailsInv, FileWriteCommitInv,
     TransfersClosedInv DEF GuestExecutes

-----------------------------------------------------------------------------
(* Steps of the environment *)

\* The connection is gone, and with it every transfer of the guest.
LEMMA DisconnectedSound ==
    ASSUME Inv, Disconnected, UNCHANGED source, dest' \in [Dests -> Seq(Chunks) \cup {None}],
           temp' \in [Dests -> Seq(Chunks) \cup {None}], meta' \in [Dests -> Seq(Chunks) \cup {None, Torn}]
    PROVE  Inv'
<1> DEFINE f == [i \in {} |-> i]
<1>1. /\ wire' = <<>> /\ DOMAIN wire' = {} /\ wire' \in Seq(Request)
      /\ slots' = [d \in Dests |-> None]
  BY DEF Disconnected
<1>2. tr' \in [Sessions -> Transfer] /\ \A s \in Sessions : tr'[s] \in {tr[s], NoTransfer}
  BY Given, NoTransferOK DEF Disconnected, TransferOK
<1>3. abort' \in [Sessions -> {"none", "sent", "done"}]
  BY DEF Disconnected, Inv, FilesOK
<1>4. FilesOK' /\ TransfersOK' /\ WireOK'
  BY <1>1, <1>2, <1>3, Given, NoTransferOK DEF Inv, FilesOK, TransfersOK, WireOK
<1>5. Left(wire', f) /\ \A i \in DOMAIN wire' : wire'[i] = wire[f[i]]
  BY <1>1 DEF Left
<1>6. \A s \in Sessions : GoesOn(s, tr'[s], wire')
  BY <1>1, <1>2, NoTransferOK DEF GoesOn
<1>7. \A d \in Dests : slots'[d] = None
  BY <1>1
<1> HIDE DEF f
<1>8. QED
  BY <1>4, <1>5, <1>6, <1>7, GuestSound

\* The guest dies while it executes a request.
LEMMA GuestCrashInv ==
    ASSUME Inv, GuestCrash
    PROVE  Inv'
<1> DEFINE q == Head(wire)
<1>1. Disconnected /\ UNCHANGED source /\ wire # <<>>
  BY DEF GuestCrash
<1>2. /\ dest \in [Dests -> Seq(Chunks) \cup {None}] /\ temp \in [Dests -> Seq(Chunks) \cup {None}]
      /\ meta \in [Dests -> Seq(Chunks) \cup {None, Torn}]
  BY DEF Inv, FilesOK
<1>3. CASE /\ temp' = [temp EXCEPT ![q.to] = <<>>]
           /\ \E m \in {None, Torn} : meta' = [meta EXCEPT ![q.to] = m]
           /\ UNCHANGED dest
  <2>1. <<>> \in Seq(Chunks)
    OBVIOUS
  <2>2. QED
    BY <1>1, <1>2, <1>3, <2>1, DisconnectedSound
<1>4. CASE /\ q.method = "file_write_commit"
           /\ \E d \in Named(q) :
                 /\ dest' \in {dest, [dest EXCEPT ![d] = None], [dest EXCEPT ![d] = temp[d]]}
                 /\ temp' \in {temp, [temp EXCEPT ![d] = None]}
           /\ UNCHANGED meta
  <2>1. PICK d \in Named(q) :
                 /\ dest' \in {dest, [dest EXCEPT ![d] = None], [dest EXCEPT ![d] = temp[d]]}
                 /\ temp' \in {temp, [temp EXCEPT ![d] = None]}
    BY <1>4
  <2>2. temp[d] \in Seq(Chunks)
    BY <1>1, <1>4, NamedFacts DEF Posts
  <2>3. QED
    BY <1>1, <1>2, <1>4, <2>1, <2>2, DisconnectedSound
<1>5. QED
  BY <1>3, <1>4 DEF GuestCrash

\* A connection that is lost leaves the files.
LEMMA ConnectionLostInv ==
    ASSUME Inv, ConnectionLost
    PROVE  Inv'
<1>1. Disconnected /\ UNCHANGED <<source, dest, temp, meta>>
  BY DEF ConnectionLost, disk
<1>2. QED
  BY <1>1, DisconnectedSound DEF Inv, FilesOK

\* A source that is written again has the versions before it.
LEMMA HostFileChangesInv ==
    ASSUME Inv, NEW g \in Sources, HostFileChanges(g)
    PROVE  Inv'
<1>1. UNCHANGED <<dest, temp, meta, slots, wire, tr, abort>>
  BY DEF HostFileChanges, disk
<1>2. /\ source \in [Sources -> Nat \ {0}] /\ source' = [source EXCEPT ![g] = source[g] + 1]
      /\ source[g] < Len(Sizes[g]) /\ Len(Sizes[g]) \in Nat
  BY PushAssumption, LenProperties DEF HostFileChanges, Inv, FilesOK
<1>3. /\ source' \in [Sources -> Nat \ {0}] /\ \A e \in Sources : source[e] <= source'[e]
      /\ \A e \in Sources : source'[e] <= Len(Sizes[e])
  BY <1>2 DEF Inv, FilesOK
<1>4. \A e \in Sources : 1 .. source[e] \subseteq 1 .. source'[e]
  BY <1>2, <1>3
<1>5. ASSUME NEW s \in Sessions PROVE TransferOK(tr[s], source')
  <2>1. tr[s] \in Transfer /\ TransferOK(tr[s], source)
    BY Given
  <2>2. ASSUME tr[s].pc \in Working PROVE tr[s].since \in 1 .. source'[FromOf(tr[s])]
    <3>1. From(s) = FromOf(tr[s]) /\ From(s) \in Sources /\ tr[s].since \in 1 .. source[From(s)]
      BY <2>2, WorkingFacts
    <3>2. QED
      BY <1>4, <3>1
  <2>3. QED
    BY <2>1, <2>2 DEF TransferOK
<1>6. ASSUME NEW i \in DOMAIN wire PROVE RequestOK(wire[i], source')
  <2>1. RequestOK(wire[i], source)
    BY Given
  <2>2. ASSUME wire[i].method \in Naming PROVE wire[i].since \in 1 .. source'[wire[i].from]
    BY <1>4, <2>1, <2>2 DEF RequestOK
  <2>3. QED
    BY <2>1, <2>2 DEF RequestOK
<1>7. FilesOK' /\ TransfersOK' /\ WireOK'
  BY <1>1, <1>3, <1>5, <1>6 DEF Inv, FilesOK, TransfersOK, WireOK
<1>8. Awaiting(tr', wire') /\ Handles(tr', wire') /\ Places(slots', tr', wire')
  BY <1>1 DEF Inv
<1>9. CommitsWhatItHashed'
  BY <1>1 DEF Inv, CommitsWhatItHashed, Used
<1>10. QED
  BY <1>7, <1>8, <1>9 DEF Inv

-----------------------------------------------------------------------------
(* The specification *)

\* Nothing is under way in the beginning.
LEMMA InitInv ==
    ASSUME Init
    PROVE  Inv
<1>1. FilesOK
  <2>1. \A g \in Sources : Len(Sizes[g]) \in Nat /\ Len(Sizes[g]) > 0
    BY PushAssumption, LenProperties
  <2>2. QED
    BY <2>1 DEF Init, FilesOK
<1>2. tr \in [Sessions -> Transfer] /\ \A s \in Sessions : tr[s] = NoTransfer
  BY NoTransferOK DEF Init, TransferOK
<1>3. wire \in Seq(Request) /\ DOMAIN wire = {}
  BY DEF Init
<1>4. TransfersOK /\ WireOK
  BY <1>2, <1>3, NoTransferOK DEF TransfersOK, WireOK
<1>5. \A d \in Dests : slots[d] = None
  BY DEF Init
<1>6. Awaiting(tr, wire) /\ Handles(tr, wire) /\ Places(slots, tr, wire)
  BY <1>2, <1>3, <1>5, NoTransferOK DEF Awaiting, Handles, Places
<1>7. CommitsWhatItHashed
  BY <1>5 DEF CommitsWhatItHashed, Used
<1>8. QED
  BY <1>1, <1>4, <1>6, <1>7 DEF Inv

\* Every step keeps the invariant.
LEMMA NextInv ==
    ASSUME Inv, [Next]_vars
    PROVE  Inv'
<1>1. CASE UNCHANGED vars
  BY <1>1 DEF vars, disk, Inv, FilesOK, TransfersOK, WireOK, CommitsWhatItHashed, Used
<1>2. CASE \E s \in Sessions, r \in Requests, o \in Overwrites : Begin(s, r, o)
  BY <1>2, BeginInv
<1>3. CASE \E s \in Sessions :
              \/ CollectHostTree(s) \/ HashFile(s) \/ ReadSource(s) \/ StatSource(s)
              \/ RequestFails(s) \/ AbortSession(s) \/ AbortTimesOut(s)
              \/ \E locking \in Modes : EndAbort(s, locking)
  BY <1>3, NextFileInv, HashFileInv, ReadSourceInv, RequestFailsInv, AbortSessionInv,
     AbortTimesOutInv, EndAbortInv
<1>4. CASE GuestExecutes
  BY <1>4, GuestExecutesInv
<1>5. CASE \E g \in Sources : HostFileChanges(g)
  BY <1>5, HostFileChangesInv
<1>6. CASE ConnectionLost \/ GuestCrash
  BY <1>6, ConnectionLostInv, GuestCrashInv
<1>7. QED
  BY <1>1, <1>2, <1>3, <1>4, <1>5, <1>6 DEF Next

\* The invariant of the pushes.
THEOREM PushSound == Spec => []Inv
<1>1. Init => Inv
  BY InitInv
<1>2. Inv /\ [Next]_vars => Inv'
  BY NextInv
<1>3. QED
  BY <1>1, <1>2, PTL DEF Spec

\* Every variable has its type.
THEOREM PushTypeCorrect == Spec => []TypeOK
<1>1. Inv => TypeOK
  BY DEF Inv, FilesOK, TransfersOK, WireOK, TypeOK, Transfer, Entry
<1>2. QED
  BY <1>1, PushSound, PTL

\* As long as somebody can write to a transfer of the guest or commit it, its
\* partial file holds exactly what has gone into the hash.
THEOREM PushCommitsWhatItHashed == Spec => []CommitsWhatItHashed
<1>1. Inv => CommitsWhatItHashed
  BY DEF Inv
<1>2. QED
  BY <1>1, PushSound, PTL

-----------------------------------------------------------------------------
(* Push implements AtomicCopy *)

\* The copy that a transfer stands for, and the one that a commit stands for.
CopyOf(t) == [from |-> FromOf(t), to |-> ToOf(t), since |-> t.since]
CommitOf(q) == [from |-> q.from, to |-> q.to, since |-> q.since]

\* After a step from t to u the transfer is at no other copy than before.
Continues(t, u) ==
    u.pc \in Working => t.pc \in Working /\ u.entries = t.entries /\ u.since = t.since

\* The commits on the wire v belong to copies of C.
CommitsIn(v, C) ==
    \A i \in DOMAIN v : v[i].method = "file_write_commit" => CommitOf(v[i]) \in C

\* Copies are those of the working transfers and of the commits on the wire.
LEMMA CopiesMeaning ==
    ASSUME Inv
    PROVE  /\ \A s \in Sessions : tr[s].pc \in Working => CopyOf(tr[s]) \in Copies
           /\ CommitsIn(wire, Copies)
<1>1. \A s \in Sessions : tr[s].pc \in Working => tr[s].pc \notin {"idle", "list"}
  BY DEF Working
<1>2. \A s \in Sessions : CopyOf(tr[s]) = [from |-> From(s), to |-> To(s), since |-> tr[s].since]
  BY DEF CopyOf, FromOf, ToOf, From, To
<1>3. \A i \in DOMAIN wire : wire[i].method = "file_write_commit" =>
         [from |-> wire[i].from, to |-> wire[i].to, since |-> wire[i].since] \in Copies
  BY DEF Copies
<1>4. CommitsIn(wire, Copies)
  BY <1>3 DEF CommitsIn, CommitOf
<1>5. \A s \in Sessions : tr[s].pc \in Working =>
         [from |-> From(s), to |-> To(s), since |-> tr[s].since] \in Copies
  BY <1>1 DEF Copies
<1>6. QED
  BY <1>2, <1>4, <1>5

\* Copies after a step in which transfers continue, end, or begin one of extra.
LEMMA CopiesAfter ==
    ASSUME Inv, Inv', NEW extra, CommitsIn(wire', Copies),
           \A o \in Sessions : Continues(tr[o], tr'[o]) \/ CopyOf(tr'[o]) \in extra
    PROVE  Copies' \subseteq Copies \cup extra
<1>1. ASSUME NEW s \in Sessions, tr'[s].pc \notin {"idle", "list"}
      PROVE  CopyOf(tr'[s]) \in Copies \cup extra
  <2>1. tr'[s].pc \in Working
    BY <1>1 DEF Inv, TransfersOK, Transfer, Working
  <2>2. CASE Continues(tr[s], tr'[s])
    <3>1. tr[s].pc \in Working /\ CopyOf(tr'[s]) = CopyOf(tr[s])
      BY <2>1, <2>2 DEF Continues, CopyOf, FromOf, ToOf
    <3>2. QED
      BY <3>1, CopiesMeaning
  <2>3. QED
    BY <2>2
<1>2. \A s \in Sessions :
         CopyOf(tr'[s]) = [from |-> From(s)', to |-> To(s)', since |-> tr'[s].since]
  BY DEF CopyOf, FromOf, ToOf, From, To
<1>3. \A i \in DOMAIN wire' : wire'[i].method = "file_write_commit" =>
         [from |-> wire'[i].from, to |-> wire'[i].to, since |-> wire'[i].since] \in Copies
  BY DEF CommitsIn, CommitOf
<1> DEFINE C == Copies
           A == {[from |-> From(s), to |-> To(s), since |-> tr[s].since] :
                    s \in {t \in Sessions : tr[t].pc \notin {"idle", "list"}}}
           B == {[from |-> wire[i].from, to |-> wire[i].to, since |-> wire[i].since] :
                    i \in {j \in DOMAIN wire : wire[j].method = "file_write_commit"}}
<1>4. Copies' = A' \cup B'
  BY DEF Copies
<1>5. A' \subseteq C \cup extra
  <2>1. \A s \in Sessions : tr'[s].pc \notin {"idle", "list"} =>
           [from |-> From(s)', to |-> To(s)', since |-> tr'[s].since] \in C \cup extra
    BY <1>1, <1>2
  <2> HIDE DEF C
  <2>2. QED
    BY <2>1
<1>6. B' \subseteq C
  <2> HIDE DEF C
  <2>1. QED
    BY <1>3 DEF C
<1>7. QED
  BY <1>4, <1>5, <1>6

\* Such a step that replaces no file is a Stop of AtomicCopy.
LEMMA StopStep ==
    ASSUME Inv, Inv', UNCHANGED <<source, dest>>, CommitsIn(wire', Copies),
           \A o \in Sessions : Continues(tr[o], tr'[o])
    PROVE  Copying!Next
<1>1. Copies' \subseteq Copies \cup {}
  BY CopiesAfter
<1>2. Copying!Stop
  BY <1>1 DEF Copying!Stop
<1>3. QED
  BY <1>2 DEF Copying!Next

\* A step of one transfer that continues, or ends.
LEMMA ContinuesOne ==
    ASSUME Inv, NEW s \in Sessions, NEW t, tr' = [tr EXCEPT ![s] = t], Continues(tr[s], t)
    PROVE  \A o \in Sessions : Continues(tr[o], tr'[o])
<1>1. tr \in [Sessions -> Transfer]
  BY Given
<1>2. QED
  BY <1>1 DEF Continues

\* The end of a transfer is no new copy.
LEMMA ContinuesEnd ==
    ASSUME NEW t
    PROVE  Continues(t, NoTransfer)
  BY NoTransferOK DEF Continues, Working

\* A step of one transfer that sends nothing.
LEMMA QuietStep ==
    ASSUME Inv, Inv', NEW s \in Sessions, NEW t, tr' = [tr EXCEPT ![s] = t], Continues(tr[s], t),
           UNCHANGED <<source, dest, wire>>
    PROVE  Copying!Next
  BY ContinuesOne, CopiesMeaning, StopStep

\* A request that is sent commits a copy that is under way, or nothing.
LEMMA SentCommits ==
    ASSUME Inv, NEW q, q \in Request, q.method = "file_write_commit" => CommitOf(q) \in Copies
    PROVE  CommitsIn(Append(wire, q), Copies)
<1> DEFINE v == Append(wire, q)
           n == Len(wire)
<1>1. /\ n \in Nat /\ DOMAIN wire = 1 .. n /\ DOMAIN v = 1 .. (n + 1)
      /\ v[n + 1] = q /\ \A i \in 1 .. n : v[i] = wire[i]
  BY Given, AppendProperties, LenProperties
<1>2. \A i \in DOMAIN v : (i \in DOMAIN wire /\ v[i] = wire[i]) \/ v[i] = q
  BY <1>1
<1> HIDE DEF v
<1>3. CommitsIn(v, Copies)
  BY <1>2, CopiesMeaning DEF CommitsIn
<1>4. QED
  BY <1>3 DEF v

\* The commits that nobody waits for stand for the same copies.
LEMMA OrphanedCommits ==
    ASSUME Inv, NEW v, DOMAIN v = DOMAIN wire,
           \A i \in DOMAIN wire : v[i] = wire[i] \/ v[i] = Orphan(wire[i])
    PROVE  CommitsIn(v, Copies)
<1>1. ASSUME NEW i \in DOMAIN v
      PROVE  v[i].method = wire[i].method /\ CommitOf(v[i]) = CommitOf(wire[i]) /\ i \in DOMAIN wire
  BY Given, OrphanFields DEF CommitOf
<1>2. QED
  BY <1>1, CopiesMeaning DEF CommitsIn

\* So do the requests that are left when the oldest one is executed.
LEMMA RestCommits ==
    ASSUME Inv, wire # <<>>
    PROVE  CommitsIn(Tail(wire), Copies)
<1> DEFINE v == Tail(wire)
           f == [i \in DOMAIN v |-> i + 1]
<1>1. \A i \in DOMAIN v : v[i] = wire[f[i]] /\ f[i] \in DOMAIN wire
  BY RestOfWire
<1> HIDE DEF v, f
<1>2. CommitsIn(v, Copies)
  BY <1>1, CopiesMeaning DEF CommitsIn
<1>3. QED
  BY <1>2 DEF v

\* A file is begun: a Start of AtomicCopy.
LEMMA StartStep ==
    ASSUME Inv, Inv', NEW s \in Sessions, NEW t, NEW entries \in Seq(Entry), entries # <<>>,
           tr' = [tr EXCEPT ![s] = BeginFile(t, entries)],
           t.overwrite \in BOOLEAN, t.cancelled \in BOOLEAN,
           UNCHANGED <<source, dest, wire>>
    PROVE  Copying!Next
<1> DEFINE g == Head(entries).from
           d == Head(entries).to
           b == BeginFile(t, entries)
           c == [from |-> g, to |-> d, since |-> source[g]]
<1>1. g \in Sources /\ d \in Dests
  BY HeadEntry
<1>2. b.entries = entries /\ b.since = source[g]
  BY BeginFileOK DEF Inv
<1>3. CopyOf(b) = c
  BY <1>2 DEF CopyOf, FromOf, ToOf
<1>4. tr \in [Sessions -> Transfer] /\ tr' = [tr EXCEPT ![s] = b] /\ CommitsIn(wire', Copies)
  BY Given, CopiesMeaning
<1> HIDE DEF b, c
<1>5. \A o \in Sessions : Continues(tr[o], tr'[o]) \/ CopyOf(tr'[o]) \in {c}
  BY <1>3, <1>4 DEF Continues
<1>6. Copies' \subseteq Copies \cup {c}
  BY <1>4, <1>5, CopiesAfter
<1>7. Copying!Start(g, d)
  BY <1>6 DEF Copying!Start, c
<1>8. QED
  BY <1>1, <1>7 DEF Copying!Next

\* The next file of a directory, or the end.
LEMMA NextFileStep ==
    ASSUME Inv, Inv', NEW s \in Sessions, NEW entries \in Seq(Entry),
           tr' = [tr EXCEPT ![s] = NextFile(tr[s], entries)],
           UNCHANGED <<source, dest, wire>>
    PROVE  Copying!Next
<1>1. tr[s].overwrite \in BOOLEAN /\ tr[s].cancelled \in BOOLEAN
  BY Given DEF Transfer
<1>2. CASE entries = <<>> \/ tr[s].cancelled
  BY <1>2, ContinuesEnd, QuietStep DEF NextFile
<1>3. CASE ~(entries = <<>> \/ tr[s].cancelled)
  <2>1. tr' = [tr EXCEPT ![s] = BeginFile(tr[s], entries)] /\ entries # <<>>
    BY <1>3 DEF NextFile
  <2>2. QED
    BY <1>1, <2>1, StartStep
<1>4. QED
  BY <1>2, <1>3

\* A transfer sends a request.
LEMMA SendStep ==
    ASSUME Inv, Inv', NEW s \in Sessions, NEW pc \in Working, tr[s].pc \in Working, Goto(s, pc),
           NEW n, n \in Request, n.method = "file_write_commit" => CommitOf(n) = CopyOf(tr[s]),
           Send(s, n), UNCHANGED <<source, dest>>
    PROVE  Copying!Next
<1> DEFINE q == [n EXCEPT !.by = s, !.live = TRUE]
           t == [tr[s] EXCEPT !.pc = pc]
<1>1. q \in Request /\ q.method = n.method /\ q.from = n.from /\ q.to = n.to /\ q.since = n.since
  BY DEF Request
<1>2. tr \in [Sessions -> Transfer]
  BY Given
<1>3. t.pc = pc /\ t.entries = tr[s].entries /\ t.since = tr[s].since /\ tr' = [tr EXCEPT ![s] = t]
  BY <1>2 DEF Goto, Transfer
<1>4. wire' = Append(wire, q)
  BY DEF Send
<1> HIDE DEF q, t
<1>5. q.method = "file_write_commit" => CommitOf(q) \in Copies
  BY <1>1, CopiesMeaning DEF CommitOf
<1>6. CommitsIn(wire', Copies)
  BY <1>1, <1>4, <1>5, SentCommits
<1>7. Continues(tr[s], t)
  BY <1>3 DEF Continues
<1>8. QED
  BY <1>3, <1>6, <1>7, ContinuesOne, StopStep

\* The steps of the call.
LEMMA CallRefines ==
    ASSUME Inv, Inv', NEW s \in Sessions,
           CollectHostTree(s) \/ HashFile(s) \/ ReadSource(s) \/ StatSource(s)
    PROVE  Copying!Next
<1>1. UNCHANGED <<source, dest>>
  BY DEF CollectHostTree, HashFile, ReadSource, StatSource, disk
<1>2. /\ tr \in [Sessions -> Transfer] /\ tr[s] \in Transfer /\ tr[s].entries \in Seq(Entry)
      /\ <<>> \in Seq(Chunks)
  BY Given DEF Transfer
<1>3. ASSUME Unregister(s), UNCHANGED wire PROVE Copying!Next
  BY <1>1, <1>3, ContinuesEnd, QuietStep DEF Unregister
<1>4. CASE CollectHostTree(s)
  <2>1. tr' = [tr EXCEPT ![s] = NextFile(tr[s], tr[s].entries)] /\ UNCHANGED wire
    BY <1>2, <1>4 DEF CollectHostTree
  <2>2. QED
    BY <1>1, <1>2, <2>1, NextFileStep
<1>5. CASE HashFile(s)
  <2> DEFINE n == [NoRequest EXCEPT !.method = "file_write_begin", !.from = From(s), !.to = To(s),
                                    !.since = tr[s].since, !.overwrite = tr[s].overwrite]
  <2>1. tr[s].pc = "hash" /\ ((Unregister(s) /\ UNCHANGED wire) \/ (Goto(s, "begin") /\ Send(s, n)))
    BY <1>5 DEF HashFile
  <2>2. tr[s].pc \in Working /\ "begin" \in Working
    BY <2>1 DEF Working, Steps
  <2>3. n \in Request /\ n.method # "file_write_commit"
    <3>1. /\ From(s) \in Sources /\ To(s) \in Dests /\ tr[s].since \in Nat /\ tr[s].overwrite \in BOOLEAN
      BY <2>2, WorkingFacts
    <3>2. QED
      BY <1>2, <3>1 DEF NoRequest, Request, Methods
  <2> HIDE DEF n
  <2>4. QED
    BY <1>1, <1>3, <2>1, <2>2, <2>3, SendStep
<1>6. CASE ReadSource(s)
  <2>1. tr[s].pc = "read" /\ tr[s].pc \in Working /\ "commit" \in Working /\ "chunk" \in Working
    BY <1>6 DEF ReadSource, Working, Steps
  <2>2. /\ From(s) = FromOf(tr[s]) /\ To(s) = ToOf(tr[s]) /\ From(s) \in Sources /\ To(s) \in Dests
        /\ tr[s].since \in Nat /\ tr[s].offset \in Nat
        /\ tr[s].since \in 1 .. Len(Sizes[From(s)]) /\ source[From(s)] \in 1 .. Len(Sizes[From(s)])
    BY <2>1, WorkingFacts
  <2>3. tr[s].guestTransferId \in Nat
    BY <2>1, Given DEF TransferOK, Transfer, Writing
  <2> DEFINE size == Len(Expected(s))
             file == Content(From(s), source[From(s)])
             got == SubSeq(file, tr[s].offset + 1, Min({tr[s].offset + 1, size, Len(file)}))
             m == [NoRequest EXCEPT !.method = "file_write_commit", !.id = tr[s].guestTransferId,
                                    !.from = From(s), !.to = To(s), !.since = tr[s].since]
             n == [NoRequest EXCEPT !.method = "file_write_chunk", !.offset = tr[s].offset,
                                    !.id = tr[s].guestTransferId, !.data = got]
  <2>4. got \in Seq(Chunks)
    <3>1. file \in Seq(Chunks) /\ Expected(s) \in Seq(Chunks)
      BY <2>2, ContentType DEF Expected
    <3> HIDE DEF file
    <3>2. size \in Nat
      BY <3>1, LenProperties
    <3> HIDE DEF size
    <3>3. QED
      BY <2>2, <3>1, <3>2, PieceType
  <2>5. \/ Unregister(s) /\ UNCHANGED wire
        \/ Goto(s, "commit") /\ Send(s, m)
        \/ Goto(s, "chunk") /\ Send(s, n)
    BY <1>6 DEF ReadSource
  <2> HIDE DEF got
  <2>6. n \in Request /\ n.method # "file_write_commit"
    BY <1>2, <2>2, <2>3, <2>4 DEF NoRequest, Request, Methods
  <2>7. m \in Request /\ CommitOf(m) = CopyOf(tr[s])
    BY <1>2, <2>2, <2>3 DEF NoRequest, Request, Methods, CommitOf, CopyOf
  <2> HIDE DEF m, n
  <2>8. QED
    BY <1>1, <1>3, <2>1, <2>5, <2>6, <2>7, SendStep
<1>7. CASE StatSource(s)
  <2>1. /\ tr[s].pc = "stat" /\ UNCHANGED wire
        /\ Unregister(s) \/ tr' = [tr EXCEPT ![s] = NextFile(tr[s], Tail(tr[s].entries))]
    BY <1>2, <1>7 DEF StatSource
  <2>2. Tail(tr[s].entries) \in Seq(Entry)
    BY <1>2, <2>1, Given, HeadEntry DEF TransferOK
  <2>3. QED
    BY <1>1, <1>3, <2>1, <2>2, NextFileStep
<1>8. QED
  BY <1>4, <1>5, <1>6, <1>7

\* A failed request, and the steps of a cleanup.
LEMMA CleanupRefines ==
    ASSUME Inv, Inv', NEW s \in Sessions,
           \/ RequestFails(s) \/ AbortSession(s) \/ AbortTimesOut(s)
           \/ \E locking \in Modes : EndAbort(s, locking)
    PROVE  Copying!Next
<1>1. UNCHANGED <<source, dest>>
  BY DEF RequestFails, AbortSession, AbortTimesOut, EndAbort, disk
<1>2. tr \in [Sessions -> Transfer] /\ tr[s] \in Transfer /\ <<>> \in Seq(Chunks)
  BY Given
<1>3. CASE RequestFails(s)
  <2>1. DOMAIN wire' = DOMAIN wire /\ \A i \in DOMAIN wire : wire'[i] = wire[i] \/ wire'[i] = Orphan(wire[i])
    BY <1>3 DEF RequestFails
  <2>2. CommitsIn(wire', Copies)
    BY <2>1, OrphanedCommits
  <2>3. \A o \in Sessions : Continues(tr[o], tr'[o])
    BY <1>3, ContinuesEnd, ContinuesOne DEF RequestFails, Unregister
  <2>4. QED
    BY <1>1, <2>2, <2>3, StopStep
<1>4. CASE AbortTimesOut(s)
  <2>1. DOMAIN wire' = DOMAIN wire /\ \A i \in DOMAIN wire : wire'[i] = wire[i] \/ wire'[i] = Orphan(wire[i])
    BY <1>4 DEF AbortTimesOut
  <2>2. CommitsIn(wire', Copies)
    BY <2>1, OrphanedCommits
  <2>3. \A o \in Sessions : Continues(tr[o], tr'[o])
    BY <1>4 DEF AbortTimesOut, Continues
  <2>4. QED
    BY <1>1, <2>2, <2>3, StopStep
<1>5. CASE AbortSession(s)
  <2> DEFINE c == (tr[s].pc # "idle")
             t == [tr[s] EXCEPT !.cancelled = c]
             k == tr[s].guestTransferId
             n == [NoRequest EXCEPT !.method = "file_write_abort", !.id = k]
             q == [n EXCEPT !.by = s, !.live = TRUE]
  <2>1. /\ tr' = [tr EXCEPT ![s] = t]
        /\ UNCHANGED wire \/ (k # None /\ wire' = Append(wire, q))
    BY <1>2, <1>5 DEF AbortSession, Send
  <2>2. Continues(tr[s], t)
    <3>1. t.pc = tr[s].pc /\ t.entries = tr[s].entries /\ t.since = tr[s].since
      BY <1>2 DEF Transfer
    <3> HIDE DEF t
    <3>2. QED
      BY <3>1 DEF Continues
  <2>3. CASE UNCHANGED wire
    <3> HIDE DEF t
    <3>1. QED
      BY <1>1, <2>1, <2>2, <2>3, QuietStep
  <2>4. CASE k # None /\ wire' = Append(wire, q)
    <3>1. k \in Nat
      BY <1>2, <2>4 DEF Transfer
    <3> HIDE DEF k, t
    <3>2. q \in Request /\ q.method # "file_write_commit"
      BY <1>2, <3>1 DEF NoRequest, Request, Methods
    <3> HIDE DEF q
    <3>3. CommitsIn(wire', Copies)
      BY <2>4, <3>2, SentCommits
    <3>4. QED
      BY <1>1, <2>1, <2>2, <3>3, ContinuesOne, StopStep
  <2>5. QED
    BY <2>1, <2>3, <2>4
<1>6. CASE \E locking \in Modes : EndAbort(s, locking)
  <2>1. UNCHANGED tr /\ (UNCHANGED wire \/ wire' = Append(wire, NoRequest))
    BY <1>6 DEF EndAbort
  <2>2. NoRequest \in Request /\ NoRequest.method # "file_write_commit"
    BY <1>2 DEF NoRequest, Request, Methods
  <2>3. CommitsIn(wire', Copies)
    BY <2>1, <2>2, SentCommits, CopiesMeaning
  <2>4. QED
    BY <1>1, <2>1, <2>3, StopStep DEF Continues
<1>7. QED
  BY <1>3, <1>4, <1>5, <1>6

\* The sender of an answered request is at the same copy, or at none.
LEMMA AnsweredContinues ==
    ASSUME Inv, wire # <<>>, Head(wire).method # "file_write_abort", NEW t, Answered(Head(wire), t),
           Head(wire).live => \/ t = NoTransfer
                              \/ Continues(tr[Head(wire).by], t)
    PROVE  \A o \in Sessions : Continues(tr[o], tr'[o])
<1> DEFINE q == Head(wire)
<1>1. Pending(q) => q.by \in Sessions
  BY ExecutedFacts
<1>2. CASE q.live
  <2>1. q.by \in Sessions /\ tr' = [tr EXCEPT ![q.by] = t]
    BY <1>1, <1>2 DEF Pending, Answered
  <2>2. Continues(tr[q.by], t)
    BY <1>2, ContinuesEnd
  <2>3. QED
    BY <2>1, <2>2, ContinuesOne
<1>3. CASE ~q.live
  BY <1>3 DEF Answered, Continues
<1>4. QED
  BY <1>2, <1>3

\* A commit that is executed: the transfer it names is at the destination it
\* names, and the partial file holds what was hashed.
LEMMA CommitFacts ==
    ASSUME Inv, wire # <<>>, Head(wire).method = "file_write_commit", NEW d \in Named(Head(wire))
    PROVE  /\ CommitOf(Head(wire)) \in Copies /\ Head(wire).to = d
           /\ Sha256Matches(Head(wire), d) => temp[d] = Content(Head(wire).from, Head(wire).since)
           /\ Head(wire).since \in Head(wire).since .. source[Head(wire).from]
<1> DEFINE q == Head(wire)
<1>1. 1 \in DOMAIN wire /\ q = wire[1] /\ RequestOK(q, source)
  BY RestOfWire
<1>2. d \in Dests /\ slots[d] # None /\ slots[d].id = q.id /\ temp[d] = slots[d].sha
  BY NamedFacts DEF Posts
<1>3. q.to = d
  BY <1>1, <1>2 DEF Inv, Places
<1>4. CommitOf(q) \in Copies
  BY <1>1, CopiesMeaning DEF CommitsIn
<1>5. q.from \in Sources /\ q.since \in 1 .. source[q.from]
  BY <1>1 DEF RequestOK, Naming
<1>6. source[q.from] \in Nat
  BY <1>5 DEF Inv, FilesOK
<1>7. QED
  BY <1>2, <1>3, <1>4, <1>5, <1>6 DEF Sha256Matches

\* What a commit does to its destination is a Replace or a Vanish of AtomicCopy.
LEMMA CommitStep ==
    ASSUME Inv, Inv', wire # <<>>, Head(wire).method = "file_write_commit",
           NEW d \in Named(Head(wire)), UNCHANGED source, CommitsIn(wire', Copies),
           \A o \in Sessions : Continues(tr[o], tr'[o]),
           \/ dest' = [dest EXCEPT ![d] = temp[d]] /\ Sha256Matches(Head(wire), d)
           \/ dest' = [dest EXCEPT ![d] = None]
           \/ dest' = dest
    PROVE  Copying!Next
<1> DEFINE q == Head(wire)
           c == CommitOf(q)
<1>1. c.from = q.from /\ c.to = q.to /\ c.since = q.since
  BY DEF CommitOf
<1>2. /\ c \in Copies /\ q.to = d /\ q.since \in q.since .. source[q.from]
      /\ Sha256Matches(q, d) => temp[d] = Content(q.from, q.since)
  BY CommitFacts
<1>3. Copies' \subseteq Copies \cup {}
  BY CopiesAfter
<1> HIDE DEF c
<1>4. CASE dest' = [dest EXCEPT ![d] = temp[d]] /\ Sha256Matches(q, d)
  <2>1. dest' = [dest EXCEPT ![c.to] = Content(c.from, c.since)] /\ c.since \in c.since .. source[c.from]
    BY <1>1, <1>2, <1>4
  <2>2. Copying!Replace(c)
    BY <1>3, <2>1 DEF Copying!Replace
  <2>3. QED
    BY <1>2, <2>2 DEF Copying!Next
<1>5. CASE dest' = [dest EXCEPT ![d] = None]
  <2>1. Copying!Vanish(c)
    BY <1>1, <1>2, <1>3, <1>5 DEF Copying!Vanish
  <2>2. QED
    BY <1>2, <2>1 DEF Copying!Next
<1>6. CASE dest' = dest
  BY <1>6, StopStep
<1>7. QED
  BY <1>4, <1>5, <1>6

\* file_write_commit.
LEMMA FileWriteCommitRefines ==
    ASSUME Inv, Inv', FileWriteCommit
    PROVE  Copying!Next
<1> DEFINE q == Head(wire)
           u == [tr[q.by] EXCEPT !.pc = "stat", !.guestTransferId = None]
<1>1. /\ wire # <<>> /\ wire' = Tail(wire) /\ q.method = "file_write_commit"
      /\ q.method # "file_write_abort" /\ UNCHANGED source
  BY DEF FileWriteCommit, Executes
<1>2. PICK d \in Named(q) :
         /\ Answered(q, u) \/ Answered(q, NoTransfer)
         /\ \/ dest' = [dest EXCEPT ![d] = temp[d]] /\ Sha256Matches(q, d)
            \/ dest' = [dest EXCEPT ![d] = None]
            \/ dest' = [dest EXCEPT ![d] = dest[d]]
            \/ dest' = dest
  <2>1. PICK d \in Named(q) :
          LET full == Len(slots[d].sha) = Len(slots[d].expected)
              free == slots[d].overwrite \/ dest[d] = None
          IN /\ slots' = [slots EXCEPT ![d] = None]
             /\ IF full /\ Sha256Matches(q, d) /\ free
                THEN \/ /\ dest' = [dest EXCEPT ![d] = temp[d]]
                        /\ temp' = [temp EXCEPT ![d] = None]
                        /\ meta' = [meta EXCEPT ![d] = None]
                        /\ Answered(q, u)
                     \/ /\ \E old \in {None, dest[d]} : dest' = [dest EXCEPT ![d] = old]
                        /\ Answered(q, NoTransfer) /\ UNCHANGED <<temp, meta>>
                ELSE /\ Answered(q, NoTransfer) /\ UNCHANGED dest
                     /\ LET keep == ~full \/ Sha256Matches(q, d)
                        IN /\ temp' = IF keep THEN temp ELSE [temp EXCEPT ![d] = None]
                           /\ meta' = IF keep THEN meta ELSE [meta EXCEPT ![d] = None]
    BY DEF FileWriteCommit
  <2> HIDE DEF q, u
  <2>2. QED
    BY <2>1
<1>3. [dest EXCEPT ![d] = dest[d]] = dest
  BY DEF Inv, FilesOK
<1>4. CommitsIn(wire', Copies)
  BY <1>1, RestCommits
<1>5. q.live => Continues(tr[q.by], u)
  <2>1. SUFFICES ASSUME q.live PROVE Continues(tr[q.by], u)
    OBVIOUS
  <2>2. q.by \in Sessions /\ tr[q.by].pc = "commit"
    BY <1>1, <2>1, ExecutedFacts DEF Pending, Awaited
  <2>3. tr[q.by] \in Transfer /\ tr[q.by].pc \in Working
    BY <2>2, Given DEF Working, Steps
  <2>4. u.entries = tr[q.by].entries /\ u.since = tr[q.by].since
    BY <2>3 DEF Transfer
  <2> HIDE DEF u
  <2>5. QED
    BY <2>3, <2>4 DEF Continues
<1>6. \A o \in Sessions : Continues(tr[o], tr'[o])
  <2> HIDE DEF u
  <2>1. QED
    BY <1>1, <1>2, <1>5, AnsweredContinues
<1>7. QED
  BY <1>1, <1>2, <1>3, <1>4, <1>6, CommitStep

\* The other requests replace no file.
LEMMA GuestRefines ==
    ASSUME Inv, Inv', GuestExecutes
    PROVE  Copying!Next
<1> DEFINE q == Head(wire)
           resume == TransferMetaState(q) = "same" /\ Len(temp[q.to]) <= Len(meta[q.to])
           prefix == IF resume THEN temp[q.to] ELSE <<>>
           b == [tr[q.by] EXCEPT !.pc = "read", !.guestTransferId = FreshId, !.offset = Len(prefix)]
           w == [tr[q.by] EXCEPT !.pc = "read", !.offset = @ + Len(q.data)]
<1>1. wire # <<>> /\ wire' = Tail(wire)
  BY DEF GuestExecutes, FileWriteBegin, NotFound, FileWriteChunk, WriteFails, FileWriteCommit,
         FileWriteAbort, CleanupTransfers, Executes
<1>2. CommitsIn(wire', Copies)
  BY <1>1, RestCommits
<1>3. CASE FileWriteCommit
  BY <1>3, FileWriteCommitRefines
<1>4. CASE FileWriteAbort \/ CleanupTransfers
  <2>1. UNCHANGED <<source, dest, tr>>
    BY <1>4 DEF FileWriteAbort, CleanupTransfers, disk
  <2>2. QED
    BY <1>2, <2>1, StopStep DEF Continues
<1>5. ASSUME q.method \in {"file_write_begin", "file_write_chunk", "file_write_commit"},
             Answered(q, NoTransfer) \/ Answered(q, b) \/ Answered(q, w),
             q.method = "file_write_commit" => Answered(q, NoTransfer), UNCHANGED <<source, dest>>
      PROVE  Copying!Next
  <2>1. q.method # "file_write_abort"
    BY <1>5
  <2>2. ASSUME q.live, q.method # "file_write_commit" PROVE Continues(tr[q.by], b) /\ Continues(tr[q.by], w)
    <3>1. q.by \in Sessions /\ tr[q.by].pc \in {"begin", "chunk"}
      BY <1>1, <1>5, <2>2, ExecutedFacts DEF Pending, Awaited
    <3>2. tr[q.by] \in Transfer /\ tr[q.by].pc \in Working
      BY <3>1, Given DEF Working, Steps
    <3>3. /\ b.entries = tr[q.by].entries /\ b.since = tr[q.by].since
          /\ w.entries = tr[q.by].entries /\ w.since = tr[q.by].since
      BY <3>2 DEF Transfer
    <3> HIDE DEF b, w
    <3>4. QED
      BY <3>2, <3>3 DEF Continues
  <2>3. \A o \in Sessions : Continues(tr[o], tr'[o])
    <3> HIDE DEF b, w
    <3>1. QED
      BY <1>1, <1>5, <2>1, <2>2, AnsweredContinues
  <2>4. QED
    BY <1>2, <1>5, <2>3, StopStep
<1>6. CASE FileWriteBegin
  <2>1. q.method = "file_write_begin" /\ UNCHANGED <<source, dest>>
    BY <1>6 DEF FileWriteBegin, Executes
  <2>2. Answered(q, NoTransfer) \/ Answered(q, b)
    BY <1>6 DEF FileWriteBegin
  <2> HIDE DEF b, w, q
  <2>3. QED
    BY <1>5, <2>1, <2>2
<1>7. CASE NotFound \/ WriteFails
  <2>1. /\ q.method \in {"file_write_chunk", "file_write_commit"} /\ UNCHANGED <<source, dest>>
        /\ Answered(q, NoTransfer)
    BY <1>7 DEF NotFound, WriteFails, Executes, disk
  <2> HIDE DEF b, w, q
  <2>2. QED
    BY <1>5, <2>1
<1>8. CASE FileWriteChunk
  <2>1. q.method = "file_write_chunk" /\ UNCHANGED <<source, dest>>
    BY <1>8 DEF FileWriteChunk, Executes
  <2>2. Answered(q, NoTransfer) \/ Answered(q, w)
    BY <1>8 DEF FileWriteChunk
  <2> HIDE DEF b, w, q
  <2>3. QED
    BY <1>5, <2>1, <2>2
<1>9. QED
  BY <1>3, <1>4, <1>6, <1>7, <1>8 DEF GuestExecutes

\* The connection is lost, or the guest dies, in a commit perhaps.
LEMMA LossRefines ==
    ASSUME Inv, Inv', ConnectionLost \/ GuestCrash
    PROVE  Copying!Next
<1> DEFINE q == Head(wire)
<1>1. Disconnected /\ UNCHANGED source
  BY DEF ConnectionLost, GuestCrash
<1>2. \A o \in Sessions : Continues(tr[o], tr'[o])
  <2>1. \A o \in Sessions : tr'[o] \in {tr[o], NoTransfer}
    BY <1>1 DEF Disconnected
  <2>2. QED
    BY <2>1, ContinuesEnd DEF Continues
<1>3. CommitsIn(wire', Copies)
  <2>1. DOMAIN wire' = {}
    BY <1>1 DEF Disconnected
  <2>2. QED
    BY <2>1 DEF CommitsIn
<1>4. CASE UNCHANGED dest
  BY <1>1, <1>2, <1>3, <1>4, StopStep
<1>5. CASE /\ wire # <<>> /\ q.method = "file_write_commit"
           /\ \E d \in Named(q) :
                 \/ dest' = [dest EXCEPT ![d] = temp[d]] /\ Sha256Matches(q, d)
                 \/ dest' = [dest EXCEPT ![d] = None]
  BY <1>1, <1>2, <1>3, <1>5, CommitStep
<1>6. CASE ConnectionLost
  BY <1>4, <1>6 DEF ConnectionLost, disk
<1>7. CASE GuestCrash
  BY <1>4, <1>5, <1>7 DEF GuestCrash
<1>8. QED
  BY <1>6, <1>7

\* Every step of Push is a step of AtomicCopy or changes nothing it sees.
LEMMA NextRefines == Inv /\ Inv' /\ [Next]_vars => [Copying!Next]_(Copying!vars)
<1> SUFFICES ASSUME Inv, Inv', [Next]_vars PROVE [Copying!Next]_(Copying!vars)
  OBVIOUS
<1>1. ASSUME NEW s \in Sessions, NEW r \in Requests, NEW o \in Overwrites, Begin(s, r, o)
      PROVE  Copying!Next
  <2>1. UNCHANGED <<source, dest, wire>>
    BY <1>1 DEF Begin, disk
  <2>2. r.entries \in Seq(Entry) /\ o \in BOOLEAN /\ r.entries # <<>>
    <3>1. r \in [dir : BOOLEAN, entries : Seq(Entry)] /\ o \in BOOLEAN /\ Len(r.entries) > 0
      BY PushAssumption DEF Entry
    <3>2. Len(<<>>) = 0
      OBVIOUS
    <3>3. QED
      BY <3>1, <3>2
  <2>3. CASE r.dir
    <3> DEFINE k == [NoTransfer EXCEPT !.pc = "list", !.entries = r.entries, !.overwrite = o]
    <3>1. tr' = [tr EXCEPT ![s] = k]
      BY <1>1, <2>3 DEF Begin
    <3>2. k.pc = "list"
      BY DEF NoTransfer
    <3> HIDE DEF k
    <3>3. Continues(tr[s], k)
      BY <3>2 DEF Continues, Working
    <3>4. QED
      BY <2>1, <3>1, <3>3, QuietStep
  <2>4. CASE ~r.dir
    <3> DEFINE n == [NoTransfer EXCEPT !.overwrite = o]
    <3>1. tr' = [tr EXCEPT ![s] = BeginFile(n, r.entries)]
      BY <1>1, <2>4 DEF Begin
    <3>2. n.overwrite \in BOOLEAN /\ n.cancelled \in BOOLEAN
      BY <2>2 DEF NoTransfer
    <3> HIDE DEF n
    <3>3. QED
      BY <2>1, <2>2, <3>1, <3>2, StartStep
  <2>5. QED
    BY <2>3, <2>4
<1>2. CASE \E s \in Sessions :
              \/ CollectHostTree(s) \/ HashFile(s) \/ ReadSource(s) \/ StatSource(s)
              \/ RequestFails(s) \/ AbortSession(s) \/ AbortTimesOut(s)
              \/ \E locking \in Modes : EndAbort(s, locking)
  BY <1>2, CallRefines, CleanupRefines
<1>3. CASE GuestExecutes
  BY <1>3, GuestRefines
<1>4. ASSUME NEW g \in Sources, HostFileChanges(g) PROVE Copying!Next
  <2>1. source' = [source EXCEPT ![g] = @ + 1] /\ UNCHANGED <<dest, tr, wire>>
    BY <1>4 DEF HostFileChanges, disk
  <2>2. Copies' = Copies
    BY <2>1 DEF Copies, From, To
  <2>3. Copying!Change(g)
    BY <2>1, <2>2 DEF Copying!Change
  <2>4. QED
    BY <2>3 DEF Copying!Next
<1>5. CASE ConnectionLost \/ GuestCrash
  BY <1>5, LossRefines
<1>6. CASE UNCHANGED vars
  <2>1. UNCHANGED <<source, dest, tr, wire>>
    BY <1>6 DEF vars, disk
  <2>2. Copies' = Copies
    BY <2>1 DEF Copies, From, To
  <2>3. QED
    BY <2>1, <2>2 DEF Copying!vars
<1>7. QED
  BY <1>1, <1>2, <1>3, <1>4, <1>5, <1>6 DEF Next

\* A push implements AtomicCopy: a guest file only ever becomes a complete version
\* of the host file, the one its call has seen, or is gone, deleted for a move
\* that did not happen, wherever the connection is lost or the guest dies.
THEOREM PushImplementsAtomicCopy == Spec => PushIsAtomic
<1>1. Init => Copying!Init
  <2> SUFFICES ASSUME Init PROVE Copying!Init
    OBVIOUS
  <2>1. (\A s \in Sessions : tr[s].pc = "idle") /\ DOMAIN wire = {}
    BY DEF Init, NoTransfer
  <2>2. Copies = {}
    BY <2>1 DEF Copies
  <2>3. QED
    BY <2>2 DEF Init, Copying!Init
<1>2. Spec => Copying!Init /\ [][Copying!Next]_(Copying!vars)
  BY <1>1, NextRefines, PushSound, PTL DEF Spec
<1>3. QED
  BY <1>2 DEF PushIsAtomic, Copying!Spec

=============================================================================
