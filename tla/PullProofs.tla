----------------------------- MODULE PullProofs -----------------------------
(***************************************************************************)
(* Proofs about Pull for any set of sessions, files, requests and versions *)
(* of any size: the file a transfer renames is the one it hashed, and a    *)
(* pull implements AtomicCopy.                                             *)
(*                                                                         *)
(* The inductive invariant has two parts.  TransferOK says of one transfer *)
(* how its offset, its hash, its reply and its open file belong together   *)
(* at each step; Claims says that transfers with a claimed destination     *)
(* have different ones.  Neither part is inductive alone: another          *)
(* transfer at the same destination would write the file, and a transfer   *)
(* whose file is not the one at the path could rename somebody else's.     *)
(***************************************************************************)
EXTENDS Pull, SequenceTheorems, TLAPS

Entry == [from : Sources, to : Dests]

Transfer ==
    [pc : Steps, entries : Seq(Entry), overwrite : BOOLEAN,
     cancelled : BOOLEAN, linked : BOOLEAN, data : Seq(Chunks),
     offset : Nat, expectedSize : Nat \cup {None}, noted : BOOLEAN, hash : Seq(Chunks),
     reply : Reply \cup {None}, since : Nat \cup {None}]

\* The transfer is at work on a file, has claimed its destination, has its
\* partial file open, and has a reply of the guest.
Working == Steps \ {"idle", "list"}
Claimed == UsesPartial \cup {"open"}
HoldsFile == UsesPartial \ {"unmeta"}
HasReply == {"meta", "write", "close"}

\* Source, destination and partial file of a transfer t, tm being the partials.
FromOf(t) == Head(t.entries).from
ToOf(t) == Head(t.entries).to
OpenFile(t, tm) == IF t.linked THEN tm[ToOf(t)] ELSE t.data

\* Only a reply that ends the file leads to the commit, and its hash is that of
\* a version the source has had since the transfer began.
ReplyOK(t, src) ==
    /\ t.reply \in Reply
    /\ t.expectedSize \in Nat
    /\ t.reply.data = <<>> => t.reply.eof
    /\ t.pc = "close" => t.reply.eof
    /\ t.reply.eof => \E v \in t.since .. src[FromOf(t)] :
                          t.reply.sha256 = Content(FromOf(t), v)

TransferOK(t, src, tm) ==
    /\ t \in Transfer
    /\ t.pc # "idle" => t.entries # <<>>
    /\ t.pc \in Working => t.since \in Nat \ {0} /\ t.since <= src[FromOf(t)]
    /\ t.pc \in {"prepare", "claim", "open"} => t.offset = 0
    /\ t.linked => t.pc \in HoldsFile /\ tm[ToOf(t)] \in Seq(Chunks)
    /\ (t.pc \in HoldsFile /\ tm[ToOf(t)] # None) => t.linked
    /\ t.pc = "hash" => t.offset = Len(OpenFile(t, tm))
    /\ t.pc \in HoldsFile \ {"hash"} => OpenFile(t, tm) = t.hash /\ t.offset = Len(t.hash)
    /\ t.pc \in HasReply => ReplyOK(t, src)

\* Transfers at work on a partial file have claimed different destinations.
Claims(f, A) ==
    /\ \A s \in Sessions : f[s].pc \in Claimed => ToOf(f[s]) \in A
    /\ \A s, o \in Sessions :
          (s # o /\ f[s].pc \in Claimed /\ f[o].pc \in Claimed) => ToOf(f[s]) # ToOf(f[o])

\* The types of everything but the transfers.
FilesOK ==
    /\ source \in [Sources -> Nat \ {0}] /\ \A g \in Sources : source[g] <= Len(Sizes[g])
    /\ dest \in [Dests -> Seq(Chunks) \cup {None}]
    /\ temp \in [Dests -> Seq(Chunks) \cup {None}]
    /\ meta \in [Dests -> PullMetadata \cup {None}]
    /\ active \subseteq Dests
    /\ retained \in [Sessions -> SUBSET Dests]
    /\ abort \in [Sessions -> (SUBSET Dests) \cup {None}]

TransfersOK ==
    /\ tr \in [Sessions -> Transfer]
    /\ \A s \in Sessions : TransferOK(tr[s], source, temp)

Inv == FilesOK /\ TransfersOK /\ Claims(tr, active)

-----------------------------------------------------------------------------
(* Operators *)

\* The larger and the smaller of two numbers.
LEMMA MaxMin ==
    ASSUME NEW a \in Nat, NEW b \in Nat
    PROVE  /\ Max({a, b}) = IF a >= b THEN a ELSE b
           /\ Min({a, b}) = IF a <= b THEN a ELSE b
<1>1. \E x \in {a, b} : \A y \in {a, b} : x >= y
  OBVIOUS
<1>2. \E x \in {a, b} : \A y \in {a, b} : x <= y
  OBVIOUS
<1>3. Max({a, b}) \in {a, b} /\ \A y \in {a, b} : Max({a, b}) >= y
  BY <1>1 DEF Max
<1>4. Min({a, b}) \in {a, b} /\ \A y \in {a, b} : Min({a, b}) <= y
  BY <1>2 DEF Min
<1>5. QED
  BY <1>3, <1>4

\* A write where the file ends appends to it.
LEMMA WriteAtEnd ==
    ASSUME NEW S, NEW file \in Seq(S), NEW chunk \in Seq(S)
    PROVE  WriteAt(file, Len(file), chunk) = file \o chunk
<1> DEFINE n == Len(file)
           k == Len(chunk)
           w == [i \in 1 .. (n + k) |-> IF i \in n + 1 .. n + k THEN chunk[i - n] ELSE file[i]]
<1>1. n \in Nat /\ k \in Nat /\ DOMAIN file = 1..n /\ DOMAIN chunk = 1..k
  BY LenProperties
<1>2. Max({n, n + k}) = n + k
  BY <1>1, MaxMin
<1>3. WriteAt(file, n, chunk) = w
  BY <1>2 DEF WriteAt
<1>4. /\ file \o chunk \in Seq(S)
      /\ Len(file \o chunk) = n + k
      /\ \A i \in 1 .. n + k : (file \o chunk)[i] = IF i <= n THEN file[i] ELSE chunk[i - n]
  BY ConcatProperties
<1>5. \A i \in 1 .. n : file[i] \in S
  BY ElementOfSeq
<1>6. \A i \in 1 .. k : chunk[i] \in S
  BY ElementOfSeq
<1> HIDE DEF n, k
<1>7. \A i \in 1 .. (n + k) :
         /\ w[i] = IF i <= n THEN file[i] ELSE chunk[i - n]
         /\ w[i] \in S
  BY <1>1, <1>5, <1>6
<1>8. w \in [1 .. (n + k) -> S] /\ n + k \in Nat
  BY <1>1, <1>7
<1>9. w \in Seq(S)
  BY <1>8, SeqDef
<1>10. Len(w) = n + k
  BY <1>8, <1>9, LenProperties
<1> HIDE DEF w
<1>11. w = file \o chunk
  BY <1>4, <1>7, <1>9, <1>10, SeqEqual
<1>12. QED
  BY <1>3, <1>11 DEF n

\* The content of a version is a file of as many chunks as the version has.
LEMMA ContentType ==
    ASSUME NEW g \in Sources, NEW v \in 1 .. Len(Sizes[g])
    PROVE  /\ Sizes[g][v] \in Nat
           /\ Content(g, v) \in Seq(Chunks)
           /\ Len(Content(g, v)) = Sizes[g][v]
<1>1. Sizes[g] \in Seq(Nat)
  BY PullAssumption
<1>2. Sizes[g][v] \in Nat /\ v \in Nat \ {0}
  BY <1>1, ElementOfSeq, LenProperties
<1> DEFINE n == Sizes[g][v]
<1>3. <<g, v>> \in Chunks
  BY <1>2 DEF Chunks
<1> HIDE DEF n
<1>4. n \in Nat
  BY <1>2 DEF n
<1>5. Content(g, v) \in [1 .. n -> Chunks]
  BY <1>3 DEF Content, n
<1>6. Content(g, v) \in Seq(Chunks)
  BY <1>4, <1>5, SeqDef
<1>7. Len(Content(g, v)) = n
  BY <1>4, <1>5, <1>6, LenProperties
<1>8. QED
  BY <1>2, <1>6, <1>7 DEF n

\* What file_read_chunk answers: a piece of the current version, empty only at
\* the end, and with the last piece the whole version as the hash.
LEMMA FileReadChunkAnswer ==
    ASSUME FilesOK, NEW g \in Sources, NEW offset \in Nat
    PROVE  /\ FileReadChunk(g, offset) \in Reply
           /\ FileReadChunk(g, offset).data = <<>> => FileReadChunk(g, offset).eof
           /\ FileReadChunk(g, offset).eof =>
                 FileReadChunk(g, offset).sha256 = Content(g, source[g])
<1> DEFINE file == Content(g, source[g])
           n == Len(file)
           got == SubSeq(file, offset + 1, Min({offset + 1, n}))
           r == FileReadChunk(g, offset)
<1>1. source[g] \in 1 .. Len(Sizes[g])
  <2>1. Sizes[g] \in Seq(Nat)
    BY PullAssumption
  <2>2. QED
    BY <2>1, LenProperties DEF FilesOK
<1>2. file \in Seq(Chunks) /\ n \in Nat
  BY <1>1, ContentType
<1>3. r = [data |-> got, size |-> n, eof |-> offset + Len(got) >= n,
           sha256 |-> IF offset + Len(got) >= n THEN file ELSE <<>>]
  BY DEF FileReadChunk
<1> HIDE DEF file, n
<1>4. Min({offset + 1, n}) = IF offset + 1 <= n THEN offset + 1 ELSE n
  <2>1. offset + 1 \in Nat /\ n \in Nat
    BY <1>2
  <2>2. QED
    BY <2>1, MaxMin
<1> DEFINE k == IF offset + 1 <= n THEN offset + 1 ELSE n
<1>5. k \in Int /\ k <= n /\ offset + 1 \in Int /\ offset + 1 >= 1
  BY <1>2
<1>6. \A i \in offset + 1 .. k : file[i] \in Chunks
  <2>1. \A i \in 1 .. n : file[i] \in Chunks
    BY <1>2, ElementOfSeq DEF n
  <2>2. QED
    BY <1>2, <1>5, <2>1
<1> HIDE DEF k
<1>7. /\ SubSeq(file, offset + 1, k) \in Seq(Chunks)
      /\ Len(SubSeq(file, offset + 1, k)) = IF offset + 1 <= k THEN k - (offset + 1) + 1 ELSE 0
  BY <1>5, <1>6, SubSeqProperties
<1>8. got \in Seq(Chunks) /\ Len(got) = IF offset + 1 <= n THEN 1 ELSE 0
  <2>1. got = SubSeq(file, offset + 1, k)
    BY <1>4 DEF k
  <2>2. (IF offset + 1 <= k THEN k - (offset + 1) + 1 ELSE 0) = IF offset + 1 <= n THEN 1 ELSE 0
    BY <1>2 DEF k
  <2>3. QED
    BY <1>7, <2>1, <2>2
<1> HIDE DEF got
<1>9. <<>> \in Seq(Chunks)
  OBVIOUS
<1>10. r \in Reply
  BY <1>2, <1>3, <1>8, <1>9 DEF Reply
<1>11. got = <<>> => offset + Len(got) >= n
  BY <1>2, <1>8
<1>12. /\ r.data = got
       /\ r.eof = (offset + Len(got) >= n)
       /\ r.sha256 = IF offset + Len(got) >= n THEN file ELSE <<>>
  BY <1>3
<1> HIDE DEF r
<1>13. r.data = <<>> => r.eof
  BY <1>11, <1>12
<1>14. r.eof => r.sha256 = file
  BY <1>12
<1>15. QED
  BY <1>10, <1>13, <1>14 DEF file, r

-----------------------------------------------------------------------------
(* One transfer *)

\* No transfer is a transfer in order.
LEMMA NoTransferOK ==
    ASSUME NEW src, NEW tm
    PROVE  /\ TransferOK(NoTransfer, src, tm)
           /\ NoTransfer.pc = "idle"
           /\ ~NoTransfer.linked
<1>1. <<>> \in Seq(Entry) /\ <<>> \in Seq(Chunks) /\ 0 \in Nat
  OBVIOUS
<1>2. NoTransfer \in Transfer
  BY <1>1 DEF NoTransfer, Transfer, Steps
<1>3. NoTransfer.pc = "idle" /\ ~NoTransfer.linked
  BY DEF NoTransfer
<1>4. QED
  BY <1>2, <1>3 DEF TransferOK, Working, HoldsFile, HasReply, UsesPartial

\* The file a transfer works on.
LEMMA HeadEntry ==
    ASSUME NEW t \in Transfer, t.entries # <<>>
    PROVE  FromOf(t) \in Sources /\ ToOf(t) \in Dests
<1>1. t.entries \in Seq(Entry)
  BY DEF Transfer
<1>2. Head(t.entries) \in Entry
  BY <1>1, HeadTailProperties
<1>3. QED
  BY <1>2 DEF Entry, FromOf, ToOf

\* A later version of a source does not disturb a transfer under way.
LEMMA SourceGrows ==
    ASSUME NEW t, NEW src \in [Sources -> Nat], NEW src2 \in [Sources -> Nat], NEW tm,
           TransferOK(t, src, tm), \A g \in Sources : src[g] <= src2[g]
    PROVE  TransferOK(t, src2, tm)
<1>1. CASE t.pc \notin Working
  BY <1>1 DEF TransferOK, Working, HasReply, Steps
<1>2. CASE t.pc \in Working
  <2>1. t \in Transfer /\ t.entries # <<>>
    BY <1>2 DEF TransferOK, Working
  <2>2. FromOf(t) \in Sources
    BY <2>1, HeadEntry
  <2>3. t.since \in Nat /\ t.since <= src[FromOf(t)] /\ src[FromOf(t)] <= src2[FromOf(t)]
    BY <1>2, <2>2 DEF TransferOK
  <2>4. src[FromOf(t)] \in Nat /\ src2[FromOf(t)] \in Nat
    BY <2>2
  <2>5. t.since <= src2[FromOf(t)]
        /\ (t.since .. src[FromOf(t)]) \subseteq (t.since .. src2[FromOf(t)])
    BY <2>3, <2>4
  <2>6. ReplyOK(t, src) => ReplyOK(t, src2)
    BY <2>5 DEF ReplyOK
  <2>7. QED
    BY <2>5, <2>6 DEF TransferOK
<1>3. QED
  BY <1>1, <1>2

\* A transfer looks at the partial file it has open, and at no other.
LEMMA OtherFile ==
    ASSUME NEW t, NEW src, NEW tm, NEW tm2, TransferOK(t, src, tm),
           t.pc \in HoldsFile => tm2[ToOf(t)] = tm[ToOf(t)]
    PROVE  TransferOK(t, src, tm2)
  BY DEF TransferOK, OpenFile, HoldsFile, UsesPartial

\* What rm of the partial files of D makes of a transfer.
Detach(t, D, tm) ==
    IF t.linked /\ ToOf(t) \in D
    THEN [t EXCEPT !.linked = FALSE, !.data = tm[ToOf(t)]]
    ELSE t

\* Detached is Detach of every transfer.
LEMMA DetachedIsDetach ==
    ASSUME NEW D
    PROVE  Detached(D) = [s \in Sessions |-> Detach(tr[s], D, temp)]
  BY DEF Detached, Detach, To, ToOf

\* What a transfer keeps when the partials of D are removed.
DetachKeeps(t, D, src, tm) ==
    /\ TransferOK(Detach(t, D, tm), src, Without(tm, D))
    /\ Detach(t, D, tm).pc = t.pc
    /\ Detach(t, D, tm).entries = t.entries
    /\ Detach(t, D, tm).since = t.since

\* A transfer whose open file is removed goes on with the file it has open.
LEMMA DetachOK ==
    ASSUME NEW t, NEW src, NEW tm, NEW D \in SUBSET Dests,
           tm \in [Dests -> Seq(Chunks) \cup {None}], TransferOK(t, src, tm)
    PROVE  DetachKeeps(t, D, src, tm)
<1> DEFINE u == Detach(t, D, tm)
           tm2 == Without(tm, D)
<1>0. t \in Transfer
  BY DEF TransferOK
<1>1. CASE t.linked /\ ToOf(t) \in D
  <2>1. u = [t EXCEPT !.linked = FALSE, !.data = tm[ToOf(t)]]
    BY <1>1 DEF Detach
  <2>2. t.pc \in HoldsFile /\ tm[ToOf(t)] \in Seq(Chunks) /\ t.entries # <<>>
    BY <1>1 DEF TransferOK, HoldsFile, UsesPartial
  <2>3. ToOf(t) \in Dests
    BY <1>0, <2>2, HeadEntry
  <2>4. tm2[ToOf(t)] = None
    BY <1>1, <2>3 DEF Without
  <2>5. /\ u \in Transfer
        /\ u.pc = t.pc /\ u.entries = t.entries /\ u.since = t.since /\ u.offset = t.offset
        /\ u.hash = t.hash /\ u.reply = t.reply /\ u.expectedSize = t.expectedSize
        /\ ~u.linked /\ u.data = tm[ToOf(t)]
    BY <1>0, <2>1, <2>2 DEF Transfer
  <2> HIDE DEF u, tm2
  <2>6. FromOf(u) = FromOf(t) /\ ToOf(u) = ToOf(t)
    BY <2>5 DEF FromOf, ToOf
  <2>7. OpenFile(u, tm2) = OpenFile(t, tm)
    BY <1>1, <2>5 DEF OpenFile
  <2>8. ReplyOK(t, src) => ReplyOK(u, src)
    BY <2>5, <2>6 DEF ReplyOK
  <2>9. TransferOK(u, src, tm2)
    BY <2>4, <2>5, <2>6, <2>7, <2>8 DEF TransferOK
  <2>10. QED
    BY <2>5, <2>9 DEF u, tm2, DetachKeeps
<1>2. CASE ~(t.linked /\ ToOf(t) \in D)
  <2>1. u = t
    BY <1>2 DEF Detach
  <2>2. t.pc \in HoldsFile => ToOf(t) \in Dests
    BY <1>0, HeadEntry DEF TransferOK, HoldsFile, UsesPartial
  <2>3. t.pc \in HoldsFile /\ ToOf(t) \notin D => tm2[ToOf(t)] = tm[ToOf(t)]
    BY <2>2 DEF Without
  <2>4. t.pc \in HoldsFile /\ ToOf(t) \in D => tm2[ToOf(t)] = tm[ToOf(t)]
    BY <1>2, <2>2 DEF Without, TransferOK
  <2> HIDE DEF u, tm2
  <2>5. TransferOK(t, src, tm2)
    BY <2>3, <2>4, OtherFile
  <2>6. QED
    BY <2>1, <2>5 DEF u, tm2, DetachKeeps
<1>3. QED
  BY <1>1, <1>2

-----------------------------------------------------------------------------
(* A step of one transfer among the others *)

\* The destinations stay claimed by one transfer each when a transfer gives its
\* claim up, keeps it, or makes one that nobody has.
LEMMA ClaimsMove ==
    ASSUME NEW f \in [Sessions -> Transfer], NEW s \in Sessions, NEW t, NEW A, NEW B,
           Claims(f, A),
           \/ t.pc \notin Claimed /\ B = A
           \/ t.pc \notin Claimed /\ f[s].pc \in Claimed /\ B = A \ {ToOf(f[s])}
           \/ t.pc \in Claimed /\ f[s].pc \in Claimed /\ ToOf(t) = ToOf(f[s]) /\ B = A
           \/ ToOf(t) \notin A /\ B = A \cup {ToOf(t)}
    PROVE  Claims([f EXCEPT ![s] = t], B)
<1> DEFINE h == [f EXCEPT ![s] = t]
<1>1. h[s] = t /\ \A o \in Sessions : o # s => h[o] = f[o]
  OBVIOUS
<1> HIDE DEF h
<1>2. Claims(h, B)
  BY <1>1 DEF Claims
<1>3. QED
  BY <1>2 DEF h

\* A step of one transfer is sound if the transfer is in order after it, the
\* only partial file it writes is its own, and it treats claims as above.
LEMMA OneTransferMoves ==
    ASSUME Inv, FilesOK', NEW s \in Sessions, NEW t,
           tr' = [tr EXCEPT ![s] = t],
           source' = source,
           TransferOK(t, source, temp'),
           \/ temp' = temp
           \/ tr[s].pc \in Claimed /\ \A d \in Dests : d # ToOf(tr[s]) => temp'[d] = temp[d],
           \/ t.pc \notin Claimed /\ active' = active
           \/ t.pc \notin Claimed /\ tr[s].pc \in Claimed /\ active' = active \ {ToOf(tr[s])}
           \/ t.pc \in Claimed /\ tr[s].pc \in Claimed /\ ToOf(t) = ToOf(tr[s]) /\ active' = active
           \/ ToOf(t) \notin active /\ active' = active \cup {ToOf(t)}
    PROVE  Inv'
<1>1. tr \in [Sessions -> Transfer] /\ Claims(tr, active)
  BY DEF Inv, TransfersOK
<1>2. Claims(tr', active')
  BY <1>1, ClaimsMove
<1>3. t \in Transfer
  BY DEF TransferOK
<1>4. tr' \in [Sessions -> Transfer]
  BY <1>1, <1>3
<1>5. ASSUME NEW o \in Sessions PROVE TransferOK(tr'[o], source, temp')
  <2>1. CASE o = s
    BY <1>1, <2>1
  <2>2. CASE o # s
    <3>1. tr'[o] = tr[o] /\ TransferOK(tr[o], source, temp)
      BY <1>1, <2>2 DEF Inv, TransfersOK
    <3>2. tr[o].pc \in HoldsFile => tr[o].pc \in Claimed /\ tr[o].entries # <<>>
      BY <3>1 DEF TransferOK, HoldsFile, UsesPartial, Claimed
    <3>3. tr[o].pc \in HoldsFile => ToOf(tr[o]) \in Dests
      BY <1>1, <3>2, HeadEntry
    <3>4. tr[o].pc \in HoldsFile => temp'[ToOf(tr[o])] = temp[ToOf(tr[o])]
      BY <1>1, <2>2, <3>2, <3>3 DEF Claims
    <3>5. TransferOK(tr[o], source, temp')
      BY <3>1, <3>4, OtherFile
    <3>6. QED
      BY <3>1, <3>5
  <2>3. QED
    BY <2>1, <2>2
<1>6. QED
  BY <1>2, <1>4, <1>5 DEF Inv, TransfersOK

\* No other transfer has the partial file of a claimed destination open.
LEMMA DetachedAlone ==
    ASSUME Inv, NEW s \in Sessions, tr[s].pc \in Claimed, NEW t
    PROVE  /\ [Detached({To(s)}) EXCEPT ![s] = t] = [tr EXCEPT ![s] = t]
           /\ ~tr[s].linked => Detached({To(s)}) = tr
<1>1. tr \in [Sessions -> Transfer] /\ Claims(tr, active)
  BY DEF Inv, TransfersOK
<1>2. ASSUME NEW o \in Sessions, o # s PROVE Detach(tr[o], {To(s)}, temp) = tr[o]
  <2>1. TransferOK(tr[o], source, temp)
    BY DEF Inv, TransfersOK
  <2>2. tr[o].linked => tr[o].pc \in Claimed
    BY <2>1 DEF TransferOK, HoldsFile, Claimed
  <2>3. tr[o].linked => ToOf(tr[o]) # ToOf(tr[s])
    BY <1>1, <1>2, <2>2 DEF Claims
  <2>4. QED
    BY <2>3 DEF Detach, To, ToOf
<1>3. Detached({To(s)}) = [o \in Sessions |-> Detach(tr[o], {To(s)}, temp)]
  BY DetachedIsDetach
<1>4. ~tr[s].linked => Detach(tr[s], {To(s)}, temp) = tr[s]
  BY DEF Detach
<1>5. QED
  BY <1>1, <1>2, <1>3, <1>4

\* What Inv says of one session.
LEMMA SessionFacts ==
    ASSUME Inv, NEW s \in Sessions
    PROVE  /\ TransferOK(tr[s], source, temp)
           /\ tr[s] \in Transfer
           /\ tr \in [Sessions -> Transfer]
           /\ To(s) = ToOf(tr[s])
           /\ From(s) = FromOf(tr[s])
           /\ tr[s].pc # "idle" => tr[s].entries # <<>> /\ To(s) \in Dests /\ From(s) \in Sources
<1>1. TransferOK(tr[s], source, temp) /\ tr[s] \in Transfer /\ tr \in [Sessions -> Transfer]
  BY DEF Inv, TransfersOK
<1>2. To(s) = ToOf(tr[s]) /\ From(s) = FromOf(tr[s])
  BY DEF To, ToOf, From, FromOf
<1>3. tr[s].pc # "idle" => tr[s].entries # <<>>
  BY <1>1 DEF TransferOK
<1>4. QED
  BY <1>1, <1>2, <1>3, HeadEntry

\* The first step of pullOneFile.
LEMMA BeginFileOK ==
    ASSUME FilesOK, NEW t, t.overwrite \in BOOLEAN, t.cancelled \in BOOLEAN,
           NEW entries \in Seq(Entry), entries # <<>>, NEW tm
    PROVE  /\ TransferOK(BeginFile(t, entries), source, tm)
           /\ BeginFile(t, entries).pc = "prepare"
           /\ BeginFile(t, entries).entries = entries
           /\ BeginFile(t, entries).since = source[Head(entries).from]
<1> DEFINE u == BeginFile(t, entries)
<1>1. Head(entries) \in Entry
  BY HeadTailProperties
<1>2. source[Head(entries).from] \in Nat \ {0}
  BY <1>1 DEF Entry, FilesOK
<1>3. <<>> \in Seq(Chunks) /\ 0 \in Nat
  OBVIOUS
<1>4. /\ u \in Transfer
      /\ u.pc = "prepare" /\ u.entries = entries /\ u.offset = 0 /\ ~u.linked
      /\ u.since = source[Head(entries).from]
  BY <1>2, <1>3 DEF BeginFile, NoTransfer, Transfer, Steps
<1> HIDE DEF u
<1>5. FromOf(u) = Head(entries).from
  BY <1>4 DEF FromOf
<1>6. TransferOK(u, source, tm)
  BY <1>2, <1>4, <1>5 DEF TransferOK, Working, HoldsFile, HasReply, UsesPartial
<1>7. QED
  BY <1>4, <1>6 DEF u

\* An error that keeps the partial file.
LEMMA FailKeepingOK ==
    ASSUME Inv, NEW s \in Sessions, tr[s].pc \in Claimed, FailKeeping(s),
           source' = source, abort' = abort
    PROVE  Inv'
<1>1. tr' = [tr EXCEPT ![s] = NoTransfer] /\ active' = active \ {To(s)}
      /\ UNCHANGED <<dest, temp, meta, retained>>
  BY DEF FailKeeping, Unregister
<1>2. FilesOK'
  BY <1>1 DEF Inv, FilesOK
<1>3. To(s) = ToOf(tr[s])
  BY SessionFacts
<1>4. TransferOK(NoTransfer, source, temp') /\ NoTransfer.pc \notin Claimed
  BY NoTransferOK DEF Claimed, UsesPartial
<1>5. QED
  BY <1>1, <1>2, <1>3, <1>4, OneTransferMoves

\* An error that removes the partial file.
LEMMA FailDiscardingOK ==
    ASSUME Inv, NEW s \in Sessions, tr[s].pc \in Claimed, FailDiscarding(s),
           source' = source, abort' = abort
    PROVE  Inv'
<1>1. /\ tr' = [Detached({To(s)}) EXCEPT ![s] = NoTransfer]
      /\ active' = active \ {To(s)}
      /\ temp' = Without(temp, {To(s)}) /\ meta' = Without(meta, {To(s)})
      /\ retained' = [retained EXCEPT ![s] = @ \ {To(s)}]
      /\ dest' = dest
  BY DEF FailDiscarding, ReleaseHostPartial
<1>2. tr' = [tr EXCEPT ![s] = NoTransfer]
  BY <1>1, DetachedAlone
<1>3. To(s) = ToOf(tr[s])
  BY SessionFacts
<1>4. FilesOK'
  BY <1>1 DEF Inv, FilesOK, Without
<1>5. TransferOK(NoTransfer, source, temp') /\ NoTransfer.pc \notin Claimed
  BY NoTransferOK DEF Claimed, UsesPartial
<1>6. \A d \in Dests : d # ToOf(tr[s]) => temp'[d] = temp[d]
  BY <1>1, <1>3 DEF Without
<1>7. QED
  BY <1>1, <1>2, <1>3, <1>4, <1>5, <1>6, OneTransferMoves

\* The end of a transfer that has not claimed anything.
LEMMA UnregisterOK ==
    ASSUME Inv, NEW s \in Sessions, Unregister(s),
           UNCHANGED <<source, dest, temp, meta, active, retained, abort>>
    PROVE  Inv'
<1>1. FilesOK'
  BY DEF Inv, FilesOK
<1>2. TransferOK(NoTransfer, source, temp') /\ NoTransfer.pc \notin Claimed
  BY NoTransferOK DEF Claimed, UsesPartial
<1>3. QED
  BY <1>1, <1>2, OneTransferMoves DEF Unregister

-----------------------------------------------------------------------------
(* The actions *)

\* execute begins.
LEMMA BeginInv ==
    ASSUME Inv, NEW s \in Sessions, NEW r \in Requests, NEW o \in Overwrites, Begin(s, r, o)
    PROVE  Inv'
<1> DEFINE b == BeginFile([NoTransfer EXCEPT !.overwrite = o], r.entries)
           k == [NoTransfer EXCEPT !.pc = "list", !.entries = r.entries, !.overwrite = o]
           t == IF r.dir THEN k ELSE b
<1>1. tr' = [tr EXCEPT ![s] = t]
      /\ UNCHANGED <<source, dest, temp, meta, active, retained, abort>>
  BY DEF Begin
<1>2. r.entries \in Seq(Entry) /\ o \in BOOLEAN /\ r.entries # <<>>
  <2>1. r \in [dir : BOOLEAN, entries : Seq(Entry)] /\ o \in BOOLEAN /\ Len(r.entries) > 0
    BY PullAssumption DEF Entry
  <2>2. Len(<<>>) = 0
    OBVIOUS
  <2>3. QED
    BY <2>1, <2>2
<1>3. FilesOK /\ FilesOK'
  BY <1>1 DEF Inv, FilesOK
<1>4. TransferOK(b, source, temp) /\ b.pc = "prepare"
  <2> DEFINE n == [NoTransfer EXCEPT !.overwrite = o]
  <2>1. n.overwrite \in BOOLEAN /\ n.cancelled \in BOOLEAN
    BY <1>2 DEF NoTransfer
  <2> HIDE DEF n
  <2>2. /\ TransferOK(BeginFile(n, r.entries), source, temp)
        /\ BeginFile(n, r.entries).pc = "prepare"
    <3> DEFINE e == r.entries
    <3>1. e \in Seq(Entry) /\ e # <<>>
      BY <1>2
    <3> HIDE DEF e
    <3>2. \A u : (u.overwrite \in BOOLEAN /\ u.cancelled \in BOOLEAN) =>
             TransferOK(BeginFile(u, e), source, temp) /\ BeginFile(u, e).pc = "prepare"
      BY <1>3, <3>1, BeginFileOK
    <3>3. QED
      BY <2>1, <3>2 DEF e
  <2>3. QED
    BY <2>2 DEF n
<1>5. TransferOK(k, source, temp) /\ k.pc = "list"
  <2>1. <<>> \in Seq(Chunks) /\ 0 \in Nat
    OBVIOUS
  <2>2. k \in Transfer /\ k.pc = "list" /\ k.entries = r.entries /\ ~k.linked
    BY <1>2, <2>1 DEF NoTransfer, Transfer, Steps
  <2> HIDE DEF k
  <2>3. QED
    BY <1>2, <2>2 DEF TransferOK, Working, HoldsFile, HasReply, UsesPartial
<1> HIDE DEF b, k
<1>6. TransferOK(t, source, temp') /\ t.pc \notin Claimed
  BY <1>1, <1>4, <1>5 DEF Claimed, UsesPartial
<1> HIDE DEF t
<1>7. QED
  BY <1>1, <1>3, <1>6, OneTransferMoves

\* The tree is listed and the first file begins.
LEMMA ListTreeInv ==
    ASSUME Inv, NEW s \in Sessions, ListTree(s) \/ ListFails(s)
    PROVE  Inv'
<1>1. UNCHANGED <<source, dest, temp, meta, active, retained, abort>> /\ tr[s].pc = "list"
  BY DEF ListTree, ListFails
<1>2. CASE Unregister(s)
  BY <1>1, <1>2, UnregisterOK
<1>3. CASE tr' = [tr EXCEPT ![s] = BeginFile(@, @.entries)]
  <2> DEFINE t == BeginFile(tr[s], tr[s].entries)
  <2>1. tr \in [Sessions -> Transfer] /\ tr[s] \in Transfer /\ tr[s].entries # <<>>
    BY <1>1, SessionFacts
  <2>2. tr[s].overwrite \in BOOLEAN /\ tr[s].cancelled \in BOOLEAN /\ tr[s].entries \in Seq(Entry)
    BY <2>1 DEF Transfer
  <2>3. FilesOK /\ FilesOK'
    BY <1>1 DEF Inv, FilesOK
  <2>4. TransferOK(t, source, temp) /\ t.pc = "prepare"
    BY <2>1, <2>2, <2>3, BeginFileOK
  <2>5. tr' = [tr EXCEPT ![s] = t]
    BY <1>3, <2>1
  <2> HIDE DEF t
  <2>6. t.pc \notin Claimed
    BY <2>4 DEF Claimed, UsesPartial
  <2>7. QED
    BY <1>1, <2>3, <2>4, <2>5, <2>6, OneTransferMoves
<1>4. QED
  BY <1>2, <1>3 DEF ListTree, ListFails

\* A transfer that has not opened its partial yet moves on.
LEMMA GotoOK ==
    ASSUME NEW t, NEW src, NEW tm, TransferOK(t, src, tm),
           t.pc = "prepare" \/ t.pc = "claim", NEW pc \in {"claim", "open"}
    PROVE  LET u == [t EXCEPT !.pc = pc] IN TransferOK(u, src, tm) /\ u.pc = pc /\ ToOf(u) = ToOf(t)
<1> DEFINE u == [t EXCEPT !.pc = pc]
<1>1. t \in Transfer
  BY DEF TransferOK
<1>2. /\ u \in Transfer
      /\ u.pc = pc /\ u.entries = t.entries /\ u.since = t.since /\ u.offset = t.offset
      /\ u.linked = t.linked
  BY <1>1 DEF Transfer, Steps
<1> HIDE DEF u
<1>3. FromOf(u) = FromOf(t) /\ ToOf(u) = ToOf(t)
  BY <1>2 DEF FromOf, ToOf
<1>4. ~t.linked /\ t.offset = 0 /\ t.since \in Nat \ {0} /\ t.since <= src[FromOf(t)]
      /\ t.entries # <<>>
  BY DEF TransferOK, Working, HoldsFile, UsesPartial, Steps
<1>5. u.pc \notin HoldsFile /\ u.pc \notin HasReply
  BY <1>2 DEF HoldsFile, HasReply, UsesPartial
<1>6. TransferOK(u, src, tm)
  BY <1>2, <1>3, <1>4, <1>5 DEF TransferOK, HoldsFile, UsesPartial
<1>7. QED
  BY <1>2, <1>3, <1>6 DEF u

\* The destination is looked at.
LEMMA PrepareInv ==
    ASSUME Inv, NEW s \in Sessions, Prepare(s)
    PROVE  Inv'
<1>1. UNCHANGED <<source, dest, temp, meta, active, retained, abort>> /\ tr[s].pc = "prepare"
  BY DEF Prepare
<1>2. CASE Unregister(s)
  BY <1>1, <1>2, UnregisterOK
<1>3. CASE Goto(s, "claim")
  <2> DEFINE t == [tr[s] EXCEPT !.pc = "claim"]
  <2>1. tr \in [Sessions -> Transfer] /\ TransferOK(tr[s], source, temp)
    BY SessionFacts
  <2>2. tr' = [tr EXCEPT ![s] = t]
    BY <1>3, <2>1 DEF Goto
  <2>3. TransferOK(t, source, temp) /\ t.pc = "claim"
    BY <1>1, <2>1, GotoOK
  <2>4. FilesOK'
    BY <1>1 DEF Inv, FilesOK
  <2> HIDE DEF t
  <2>5. t.pc \notin Claimed
    BY <2>3 DEF Claimed, UsesPartial
  <2>6. QED
    BY <1>1, <2>2, <2>3, <2>4, <2>5, OneTransferMoves
<1>4. QED
  BY <1>2, <1>3 DEF Prepare

\* The destination is claimed.
LEMMA ClaimInv ==
    ASSUME Inv, NEW s \in Sessions, Claim(s)
    PROVE  Inv'
<1>1. UNCHANGED <<source, dest, temp, meta, retained, abort>> /\ tr[s].pc = "claim"
  BY DEF Claim
<1>2. CASE Unregister(s) /\ UNCHANGED active
  BY <1>1, <1>2, UnregisterOK
<1>3. CASE Goto(s, "open") /\ active' = active \cup {To(s)} /\ To(s) \notin active
  <2> DEFINE t == [tr[s] EXCEPT !.pc = "open"]
  <2>1. tr \in [Sessions -> Transfer] /\ TransferOK(tr[s], source, temp)
        /\ To(s) = ToOf(tr[s]) /\ To(s) \in Dests
    BY <1>1, SessionFacts
  <2>2. tr' = [tr EXCEPT ![s] = t]
    BY <1>3, <2>1 DEF Goto
  <2>3. TransferOK(t, source, temp) /\ ToOf(t) = ToOf(tr[s])
    BY <1>1, <2>1, GotoOK
  <2>4. FilesOK'
    BY <1>1, <1>3, <2>1 DEF Inv, FilesOK
  <2> HIDE DEF t
  <2>5. QED
    BY <1>1, <1>3, <2>1, <2>2, <2>3, <2>4, OneTransferMoves
<1>4. QED
  BY <1>2, <1>3 DEF Claim

\* The partial file is opened: resumed where it ends, or new and empty.
LEMMA OpenPullPartialInv ==
    ASSUME Inv, NEW s \in Sessions, OpenPullPartial(s)
    PROVE  Inv'
<1> DEFINE d == To(s)
<1>1. /\ tr[s].pc = "open"
      /\ retained' = [retained EXCEPT ![s] = @ \cup {d}]
      /\ UNCHANGED <<source, dest, active, abort>>
  BY DEF OpenPullPartial, RetainHostPartial
<1>2. /\ tr \in [Sessions -> Transfer] /\ tr[s] \in Transfer
      /\ TransferOK(tr[s], source, temp)
      /\ d = ToOf(tr[s]) /\ d \in Dests /\ From(s) = FromOf(tr[s])
  BY <1>1, SessionFacts
<1>3. /\ tr[s].since \in Nat \ {0} /\ tr[s].since <= source[FromOf(tr[s])]
      /\ ~tr[s].linked /\ tr[s].entries # <<>> /\ tr[s].offset = 0
  BY <1>1, <1>2 DEF TransferOK, Working, HoldsFile, UsesPartial, Steps
<1>4. FilesOK
  BY DEF Inv
<1>5. "open" \in Claimed /\ "hash" \in Claimed
  BY DEF Claimed, UsesPartial
<1>6. CASE Resumable(s) /\ UNCHANGED <<temp, meta>>
           /\ tr' = [tr EXCEPT ![s].pc = "hash", ![s].linked = TRUE, ![s].noted = TRUE,
                               ![s].offset = Len(temp[d]),
                               ![s].expectedSize = meta[d].expectedSize]
  <2> DEFINE t == [tr[s] EXCEPT !.pc = "hash", !.linked = TRUE, !.noted = TRUE,
                                !.offset = Len(temp[d]),
                                !.expectedSize = meta[d].expectedSize]
  <2>1. tr' = [tr EXCEPT ![s] = t]
    BY <1>2, <1>6
  <2>2. temp[d] \in Seq(Chunks) /\ meta[d] \in PullMetadata
    BY <1>2, <1>4, <1>6 DEF Resumable, FilesOK
  <2>3. Len(temp[d]) \in Nat /\ meta[d].expectedSize \in Nat
    BY <2>2, LenProperties DEF PullMetadata
  <2>4. /\ t \in Transfer
        /\ t.pc = "hash" /\ t.linked /\ t.offset = Len(temp[d])
        /\ t.entries = tr[s].entries /\ t.since = tr[s].since
    BY <1>2, <2>3 DEF Transfer, Steps
  <2>5. FilesOK' /\ temp' = temp
    BY <1>1, <1>2, <1>4, <1>6 DEF FilesOK
  <2> HIDE DEF t
  <2>6. FromOf(t) = FromOf(tr[s]) /\ ToOf(t) = d
    BY <1>2, <2>4 DEF FromOf, ToOf
  <2>7. TransferOK(t, source, temp)
    BY <1>3, <2>2, <2>4, <2>6 DEF TransferOK, HoldsFile, HasReply, UsesPartial, OpenFile
  <2> HIDE DEF d
  <2>8. QED
    BY <1>1, <1>2, <1>5, <2>1, <2>4, <2>5, <2>6, <2>7, OneTransferMoves
<1>7. CASE /\ tr' = [Detached({d}) EXCEPT ![s].pc = "hash", ![s].linked = TRUE]
           /\ temp' = [temp EXCEPT ![d] = <<>>]
           /\ meta' = Without(meta, {d})
  <2> DEFINE t == [tr[s] EXCEPT !.pc = "hash", !.linked = TRUE]
  <2>1. Detached({d}) = tr
    BY <1>1, <1>3, <1>5, DetachedAlone
  <2>2. tr' = [tr EXCEPT ![s] = t]
    BY <1>2, <1>7, <2>1
  <2>3. <<>> \in Seq(Chunks) /\ Len(<<>>) = 0
    OBVIOUS
  <2>4. temp'[d] = <<>> /\ \A e \in Dests : e # d => temp'[e] = temp[e]
    BY <1>2, <1>4, <1>7 DEF FilesOK
  <2>5. /\ t \in Transfer
        /\ t.pc = "hash" /\ t.linked /\ t.offset = 0
        /\ t.entries = tr[s].entries /\ t.since = tr[s].since
    BY <1>2, <1>3 DEF Transfer, Steps
  <2>6. FilesOK'
    BY <1>1, <1>2, <1>4, <1>7, <2>3 DEF FilesOK, Without
  <2> HIDE DEF t
  <2>7. FromOf(t) = FromOf(tr[s]) /\ ToOf(t) = d
    BY <1>2, <2>5 DEF FromOf, ToOf
  <2>8. TransferOK(t, source, temp')
    BY <1>3, <2>3, <2>4, <2>5, <2>7 DEF TransferOK, HoldsFile, HasReply, UsesPartial, OpenFile
  <2> HIDE DEF d
  <2>9. QED
    BY <1>1, <1>2, <1>5, <2>2, <2>4, <2>5, <2>6, <2>7, <2>8, OneTransferMoves
<1>8. QED
  BY <1>6, <1>7 DEF OpenPullPartial

\* The partial file cannot be created; the destination stays claimed.
LEMMA OpenFailsInv ==
    ASSUME Inv, NEW s \in Sessions, OpenFails(s)
    PROVE  Inv'
<1>1. /\ tr[s].pc = "open" /\ "open" \in Claimed
      /\ temp' = Without(temp, {To(s)})
      /\ meta' = Without(meta, {To(s)})
      /\ tr' = [Detached({To(s)}) EXCEPT ![s] = NoTransfer]
      /\ UNCHANGED <<source, dest, active, retained, abort>>
  BY DEF OpenFails, Claimed
<1>2. tr' = [tr EXCEPT ![s] = NoTransfer]
  BY <1>1, DetachedAlone
<1>3. To(s) = ToOf(tr[s])
  BY SessionFacts
<1>4. FilesOK'
  BY <1>1 DEF Inv, FilesOK, Without
<1>5. TransferOK(NoTransfer, source, temp') /\ NoTransfer.pc \notin Claimed
  BY NoTransferOK DEF Claimed, UsesPartial
<1>6. \A d \in Dests : d # ToOf(tr[s]) => temp'[d] = temp[d]
  BY <1>1, <1>3 DEF Without
<1>7. QED
  BY <1>1, <1>2, <1>4, <1>5, <1>6, OneTransferMoves

\* The prefix that is already there is hashed.
LEMMA HashPrefixInv ==
    ASSUME Inv, NEW s \in Sessions, HashPrefix(s)
    PROVE  Inv'
<1>1. tr[s].pc = "hash" /\ "hash" \in Claimed /\ source' = source /\ abort' = abort
  BY DEF HashPrefix, Claimed, UsesPartial
<1>2. CASE FailKeeping(s)
  BY <1>1, <1>2, FailKeepingOK
<1>3. CASE /\ Proceed(s, [tr[s] EXCEPT !.pc = "read", !.hash = SubSeq(FileOf(s), 1, tr[s].offset)])
           /\ UNCHANGED <<temp, meta>>
  <2> DEFINE h == SubSeq(FileOf(s), 1, tr[s].offset)
             t == [tr[s] EXCEPT !.pc = "read", !.hash = h]
  <2>1. tr' = [tr EXCEPT ![s] = t] /\ UNCHANGED <<dest, retained, active, temp, meta>>
    BY <1>3 DEF Proceed
  <2>2. tr[s] \in Transfer /\ TransferOK(tr[s], source, temp) /\ To(s) = ToOf(tr[s])
    BY SessionFacts
  <2>3. FileOf(s) = OpenFile(tr[s], temp)
    BY <2>2 DEF FileOf, OpenFile
  <2>4. OpenFile(tr[s], temp) \in Seq(Chunks) /\ tr[s].offset = Len(OpenFile(tr[s], temp))
    BY <1>1, <2>2 DEF TransferOK, OpenFile, Transfer
  <2>5. h = OpenFile(tr[s], temp)
    BY <2>3, <2>4, SubSeqFull
  <2> HIDE DEF h
  <2>6. /\ t \in Transfer /\ t.pc = "read" /\ t.entries = tr[s].entries /\ t.since = tr[s].since
        /\ t.linked = tr[s].linked /\ t.data = tr[s].data /\ t.offset = tr[s].offset /\ t.hash = h
    BY <2>2, <2>4, <2>5 DEF Transfer, Steps
  <2> HIDE DEF t
  <2>7. FromOf(t) = FromOf(tr[s]) /\ ToOf(t) = ToOf(tr[s])
    BY <2>6 DEF FromOf, ToOf
  <2>8. OpenFile(t, temp) = OpenFile(tr[s], temp)
    BY <2>6, <2>7 DEF OpenFile
  <2>9. TransferOK(t, source, temp)
    BY <1>1, <2>2, <2>4, <2>5, <2>6, <2>7, <2>8
       DEF TransferOK, Working, HoldsFile, HasReply, UsesPartial, Steps
  <2>10. FilesOK' /\ t.pc \in Claimed
    BY <1>1, <2>1, <2>6 DEF Inv, FilesOK, Claimed, UsesPartial
  <2>11. QED
    BY <1>1, <2>1, <2>7, <2>9, <2>10, OneTransferMoves
<1>4. QED
  BY <1>2, <1>3 DEF HashPrefix

\* A transfer that has taken a reply and written nothing since.
LEMMA WithReply ==
    ASSUME NEW t, NEW src, NEW tm, TransferOK(t, src, tm), t.pc \in {"read", "meta"},
           NEW u \in Transfer, u.pc \in HasReply, ReplyOK(u, src),
           u.entries = t.entries, u.since = t.since, u.linked = t.linked, u.data = t.data,
           u.offset = t.offset, u.hash = t.hash
    PROVE  TransferOK(u, src, tm) /\ ToOf(u) = ToOf(t)
<1>1. FromOf(u) = FromOf(t) /\ ToOf(u) = ToOf(t)
  BY DEF FromOf, ToOf
<1>2. OpenFile(u, tm) = OpenFile(t, tm)
  BY <1>1 DEF OpenFile
<1>3. /\ t.entries # <<>> /\ t.since \in Nat \ {0} /\ t.since <= src[FromOf(t)]
      /\ t.linked => tm[ToOf(t)] \in Seq(Chunks)
      /\ tm[ToOf(t)] # None => t.linked
      /\ OpenFile(t, tm) = t.hash /\ t.offset = Len(t.hash)
  BY DEF TransferOK, Working, HoldsFile, UsesPartial, Steps
<1>4. u.pc \in HoldsFile \ {"hash"} /\ u.pc \notin {"idle", "prepare", "claim", "open"}
  BY DEF HasReply, HoldsFile, UsesPartial
<1>5. QED
  BY <1>1, <1>2, <1>3, <1>4 DEF TransferOK

\* A chunk is taken.
LEMMA TakeChunkInv ==
    ASSUME Inv, NEW s \in Sessions, TakeChunk(s)
    PROVE  Inv'
<1> DEFINE r == FileReadChunk(From(s), tr[s].offset)
           size == IF tr[s].expectedSize = None THEN r.size ELSE tr[s].expectedSize
           t == [tr[s] EXCEPT !.reply = r, !.expectedSize = size]
           u == IF t.noted THEN TakeData(t) ELSE [t EXCEPT !.pc = "meta"]
<1>1. tr[s].pc = "read" /\ "read" \in Claimed /\ source' = source /\ abort' = abort
  BY DEF TakeChunk, Claimed, UsesPartial
<1>2. CASE FailDiscarding(s)
  BY <1>1, <1>2, FailDiscardingOK
<1>3. CASE Proceed(s, u) /\ UNCHANGED <<temp, meta>>
  <2>1. tr' = [tr EXCEPT ![s] = u] /\ UNCHANGED <<dest, retained, active, temp, meta>>
    BY <1>3 DEF Proceed
  <2>2. /\ tr[s] \in Transfer /\ TransferOK(tr[s], source, temp)
        /\ From(s) = FromOf(tr[s]) /\ From(s) \in Sources
    BY <1>1, SessionFacts
  <2>3. FilesOK
    BY DEF Inv
  <2>4. tr[s].offset \in Nat
    BY <2>2 DEF Transfer
  <2>5. r \in Reply /\ (r.data = <<>> => r.eof) /\ (r.eof => r.sha256 = Content(From(s), source[From(s)]))
    BY <2>2, <2>3, <2>4, FileReadChunkAnswer
  <2> HIDE DEF r
  <2>6. size \in Nat
    BY <2>2, <2>5 DEF Reply, Transfer
  <2> HIDE DEF size
  <2>7. /\ t \in Transfer /\ t.reply = r /\ t.expectedSize = size
        /\ t.entries = tr[s].entries /\ t.since = tr[s].since
        /\ t.linked = tr[s].linked /\ t.data = tr[s].data /\ t.offset = tr[s].offset
        /\ t.hash = tr[s].hash
    BY <2>2, <2>5, <2>6 DEF Transfer
  <2> HIDE DEF t
  <2>8. /\ u \in Transfer /\ u.reply = r /\ u.expectedSize = size
        /\ u.pc \in HasReply /\ (u.pc = "close" => r.data = <<>>)
        /\ u.entries = t.entries /\ u.since = t.since
        /\ u.linked = t.linked /\ u.data = t.data /\ u.offset = t.offset
        /\ u.hash = t.hash
    <3>1. CASE t.noted /\ r.data # <<>>
      <4>1. u = [t EXCEPT !.pc = "write"]
        BY <2>7, <3>1 DEF TakeData
      <4>2. QED
        BY <2>7, <4>1 DEF Transfer, Steps, HasReply
    <3>2. CASE t.noted /\ r.data = <<>>
      <4>1. u = [t EXCEPT !.pc = "close"]
        BY <2>7, <3>2 DEF TakeData
      <4>2. QED
        BY <2>7, <3>2, <4>1 DEF Transfer, Steps, HasReply
    <3>3. CASE ~t.noted
      <4>1. u = [t EXCEPT !.pc = "meta"]
        BY <3>3
      <4>2. QED
        BY <2>7, <4>1 DEF Transfer, Steps, HasReply
    <3>4. QED
      BY <3>1, <3>2, <3>3
  <2> HIDE DEF u
  <2>9. ReplyOK(u, source)
    <3>1. FromOf(u) = From(s)
      BY <2>2, <2>7, <2>8 DEF FromOf
    <3>2. u.since \in Nat /\ u.since <= source[From(s)] /\ source[From(s)] \in Nat
      BY <1>1, <2>2, <2>3, <2>7, <2>8 DEF TransferOK, Working, Steps, FilesOK
    <3>3. source[From(s)] \in u.since .. source[From(s)]
      BY <3>2
    <3>4. QED
      BY <2>5, <2>6, <2>8, <3>1, <3>3 DEF ReplyOK
  <2>10. TransferOK(u, source, temp) /\ ToOf(u) = ToOf(tr[s])
    BY <1>1, <2>2, <2>7, <2>8, <2>9, WithReply
  <2>11. FilesOK' /\ u.pc \in Claimed
    BY <1>1, <2>1, <2>3, <2>8 DEF FilesOK, Claimed, UsesPartial, HasReply
  <2>12. QED
    BY <1>1, <2>1, <2>10, <2>11, OneTransferMoves
<1>4. QED
  BY <1>2, <1>3 DEF TakeChunk

\* A read fails.
LEMMA ReadFailsInv ==
    ASSUME Inv, NEW s \in Sessions, ReadFails(s)
    PROVE  Inv'
  BY FailKeepingOK DEF ReadFails, Claimed, UsesPartial

\* The metadata is written.
LEMMA WritePullMetadataInv ==
    ASSUME Inv, NEW s \in Sessions, WritePullMetadata(s)
    PROVE  Inv'
<1> DEFINE t == [tr[s] EXCEPT !.noted = TRUE]
           u == TakeData(t)
<1>1. tr[s].pc = "meta" /\ "meta" \in Claimed /\ source' = source /\ abort' = abort
  BY DEF WritePullMetadata, Claimed, UsesPartial
<1>2. CASE FailKeeping(s)
  BY <1>1, <1>2, FailKeepingOK
<1>3. CASE /\ meta' = [meta EXCEPT ![To(s)] =
                          [guestPath |-> From(s), expectedSize |-> tr[s].expectedSize]]
           /\ Proceed(s, u) /\ UNCHANGED temp
  <2>1. tr' = [tr EXCEPT ![s] = u] /\ UNCHANGED <<dest, retained, active, temp>>
    BY <1>3 DEF Proceed
  <2>2. /\ tr[s] \in Transfer /\ TransferOK(tr[s], source, temp)
        /\ From(s) = FromOf(tr[s]) /\ From(s) \in Sources /\ To(s) \in Dests
    BY <1>1, SessionFacts
  <2>3. ReplyOK(tr[s], source)
    BY <1>1, <2>2 DEF TransferOK, HasReply
  <2>4. FilesOK'
    <3>1. [guestPath |-> From(s), expectedSize |-> tr[s].expectedSize] \in PullMetadata
      BY <2>2, <2>3 DEF PullMetadata, ReplyOK
    <3>2. QED
      BY <1>1, <1>3, <2>1, <3>1 DEF Inv, FilesOK
  <2>5. /\ t \in Transfer /\ t.reply = tr[s].reply /\ t.expectedSize = tr[s].expectedSize
        /\ t.entries = tr[s].entries /\ t.since = tr[s].since
        /\ t.linked = tr[s].linked /\ t.data = tr[s].data /\ t.offset = tr[s].offset
        /\ t.hash = tr[s].hash
    BY <2>2 DEF Transfer
  <2> HIDE DEF t
  <2>6. /\ u \in Transfer /\ u.reply = t.reply /\ u.expectedSize = t.expectedSize
        /\ u.pc \in HasReply /\ (u.pc = "close" => u.reply.data = <<>>)
        /\ u.entries = t.entries /\ u.since = t.since
        /\ u.linked = t.linked /\ u.data = t.data /\ u.offset = t.offset
        /\ u.hash = t.hash
    BY <2>5 DEF TakeData, Transfer, Steps, HasReply
  <2> HIDE DEF u
  <2>7. ReplyOK(u, source)
    <3>1. FromOf(u) = FromOf(tr[s])
      BY <2>5, <2>6 DEF FromOf
    <3>2. QED
      BY <2>3, <2>5, <2>6, <3>1 DEF ReplyOK
  <2>8. TransferOK(u, source, temp) /\ ToOf(u) = ToOf(tr[s])
    BY <1>1, <2>2, <2>5, <2>6, <2>7, WithReply
  <2>9. u.pc \in Claimed
    BY <2>6 DEF Claimed, UsesPartial, HasReply
  <2>10. QED
    BY <1>1, <2>1, <2>4, <2>8, <2>9, OneTransferMoves
<1>4. QED
  BY <1>2, <1>3 DEF WritePullMetadata

\* A chunk is written at the end of the file and added to the hash.
LEMMA WriteChunkInv ==
    ASSUME Inv, NEW s \in Sessions, WriteChunk(s)
    PROVE  Inv'
<1> DEFINE r == tr[s].reply
           d == To(s)
           file == WriteAt(FileOf(s), tr[s].offset, r.data)
           t == [tr[s] EXCEPT !.offset = @ + Len(r.data), !.hash = @ \o r.data,
                              !.data = IF tr[s].linked THEN <<>> ELSE file]
           written == IF tr[s].linked THEN [temp EXCEPT ![d] = file] ELSE temp
           u == IF r.eof THEN [t EXCEPT !.pc = "close"]
                         ELSE [t EXCEPT !.pc = "read", !.reply = None]
<1>1. /\ tr[s].pc = "write" /\ "write" \in Claimed /\ source' = source /\ abort' = abort
      /\ temp' = written
      /\ UNCHANGED <<dest, meta, retained>>
      /\ \/ active' = active \ {d} /\ Unregister(s)
         \/ Proceed(s, u)
  BY DEF WriteChunk, Claimed, UsesPartial, Proceed
<1>2. /\ tr[s] \in Transfer /\ TransferOK(tr[s], source, temp)
      /\ d = ToOf(tr[s]) /\ d \in Dests
  BY <1>1, SessionFacts
<1>3. /\ FileOf(s) = tr[s].hash /\ tr[s].offset = Len(tr[s].hash) /\ tr[s].hash \in Seq(Chunks)
      /\ ReplyOK(tr[s], source)
  <2>1. FileOf(s) = OpenFile(tr[s], temp)
    BY <1>2 DEF FileOf, OpenFile
  <2>2. QED
    BY <1>1, <1>2, <2>1 DEF TransferOK, HoldsFile, HasReply, UsesPartial, Transfer
<1>4. r \in Reply /\ r.data \in Seq(Chunks) /\ r.eof \in BOOLEAN
  BY <1>3 DEF ReplyOK, Reply
<1>5. file = tr[s].hash \o r.data
  BY <1>3, <1>4, WriteAtEnd
<1>6. file \in Seq(Chunks) /\ Len(file) = Len(tr[s].hash) + Len(r.data) /\ Len(r.data) \in Nat
  <2> HIDE DEF file, r
  <2>1. Len(r.data) \in Nat
    BY <1>4, LenProperties
  <2>2. file \in Seq(Chunks) /\ Len(file) = Len(tr[s].hash) + Len(r.data)
    BY <1>3, <1>4, <1>5, ConcatProperties
  <2>3. QED
    BY <2>1, <2>2
<1>7. FilesOK /\ FilesOK'
  <2> HIDE DEF d, file
  <2>1. temp \in [Dests -> Seq(Chunks) \cup {None}]
    BY DEF Inv, FilesOK
  <2>2. temp' \in [Dests -> Seq(Chunks) \cup {None}]
    BY <1>1, <1>6, <2>1
  <2>3. active' \subseteq active
    BY <1>1 DEF Proceed
  <2>4. QED
    BY <1>1, <2>2, <2>3 DEF Inv, FilesOK
<1>8. \A e \in Dests : e # ToOf(tr[s]) => temp'[e] = temp[e]
  BY <1>1, <1>2, <1>7 DEF FilesOK
<1>9. CASE active' = active \ {d} /\ Unregister(s)
  <2>1. TransferOK(NoTransfer, source, temp') /\ NoTransfer.pc \notin Claimed
    BY NoTransferOK DEF Claimed, UsesPartial
  <2>2. tr' = [tr EXCEPT ![s] = NoTransfer]
    BY <1>9 DEF Unregister
  <2> HIDE DEF d
  <2>3. QED
    BY <1>1, <1>2, <1>7, <1>8, <1>9, <2>1, <2>2, OneTransferMoves
<1>10. CASE Proceed(s, u)
  <2>1. tr' = [tr EXCEPT ![s] = u] /\ active' = active
    BY <1>10 DEF Proceed
  <2> HIDE DEF file
  <2>2. <<>> \in Seq(Chunks) /\ tr[s].offset + Len(r.data) \in Nat
    BY <1>2, <1>6 DEF Transfer
  <2>3. /\ t \in Transfer /\ t.entries = tr[s].entries /\ t.since = tr[s].since
        /\ t.linked = tr[s].linked /\ t.reply = r /\ t.expectedSize = tr[s].expectedSize
        /\ t.offset = Len(file) /\ t.hash = file
        /\ t.data = IF tr[s].linked THEN <<>> ELSE file
    BY <1>2, <1>3, <1>5, <1>6, <2>2 DEF Transfer
  <2> HIDE DEF t
  <2>4. /\ u \in Transfer /\ u.entries = t.entries /\ u.since = t.since
        /\ u.linked = t.linked /\ u.offset = t.offset /\ u.hash = t.hash /\ u.data = t.data
        /\ u.expectedSize = t.expectedSize
        /\ \/ u.pc = "close" /\ r.eof /\ u.reply = r
           \/ u.pc = "read"
    <3>1. CASE r.eof
      BY <2>3, <3>1 DEF Transfer, Steps
    <3>2. CASE ~r.eof
      BY <2>3, <3>2 DEF Transfer, Steps
    <3>3. QED
      BY <3>1, <3>2
  <2> HIDE DEF u
  <2>5. FromOf(u) = FromOf(tr[s]) /\ ToOf(u) = d
    BY <1>2, <2>3, <2>4 DEF FromOf, ToOf
  <2>6. /\ tr[s].entries # <<>> /\ tr[s].since \in Nat \ {0}
        /\ tr[s].since <= source[FromOf(tr[s])]
        /\ temp[d] # None => tr[s].linked
    BY <1>1, <1>2 DEF TransferOK, Working, HoldsFile, UsesPartial, Steps
  <2>7. /\ tr[s].linked => temp'[d] = file
        /\ ~tr[s].linked => temp'[d] = temp[d]
    BY <1>1, <1>2, <1>7 DEF FilesOK
  <2>8. OpenFile(u, temp') = file
    BY <2>3, <2>4, <2>5, <2>7 DEF OpenFile
  <2>9. u.pc \in HasReply => ReplyOK(u, source)
    BY <1>3, <2>3, <2>4, <2>5 DEF ReplyOK, HasReply
  <2>10. u.pc \in HoldsFile \ {"hash"} /\ u.pc \notin {"idle", "prepare", "claim", "open"}
         /\ u.pc \in Claimed
    BY <2>4 DEF HoldsFile, UsesPartial, Claimed
  <2> HIDE DEF d
  <2>11. TransferOK(u, source, temp')
    BY <1>6, <2>3, <2>4, <2>5, <2>6, <2>7, <2>8, <2>9, <2>10 DEF TransferOK
  <2>12. QED
    BY <1>1, <1>2, <1>7, <1>8, <2>1, <2>5, <2>10, <2>11, OneTransferMoves
<1>11. QED
  BY <1>1, <1>9, <1>10

\* The checks, then the rename.
LEMMA CommitInv ==
    ASSUME Inv, NEW s \in Sessions, Commit(s)
    PROVE  Inv'
<1> DEFINE t == [tr[s] EXCEPT !.pc = "unmeta", !.linked = FALSE]
           d == To(s)
<1>1. tr[s].pc = "close" /\ "close" \in Claimed /\ source' = source /\ abort' = abort
  BY DEF Commit, Claimed, UsesPartial
<1>2. CASE FailDiscarding(s)
  BY <1>1, <1>2, FailDiscardingOK
<1>3. CASE FailKeeping(s)
  BY <1>1, <1>3, FailKeepingOK
<1>4. CASE /\ temp[d] # None
           /\ dest' = [dest EXCEPT ![d] = temp[d]]
           /\ temp' = Without(temp, {d})
           /\ tr' = [Detached({d}) EXCEPT ![s] = t]
           /\ UNCHANGED <<meta, active, retained>>
  <2>1. tr[s] \in Transfer /\ TransferOK(tr[s], source, temp) /\ d = ToOf(tr[s]) /\ d \in Dests
    BY <1>1, SessionFacts
  <2>2. tr' = [tr EXCEPT ![s] = t]
    BY <1>1, <1>4, DetachedAlone
  <2>3. /\ t \in Transfer /\ t.pc = "unmeta" /\ ~t.linked
        /\ t.entries = tr[s].entries /\ t.since = tr[s].since
    BY <2>1 DEF Transfer, Steps
  <2> HIDE DEF t
  <2>4. FromOf(t) = FromOf(tr[s]) /\ ToOf(t) = ToOf(tr[s])
    BY <2>3 DEF FromOf, ToOf
  <2>5. /\ tr[s].entries # <<>> /\ tr[s].since \in Nat \ {0}
        /\ tr[s].since <= source[FromOf(tr[s])]
    BY <1>1, <2>1 DEF TransferOK, Working, Steps
  <2>6. TransferOK(t, source, temp')
    BY <2>3, <2>4, <2>5 DEF TransferOK, HoldsFile, HasReply, UsesPartial
  <2>7. FilesOK'
    BY <1>1, <1>4, <2>1 DEF Inv, FilesOK, Without
  <2>8. \A e \in Dests : e # ToOf(tr[s]) => temp'[e] = temp[e]
    BY <1>4, <2>1 DEF Without
  <2>9. t.pc \in Claimed /\ active' = active
    BY <1>4, <2>3 DEF Claimed, UsesPartial
  <2>10. QED
    BY <1>1, <2>2, <2>4, <2>6, <2>7, <2>8, <2>9, OneTransferMoves
<1>5. QED
  BY <1>2, <1>3, <1>4 DEF Commit

\* The metadata is removed; the next file or the end.
LEMMA FinishFileInv ==
    ASSUME Inv, NEW s \in Sessions, FinishFile(s)
    PROVE  Inv'
<1> DEFINE b == BeginFile(tr[s], Tail(tr[s].entries))
<1>1. /\ tr[s].pc = "unmeta" /\ "unmeta" \in Claimed
      /\ meta' = Without(meta, {To(s)})
      /\ retained' = [retained EXCEPT ![s] = @ \ {To(s)}]
      /\ active' = active \ {To(s)}
      /\ UNCHANGED <<source, dest, temp, abort>>
  BY DEF FinishFile, ReleaseHostPartial, Claimed, UsesPartial
<1>2. /\ tr \in [Sessions -> Transfer] /\ tr[s] \in Transfer
      /\ To(s) = ToOf(tr[s]) /\ tr[s].entries # <<>>
  BY <1>1, SessionFacts
<1>3. FilesOK /\ FilesOK'
  BY <1>1 DEF Inv, FilesOK, Without
<1>4. CASE Unregister(s)
  <2>1. TransferOK(NoTransfer, source, temp') /\ NoTransfer.pc \notin Claimed
    BY NoTransferOK DEF Claimed, UsesPartial
  <2>2. tr' = [tr EXCEPT ![s] = NoTransfer]
    BY <1>4 DEF Unregister
  <2>3. QED
    BY <1>1, <1>2, <1>3, <2>1, <2>2, OneTransferMoves
<1>5. CASE Len(tr[s].entries) # 1 /\ tr' = [tr EXCEPT ![s] = BeginFile(@, Tail(@.entries))]
  <2>1. tr[s].overwrite \in BOOLEAN /\ tr[s].cancelled \in BOOLEAN /\ tr[s].entries \in Seq(Entry)
    BY <1>2 DEF Transfer
  <2>2. Tail(tr[s].entries) \in Seq(Entry) /\ Tail(tr[s].entries) # <<>>
    <3>1. /\ Tail(tr[s].entries) \in Seq(Entry)
          /\ Len(Tail(tr[s].entries)) = Len(tr[s].entries) - 1
      BY <1>2, <2>1, HeadTailProperties
    <3>2. Len(tr[s].entries) \in Nat /\ Len(<<>>) = 0
      BY <2>1, LenProperties
    <3>3. Len(tr[s].entries) # 1
      BY <1>5
    <3>4. Len(Tail(tr[s].entries)) # 0
      BY <3>1, <3>2, <3>3
    <3>5. QED
      BY <3>1, <3>2, <3>4
  <2>3. TransferOK(b, source, temp) /\ b.pc = "prepare"
    <3> DEFINE e == Tail(tr[s].entries)
    <3>1. e \in Seq(Entry) /\ e # <<>>
      BY <2>2
    <3> HIDE DEF e
    <3>2. \A t : (t.overwrite \in BOOLEAN /\ t.cancelled \in BOOLEAN) =>
             TransferOK(BeginFile(t, e), source, temp) /\ BeginFile(t, e).pc = "prepare"
      BY <1>3, <3>1, BeginFileOK
    <3>3. QED
      BY <2>1, <3>2 DEF e
  <2>4. tr' = [tr EXCEPT ![s] = b]
    BY <1>2, <1>5
  <2> HIDE DEF b
  <2>5. b.pc \notin Claimed
    BY <2>3 DEF Claimed, UsesPartial
  <2>6. QED
    BY <1>1, <1>2, <1>3, <2>3, <2>4, <2>5, OneTransferMoves
<1>6. QED
  BY <1>4, <1>5 DEF FinishFile

\* A cleanup cancels the transfer of its session.
LEMMA AbortSessionInv ==
    ASSUME Inv, NEW s \in Sessions, AbortSession(s)
    PROVE  Inv'
<1> DEFINE c == (tr[s].pc # "idle")
           t == [tr[s] EXCEPT !.cancelled = c]
<1>1. /\ tr' = [tr EXCEPT ![s].cancelled = c]
      /\ abort' = [abort EXCEPT ![s] = retained[s] \cup HostTempPath(s)]
      /\ retained' = [retained EXCEPT ![s] = {}]
      /\ UNCHANGED <<source, dest, temp, meta, active>>
  BY DEF AbortSession
<1>2. /\ tr \in [Sessions -> Transfer] /\ tr[s] \in Transfer /\ TransferOK(tr[s], source, temp)
      /\ tr[s].pc # "idle" => To(s) \in Dests
  BY SessionFacts
<1>3. tr' = [tr EXCEPT ![s] = t]
  BY <1>1, <1>2
<1>4. HostTempPath(s) \subseteq Dests
  BY <1>2 DEF HostTempPath, UsesPartial
<1>5. FilesOK'
  BY <1>1, <1>4 DEF Inv, FilesOK
<1>6. /\ t \in Transfer /\ t.pc = tr[s].pc /\ t.entries = tr[s].entries /\ t.since = tr[s].since
      /\ t.linked = tr[s].linked /\ t.data = tr[s].data /\ t.offset = tr[s].offset
      /\ t.hash = tr[s].hash /\ t.reply = tr[s].reply /\ t.expectedSize = tr[s].expectedSize
  <2>1. c \in BOOLEAN
    OBVIOUS
  <2> HIDE DEF c
  <2>2. QED
    BY <1>2, <2>1 DEF Transfer
<1> HIDE DEF t
<1>7. FromOf(t) = FromOf(tr[s]) /\ ToOf(t) = ToOf(tr[s])
  BY <1>6 DEF FromOf, ToOf
<1>8. OpenFile(t, temp) = OpenFile(tr[s], temp) /\ (ReplyOK(tr[s], source) => ReplyOK(t, source))
  BY <1>6, <1>7 DEF OpenFile, ReplyOK
<1>9. TransferOK(t, source, temp)
  BY <1>2, <1>6, <1>7, <1>8 DEF TransferOK
<1>10. QED
  BY <1>1, <1>3, <1>5, <1>6, <1>7, <1>9, OneTransferMoves

\* A cleanup removes the partial files its session has left, under whoever has
\* opened one of them since.
LEMMA RemovePartialsInv ==
    ASSUME Inv, NEW s \in Sessions, RemovePartials(s)
    PROVE  Inv'
<1> DEFINE D == abort[s]
<1>1. /\ temp' = Without(temp, D) /\ meta' = Without(meta, D)
      /\ tr' = Detached(D)
      /\ abort' = [abort EXCEPT ![s] = None]
      /\ UNCHANGED <<source, dest, active, retained>>
      /\ D # None
  BY DEF RemovePartials
<1>2. FilesOK
  BY DEF Inv
<1>3. D \in SUBSET Dests
  BY <1>1, <1>2 DEF FilesOK
<1>4. FilesOK'
  BY <1>1, <1>2 DEF FilesOK, Without
<1>5. tr' = [o \in Sessions |-> Detach(tr[o], D, temp)]
  BY <1>1, DetachedIsDetach
<1> HIDE DEF D
<1>6. ASSUME NEW o \in Sessions
      PROVE  /\ TransferOK(tr'[o], source, temp')
             /\ tr'[o].pc = tr[o].pc
             /\ tr'[o].entries = tr[o].entries
  <2>1. TransferOK(tr[o], source, temp)
    BY DEF Inv, TransfersOK
  <2>2. /\ TransferOK(Detach(tr[o], D, temp), source, Without(temp, D))
        /\ Detach(tr[o], D, temp).pc = tr[o].pc
        /\ Detach(tr[o], D, temp).entries = tr[o].entries
    <3>1. temp \in [Dests -> Seq(Chunks) \cup {None}]
      BY <1>2 DEF FilesOK
    <3>2. DetachKeeps(tr[o], D, source, temp)
      BY <1>3, <2>1, <3>1, DetachOK
    <3>3. QED
      BY <3>2 DEF DetachKeeps
  <2>3. QED
    BY <1>1, <1>5, <2>2
<1>7. tr' \in [Sessions -> Transfer]
  <2>1. \A o \in Sessions : tr'[o] \in Transfer
    BY <1>6 DEF TransferOK
  <2>2. QED
    BY <1>5, <2>1
<1>8. Claims(tr', active')
  <2>1. \A o \in Sessions : ToOf(tr'[o]) = ToOf(tr[o])
    BY <1>6 DEF ToOf
  <2>2. QED
    BY <1>1, <1>6, <2>1 DEF Inv, Claims
<1>9. QED
  BY <1>1, <1>4, <1>6, <1>7, <1>8 DEF Inv, TransfersOK

\* The guest writes a source again.
LEMMA GuestFileChangesInv ==
    ASSUME Inv, NEW g \in Sources, GuestFileChanges(g)
    PROVE  Inv'
<1>1. /\ source[g] < Len(Sizes[g])
      /\ source' = [source EXCEPT ![g] = @ + 1]
      /\ UNCHANGED <<dest, temp, meta, active, retained, tr, abort>>
  BY DEF GuestFileChanges
<1>2. source \in [Sources -> Nat \ {0}] /\ \A h \in Sources : source[h] <= Len(Sizes[h])
  BY DEF Inv, FilesOK
<1>3. \A h \in Sources : Len(Sizes[h]) \in Nat
  BY PullAssumption, LenProperties
<1>4. /\ source' \in [Sources -> Nat \ {0}]
      /\ \A h \in Sources : source'[h] <= Len(Sizes[h])
      /\ \A h \in Sources : source[h] <= source'[h]
  BY <1>1, <1>2, <1>3
<1>5. FilesOK'
  BY <1>1, <1>4 DEF Inv, FilesOK
<1>6. ASSUME NEW s \in Sessions PROVE TransferOK(tr[s], source', temp)
  <2>1. TransferOK(tr[s], source, temp)
    BY DEF Inv, TransfersOK
  <2>2. source \in [Sources -> Nat] /\ source' \in [Sources -> Nat]
    BY <1>2, <1>4
  <2>3. QED
    BY <1>4, <2>1, <2>2, SourceGrows
<1>7. QED
  BY <1>1, <1>5, <1>6 DEF Inv, TransfersOK

\* The broker starts again with nothing but the files.
LEMMA CrashInv ==
    ASSUME Inv, Crash
    PROVE  Inv'
<1>1. /\ tr' = [s \in Sessions |-> NoTransfer]
      /\ abort' = [s \in Sessions |-> None]
      /\ retained' = [s \in Sessions |-> {}]
      /\ active' = {}
      /\ UNCHANGED <<source, dest, temp>>
  BY DEF Crash
<1>2. meta' \in [Dests -> PullMetadata \cup {None}]
  <2>1. PICK T \in SUBSET Dests : meta' = [d \in Dests |-> IF d \in T THEN Torn ELSE meta[d]]
    BY DEF Crash
  <2>2. Torn \in PullMetadata
    BY DEF Torn, PullMetadata
  <2>3. QED
    BY <2>1, <2>2 DEF Inv, FilesOK
<1>3. FilesOK'
  BY <1>1, <1>2 DEF Inv, FilesOK
<1>4. \A s \in Sessions : TransferOK(tr'[s], source', temp') /\ tr'[s].pc = "idle"
  BY <1>1, NoTransferOK
<1>5. TransfersOK'
  BY <1>1, <1>4 DEF TransfersOK, TransferOK
<1>6. Claims(tr', active')
  BY <1>4 DEF Claims, Claimed, UsesPartial
<1>7. QED
  BY <1>3, <1>5, <1>6 DEF Inv

-----------------------------------------------------------------------------
(* The specification *)

\* A broker that has just been started.
LEMMA InitInv == Init => Inv
<1> SUFFICES ASSUME Init PROVE Inv
  OBVIOUS
<1>1. \A g \in Sources : 1 <= Len(Sizes[g])
  <2>1. \A g \in Sources : Len(Sizes[g]) \in Nat /\ Len(Sizes[g]) > 0
    BY PullAssumption, LenProperties
  <2>2. QED
    BY <2>1
<1>2. FilesOK
  BY <1>1 DEF Init, FilesOK
<1>3. \A s \in Sessions : TransferOK(tr[s], source, temp) /\ tr[s].pc = "idle"
  BY NoTransferOK DEF Init
<1>4. TransfersOK
  BY <1>3 DEF Init, TransfersOK, TransferOK
<1>5. Claims(tr, active)
  BY <1>3 DEF Claims, Claimed, UsesPartial
<1>6. QED
  BY <1>2, <1>4, <1>5 DEF Inv

\* Every step of a transfer, a cleanup, the guest or a crash keeps the invariant.
LEMMA NextInv == Inv /\ [Next]_vars => Inv'
<1> SUFFICES ASSUME Inv, [Next]_vars PROVE Inv'
  OBVIOUS
<1>1. ASSUME NEW s \in Sessions, TransferStep(s) PROVE Inv'
  BY <1>1, ListTreeInv, PrepareInv, ClaimInv, OpenPullPartialInv, OpenFailsInv, HashPrefixInv,
     TakeChunkInv, ReadFailsInv, WritePullMetadataInv, WriteChunkInv, CommitInv, FinishFileInv
     DEF TransferStep
<1>2. CASE UNCHANGED vars
  <2>1. UNCHANGED <<source, dest, temp, meta, active, retained, tr, abort>>
    BY <1>2 DEF vars
  <2>2. QED
    BY <2>1 DEF Inv, FilesOK, TransfersOK
<1>3. QED
  BY <1>1, <1>2, BeginInv, AbortSessionInv, RemovePartialsInv, GuestFileChangesInv, CrashInv
     DEF Next

\* The invariant always holds.
THEOREM PullSound == Spec => []Inv
  BY InitInv, NextInv, PTL DEF Spec

\* Files, metadata, claims and transfers keep their types.
THEOREM PullTypeCorrect == Spec => []TypeOK
<1>1. Inv => TypeOK
  BY DEF Inv, FilesOK, TransfersOK, TypeOK, Transfer, Entry
<1>2. QED
  BY <1>1, PullSound, PTL

\* The file a pull renames is the one it hashed, for any number of sessions, files
\* and versions: resumes, the rm of a cleanup, and crashes included.
THEOREM PullRenamesHashedFile == Spec => []RenamesHashedFile
<1>1. Inv => RenamesHashedFile
  <2> SUFFICES ASSUME Inv, NEW s \in Sessions
               PROVE  /\ HostTempPath(s) \cap UNION {HostTempPath(o) : o \in Sessions \ {s}} = {}
                      /\ tr[s].pc \in {"read", "meta", "write", "close"} =>
                            /\ FileOf(s) = tr[s].hash
                            /\ temp[To(s)] # None => tr[s].linked
    BY DEF RenamesHashedFile
  <2>1. \A o \in Sessions : To(o) = ToOf(tr[o])
    BY SessionFacts
  <2>2. HostTempPath(s) \cap UNION {HostTempPath(o) : o \in Sessions \ {s}} = {}
    <3>1. SUFFICES ASSUME NEW o \in Sessions, o # s, NEW d \in HostTempPath(s), d \in HostTempPath(o)
                   PROVE  FALSE
      OBVIOUS
    <3>2. tr[s].pc \in Claimed /\ tr[o].pc \in Claimed /\ d = To(s) /\ d = To(o)
      BY <3>1 DEF HostTempPath, Claimed
    <3>3. QED
      BY <2>1, <3>1, <3>2 DEF Inv, Claims
  <2>3. TransferOK(tr[s], source, temp)
    BY SessionFacts
  <2>4. FileOf(s) = OpenFile(tr[s], temp)
    BY <2>1 DEF FileOf, OpenFile
  <2>5. QED
    BY <2>1, <2>2, <2>3, <2>4 DEF TransferOK, HoldsFile, UsesPartial
<1>2. QED
  BY <1>1, PullSound, PTL

-----------------------------------------------------------------------------
(* Pull implements AtomicCopy *)

\* The copy a transfer stands for.
CopyOf(t) == [from |-> FromOf(t), to |-> ToOf(t), since |-> t.since]

\* After a step from t to u the transfer is at no other copy than before.
Continues(t, u) ==
    u.pc \in Working => t.pc \in Working /\ u.entries = t.entries /\ u.since = t.since

\* Copies is the set of the copies the working transfers stand for.
LEMMA CopiesMeaning ==
    ASSUME tr \in [Sessions -> Transfer]
    PROVE  Copies = {CopyOf(tr[s]) : s \in {o \in Sessions : tr[o].pc \in Working}}
<1>1. \A o \in Sessions : tr[o].pc \notin {"idle", "list"} <=> tr[o].pc \in Working
  BY DEF Transfer, Working
<1>2. \A o \in Sessions : CopyOf(tr[o]) = [from |-> From(o), to |-> To(o), since |-> tr[o].since]
  BY DEF CopyOf, FromOf, ToOf, From, To
<1>3. QED
  BY <1>1, <1>2 DEF Copies

\* Copies after a step in which transfers continue, end, or begin one of extra.
LEMMA CopiesAfter ==
    ASSUME Inv, Inv', NEW extra,
           \A o \in Sessions : Continues(tr[o], tr'[o]) \/ CopyOf(tr'[o]) \in extra
    PROVE  Copies' \subseteq Copies \cup extra
<1>1. Copies = {CopyOf(tr[s]) : s \in {o \in Sessions : tr[o].pc \in Working}}
  BY CopiesMeaning DEF Inv, TransfersOK
<1>2. Copies' = {CopyOf(tr'[s]) : s \in {o \in Sessions : tr'[o].pc \in Working}}
  <2>1. tr' \in [Sessions -> Transfer]
    BY DEF Inv, TransfersOK
  <2>2. \A o \in Sessions : tr'[o].pc \notin {"idle", "list"} <=> tr'[o].pc \in Working
    BY <2>1 DEF Transfer, Working
  <2>3. \A o \in Sessions :
            CopyOf(tr'[o]) = [from |-> From(o)', to |-> To(o)', since |-> tr'[o].since]
    BY DEF CopyOf, FromOf, ToOf, From, To
  <2>4. QED
    BY <2>2, <2>3 DEF Copies
<1>3. ASSUME NEW s \in Sessions, tr'[s].pc \in Working
      PROVE  CopyOf(tr'[s]) \in Copies \cup extra
  <2>1. CASE Continues(tr[s], tr'[s])
    <3>1. tr[s].pc \in Working /\ CopyOf(tr'[s]) = CopyOf(tr[s])
      BY <1>3, <2>1 DEF Continues, CopyOf, FromOf, ToOf
    <3>2. QED
      BY <1>1, <3>1
  <2>2. QED
    BY <2>1
<1>4. QED
  BY <1>2, <1>3

\* Such a step that replaces no file is a Stop of AtomicCopy.
LEMMA StopStep ==
    ASSUME Inv, Inv', UNCHANGED <<source, dest>>,
           \A o \in Sessions : Continues(tr[o], tr'[o])
    PROVE  Copying!Next
<1>1. Copies' \subseteq Copies \cup {}
  BY CopiesAfter
<1>2. Copying!Stop
  BY <1>1 DEF Copying!Stop
<1>3. QED
  BY <1>2 DEF Copying!Next

\* A step of one transfer that continues, or ends.
LEMMA ContinuesOne ==
    ASSUME Inv, NEW s \in Sessions, NEW t, tr' = [tr EXCEPT ![s] = t], Continues(tr[s], t)
    PROVE  \A o \in Sessions : Continues(tr[o], tr'[o])
<1>1. tr \in [Sessions -> Transfer]
  BY DEF Inv, TransfersOK
<1>2. QED
  BY <1>1 DEF Continues

\* The end of a transfer is no new copy.
LEMMA ContinuesEnd ==
    ASSUME NEW t
    PROVE  Continues(t, NoTransfer)
  BY NoTransferOK DEF Continues, Working

\* A file is begun: a Start of AtomicCopy.
LEMMA StartStep ==
    ASSUME Inv, Inv', NEW s \in Sessions, NEW t, NEW entries \in Seq(Entry), entries # <<>>,
           tr' = [tr EXCEPT ![s] = BeginFile(t, entries)],
           t.overwrite \in BOOLEAN, t.cancelled \in BOOLEAN,
           UNCHANGED <<source, dest>>
    PROVE  Copying!Next
<1> DEFINE g == Head(entries).from
           d == Head(entries).to
           b == BeginFile(t, entries)
           c == [from |-> g, to |-> d, since |-> source[g]]
<1>1. g \in Sources /\ d \in Dests
  <2>1. Head(entries) \in Entry
    BY HeadTailProperties
  <2>2. QED
    BY <2>1 DEF Entry
<1>2. b.entries = entries /\ b.since = source[g]
  BY BeginFileOK DEF Inv
<1>3. CopyOf(b) = c
  BY <1>2 DEF CopyOf, FromOf, ToOf
<1>4. tr \in [Sessions -> Transfer] /\ tr' = [tr EXCEPT ![s] = b]
  BY DEF Inv, TransfersOK
<1> HIDE DEF b, c
<1>5. \A o \in Sessions : Continues(tr[o], tr'[o]) \/ CopyOf(tr'[o]) \in {c}
  BY <1>3, <1>4 DEF Continues
<1>6. Copies' \subseteq Copies \cup {c}
  BY <1>5, CopiesAfter
<1>7. Copying!Start(g, d)
  BY <1>6 DEF Copying!Start, c
<1>8. QED
  BY <1>1, <1>7 DEF Copying!Next

\* The rename is a Replace of AtomicCopy: what is at the path of the partial is
\* what was hashed, and the hash is that of a version of the source.
LEMMA ReplaceStep ==
    ASSUME Inv, Inv', NEW s \in Sessions, tr[s].pc = "close", Verified(s),
           temp[To(s)] # None,
           dest' = [dest EXCEPT ![To(s)] = temp[To(s)]],
           tr' = [tr EXCEPT ![s] = [tr[s] EXCEPT !.pc = "unmeta", !.linked = FALSE]],
           source' = source
    PROVE  Copying!Next
<1> DEFINE c == CopyOf(tr[s])
           t == [tr[s] EXCEPT !.pc = "unmeta", !.linked = FALSE]
<1>1. /\ tr \in [Sessions -> Transfer] /\ tr[s] \in Transfer /\ TransferOK(tr[s], source, temp)
      /\ To(s) = ToOf(tr[s]) /\ From(s) = FromOf(tr[s])
  BY SessionFacts
<1>2. c \in Copies
  <2>1. tr[s].pc \in Working
    BY DEF Working, Steps
  <2>2. QED
    BY <1>1, <2>1, CopiesMeaning
<1>3. c.from = From(s) /\ c.to = To(s) /\ c.since = tr[s].since
  BY <1>1 DEF CopyOf
<1>4. temp[To(s)] = tr[s].hash
  BY <1>1 DEF TransferOK, HoldsFile, UsesPartial, OpenFile
<1>5. tr[s].hash = tr[s].reply.sha256
  BY DEF Verified
<1>6. PICK v \in tr[s].since .. source[FromOf(tr[s])] :
              tr[s].reply.sha256 = Content(FromOf(tr[s]), v)
  BY <1>1 DEF TransferOK, HasReply, ReplyOK
<1>7. t.entries = tr[s].entries /\ t.since = tr[s].since
  BY <1>1 DEF Transfer
<1>8. Continues(tr[s], t)
  BY <1>7 DEF Continues, Working, Steps
<1>9. Copies' \subseteq Copies
  <2>1. \A o \in Sessions : Continues(tr[o], tr'[o])
    BY <1>8, ContinuesOne
  <2>2. Copies' \subseteq Copies \cup {}
    BY <2>1, CopiesAfter
  <2>3. QED
    BY <2>2
<1>10. dest' = [dest EXCEPT ![c.to] = Content(c.from, v)]
  BY <1>1, <1>3, <1>4, <1>5, <1>6
<1>11. v \in c.since .. source[c.from]
  BY <1>1, <1>3, <1>6
<1> HIDE DEF c
<1>12. Copying!Replace(c)
  BY <1>9, <1>10, <1>11 DEF Copying!Replace
<1>13. QED
  BY <1>2, <1>12 DEF Copying!Next

\* The steps of a transfer.
LEMMA TransferStepRefines ==
    ASSUME Inv, Inv', NEW s \in Sessions, TransferStep(s)
    PROVE  Copying!Next
<1>1. tr \in [Sessions -> Transfer] /\ tr[s] \in Transfer
      /\ (tr[s].pc # "idle" => tr[s].entries # <<>>)
  BY SessionFacts
<1>2. /\ tr[s].entries \in Seq(Entry) /\ tr[s].overwrite \in BOOLEAN /\ tr[s].cancelled \in BOOLEAN
  BY <1>1 DEF Transfer
<1>u. ASSUME Unregister(s), UNCHANGED <<source, dest>> PROVE Copying!Next
  BY <1>u, ContinuesEnd, ContinuesOne, StopStep DEF Unregister
<1>k. ASSUME FailKeeping(s), source' = source PROVE Copying!Next
  BY <1>k, <1>u DEF FailKeeping
<1>d. ASSUME FailDiscarding(s), source' = source, tr[s].pc \in Claimed PROVE Copying!Next
  <2>1. tr' = [tr EXCEPT ![s] = NoTransfer] /\ dest' = dest
    BY <1>d, DetachedAlone DEF FailDiscarding
  <2>2. QED
    BY <1>d, <2>1, ContinuesEnd, ContinuesOne, StopStep
<1>p. ASSUME NEW t, tr' = [tr EXCEPT ![s] = t], UNCHANGED <<source, dest>>,
             tr[s].pc \in Working, t.entries = tr[s].entries, t.since = tr[s].since
      PROVE  Copying!Next
  <2>1. Continues(tr[s], t)
    BY <1>p DEF Continues
  <2>2. QED
    BY <1>p, <2>1, ContinuesOne, StopStep
<1>3. CASE ListTree(s)
  <2>1. tr[s].pc = "list" /\ UNCHANGED <<source, dest>>
    BY <1>3 DEF ListTree
  <2>2. CASE Unregister(s)
    BY <1>u, <2>1, <2>2
  <2>3. CASE tr' = [tr EXCEPT ![s] = BeginFile(@, @.entries)]
    <3>1. tr' = [tr EXCEPT ![s] = BeginFile(tr[s], tr[s].entries)]
      BY <1>1, <2>3
    <3>2. QED
      BY <1>1, <1>2, <2>1, <3>1, StartStep
  <2>4. QED
    BY <1>3, <2>2, <2>3 DEF ListTree
<1>4. CASE ListFails(s)
  BY <1>4, <1>u DEF ListFails
<1>5. CASE Prepare(s)
  <2>1. tr[s].pc = "prepare" /\ UNCHANGED <<source, dest>>
    BY <1>5 DEF Prepare
  <2>2. CASE Unregister(s)
    BY <1>u, <2>1, <2>2
  <2>3. CASE Goto(s, "claim")
    <3> DEFINE t == [tr[s] EXCEPT !.pc = "claim"]
    <3>1. tr' = [tr EXCEPT ![s] = t] /\ t.entries = tr[s].entries /\ t.since = tr[s].since
      BY <1>1, <2>3 DEF Goto, Transfer
    <3> HIDE DEF t
    <3>2. QED
      BY <1>p, <2>1, <3>1 DEF Working, Steps
  <2>4. QED
    BY <1>5, <2>2, <2>3 DEF Prepare
<1>6. CASE Claim(s)
  <2>1. tr[s].pc = "claim" /\ UNCHANGED <<source, dest>>
    BY <1>6 DEF Claim
  <2>2. CASE Unregister(s)
    BY <1>u, <2>1, <2>2
  <2>3. CASE Goto(s, "open")
    <3> DEFINE t == [tr[s] EXCEPT !.pc = "open"]
    <3>1. tr' = [tr EXCEPT ![s] = t] /\ t.entries = tr[s].entries /\ t.since = tr[s].since
      BY <1>1, <2>3 DEF Goto, Transfer
    <3> HIDE DEF t
    <3>2. QED
      BY <1>p, <2>1, <3>1 DEF Working, Steps
  <2>4. QED
    BY <1>6, <2>2, <2>3 DEF Claim
<1>7. CASE OpenPullPartial(s)
  <2> DEFINE d == To(s)
             a == [tr[s] EXCEPT !.pc = "hash", !.linked = TRUE, !.noted = TRUE,
                                !.offset = Len(temp[d]),
                                !.expectedSize = meta[d].expectedSize]
             b == [tr[s] EXCEPT !.pc = "hash", !.linked = TRUE]
  <2>1. tr[s].pc = "open" /\ UNCHANGED <<source, dest>>
    BY <1>7 DEF OpenPullPartial
  <2>2. tr' = [tr EXCEPT ![s].pc = "hash", ![s].linked = TRUE, ![s].noted = TRUE,
                         ![s].offset = Len(temp[d]), ![s].expectedSize = meta[d].expectedSize]
        \/ tr' = [Detached({d}) EXCEPT ![s].pc = "hash", ![s].linked = TRUE]
    BY <1>7 DEF OpenPullPartial
  <2>3. Detached({d}) = tr
    <3>1. ~tr[s].linked /\ tr[s].pc \in Claimed
      BY <2>1, SessionFacts DEF TransferOK, HoldsFile, UsesPartial, Claimed
    <3>2. QED
      BY <3>1, DetachedAlone
  <2>4. tr' = [tr EXCEPT ![s] = a] \/ tr' = [tr EXCEPT ![s] = b]
    BY <1>1, <2>2, <2>3
  <2>5. /\ a.entries = tr[s].entries /\ a.since = tr[s].since
        /\ b.entries = tr[s].entries /\ b.since = tr[s].since
    BY <1>1 DEF Transfer
  <2> HIDE DEF a, b
  <2>6. QED
    BY <1>p, <2>1, <2>4, <2>5 DEF Working, Steps
<1>8. CASE OpenFails(s)
  <2>1. tr[s].pc \in Claimed /\ UNCHANGED <<source, dest>>
        /\ tr' = [Detached({To(s)}) EXCEPT ![s] = NoTransfer]
    BY <1>8 DEF OpenFails, Claimed
  <2>2. tr' = [tr EXCEPT ![s] = NoTransfer]
    BY <2>1, DetachedAlone
  <2>3. QED
    BY <2>1, <2>2, ContinuesEnd, ContinuesOne, StopStep
<1>9. CASE HashPrefix(s)
  <2> DEFINE t == [tr[s] EXCEPT !.pc = "read", !.hash = SubSeq(FileOf(s), 1, tr[s].offset)]
  <2>1. tr[s].pc = "hash" /\ source' = source /\ (FailKeeping(s) \/ Proceed(s, t))
    BY <1>9 DEF HashPrefix
  <2>2. t.entries = tr[s].entries /\ t.since = tr[s].since
    BY <1>1 DEF Transfer
  <2> HIDE DEF t
  <2>3. QED
    BY <1>k, <1>p, <2>1, <2>2 DEF Proceed, Working, Steps
<1>10. CASE TakeChunk(s)
  <2> DEFINE r == FileReadChunk(From(s), tr[s].offset)
             size == IF tr[s].expectedSize = None THEN r.size ELSE tr[s].expectedSize
             t == [tr[s] EXCEPT !.reply = r, !.expectedSize = size]
             u == IF t.noted THEN TakeData(t) ELSE [t EXCEPT !.pc = "meta"]
  <2>1. tr[s].pc = "read" /\ source' = source /\ (FailDiscarding(s) \/ Proceed(s, u))
    BY <1>10 DEF TakeChunk
  <2> HIDE DEF r, size
  <2>2. /\ t.entries = tr[s].entries /\ t.since = tr[s].since
        /\ DOMAIN t = DOMAIN tr[s]
    BY <1>1 DEF Transfer
  <2>3. DOMAIN tr[s] = {"pc", "entries", "overwrite", "cancelled", "linked", "data", "offset",
                        "expectedSize", "noted", "hash", "reply", "since"}
    BY <1>1 DEF Transfer
  <2> HIDE DEF t
  <2>4. u.entries = t.entries /\ u.since = t.since
    BY <2>2, <2>3 DEF TakeData
  <2> HIDE DEF u
  <2>5. QED
    BY <1>d, <1>p, <2>1, <2>2, <2>4 DEF Proceed, Working, Steps, Claimed, UsesPartial
<1>11. CASE ReadFails(s)
  BY <1>11, <1>k DEF ReadFails
<1>12. CASE WritePullMetadata(s)
  <2> DEFINE t == TakeData([tr[s] EXCEPT !.noted = TRUE])
  <2>1. tr[s].pc = "meta" /\ source' = source /\ (FailKeeping(s) \/ Proceed(s, t))
    BY <1>12 DEF WritePullMetadata
  <2>2. t.entries = tr[s].entries /\ t.since = tr[s].since
    BY <1>1 DEF TakeData, Transfer
  <2> HIDE DEF t
  <2>3. QED
    BY <1>k, <1>p, <2>1, <2>2 DEF Proceed, Working, Steps
<1>13. CASE WriteChunk(s)
  <2> DEFINE r == tr[s].reply
             file == WriteAt(FileOf(s), tr[s].offset, r.data)
             t == [tr[s] EXCEPT !.offset = @ + Len(r.data), !.hash = @ \o r.data,
                                !.data = IF tr[s].linked THEN <<>> ELSE file]
             u == IF r.eof THEN [t EXCEPT !.pc = "close"]
                           ELSE [t EXCEPT !.pc = "read", !.reply = None]
  <2>1. tr[s].pc = "write" /\ source' = source
        /\ ((Unregister(s) /\ dest' = dest) \/ Proceed(s, u))
    BY <1>13 DEF WriteChunk
  <2>2. u.entries = tr[s].entries /\ u.since = tr[s].since
    <3> HIDE DEF r, file
    <3>1. /\ t.entries = tr[s].entries /\ t.since = tr[s].since
          /\ DOMAIN t = {"pc", "entries", "overwrite", "cancelled", "linked", "data", "offset",
                         "expectedSize", "noted", "hash", "reply", "since"}
      BY <1>1 DEF Transfer
    <3> HIDE DEF t
    <3>2. QED
      BY <3>1
  <2> HIDE DEF u
  <2>3. QED
    BY <1>u, <1>p, <2>1, <2>2 DEF Proceed, Working, Steps
<1>14. CASE Commit(s)
  <2> DEFINE t == [tr[s] EXCEPT !.pc = "unmeta", !.linked = FALSE]
  <2>1. tr[s].pc = "close" /\ source' = source /\ tr[s].pc \in Claimed
    BY <1>14 DEF Commit, Claimed, UsesPartial
  <2>2. CASE FailDiscarding(s) \/ FailKeeping(s)
    BY <1>d, <1>k, <2>1, <2>2
  <2>3. CASE /\ Verified(s) /\ temp[To(s)] # None
             /\ dest' = [dest EXCEPT ![To(s)] = temp[To(s)]]
             /\ tr' = [Detached({To(s)}) EXCEPT ![s] = t]
    <3>1. tr' = [tr EXCEPT ![s] = t]
      BY <2>1, <2>3, DetachedAlone
    <3>2. QED
      BY <2>1, <2>3, <3>1, ReplaceStep
  <2>4. QED
    BY <1>14, <2>2, <2>3 DEF Commit
<1>15. CASE FinishFile(s)
  <2>1. tr[s].pc = "unmeta" /\ UNCHANGED <<source, dest>>
    BY <1>15 DEF FinishFile
  <2>2. CASE Unregister(s)
    BY <1>u, <2>1, <2>2
  <2>3. CASE Len(tr[s].entries) # 1 /\ tr' = [tr EXCEPT ![s] = BeginFile(@, Tail(@.entries))]
    <3> DEFINE e == Tail(tr[s].entries)
    <3>1. e \in Seq(Entry) /\ Len(e) = Len(tr[s].entries) - 1
      BY <1>1, <1>2, <2>1, HeadTailProperties
    <3>2. Len(tr[s].entries) \in Nat /\ Len(tr[s].entries) # 1
      BY <1>2, <2>3, LenProperties
    <3>3. tr' = [tr EXCEPT ![s] = BeginFile(tr[s], e)]
      BY <1>1, <2>3
    <3> HIDE DEF e
    <3>4. Len(e) # 0 /\ Len(<<>>) = 0
      BY <3>1, <3>2
    <3>5. e # <<>>
      BY <3>4
    <3>6. QED
      BY <1>2, <2>1, <3>1, <3>3, <3>5, StartStep
  <2>4. QED
    BY <1>15, <2>2, <2>3 DEF FinishFile
<1>16. QED
  BY <1>3, <1>4, <1>5, <1>6, <1>7, <1>8, <1>9, <1>10, <1>11, <1>12, <1>13, <1>14, <1>15
     DEF TransferStep

\* Every step of Pull is a step of AtomicCopy or changes nothing it sees.
LEMMA NextRefines == Inv /\ Inv' /\ [Next]_vars => [Copying!Next]_(Copying!vars)
<1> SUFFICES ASSUME Inv, Inv', [Next]_vars PROVE [Copying!Next]_(Copying!vars)
  OBVIOUS
<1>0. tr \in [Sessions -> Transfer]
  BY DEF Inv, TransfersOK
<1>1. ASSUME NEW s \in Sessions, NEW r \in Requests, NEW o \in Overwrites, Begin(s, r, o)
      PROVE  Copying!Next
  <2>1. UNCHANGED <<source, dest>>
    BY <1>1 DEF Begin
  <2>2. r.entries \in Seq(Entry) /\ o \in BOOLEAN /\ r.entries # <<>>
    <3>1. r \in [dir : BOOLEAN, entries : Seq(Entry)] /\ o \in BOOLEAN /\ Len(r.entries) > 0
      BY PullAssumption DEF Entry
    <3>2. Len(<<>>) = 0
      OBVIOUS
    <3>3. QED
      BY <3>1, <3>2
  <2>3. CASE r.dir
    <3> DEFINE k == [NoTransfer EXCEPT !.pc = "list", !.entries = r.entries, !.overwrite = o]
    <3>1. tr' = [tr EXCEPT ![s] = k]
      BY <1>1, <2>3 DEF Begin
    <3>2. k.pc = "list"
      BY DEF NoTransfer
    <3> HIDE DEF k
    <3>3. Continues(tr[s], k)
      BY <3>2 DEF Continues, Working
    <3>4. QED
      BY <2>1, <3>1, <3>3, ContinuesOne, StopStep
  <2>4. CASE ~r.dir
    <3> DEFINE n == [NoTransfer EXCEPT !.overwrite = o]
    <3>1. tr' = [tr EXCEPT ![s] = BeginFile(n, r.entries)]
      BY <1>1, <2>4 DEF Begin
    <3>2. n.overwrite \in BOOLEAN /\ n.cancelled \in BOOLEAN
      BY <2>2 DEF NoTransfer
    <3> HIDE DEF n
    <3>3. QED
      BY <2>1, <2>2, <3>1, <3>2, StartStep
  <2>5. QED
    BY <2>3, <2>4
<1>2. ASSUME NEW s \in Sessions, AbortSession(s) PROVE Copying!Next
  <2> DEFINE t == [tr[s] EXCEPT !.cancelled = (tr[s].pc # "idle")]
  <2>1. tr' = [tr EXCEPT ![s] = t] /\ UNCHANGED <<source, dest>>
    BY <1>0, <1>2 DEF AbortSession
  <2>2. t.pc = tr[s].pc /\ t.entries = tr[s].entries /\ t.since = tr[s].since
    BY <1>0 DEF Transfer
  <2> HIDE DEF t
  <2>3. Continues(tr[s], t)
    BY <2>2 DEF Continues
  <2>4. QED
    BY <2>1, <2>3, ContinuesOne, StopStep
<1>3. ASSUME NEW s \in Sessions, RemovePartials(s) PROVE Copying!Next
  <2> DEFINE D == abort[s]
  <2>1. UNCHANGED <<source, dest>> /\ tr' = Detached(D) /\ D # None
    BY <1>3 DEF RemovePartials
  <2>2. D \in SUBSET Dests /\ temp \in [Dests -> Seq(Chunks) \cup {None}]
    BY <2>1 DEF Inv, FilesOK
  <2>3. tr' = [o \in Sessions |-> Detach(tr[o], D, temp)]
    BY <2>1, DetachedIsDetach
  <2> HIDE DEF D
  <2>4. ASSUME NEW o \in Sessions PROVE Continues(tr[o], tr'[o])
    <3>1. TransferOK(tr[o], source, temp)
      BY DEF Inv, TransfersOK
    <3>2. /\ TransferOK(Detach(tr[o], D, temp), source, Without(temp, D))
          /\ Detach(tr[o], D, temp).pc = tr[o].pc
          /\ Detach(tr[o], D, temp).entries = tr[o].entries
          /\ Detach(tr[o], D, temp).since = tr[o].since
      <4>1. DetachKeeps(tr[o], D, source, temp)
        BY <2>2, <3>1, DetachOK
      <4>2. QED
        BY <4>1 DEF DetachKeeps
    <3>3. QED
      BY <2>3, <3>2 DEF Continues
  <2>5. QED
    BY <2>1, <2>4, StopStep
<1>4. ASSUME NEW g \in Sources, GuestFileChanges(g) PROVE Copying!Next
  <2>1. /\ source' = [source EXCEPT ![g] = @ + 1]
        /\ UNCHANGED <<dest, tr>>
    BY <1>4 DEF GuestFileChanges
  <2>2. Copies' = Copies
    BY <2>1 DEF Copies, From, To
  <2>3. Copying!Change(g)
    BY <2>1, <2>2 DEF Copying!Change
  <2>4. QED
    BY <2>3 DEF Copying!Next
<1>5. CASE Crash
  <2>1. UNCHANGED <<source, dest>> /\ tr' = [s \in Sessions |-> NoTransfer]
    BY <1>5 DEF Crash
  <2>2. \A o \in Sessions : Continues(tr[o], tr'[o])
    BY <2>1, ContinuesEnd
  <2>3. QED
    BY <2>1, <2>2, StopStep
<1>6. CASE UNCHANGED vars
  <2>1. UNCHANGED <<source, dest, tr>>
    BY <1>6 DEF vars
  <2>2. Copies' = Copies
    BY <2>1 DEF Copies, From, To
  <2>3. QED
    BY <2>1, <2>2 DEF Copying!vars
<1>7. QED
  BY <1>1, <1>2, <1>3, <1>4, <1>5, <1>6, TransferStepRefines DEF Next

\* A pull implements AtomicCopy: a host file is replaced in one step and by a
\* complete version that the guest had since the call began, whatever is
\* interleaved and wherever the broker crashes.
THEOREM PullImplementsAtomicCopy == Spec => PullIsAtomic
<1>1. Init => Copying!Init
  <2> SUFFICES ASSUME Init PROVE Copying!Init
    OBVIOUS
  <2>1. \A s \in Sessions : tr[s].pc = "idle"
    BY DEF Init, NoTransfer
  <2>2. Copies = {}
    BY <2>1 DEF Copies
  <2>3. QED
    BY <2>2 DEF Init, Copying!Init
<1>2. Spec => Copying!Init /\ [][Copying!Next]_(Copying!vars)
  BY <1>1, NextRefines, PullSound, PTL DEF Spec
<1>3. QED
  BY <1>2 DEF PullIsAtomic, Copying!Spec
=============================================================================
