---------------------------- MODULE CaptureProofs ----------------------------
(***************************************************************************)
(* Proofs about Capture for any number of calls, frames and files and for  *)
(* any limits: what a call stores is its own capture, every stream of the  *)
(* registry has an owner, and the artifact directory stays in its bound.   *)
(*                                                                         *)
(* Two facts carry the argument.  The guest gives a stream id once per     *)
(* connection, so that at most one answer or one call names it             *)
(* (IdsAreFresh).  And only the first operation of the maintenance chain   *)
(* has read the directory, so that what it read is still true (Chain).     *)
(***************************************************************************)
EXTENDS Capture, SequenceTheorems, FiniteSetTheorems, WellFoundedInduction, TLAPS

OpRecord == [stage : {"none", "scan", "evict", "write"}, bytes : Nat,
             listing : Seq(Artifact), total : Nat]

CallsTyped ==
    /\ phase \in [Calls -> Phases]
    /\ want \in [Calls -> Descriptor \cup {None}]
    /\ image \in [Calls -> Seq(Payload)]
    /\ pending \subseteq Calls

\* No frame of a data stream, and no answer that names one, has the id 0.
FrameOK(f) ==
    /\ f \in Frame
    /\ f.type = "data" => f.streamId # 0

NetTyped ==
    /\ conn \in {"up", "failing", "down"}
    /\ inbox \in Seq(Calls) /\ nextStream \in Nat /\ wire \in Seq(Frame)
    /\ \A i \in 1 .. Len(wire) : FrameOK(wire[i])

StreamsTyped == \A id \in DOMAIN streams : id \in Nat \ {0} /\ streams[id] \in Stream

StoreTyped ==
    /\ running \in BOOLEAN /\ files \in Seq(Artifact)
    /\ maintenance \in Seq(Calls \cup {Boot})
    /\ op \in [Calls \cup {Boot} -> OpRecord]

\* A descriptor that names a data stream.
Streamed(d) == d # None /\ ~d.inline

\* The calls between their answer and the end of processGuestResponse's wait.
Active(c) == phase[c] \in {"answered", "waiting", "woken"} /\ Streamed(want[c])

\* The frames on the wire that name a data stream.
Names(i) == wire[i].type = "response" /\ Streamed(wire[i].descriptor)

(* A stream id is named once: by one answer on the wire, or by one call. *)
IdsAreFresh ==
    /\ \A i \in 1 .. Len(wire) : Names(i) => wire[i].descriptor.streamId \in 1 .. nextStream
    /\ \A c \in Calls : Active(c) => want[c].streamId \in 1 .. nextStream
    /\ \A i, j \in 1 .. Len(wire) :
          Names(i) /\ Names(j) /\ i # j => wire[i].descriptor.streamId # wire[j].descriptor.streamId
    /\ \A c \in Calls, i \in 1 .. Len(wire) :
          Active(c) /\ Names(i) => want[c].streamId # wire[i].descriptor.streamId
    /\ \A c, d \in Calls : Active(c) /\ Active(d) /\ c # d => want[c].streamId # want[d].streamId

(* Who waits for a stream has claimed it, and a claimed stream has someone. *)
Claims(c, id) == phase[c] \in {"waiting", "woken"} /\ want[c].streamId = id

ClaimsMatch ==
    /\ \A c \in Calls : phase[c] \in {"waiting", "woken"} =>
          /\ Streamed(want[c])
          /\ want[c].streamId \in DOMAIN streams
          /\ ~streams[want[c].streamId].retention
    /\ \A id \in DOMAIN streams : ~streams[id].retention => \E c \in Calls : Claims(c, id)

(* Once the connection is down, nothing of it is left. *)
DownIsEmpty ==
    conn = "down" =>
        /\ inbox = <<>> /\ wire = <<>> /\ pending = {}
        /\ \A c \in Calls : phase[c] \notin {"answered", "waiting", "woken"}

(* A request that waits for its answer is asked; a put is in the chain once. *)
CallsWhere ==
    /\ \A c \in pending : phase[c] = "asked"
    /\ \A i \in 1 .. Len(maintenance) :
          maintenance[i] \in Calls => phase[maintenance[i]] = "storing"
    /\ \A i, j \in 1 .. Len(maintenance) : i # j => maintenance[i] # maintenance[j]
    /\ \A i \in 1 .. Len(maintenance) : maintenance[i] = Boot => i = 1

(* The operations behind the first have not begun; what the first knows of *)
(* the directory is what it holds.                                         *)
Chain ==
    /\ \A i \in 2 .. Len(maintenance) : op[maintenance[i]].stage = "scan"
    /\ maintenance # <<>> =>
          LET o == op[Head(maintenance)]
          IN /\ o.stage \in {"evict", "write"} => o.total = TotalBytes(files)
             /\ o.stage = "evict" => o.listing = files
             /\ o.stage = "write" => Head(maintenance) # Boot /\ o.total + o.bytes <= MaxTotalBytes

Inv ==
    /\ CallsTyped /\ NetTyped /\ StreamsTyped /\ StoreTyped
    /\ IdsAreFresh /\ ClaimsMatch /\ DownIsEmpty /\ CallsWhere /\ Chain
    /\ StoresOwnCapture /\ StoreIsBounded
-----------------------------------------------------------------------------
(* Numbers and sequences *)

(* Induction over the naturals, for a set in the place of a predicate. *)
LEMMA SetInduction ==
    ASSUME NEW S, 0 \in S, \A n \in Nat : n \in S => n + 1 \in S
    PROVE  Nat \subseteq S
<1> DEFINE T == {n \in Nat : n \notin S}
<1> DEFINE R == OpToRel(<, Nat)
<1>1. SUFFICES ASSUME T # {} PROVE FALSE
    OBVIOUS
<1>2. T \subseteq Nat
    OBVIOUS
<1>3. IsWellFoundedOn(R, Nat)
    BY NatLessThanWellFounded
<1>4. \E x \in T : \A y \in T : <<y, x>> \notin R
    <2> HIDE DEF T, R
    <2> QED BY <1>1, <1>2, <1>3, WFMin
<1>5. PICK x \in T : \A y \in T : <<y, x>> \notin R
    BY <1>4
<1>6. x \in Nat /\ x \notin S /\ x # 0
    OBVIOUS
<1>7. x - 1 \in Nat /\ x - 1 < x
    BY <1>6
<1>8. x - 1 \in S => x \in S
    <2>1. (x - 1) + 1 = x
        BY <1>6
    <2> QED BY <1>7, <2>1
<1>9. x - 1 \in T
    BY <1>6, <1>7, <1>8
<1>10. <<x - 1, x>> \in R
    BY <1>6, <1>7 DEF OpToRel
<1> QED BY <1>5, <1>9, <1>10

\* g holds the sums of the first files of fs.
Sums(fs, g) ==
    g = [n \in 0 .. Len(fs) |-> IF n = 0 THEN 0 ELSE g[n - 1] + fs[n].bytes]

\* The same for the first k files, as numbers.
SumsTo(fs, k, g) ==
    /\ g \in [0 .. k -> Nat]
    /\ g[0] = 0
    /\ \A n \in 1 .. k : g[n] = g[n - 1] + fs[n].bytes

(* Every sequence of files has its partial sums. *)
LEMMA SumsExist ==
    ASSUME NEW fs \in Seq(Artifact)
    PROVE  \E g : SumsTo(fs, Len(fs), g)
<1> DEFINE S == {k \in Nat : k <= Len(fs) => \E g : SumsTo(fs, k, g)}
<1>0. Len(fs) \in Nat
    OBVIOUS
<1>1. 0 \in S
    <2>1. SumsTo(fs, 0, [n \in 0 .. 0 |-> 0])
        BY DEF SumsTo
    <2> QED BY <2>1
<1>2. ASSUME NEW k \in Nat, k \in S PROVE k + 1 \in S
    <2>1. SUFFICES ASSUME k + 1 <= Len(fs) PROVE \E g : SumsTo(fs, k + 1, g)
        OBVIOUS
    <2>2. PICK g : SumsTo(fs, k, g)
        BY <1>0, <1>2, <2>1
    <2>3. fs[k + 1] \in Artifact
        BY <1>0, <2>1, ElementOfSeq
    <2>4. fs[k + 1].bytes \in Nat
        BY <2>3 DEF Artifact
    <2> DEFINE h == [n \in 0 .. k + 1 |-> IF n = k + 1 THEN g[k] + fs[k + 1].bytes ELSE g[n]]
    <2>5. \A n \in 0 .. k : g[n] \in Nat
        BY <2>2 DEF SumsTo
    <2>6. h \in [0 .. k + 1 -> Nat]
        BY <2>4, <2>5
    <2>7. h[0] = 0
        BY <2>2 DEF SumsTo
    <2>8. ASSUME NEW n \in 1 .. k + 1 PROVE h[n] = h[n - 1] + fs[n].bytes
        <3>1. CASE n = k + 1
            BY <3>1
        <3>2. CASE n # k + 1
            <4>1. n \in 1 .. k /\ n \in 0 .. k + 1 /\ n - 1 \in 0 .. k + 1 /\ n - 1 # k + 1
                BY <3>2
            <4>2. g[n] = g[n - 1] + fs[n].bytes
                BY <4>1, <2>2 DEF SumsTo
            <4> QED BY <4>1, <4>2, <3>2
        <3> QED BY <3>1, <3>2
    <2>9. SumsTo(fs, k + 1, h)
        <3> HIDE DEF h
        <3> QED BY <2>6, <2>7, <2>8 DEF SumsTo
    <2> QED BY <2>9
<1>3. Nat \subseteq S
    <2> HIDE DEF S
    <2> QED BY <1>1, <1>2, SetInduction
<1> QED BY <1>0, <1>3

(* The partial sums are determined by the files. *)
LEMMA SumsUnique ==
    ASSUME NEW fs, NEW m \in Nat, NEW g, NEW h, SumsTo(fs, m, g), SumsTo(fs, m, h)
    PROVE  g[m] = h[m]
<1> DEFINE S == {k \in Nat : k <= m => g[k] = h[k]}
<1>1. 0 \in S
    BY DEF SumsTo
<1>2. ASSUME NEW k \in Nat, k \in S PROVE k + 1 \in S
    <2>1. SUFFICES ASSUME k + 1 <= m PROVE g[k + 1] = h[k + 1]
        OBVIOUS
    <2>2. k + 1 \in 1 .. m /\ (k + 1) - 1 = k
        BY <2>1
    <2>3. g[k + 1] = g[k] + fs[k + 1].bytes /\ h[k + 1] = h[k] + fs[k + 1].bytes
        BY <2>2 DEF SumsTo
    <2>4. g[k] = h[k]
        BY <1>2, <2>1
    <2> QED BY <2>3, <2>4
<1>3. Nat \subseteq S
    <2> HIDE DEF S
    <2> QED BY <1>1, <1>2, SetInduction
<1> QED BY <1>3

(* What the recursive function of TotalBytes computes. *)
LEMMA TotalBytesIs ==
    ASSUME NEW fs \in Seq(Artifact), NEW g, SumsTo(fs, Len(fs), g)
    PROVE  TotalBytes(fs) = g[Len(fs)]
<1> DEFINE f == CHOOSE h : Sums(fs, h)
<1>0. Len(fs) \in Nat
    OBVIOUS
<1>1. Sums(fs, g)
    BY <1>0 DEF Sums, SumsTo
<1>2. Sums(fs, f)
    BY <1>1
<1>3. TotalBytes(fs) = f[Len(fs)]
    BY DEF TotalBytes, Sums
<1>4. f[Len(fs)] = g[Len(fs)]
    <2> HIDE DEF f
    <2> DEFINE S == {k \in Nat : k <= Len(fs) => f[k] = g[k]}
    <2>1. 0 \in S
        BY <1>0, <1>2 DEF SumsTo, Sums
    <2>2. ASSUME NEW k \in Nat, k \in S PROVE k + 1 \in S
        <3>1. SUFFICES ASSUME k + 1 <= Len(fs) PROVE f[k + 1] = g[k + 1]
            OBVIOUS
        <3>2. k + 1 \in 1 .. Len(fs) /\ k + 1 \in 0 .. Len(fs) /\ (k + 1) - 1 = k /\ k + 1 # 0
            BY <1>0, <3>1
        <3>3. g[k + 1] = g[k] + fs[k + 1].bytes
            BY <3>2 DEF SumsTo
        <3>4. f[k + 1] = f[k] + fs[k + 1].bytes
            BY <3>2, <1>2 DEF Sums
        <3>5. f[k] = g[k]
            BY <2>2, <3>1, <1>0
        <3> QED BY <3>3, <3>4, <3>5
    <2>3. Nat \subseteq S
        <3> HIDE DEF S
        <3> QED BY <2>1, <2>2, SetInduction
    <2> QED BY <1>0, <2>3
<1> QED BY <1>3, <1>4

(* The size of a directory is a number. *)
LEMMA TotalBytesType ==
    ASSUME NEW fs \in Seq(Artifact)
    PROVE  TotalBytes(fs) \in Nat
<1>1. PICK g : SumsTo(fs, Len(fs), g)
    BY SumsExist
<1>2. TotalBytes(fs) = g[Len(fs)]
    BY <1>1, TotalBytesIs
<1> QED BY <1>1, <1>2 DEF SumsTo

(* A file at the end adds its size. *)
LEMMA TotalBytesAppend ==
    ASSUME NEW fs \in Seq(Artifact), NEW f \in Artifact
    PROVE  TotalBytes(Append(fs, f)) = TotalBytes(fs) + f.bytes
<1> DEFINE m == Len(fs)
           gs == Append(fs, f)
<1>1. m \in Nat /\ gs \in Seq(Artifact) /\ Len(gs) = m + 1 /\ gs[m + 1] = f
      /\ \A i \in 1 .. m : gs[i] = fs[i]
    OBVIOUS
<1>2. PICK g : SumsTo(gs, m + 1, g)
    BY <1>1, SumsExist
<1> HIDE DEF m, gs
<1>3. g[m + 1] = g[m] + f.bytes
    <2>1. m + 1 \in 1 .. m + 1 /\ (m + 1) - 1 = m
        BY <1>1
    <2> QED BY <1>1, <1>2, <2>1 DEF SumsTo
<1> DEFINE h == [n \in 0 .. m |-> g[n]]
<1>4. SumsTo(fs, m, h)
    <2>1. h \in [0 .. m -> Nat] /\ h[0] = 0
        BY <1>1, <1>2 DEF SumsTo
    <2>2. ASSUME NEW n \in 1 .. m PROVE h[n] = h[n - 1] + fs[n].bytes
        <3>1. n \in 1 .. m + 1 /\ n \in 0 .. m /\ n - 1 \in 0 .. m
            BY <1>1
        <3>2. g[n] = g[n - 1] + gs[n].bytes
            BY <3>1, <1>2 DEF SumsTo
        <3> QED BY <1>1, <3>1, <3>2
    <2> HIDE DEF h
    <2> QED BY <2>1, <2>2 DEF SumsTo
<1>5. h[m] = g[m]
    BY <1>1
<1>6. TotalBytes(fs) = h[m] /\ TotalBytes(gs) = g[m + 1]
    <2> HIDE DEF h
    <2>1. TotalBytes(gs) = g[Len(gs)]
        BY <1>1, <1>2, TotalBytesIs
    <2>2. TotalBytes(fs) = h[Len(fs)]
        BY <1>4, TotalBytesIs DEF m
    <2> QED BY <1>1, <2>1, <2>2 DEF m
<1> QED BY <1>3, <1>5, <1>6 DEF gs

(* Without its first file a directory is smaller by its size. *)
LEMMA TotalBytesTail ==
    ASSUME NEW fs \in Seq(Artifact), fs # <<>>
    PROVE  /\ Tail(fs) \in Seq(Artifact)
           /\ Head(fs) \in Artifact
           /\ TotalBytes(fs) = Head(fs).bytes + TotalBytes(Tail(fs))
<1> DEFINE m == Len(Tail(fs))
           ts == Tail(fs)
<1>1. /\ ts \in Seq(Artifact) /\ m \in Nat /\ Len(fs) = m + 1 /\ Head(fs) = fs[1]
      /\ fs[1] \in Artifact
      /\ \A i \in 1 .. m : ts[i] = fs[i + 1] /\ ts[i] \in Artifact
    OBVIOUS
<1>2. PICK g : SumsTo(ts, m, g)
    BY <1>1, SumsExist
<1> DEFINE b == fs[1].bytes
<1>3. b \in Nat
    BY <1>1 DEF Artifact
<1> HIDE DEF m, ts, b
<1> DEFINE h == [n \in 0 .. m + 1 |-> IF n = 0 THEN 0 ELSE b + g[n - 1]]
<1>4. SumsTo(fs, m + 1, h)
    <2>0. \A n \in 0 .. m : g[n] \in Nat
        BY <1>2 DEF SumsTo
    <2>1. h \in [0 .. m + 1 -> Nat] /\ h[0] = 0
        BY <1>1, <1>3, <2>0
    <2>2. ASSUME NEW n \in 1 .. m + 1 PROVE h[n] = h[n - 1] + fs[n].bytes
        <3>1. CASE n = 1
            <4>1. h[n] = b + g[0] /\ h[n - 1] = 0
                BY <1>1, <3>1
            <4>2. g[0] = 0
                BY <1>2 DEF SumsTo
            <4> QED BY <3>1, <4>1, <4>2, <1>3 DEF b
        <3>2. CASE n # 1
            <4>1. n - 1 \in 1 .. m /\ n - 1 \in 0 .. m + 1 /\ n - 1 # 0 /\ n \in 0 .. m + 1 /\ n # 0
                  /\ (n - 1) + 1 = n /\ (n - 1) - 1 \in 0 .. m
                BY <1>1, <3>2
            <4>2. g[n - 1] = g[(n - 1) - 1] + ts[n - 1].bytes
                BY <4>1, <1>2 DEF SumsTo
            <4>3. ts[n - 1] = fs[n] /\ ts[n - 1] \in Artifact
                BY <4>1, <1>1
            <4>4. fs[n].bytes \in Nat
                BY <4>3 DEF Artifact
            <4>5. h[n] = b + g[n - 1] /\ h[n - 1] = b + g[(n - 1) - 1]
                BY <4>1
            <4>6. g[(n - 1) - 1] \in Nat
                BY <4>1, <2>0
            <4> HIDE DEF h
            <4> QED BY <4>2, <4>3, <4>4, <4>5, <4>6, <1>3
        <3> QED BY <3>1, <3>2
    <2> HIDE DEF h
    <2> QED BY <2>1, <2>2 DEF SumsTo
<1>5. h[m + 1] = b + g[m]
    BY <1>1
<1>6. TotalBytes(fs) = h[m + 1] /\ TotalBytes(ts) = g[m]
    <2> HIDE DEF h
    <2>1. TotalBytes(fs) = h[Len(fs)]
        BY <1>1, <1>4, TotalBytesIs
    <2>2. Len(ts) = m
        BY DEF m, ts
    <2>3. TotalBytes(ts) = g[Len(ts)]
        BY <1>1, <1>2, <2>2, TotalBytesIs
    <2> QED BY <1>1, <2>1, <2>2, <2>3
<1> QED BY <1>1, <1>5, <1>6 DEF ts, b

(* What is first in a sequence is removed from its front. *)
LEMMA RemoveFirstHead ==
    ASSUME NEW S, NEW s \in Seq(S), s # <<>>
    PROVE  RemoveFirst(s, Head(s)) = Tail(s)
<1> DEFINE I == {i \in 1 .. Len(s) : s[i] = Head(s)}
<1>1. Len(s) \in Nat /\ Len(s) >= 1 /\ s[1] = Head(s)
    OBVIOUS
<1>2. 1 \in I /\ \A i \in I : 1 <= i /\ i \in Int
    BY <1>1
<1>3. Min(I) = 1
    <2> HIDE DEF I
    <2> QED BY <1>2 DEF Min
<1>4. RemoveFirst(s, Head(s)) = RemoveAt(s, Min(I))
    <2>1. \E i \in 1 .. Len(s) : s[i] = Head(s)
        BY <1>1
    <2> QED BY <1>2, <2>1 DEF RemoveFirst, SelectInSeq
<1>5. RemoveAt(s, Min(I)) = SubSeq(s, 1, 0) \o SubSeq(s, 2, Len(s))
    <2>1. RemoveAt(s, 1) = SubSeq(s, 1, 1 - 1) \o SubSeq(s, 1 + 1, Len(s))
        BY Zenon DEF RemoveAt
    <2>2. 1 - 1 = 0 /\ 1 + 1 = 2
        OBVIOUS
    <2> HIDE DEF I
    <2> QED BY <1>3, <2>1, <2>2
<1>6. SubSeq(s, 1, 0) = <<>> /\ Tail(s) = SubSeq(s, 2, Len(s)) /\ Tail(s) \in Seq(S)
    BY <1>1, TailIsSubSeq, SubSeqEmpty
<1> QED BY <1>4, <1>5, <1>6, ConcatEmptySeq

(* A sequence of one. *)
LEMMA SingletonSeq ==
    ASSUME NEW S, NEW e \in S
    PROVE  <<e>> \in Seq(S) /\ Len(<<e>>) = 1 /\ Head(<<e>>) = e /\ <<e>>[1] = e
OBVIOUS

(* Maintenance operations are of their type. *)
LEMMA NewOpType ==
    /\ NoOp \in OpRecord
    /\ \A b \in Nat : NewOp(b) \in OpRecord /\ NewOp(b).stage = "scan" /\ NewOp(b).bytes = b
<1>1. <<>> \in Seq(Artifact)
    OBVIOUS
<1>2. NoOp \in OpRecord
    BY <1>1 DEF NoOp, OpRecord
<1>3. ASSUME NEW b \in Nat
      PROVE  NewOp(b) \in OpRecord /\ NewOp(b).stage = "scan" /\ NewOp(b).bytes = b
    BY <1>2 DEF NewOp, OpRecord
<1> QED BY <1>2, <1>3

(* A sequence of one behind and before another. *)
LEMMA ConcatSingle ==
    ASSUME NEW S, NEW s \in Seq(S), NEW r \in Seq(S), Len(r) = 1
    PROVE  /\ s \o r \in Seq(S) /\ Len(s \o r) = Len(s) + 1
           /\ \A i \in 1 .. Len(s) : (s \o r)[i] = s[i]
           /\ (s \o r)[Len(s) + 1] = r[1]
           /\ r \o s \in Seq(S) /\ Len(r \o s) = Len(s) + 1
           /\ \A i \in 2 .. Len(s) + 1 : i - 1 \in 1 .. Len(s) /\ (r \o s)[i] = s[i - 1]
           /\ (r \o s)[1] = r[1]
<1>1. Len(s) \in Nat /\ 1 \in 1 .. 1
    OBVIOUS
<1>2. /\ s \o r \in Seq(S) /\ Len(s \o r) = Len(s) + 1
      /\ \A i \in 1 .. Len(s) + 1 : (s \o r)[i] = IF i <= Len(s) THEN s[i] ELSE r[i - Len(s)]
    BY ConcatProperties
<1>3. /\ r \o s \in Seq(S) /\ Len(r \o s) = Len(s) + 1
      /\ \A i \in 1 .. Len(s) + 1 : (r \o s)[i] = IF i <= 1 THEN r[i] ELSE s[i - 1]
    <2>1. /\ r \o s \in Seq(S) /\ Len(r \o s) = Len(r) + Len(s)
          /\ \A i \in 1 .. Len(r) + Len(s) :
                (r \o s)[i] = IF i <= Len(r) THEN r[i] ELSE s[i - Len(r)]
        BY Zenon, ConcatProperties
    <2>2. Len(r) + Len(s) = Len(s) + 1
        BY <1>1
    <2> QED BY <2>1, <2>2
<1>4. \A i \in 1 .. Len(s) : i \in 1 .. Len(s) + 1 /\ i <= Len(s)
    BY <1>1
<1>5. Len(s) + 1 \in 1 .. Len(s) + 1 /\ ~(Len(s) + 1 <= Len(s)) /\ (Len(s) + 1) - Len(s) = 1
    BY <1>1
<1>6. \A i \in 2 .. Len(s) + 1 : i \in 1 .. Len(s) + 1 /\ ~(i <= 1) /\ i - 1 \in 1 .. Len(s)
    BY <1>1
<1>7. 1 \in 1 .. Len(s) + 1
    BY <1>1
<1>8. (s \o r)[Len(s) + 1] = r[1]
    BY <1>2, <1>5
<1>9. \A i \in 1 .. Len(s) : (s \o r)[i] = s[i]
    BY <1>2, <1>4
<1>10. (r \o s)[1] = r[1] /\ \A i \in 2 .. Len(s) + 1 : (r \o s)[i] = s[i - 1]
    BY <1>3, <1>6, <1>7
<1> QED BY <1>2, <1>3, <1>6, <1>8, <1>9, <1>10

-----------------------------------------------------------------------------
(* What the parts of the invariant need *)

(* Fewer calls with the same ids, and the same wire. *)
LEMMA IdsShrink ==
    ASSUME IdsAreFresh, wire' = wire, nextStream' = nextStream,
           \A c \in Calls : Active(c)' => Active(c) /\ want'[c] = want[c]
    PROVE  IdsAreFresh'
BY DEF IdsAreFresh, Names

\* The first frame is taken off the wire; if it names a stream, only c may hold that now.
Taken(c) ==
    /\ wire \in Seq(Frame) /\ wire # <<>> /\ wire' = Tail(wire)
    /\ nextStream' = nextStream
    /\ \A d \in Calls : Active(d)' =>
          \/ Active(d) /\ want'[d] = want[d]
          \/ d = c /\ Names(1) /\ want'[d] = wire[1].descriptor

(* The id that a frame names passes to its call. *)
LEMMA IdsTail ==
    ASSUME IdsAreFresh, NEW c, Taken(c)
    PROVE  IdsAreFresh'
<1> DEFINE m == Len(wire')
<1>0. wire \in Seq(Frame) /\ wire # <<>> /\ wire' = Tail(wire) /\ nextStream' = nextStream
    BY DEF Taken
<1>1. /\ m \in Nat /\ 1 \in 1 .. Len(wire)
      /\ \A i \in 1 .. m : i + 1 \in 1 .. Len(wire) /\ i + 1 # 1 /\ wire'[i] = wire[i + 1]
    BY <1>0, HeadTailProperties
<1>2. ASSUME NEW i \in 1 .. m PROVE Names(i)' <=> Names(i + 1)
    BY <1>1 DEF Names
<1>3. \A i \in 1 .. m : Names(i)' => wire'[i].descriptor.streamId \in 1 .. nextStream'
    BY <1>0, <1>1, <1>2 DEF IdsAreFresh
<1>4. \A d \in Calls : Active(d)' => want'[d].streamId \in 1 .. nextStream'
    BY <1>0, <1>1 DEF IdsAreFresh, Taken
<1>5. ASSUME NEW i \in 1 .. m, NEW j \in 1 .. m, Names(i)', Names(j)', i # j
      PROVE  wire'[i].descriptor.streamId # wire'[j].descriptor.streamId
    <2>1. i + 1 \in 1 .. Len(wire) /\ j + 1 \in 1 .. Len(wire) /\ i + 1 # j + 1
        BY <1>1, <1>5
    <2>2. Names(i + 1) /\ Names(j + 1)
        BY <1>2, <1>5
    <2> QED BY <1>1, <2>1, <2>2 DEF IdsAreFresh
<1>6. ASSUME NEW d \in Calls, NEW i \in 1 .. m, Active(d)', Names(i)'
      PROVE  want'[d].streamId # wire'[i].descriptor.streamId
    <2>1. i + 1 \in 1 .. Len(wire) /\ i + 1 # 1 /\ Names(i + 1) /\ wire'[i] = wire[i + 1]
        BY <1>1, <1>2, <1>6
    <2>2. CASE Active(d) /\ want'[d] = want[d]
        BY <2>1, <2>2 DEF IdsAreFresh
    <2>3. CASE Names(1) /\ want'[d] = wire[1].descriptor
        BY <1>1, <2>1, <2>3 DEF IdsAreFresh
    <2> QED BY <1>6, <2>2, <2>3 DEF Taken
<1>7. ASSUME NEW d \in Calls, NEW e \in Calls, Active(d)', Active(e)', d # e
      PROVE  want'[d].streamId # want'[e].streamId
    <2>1. CASE Active(d) /\ want'[d] = want[d] /\ Active(e) /\ want'[e] = want[e]
        BY <1>7, <2>1 DEF IdsAreFresh
    <2>2. CASE Active(d) /\ want'[d] = want[d] /\ Names(1) /\ want'[e] = wire[1].descriptor
        BY <1>1, <2>2 DEF IdsAreFresh
    <2>3. CASE Active(e) /\ want'[e] = want[e] /\ Names(1) /\ want'[d] = wire[1].descriptor
        BY <1>1, <2>3 DEF IdsAreFresh
    <2> QED BY <1>7, <2>1, <2>2, <2>3 DEF Taken
<1> QED BY <1>3, <1>4, <1>5, <1>6, <1>7 DEF IdsAreFresh

\* The calls that wait for a stream stay the same.
SameClaims ==
    /\ want' = want
    /\ \A c \in Calls : phase'[c] \in {"waiting", "woken"} <=> phase[c] \in {"waiting", "woken"}

(* The calls move, but nobody claims or gives up a stream. *)
LEMMA ClaimsShift ==
    ASSUME ClaimsMatch, streams' = streams, SameClaims
    PROVE  ClaimsMatch'
BY DEF ClaimsMatch, Claims, SameClaims

(* A frame opens a stream that nobody has claimed, or extends one. *)
LEMMA ClaimsExtend ==
    ASSUME ClaimsMatch, SameClaims, NEW id, NEW s, streams' = With(id, s),
           s.retention = IF id \in DOMAIN streams THEN streams[id].retention ELSE TRUE
    PROVE  ClaimsMatch'
<1>1. DOMAIN streams' = DOMAIN streams \cup {id}
    BY DEF With
<1>2. \A i \in DOMAIN streams : streams'[i].retention = streams[i].retention
    BY DEF With
<1>3. id \notin DOMAIN streams => streams'[id].retention = TRUE
    BY DEF With
<1>4. ASSUME NEW c \in Calls, phase'[c] \in {"waiting", "woken"}
      PROVE  /\ Streamed(want'[c])
             /\ want'[c].streamId \in DOMAIN streams'
             /\ ~streams'[want'[c].streamId].retention
    <2>1. phase[c] \in {"waiting", "woken"} /\ want'[c] = want[c]
        BY <1>4 DEF SameClaims
    <2> QED BY <1>1, <1>2, <2>1 DEF ClaimsMatch
<1>5. ASSUME NEW i \in DOMAIN streams', ~streams'[i].retention
      PROVE  \E c \in Calls : Claims(c, i)'
    <2>1. i \in DOMAIN streams /\ ~streams[i].retention
        BY <1>1, <1>2, <1>3, <1>5
    <2>2. PICK c \in Calls : Claims(c, i)
        BY <2>1 DEF ClaimsMatch
    <2> QED BY <2>2 DEF SameClaims, Claims
<1> QED BY <1>4, <1>5 DEF ClaimsMatch, Streamed

\* c, alone on the stream id, gives it up; the stream is removed.
GivesUp(c, id) ==
    /\ want' = want /\ streams' = Without(id)
    /\ phase'[c] \notin {"waiting", "woken"}
    /\ phase[c] \in {"waiting", "woken"} => want[c].streamId = id
    /\ \A d \in Calls \ {c} : phase'[d] = phase[d] /\ ~Claims(d, id)

(* Whoever else waits keeps its stream. *)
LEMMA ClaimsDrop ==
    ASSUME ClaimsMatch, NEW c \in Calls, NEW id, GivesUp(c, id)
    PROVE  ClaimsMatch'
<1>1. DOMAIN streams' = DOMAIN streams \ {id} /\ \A i \in DOMAIN streams' : streams'[i] = streams[i]
    BY DEF GivesUp, Without
<1>2. ASSUME NEW d \in Calls, phase'[d] \in {"waiting", "woken"}
      PROVE  /\ Streamed(want'[d])
             /\ want'[d].streamId \in DOMAIN streams'
             /\ ~streams'[want'[d].streamId].retention
    <2>1. d # c
        BY <1>2 DEF GivesUp
    <2>2. phase[d] \in {"waiting", "woken"} /\ want'[d] = want[d] /\ ~Claims(d, id)
        BY <1>2, <2>1 DEF GivesUp
    <2>3. want[d].streamId # id
        BY <2>2 DEF Claims
    <2> QED BY <1>1, <2>2, <2>3 DEF ClaimsMatch
<1>3. ASSUME NEW i \in DOMAIN streams', ~streams'[i].retention
      PROVE  \E d \in Calls : Claims(d, i)'
    <2>1. i \in DOMAIN streams /\ i # id /\ ~streams[i].retention
        BY <1>1, <1>3
    <2>2. PICK d \in Calls : Claims(d, i)
        BY <2>1 DEF ClaimsMatch
    <2>3. d # c
        BY <2>1, <2>2 DEF GivesUp, Claims
    <2> QED BY <2>2, <2>3 DEF GivesUp, Claims
<1> QED BY <1>2, <1>3 DEF ClaimsMatch, Streamed

(* Nobody else waits for the stream of an active call. *)
LEMMA AloneOnStream ==
    ASSUME IdsAreFresh, ClaimsMatch, NEW c \in Calls, Active(c)
    PROVE  \A d \in Calls \ {c} : ~Claims(d, want[c].streamId)
BY DEF IdsAreFresh, ClaimsMatch, Claims, Active

(* The initial state. *)
LEMMA InitInv == Init => Inv
<1> SUFFICES ASSUME Init PROVE Inv
    OBVIOUS
<1>1. CallsTyped /\ NetTyped /\ StreamsTyped
    BY DEF Init, CallsTyped, NetTyped, StreamsTyped, Phases
<1>2. StoreTyped
    <2>1. NewOp(0) \in OpRecord /\ NoOp \in OpRecord
        BY NewOpType
    <2>2. op \in [Calls \cup {Boot} -> OpRecord]
        <3> HIDE DEF OpRecord
        <3> QED BY <2>1 DEF Init
    <2>3. files \in Seq(Artifact)
        BY CaptureAssumption DEF Init
    <2>4. maintenance \in Seq(Calls \cup {Boot}) /\ running \in BOOLEAN
        BY SingletonSeq DEF Init
    <2> QED BY <2>2, <2>3, <2>4 DEF StoreTyped
<1>3. IdsAreFresh
    BY DEF Init, IdsAreFresh, Active, Names
<1>4. ClaimsMatch /\ DownIsEmpty
    BY DEF Init, ClaimsMatch, DownIsEmpty
<1>5. CallsWhere
    BY CaptureAssumption DEF Init, CallsWhere
<1>6. Chain
    <2>1. Head(maintenance) = Boot /\ Len(maintenance) = 1
        BY DEF Init
    <2>2. op[Boot].stage = "scan"
        BY DEF Init, NewOp, NoOp
    <2> QED BY <2>1, <2>2 DEF Chain
<1>7. StoresOwnCapture /\ StoreIsBounded
    BY DEF Init, StoresOwnCapture, StoreIsBounded
<1> QED BY <1>1, <1>2, <1>3, <1>4, <1>5, <1>6, <1>7 DEF Inv

-----------------------------------------------------------------------------
(* The request and the guest *)

(* A call asks, or fails because there is no guest. *)
LEMMA RequestNowInv ==
    ASSUME Inv, NEW c \in Calls, RequestNow(c)
    PROVE  Inv'
<1> USE DEF RequestNow, store
<1>0. /\ phase \in [Calls -> Phases] /\ phase[c] = "idle" /\ pending = {}
      /\ phase' = [phase EXCEPT ![c] = IF conn = "up" THEN "asked" ELSE "failed"]
      /\ inbox \in Seq(Calls)
    BY DEF Inv, CallsTyped, NetTyped
<1>1. CallsTyped'
    BY <1>0 DEF Inv, CallsTyped, Phases
<1>2. NetTyped'
    <2>1. Append(inbox, c) \in Seq(Calls)
        BY <1>0
    <2> QED BY <2>1 DEF Inv, NetTyped
<1>3. StreamsTyped' /\ StoreTyped' /\ Chain' /\ StoreIsBounded'
    BY DEF Inv, StreamsTyped, StoreTyped, Chain, StoreIsBounded
<1>4. IdsAreFresh'
    <2>1. \A d \in Calls : Active(d)' => Active(d) /\ want'[d] = want[d]
        BY <1>0 DEF Active
    <2> QED BY <2>1, IdsShrink DEF Inv
<1>5. ClaimsMatch'
    <2>1. SameClaims
        BY <1>0 DEF SameClaims
    <2> QED BY <2>1, ClaimsShift DEF Inv
<1>6. DownIsEmpty'
    BY <1>0 DEF Inv, DownIsEmpty
<1>7. CallsWhere'
    BY <1>0 DEF Inv, CallsWhere
<1>8. StoresOwnCapture'
    BY <1>0 DEF Inv, StoresOwnCapture
<1> QED BY <1>1, <1>2, <1>3, <1>4, <1>5, <1>6, <1>7, <1>8 DEF Inv

(* The answer of the guest is late. *)
LEMMA RequestTimeoutInv ==
    ASSUME Inv, NEW c \in Calls, RequestTimeout(c)
    PROVE  Inv'
<1> USE DEF RequestTimeout, store, net
<1>0. /\ phase \in [Calls -> Phases] /\ phase[c] = "asked"
      /\ phase' = [phase EXCEPT ![c] = "failed"]
    BY DEF Inv, CallsTyped, CallsWhere
<1>1. CallsTyped'
    BY <1>0 DEF Inv, CallsTyped, Phases
<1>2. NetTyped' /\ StreamsTyped' /\ StoreTyped' /\ Chain' /\ StoreIsBounded'
    BY DEF Inv, NetTyped, StreamsTyped, StoreTyped, Chain, StoreIsBounded
<1>3. IdsAreFresh'
    <2>1. \A d \in Calls : Active(d)' => Active(d) /\ want'[d] = want[d]
        BY <1>0 DEF Active
    <2> QED BY <2>1, IdsShrink DEF Inv
<1>4. ClaimsMatch'
    <2>1. SameClaims
        BY <1>0 DEF SameClaims
    <2> QED BY <2>1, ClaimsShift DEF Inv
<1>5. DownIsEmpty'
    BY <1>0 DEF Inv, DownIsEmpty
<1>6. CallsWhere'
    BY <1>0 DEF Inv, CallsWhere
<1>7. StoresOwnCapture'
    BY <1>0 DEF Inv, StoresOwnCapture
<1> QED BY <1>1, <1>2, <1>3, <1>4, <1>5, <1>6, <1>7 DEF Inv

\* Frames are added, of which at most one, the k-th, names a stream, a new one.
Grows(k) ==
    /\ wire \in Seq(Frame) /\ nextStream \in Nat
    /\ Len(wire') \in Nat /\ Len(wire) <= Len(wire')
    /\ \A i \in 1 .. Len(wire) : wire'[i] = wire[i]
    /\ \A i \in Len(wire) + 1 .. Len(wire') :
          Names(i)' => /\ i = k
                       /\ wire'[i].descriptor.streamId = nextStream + 1
                       /\ nextStream' = nextStream + 1
    /\ nextStream' \in {nextStream, nextStream + 1}
    /\ phase' = phase /\ want' = want

(* New frames name no id twice. *)
LEMMA IdsGrow ==
    ASSUME IdsAreFresh, NEW k, Grows(k)
    PROVE  IdsAreFresh'
<1> USE DEF Grows
<1> DEFINE m == Len(wire)
           id(i) == wire'[i].descriptor.streamId
<1>0. m \in Nat
    OBVIOUS
<1>1. \A c \in Calls : Active(c)' <=> Active(c)
    BY DEF Active
<1>2. \A i \in 1 .. m : Names(i)' <=> Names(i)
    BY DEF Names
<1>3. ASSUME NEW i \in 1 .. Len(wire'), Names(i)'
      PROVE  \/ i \in 1 .. m /\ Names(i) /\ id(i) = wire[i].descriptor.streamId
                /\ id(i) \in 1 .. nextStream
             \/ i = k /\ id(i) = nextStream + 1 /\ nextStream' = nextStream + 1
    <2>1. CASE i \in 1 .. m
        BY <1>2, <1>3, <2>1 DEF IdsAreFresh
    <2>2. CASE i \notin 1 .. m
        <3>1. i \in m + 1 .. Len(wire')
            BY <1>0, <2>2
        <3> QED BY <1>3, <3>1
    <2> QED BY <2>1, <2>2
<1>4. \A i \in 1 .. Len(wire') : Names(i)' => id(i) \in 1 .. nextStream'
    BY <1>3
<1>5. \A c \in Calls : Active(c)' => want'[c].streamId \in 1 .. nextStream /\ want'[c].streamId \in 1 .. nextStream'
    BY <1>1 DEF IdsAreFresh
<1>6. ASSUME NEW i \in 1 .. Len(wire'), NEW j \in 1 .. Len(wire'), Names(i)', Names(j)', i # j
      PROVE  id(i) # id(j)
    <2>1. CASE i \in 1 .. m /\ Names(i) /\ j \in 1 .. m /\ Names(j)
        BY <1>6, <2>1 DEF IdsAreFresh
    <2>2. CASE ~(i \in 1 .. m /\ Names(i) /\ j \in 1 .. m /\ Names(j))
        <3> HIDE DEF id, m
        <3> QED BY <1>3, <1>6, <2>2
    <2> QED BY <2>1, <2>2
<1>7. ASSUME NEW c \in Calls, NEW i \in 1 .. Len(wire'), Active(c)', Names(i)'
      PROVE  want'[c].streamId # id(i)
    <2>1. CASE i \in 1 .. m /\ Names(i)
        BY <1>1, <1>7, <2>1 DEF IdsAreFresh
    <2>2. CASE ~(i \in 1 .. m /\ Names(i))
        <3> HIDE DEF id, m
        <3> QED BY <1>3, <1>5, <1>7, <2>2
    <2> QED BY <2>1, <2>2
<1>8. \A c, d \in Calls : Active(c)' /\ Active(d)' /\ c # d => want'[c].streamId # want'[d].streamId
    BY <1>1 DEF IdsAreFresh
<1> QED BY <1>4, <1>5, <1>6, <1>7, <1>8 DEF IdsAreFresh

\* The frames of one capture behind those that are on the wire.
Sent(new, k) ==
    /\ new \in Seq(Frame) /\ wire' = wire \o new
    /\ \A i \in 1 .. Len(new) :
          /\ FrameOK(new[i])
          /\ new[i].type = "response" /\ Streamed(new[i].descriptor) =>
                /\ i = k
                /\ new[i].descriptor.streamId = nextStream + 1
                /\ nextStream' = nextStream + 1

(* What the guest sends keeps the invariant. *)
LEMMA SentInv ==
    ASSUME Inv, conn = "up", UNCHANGED <<calls, pending, conn, streams, store>>,
           inbox' \in Seq(Calls), nextStream' \in {nextStream, nextStream + 1},
           NEW new, NEW k \in Int, Sent(new, k)
    PROVE  Inv'
<1> USE DEF calls, store
<1>0. wire \in Seq(Frame) /\ nextStream \in Nat /\ new \in Seq(Frame) /\ wire' = wire \o new
    BY DEF Inv, NetTyped, Sent
<1>1. /\ wire' \in Seq(Frame) /\ Len(wire) \in Nat /\ Len(new) \in Nat
      /\ Len(wire') = Len(wire) + Len(new)
      /\ \A i \in 1 .. Len(wire) : wire'[i] = wire[i]
      /\ \A i \in Len(wire) + 1 .. Len(wire') :
            i - Len(wire) \in 1 .. Len(new) /\ wire'[i] = new[i - Len(wire)]
    BY <1>0
<1>2. CallsTyped' /\ StreamsTyped' /\ StoreTyped' /\ ClaimsMatch' /\ CallsWhere' /\ Chain'
      /\ StoresOwnCapture' /\ StoreIsBounded'
    BY DEF Inv, CallsTyped, StreamsTyped, StoreTyped, ClaimsMatch, Claims, CallsWhere, Chain,
           StoresOwnCapture, StoreIsBounded
<1>3. NetTyped'
    <2>1. ASSUME NEW i \in 1 .. Len(wire') PROVE FrameOK(wire'[i])
        <3>1. CASE i \in 1 .. Len(wire)
            BY <1>1, <3>1 DEF Inv, NetTyped
        <3>2. CASE i \notin 1 .. Len(wire)
            <4>1. i \in Len(wire) + 1 .. Len(wire')
                BY <1>1, <3>2
            <4> QED BY <1>1, <4>1 DEF Sent
        <3> QED BY <3>1, <3>2
    <2>2. conn' \in {"up", "failing", "down"} /\ nextStream' \in Nat
        BY <1>0
    <2> QED BY <1>1, <2>1, <2>2 DEF NetTyped
<1>4. IdsAreFresh'
    <2> DEFINE kk == k + Len(wire)
    <2>1. ASSUME NEW i \in Len(wire) + 1 .. Len(wire'), Names(i)'
          PROVE  /\ i = kk
                 /\ wire'[i].descriptor.streamId = nextStream + 1
                 /\ nextStream' = nextStream + 1
        <3>1. i - Len(wire) \in 1 .. Len(new) /\ wire'[i] = new[i - Len(wire)]
            BY <1>1
        <3>2. wire'[i].type = "response" /\ Streamed(wire'[i].descriptor)
            BY <2>1 DEF Names, Streamed
        <3>3. i - Len(wire) = k /\ wire'[i].descriptor.streamId = nextStream + 1
              /\ nextStream' = nextStream + 1
            BY <3>1, <3>2 DEF Sent
        <3> QED BY <3>3, <1>1
    <2>2. Len(wire') \in Nat /\ Len(wire) <= Len(wire')
        BY <1>1
    <2>3. phase' = phase /\ want' = want /\ IdsAreFresh
        BY DEF Inv
    <2> HIDE DEF kk
    <2>4. Grows(kk)
        BY <1>0, <1>1, <2>1, <2>2, <2>3 DEF Grows
    <2> QED BY <2>3, <2>4, IdsGrow
<1>5. DownIsEmpty'
    BY DEF DownIsEmpty
<1> QED BY <1>2, <1>3, <1>4, <1>5 DEF Inv

(* The guest executes a request. *)
LEMMA GuestCapturesInv ==
    ASSUME Inv, GuestCaptures
    PROVE  Inv'
<1> DEFINE c == Head(inbox)
           id == nextStream + 1
           Answer(d) == [type |-> "response", to |-> c, descriptor |-> d]
           Response(d) == <<Answer(d)>>
           Data(n) == [k \in 1 .. n |-> [type |-> "data", streamId |-> id, final |-> k = n,
                                         payload |-> <<c, k>>]]
<1>1. /\ conn = "up" /\ inbox # <<>> /\ inbox' = Tail(inbox)
      /\ UNCHANGED <<calls, pending, conn, streams, store>>
    BY DEF GuestCaptures
<1>2. inbox \in Seq(Calls) /\ nextStream \in Nat /\ wire \in Seq(Frame)
    BY DEF Inv, NetTyped
<1>3. c \in Calls /\ inbox' \in Seq(Calls) /\ id \in Nat /\ id # 0
    BY <1>1, <1>2
<1>4. \/ wire' = wire \o Response(None) /\ nextStream' = nextStream
      \/ \E n \in Sizes : /\ wire' = wire \o Response([streamId |-> 0, total |-> n, inline |-> TRUE])
                          /\ nextStream' = nextStream
      \/ \E n \in Sizes :
            LET r == Response([streamId |-> id, total |-> n, inline |-> FALSE])
            IN wire' \in {wire \o Data(n) \o r, wire \o r \o Data(n)} /\ nextStream' = id
    BY DEF GuestCaptures
<1>5. ASSUME NEW d \in Descriptor \cup {None}
      PROVE  /\ Response(d) \in Seq(Frame) /\ Len(Response(d)) = 1
             /\ Response(d)[1] = Answer(d) /\ FrameOK(Answer(d))
             /\ Answer(d).type = "response" /\ Answer(d).descriptor = d
    <2>1. Answer(d) \in Frame /\ Answer(d).type = "response" /\ Answer(d).descriptor = d
        BY <1>3 DEF Frame
    <2> HIDE DEF Answer
    <2> QED BY <2>1, SingletonSeq DEF FrameOK
<1>6. ASSUME NEW n \in Sizes
      PROVE  /\ Data(n) \in Seq(Frame) /\ Len(Data(n)) = n /\ n \in Nat
             /\ \A i \in 1 .. n : FrameOK(Data(n)[i]) /\ Data(n)[i].type = "data"
    <2>1. n \in Nat
        BY CaptureAssumption
    <2> DEFINE F(k) == [type |-> "data", streamId |-> id, final |-> k = n, payload |-> <<c, k>>]
    <2>2. ASSUME NEW k \in 1 .. n PROVE F(k) \in Frame /\ F(k).type = "data" /\ FrameOK(F(k))
        <3>1. <<c, k>> \in Payload
            BY <1>3, <2>1 DEF Payload
        <3>2. F(k) \in [type : {"data"}, streamId : Nat, final : BOOLEAN, payload : Payload]
            BY <1>3, <3>1
        <3>3. F(k).type = "data" /\ F(k).streamId = id
            OBVIOUS
        <3> HIDE DEF F
        <3> QED BY <1>3, <3>2, <3>3 DEF Frame, FrameOK
    <2>3. Data(n) = [k \in 1 .. n |-> F(k)]
        OBVIOUS
    <2> HIDE DEF F, Data
    <2>4. Data(n) \in [1 .. n -> Frame]
        BY <2>2, <2>3
    <2>5. Data(n) \in Seq(Frame) /\ Len(Data(n)) = n
        BY <2>1, <2>4, IsASeq, LenProperties
    <2> QED BY <2>1, <2>2, <2>3, <2>5
<1> HIDE DEF c, id, Response, Data
<1>7. ASSUME NEW d \in Descriptor \cup {None}, ~Streamed(d), wire' = wire \o Response(d),
             nextStream' = nextStream
      PROVE  Inv'
    <2> DEFINE new == Response(d)
    <2>1. Sent(new, 1)
        <3>0. Len(new) = 1
            BY <1>5
        <3>1. \A i \in 1 .. Len(new) : i = 1
            <4> HIDE DEF new
            <4> QED BY <3>0
        <3>2. new[1] = Answer(d) /\ FrameOK(Answer(d)) /\ Answer(d).descriptor = d
            BY <1>5
        <3>3. new \in Seq(Frame)
            BY <1>5
        <3> HIDE DEF new, Answer
        <3>4. wire' = wire \o new
            BY <1>7 DEF new
        <3> QED BY <1>7, <3>1, <3>2, <3>3, <3>4 DEF Sent
    <2> QED BY <1>1, <1>3, <1>7, <2>1, SentInv
<1>8. CASE wire' = wire \o Response(None) /\ nextStream' = nextStream
    BY <1>7, <1>8 DEF Streamed
<1>9. ASSUME NEW n \in Sizes, nextStream' = nextStream,
             wire' = wire \o Response([streamId |-> 0, total |-> n, inline |-> TRUE])
      PROVE  Inv'
    <2> DEFINE d == [streamId |-> 0, total |-> n, inline |-> TRUE]
    <2>1. d \in Descriptor /\ ~Streamed(d)
        BY <1>6 DEF Descriptor, Streamed
    <2> HIDE DEF d
    <2>2. wire' = wire \o Response(d)
        BY <1>9 DEF d
    <2> QED BY <1>7, <1>9, <2>1, <2>2
<1>10. ASSUME NEW n \in Sizes, nextStream' = id, NEW r,
              r = Response([streamId |-> id, total |-> n, inline |-> FALSE]),
              wire' \in {wire \o Data(n) \o r, wire \o r \o Data(n)}
       PROVE  Inv'
    <2> DEFINE d == [streamId |-> id, total |-> n, inline |-> FALSE]
               a == Answer(d)
    <2>1. d \in Descriptor /\ d.streamId = id
        BY <1>3, <1>6 DEF Descriptor
    <2> HIDE DEF d
    <2>2. r \in Seq(Frame) /\ Len(r) = 1 /\ r[1] = a /\ FrameOK(a) /\ a.descriptor = d
        BY <1>5, <1>10, <2>1 DEF d
    <2> HIDE DEF a
    <2>3. Data(n) \in Seq(Frame) /\ Len(Data(n)) = n /\ n \in Nat
          /\ \A i \in 1 .. n : FrameOK(Data(n)[i]) /\ Data(n)[i].type = "data"
        BY <1>6
    <2>4. nextStream' = nextStream + 1 /\ a.descriptor.streamId = nextStream + 1
        BY <1>10, <2>1, <2>2 DEF id
    <2>5. CASE wire' = wire \o Data(n) \o r
        <3> DEFINE dn == Data(n)
                   new == dn \o r
        <3>0. dn \in Seq(Frame) /\ Len(dn) = n
            BY <2>3
        <3> HIDE DEF dn
        <3>1. new \in Seq(Frame) /\ Len(new) = n + 1
              /\ \A i \in 1 .. n : new[i] = dn[i]
            BY <2>2, <3>0, ConcatSingle
        <3>2. new[n + 1] = r[1]
            BY <2>2, <3>0, ConcatSingle
        <3> USE DEF dn
        <3>3. wire' = wire \o new
            BY <1>2, <2>2, <2>3, <2>5, ConcatAssociative
        <3>4. \A i \in 1 .. Len(new) : i \in 1 .. n \/ i = n + 1
            BY <2>3, <3>1
        <3> HIDE DEF new
        <3>5. Sent(new, n + 1)
            BY <2>2, <2>3, <2>4, <3>1, <3>2, <3>3, <3>4 DEF Sent
        <3> QED BY <1>1, <1>3, <2>3, <2>4, <3>5, SentInv
    <2>6. CASE wire' = wire \o r \o Data(n)
        <3> DEFINE new == r \o Data(n)
        <3>1. new \in Seq(Frame) /\ Len(new) = n + 1
              /\ \A i \in 2 .. n + 1 : i - 1 \in 1 .. n /\ new[i] = Data(n)[i - 1]
            BY <2>2, <2>3, ConcatSingle
        <3>2. new[1] = r[1]
            BY <2>2, <2>3, ConcatSingle
        <3>3. wire' = wire \o new
            BY <1>2, <2>2, <2>3, <2>6, ConcatAssociative
        <3>4. \A i \in 1 .. Len(new) : i = 1 \/ i \in 2 .. n + 1
            BY <2>3, <3>1
        <3> HIDE DEF new
        <3>5. Sent(new, 1)
            BY <2>2, <2>3, <2>4, <3>1, <3>2, <3>3, <3>4 DEF Sent
        <3> QED BY <1>1, <1>3, <2>3, <2>4, <3>5, SentInv
    <2> QED BY <1>10, <2>5, <2>6
<1> QED BY <1>4, <1>8, <1>9, <1>10

-----------------------------------------------------------------------------
(* Frames from the guest *)

(* What accept makes of a stream. *)
LEMMA ExtendedType ==
    ASSUME NEW s \in Stream, NEW f, f.payload \in Payload, f.final \in BOOLEAN
    PROVE  Extended(s, f) \in Stream /\ Extended(s, f).retention = s.retention
<1>1. s.chunks \in Seq(Payload)
    BY DEF Stream
<1>2. Append(s.chunks, f.payload) \in Seq(Payload)
    BY <1>1
<1> QED BY <1>2 DEF Stream, Extended

(* The frames behind the first. *)
LEMMA TailTyped ==
    ASSUME NetTyped, wire # <<>>, wire' = Tail(wire), conn' \in {"up", "failing", "down"},
           inbox' = inbox, nextStream' = nextStream
    PROVE  NetTyped'
<1>1. wire \in Seq(Frame)
    BY DEF NetTyped
<1>2. /\ wire' \in Seq(Frame) /\ Len(wire') \in Nat
      /\ \A i \in 1 .. Len(wire') : i + 1 \in 1 .. Len(wire) /\ wire'[i] = wire[i + 1]
    BY <1>1, HeadTailProperties
<1>3. \A i \in 1 .. Len(wire') : FrameOK(wire'[i])
    BY <1>2 DEF NetTyped
<1> QED BY <1>2, <1>3 DEF NetTyped

(* A data frame is added to its stream, or fails the connection. *)
LEMMA HandleDataInv ==
    ASSUME Inv, HandleData
    PROVE  Inv'
<1> DEFINE f == Head(wire)
           id == f.streamId
           known == id \in DOMAIN streams
           old == IF known THEN streams[id] ELSE [NewStream EXCEPT !.retention = TRUE]
           s == Extended(old, f)
<1>0. /\ conn # "down" /\ wire # <<>> /\ f.type = "data" /\ wire' = Tail(wire)
      /\ UNCHANGED <<want, image, pending, inbox, nextStream, store>>
    BY DEF HandleData
<1>1. wire \in Seq(Frame) /\ phase \in [Calls -> Phases]
    BY DEF Inv, NetTyped, CallsTyped
<1>2. FrameOK(f)
    <2>1. 1 \in 1 .. Len(wire) /\ f = wire[1]
        BY <1>0, <1>1
    <2> QED BY <2>1 DEF Inv, NetTyped
<1>3. id \in Nat \ {0} /\ f.payload \in Payload /\ f.final \in BOOLEAN
    <2> HIDE DEF f
    <2>1. f \in [type : {"data"}, streamId : Nat, final : BOOLEAN, payload : Payload]
        BY <1>0, <1>2 DEF FrameOK, Frame
    <2> QED BY <1>0, <1>2, <2>1 DEF FrameOK
<1>4. s \in Stream /\ s.retention = IF known THEN streams[id].retention ELSE TRUE
    <2>1. old \in Stream /\ old.retention = IF known THEN streams[id].retention ELSE TRUE
        <3>1. CASE known
            BY <3>1 DEF Inv, StreamsTyped
        <3>2. CASE ~known
            <4>0. <<>> \in Seq(Payload)
                OBVIOUS
            <4>1. NewStream \in Stream
                BY <4>0 DEF NewStream, Stream
            <4>2. [NewStream EXCEPT !.retention = TRUE] \in Stream
                  /\ [NewStream EXCEPT !.retention = TRUE].retention = TRUE
                BY <4>1 DEF Stream
            <4> QED BY <3>2, <4>2
        <3> QED BY <3>1, <3>2
    <2> HIDE DEF old, f
    <2> QED BY <1>3, <2>1, ExtendedType
<1>5. \/ conn' = "failing" /\ phase' = phase /\ streams' = streams
      \/ /\ streams' = With(id, s) /\ conn' = conn
         /\ phase' = [d \in Calls |-> IF s.complete /\ d \in Waiters(id) THEN "woken" ELSE phase[d]]
    BY DEF HandleData, Accept
<1>6. SameClaims
    BY <1>0, <1>1, <1>5 DEF SameClaims, Waiters
<1>7. \A d \in Calls : phase'[d] # phase[d] => phase[d] = "waiting" /\ phase'[d] = "woken"
    BY <1>1, <1>5 DEF Waiters
<1>8. CallsTyped'
    <2>1. phase' \in [Calls -> Phases]
        BY <1>1, <1>5 DEF Phases
    <2> QED BY <1>0, <2>1 DEF Inv, CallsTyped
<1> HIDE DEF f, s, old
<1>9. NetTyped'
    <2>1. conn' \in {"up", "failing", "down"}
        BY <1>5 DEF Inv, NetTyped
    <2> QED BY <1>0, <2>1, TailTyped DEF Inv
<1>10. StreamsTyped'
    <2>1. CASE streams' = streams
        BY <2>1 DEF Inv, StreamsTyped
    <2>2. CASE streams' = With(id, s)
        BY <1>3, <1>4, <2>2 DEF Inv, StreamsTyped, With
    <2> QED BY <1>5, <2>1, <2>2
<1>11. IdsAreFresh'
    <2>1. \A d \in Calls : Active(d)' => Active(d) /\ want'[d] = want[d]
        BY <1>0, <1>7 DEF Active
    <2>2. Taken(None)
        BY <1>0, <1>1, <2>1 DEF Taken
    <2> QED BY <2>2, IdsTail DEF Inv
<1>12. ClaimsMatch'
    <2>1. CASE streams' = streams
        BY <1>6, <2>1, ClaimsShift DEF Inv
    <2>2. CASE streams' = With(id, s)
        BY <1>4, <1>6, <2>2, ClaimsExtend DEF Inv
    <2> QED BY <1>5, <2>1, <2>2
<1>13. DownIsEmpty'
    BY <1>0, <1>5 DEF DownIsEmpty
<1>14. CallsWhere' /\ StoresOwnCapture'
    BY <1>0, <1>7 DEF Inv, CallsWhere, CallsTyped, StoresOwnCapture, store
<1>15. StoreTyped' /\ Chain' /\ StoreIsBounded'
    BY <1>0 DEF Inv, StoreTyped, Chain, StoreIsBounded, store
<1> QED BY <1>8, <1>9, <1>10, <1>11, <1>12, <1>13, <1>14, <1>15 DEF Inv

(* A response settles the request that waits for it. *)
LEMMA HandleResponseInv ==
    ASSUME Inv, HandleResponse
    PROVE  Inv'
<1> DEFINE f == Head(wire)
           c == f.to
<1>0. /\ conn # "down" /\ wire # <<>> /\ f.type = "response" /\ wire' = Tail(wire)
      /\ UNCHANGED <<image, conn, inbox, nextStream, streams, store>>
    BY DEF HandleResponse
<1>1. wire \in Seq(Frame) /\ phase \in [Calls -> Phases] /\ want \in [Calls -> Descriptor \cup {None}]
      /\ pending \subseteq Calls
    BY DEF Inv, NetTyped, CallsTyped
<1>2. 1 \in 1 .. Len(wire) /\ f = wire[1] /\ FrameOK(f)
    <2>1. 1 \in 1 .. Len(wire) /\ f = wire[1]
        BY <1>0, <1>1
    <2> QED BY <2>1 DEF Inv, NetTyped
<1>3. c \in Calls /\ f.descriptor \in Descriptor \cup {None}
    <2> HIDE DEF f
    <2>1. f \in [type : {"response"}, to : Calls, descriptor : Descriptor \cup {None}]
        BY <1>0, <1>2 DEF FrameOK, Frame
    <2> QED BY <2>1
<1>4. \/ /\ c \in pending /\ pending' = pending \ {c}
         /\ phase' = [phase EXCEPT ![c] = "answered"]
         /\ want' = [want EXCEPT ![c] = f.descriptor]
      \/ pending' = pending /\ phase' = phase /\ want' = want
    BY DEF HandleResponse
<1> HIDE DEF f, c
<1>5. /\ \A d \in Calls : d # c => phase'[d] = phase[d] /\ want'[d] = want[d]
      /\ \/ phase[c] = "asked" /\ phase'[c] = "answered" /\ want'[c] = f.descriptor /\ c \notin pending'
         \/ phase'[c] = phase[c] /\ want'[c] = want[c]
    BY <1>1, <1>3, <1>4 DEF Inv, CallsWhere
<1>6. CallsTyped'
    BY <1>0, <1>1, <1>3, <1>4 DEF Inv, CallsTyped, Phases
<1>7. NetTyped'
    <2>1. conn' \in {"up", "failing", "down"}
        BY <1>0 DEF Inv, NetTyped
    <2> QED BY <1>0, <2>1, TailTyped DEF Inv
<1>8. IdsAreFresh'
    <2>1. ASSUME NEW d \in Calls, Active(d)'
          PROVE  \/ Active(d) /\ want'[d] = want[d]
                 \/ d = c /\ Names(1) /\ want'[d] = wire[1].descriptor
        <3>1. CASE phase'[d] = phase[d] /\ want'[d] = want[d]
            BY <2>1, <3>1 DEF Active
        <3>2. CASE d = c /\ want'[c] = f.descriptor
            BY <1>0, <1>2, <2>1, <3>2 DEF Active, Names
        <3> QED BY <1>5, <3>1, <3>2
    <2>2. Taken(c)
        BY <1>0, <1>1, <2>1 DEF Taken
    <2> QED BY <2>2, IdsTail DEF Inv
<1>9. ClaimsMatch'
    <2>1. \A d \in Calls : phase'[d] \in {"waiting", "woken"} =>
              phase[d] \in {"waiting", "woken"} /\ want'[d] = want[d]
        BY <1>5
    <2>2. \A d \in Calls : phase[d] \in {"waiting", "woken"} =>
              phase'[d] \in {"waiting", "woken"} /\ want'[d] = want[d]
        BY <1>5
    <2> QED BY <1>0, <2>1, <2>2 DEF Inv, ClaimsMatch, Claims
<1>10. DownIsEmpty'
    BY <1>0 DEF DownIsEmpty
<1>11. CallsWhere'
    <2>1. \A d \in pending' : d \in pending /\ (d = c => phase'[d] = phase[d])
        BY <1>4, <1>5
    <2>2. \A d \in Calls : phase[d] = "storing" => phase'[d] = "storing"
        BY <1>5
    <2> QED BY <1>0, <1>1, <1>5, <2>1, <2>2 DEF Inv, CallsWhere, store
<1>12. StoresOwnCapture'
    BY <1>0, <1>5 DEF Inv, StoresOwnCapture
<1>13. StreamsTyped' /\ StoreTyped' /\ Chain' /\ StoreIsBounded'
    BY <1>0 DEF Inv, StreamsTyped, StoreTyped, Chain, StoreIsBounded, store
<1> QED BY <1>6, <1>7, <1>8, <1>9, <1>10, <1>11, <1>12, <1>13 DEF Inv

-----------------------------------------------------------------------------
(* processGuestResponse *)

(* A whole capture is a sequence of parts. *)
LEMMA WholeType ==
    ASSUME NEW c \in Calls, NEW n \in Nat
    PROVE  Whole(c, n) \in Seq(Payload)
<1>1. \A k \in 1 .. n : <<c, k>> \in Payload
    BY DEF Payload
<1>2. Whole(c, n) \in [1 .. n -> Payload]
    BY <1>1 DEF Whole
<1> QED BY <1>2, IsASeq

\* The call c fails, or goes on to store its own capture, and leaves the guest behind.
Finishes(c) ==
    /\ phase[c] \in {"answered", "waiting", "woken"}
    /\ \/ Fail(c)
       \/ want[c] # None /\ Put(c, Whole(c, want[c].total))
    /\ UNCHANGED <<want, pending, net, running, files>>

\* Everything that does not depend on the registry.
Rest ==
    /\ CallsTyped /\ NetTyped /\ StoreTyped /\ IdsAreFresh /\ DownIsEmpty /\ CallsWhere /\ Chain
    /\ StoresOwnCapture /\ StoreIsBounded

(* The call is done with the guest; a put joins the end of the chain. *)
LEMMA FinishesRest ==
    ASSUME Rest, NEW c \in Calls, Finishes(c)
    PROVE  /\ Rest'
           /\ phase'[c] \in {"failed", "storing"}
           /\ \A d \in Calls \ {c} : phase'[d] = phase[d]
<1> DEFINE data == Whole(c, want[c].total)
<1>0. /\ phase \in [Calls -> Phases] /\ want \in [Calls -> Descriptor \cup {None}]
      /\ image \in [Calls -> Seq(Payload)]
      /\ maintenance \in Seq(Calls \cup {Boot}) /\ op \in [Calls \cup {Boot} -> OpRecord]
      /\ phase[c] \in {"answered", "waiting", "woken"}
      /\ UNCHANGED <<want, pending, conn, inbox, nextStream, wire, running, files>>
    BY DEF Rest, CallsTyped, StoreTyped, Finishes, net
<1>1. \/ /\ phase' = [phase EXCEPT ![c] = "failed"]
         /\ UNCHANGED <<image, maintenance, op>>
      \/ /\ want[c] # None
         /\ phase' = [phase EXCEPT ![c] = "storing"]
         /\ image' = [image EXCEPT ![c] = data]
         /\ maintenance' = Append(maintenance, c)
         /\ \E b \in Nat : op' = [op EXCEPT ![c] = NewOp(b)]
    <2>1. CASE Fail(c)
        BY <2>1 DEF Fail
    <2>2. ASSUME want[c] # None, Put(c, data)
          PROVE  \/ /\ phase' = [phase EXCEPT ![c] = "failed"]
                    /\ UNCHANGED <<image, maintenance, op>>
                 \/ /\ want[c] # None
                    /\ phase' = [phase EXCEPT ![c] = "storing"]
                    /\ image' = [image EXCEPT ![c] = data]
                    /\ maintenance' = Append(maintenance, c)
                    /\ \E b \in Nat : op' = [op EXCEPT ![c] = NewOp(b)]
        <3> HIDE DEF data
        <3> QED BY <2>2, CaptureAssumption DEF Put, Fail, NormalizeImageToPng
    <2> QED BY <2>1, <2>2 DEF Finishes
<1>2. /\ phase'[c] \in {"failed", "storing"}
      /\ \A d \in Calls \ {c} : phase'[d] = phase[d]
    BY <1>0, <1>1
<1>3. want[c] # None => data \in Seq(Payload)
    <2>1. want[c] # None => want[c].total \in Nat
        BY <1>0 DEF Descriptor
    <2> QED BY <2>1, WholeType
<1>4. CallsTyped'
    <2>1. phase' \in [Calls -> Phases]
        BY <1>0, <1>1 DEF Phases
    <2>2. image' \in [Calls -> Seq(Payload)]
        <3> HIDE DEF data
        <3> QED BY <1>0, <1>1, <1>3
    <2> QED BY <1>0, <2>1, <2>2 DEF Rest, CallsTyped
<1>5. NetTyped' /\ StoreIsBounded'
    BY <1>0 DEF Rest, NetTyped, StoreIsBounded
<1>6. IdsAreFresh'
    <2>1. \A d \in Calls : Active(d)' => Active(d) /\ want'[d] = want[d]
        BY <1>0, <1>2 DEF Active
    <2> QED BY <1>0, <2>1, IdsShrink DEF Rest
<1>7. DownIsEmpty'
    BY <1>0, <1>2 DEF Rest, DownIsEmpty
<1>8. StoresOwnCapture'
    <2>1. ASSUME NEW d \in Calls, phase'[d] \in {"storing", "stored"}
          PROVE  image'[d] = Whole(d, want'[d].total)
        <3>1. CASE d = c
            <4>1. image' = [image EXCEPT ![c] = data]
                BY <1>0, <1>1, <2>1, <3>1
            <4> QED BY <1>0, <3>1, <4>1
        <3>2. CASE d # c
            <4>1. phase[d] \in {"storing", "stored"} /\ image'[d] = image[d]
                BY <1>0, <1>1, <2>1, <3>2
            <4> QED BY <1>0, <4>1 DEF Rest, StoresOwnCapture
        <3> QED BY <3>1, <3>2
    <2> QED BY <2>1 DEF StoresOwnCapture
<1> HIDE DEF data
<1>9. \A i \in 1 .. Len(maintenance) : maintenance[i] # c
    BY <1>0 DEF Rest, CallsWhere
<1>10. CASE maintenance' = maintenance /\ op' = op
    <2>1. StoreTyped' /\ Chain'
        BY <1>0, <1>10 DEF Rest, StoreTyped, Chain
    <2>2. CallsWhere'
        BY <1>0, <1>2, <1>9, <1>10 DEF Rest, CallsWhere, CallsTyped
    <2> QED BY <1>2, <1>4, <1>5, <1>6, <1>7, <1>8, <2>1, <2>2 DEF Rest
<1>11. ASSUME NEW b \in Nat, maintenance' = Append(maintenance, c), op' = [op EXCEPT ![c] = NewOp(b)],
              phase' = [phase EXCEPT ![c] = "storing"]
       PROVE  Rest'
    <2> DEFINE m == Len(maintenance)
    <2>1. /\ m \in Nat /\ maintenance' \in Seq(Calls \cup {Boot}) /\ Len(maintenance') = m + 1
          /\ maintenance'[m + 1] = c
          /\ \A i \in 1 .. m : maintenance'[i] = maintenance[i]
          /\ \A i \in 1 .. m + 1 : i \in 1 .. m \/ i = m + 1
        <3>1. m \in Nat /\ c \in Calls \cup {Boot}
            BY <1>0
        <3>2. maintenance' \in Seq(Calls \cup {Boot}) /\ Len(maintenance') = m + 1
            BY <1>0, <1>11, <3>1, AppendProperties
        <3>3. maintenance'[m + 1] = c /\ \A i \in 1 .. m : maintenance'[i] = maintenance[i]
            BY <1>0, <1>11, <3>1, AppendProperties
        <3> HIDE DEF m
        <3>4. \A i \in 1 .. m + 1 : i \in 1 .. m \/ i = m + 1
            BY <3>1
        <3> QED BY <3>1, <3>2, <3>3, <3>4
    <2>2. NewOp(b) \in OpRecord /\ NewOp(b).stage = "scan"
        BY NewOpType
    <2>3. op'[c] = NewOp(b) /\ \A x \in Calls \cup {Boot} : x # c => op'[x] = op[x]
        BY <1>0, <1>11
    <2>4. StoreTyped'
        <3>1. op' \in [Calls \cup {Boot} -> OpRecord]
            BY <1>0, <1>11, <2>2
        <3> QED BY <1>0, <2>1, <3>1 DEF Rest, StoreTyped
    <2>5. \A i \in 1 .. m : op'[maintenance[i]] = op[maintenance[i]]
        <3>1. \A i \in 1 .. m : maintenance[i] \in Calls \cup {Boot} /\ maintenance[i] # c
            BY <1>0, <1>9
        <3> QED BY <2>3, <3>1
    <2> HIDE DEF m
    <2>6. CallsWhere'
        <3>0. \A d \in pending : phase'[d] = "asked"
            BY <1>0, <1>2 DEF Rest, CallsWhere, CallsTyped
        <3>1. ASSUME NEW i \in 1 .. m + 1, maintenance'[i] \in Calls
              PROVE  phase'[maintenance'[i]] = "storing"
            BY <1>0, <1>11, <2>1, <3>1 DEF Rest, CallsWhere, m
        <3>2. ASSUME NEW i \in 1 .. m + 1, NEW j \in 1 .. m + 1, i # j
              PROVE  maintenance'[i] # maintenance'[j]
            <4>1. CASE i \in 1 .. m /\ j \in 1 .. m
                BY <2>1, <3>2, <4>1 DEF Rest, CallsWhere, m
            <4>2. CASE i = m + 1
                BY <1>9, <2>1, <3>2, <4>2 DEF m
            <4>3. CASE j = m + 1
                BY <1>9, <2>1, <3>2, <4>3 DEF m
            <4> QED BY <2>1, <4>1, <4>2, <4>3
        <3>3. ASSUME NEW i \in 1 .. m + 1, maintenance'[i] = Boot PROVE i = 1
            <4>1. i # m + 1
                BY <2>1, <3>3, CaptureAssumption
            <4>2. i \in 1 .. m
                BY <2>1, <4>1
            <4> QED BY <2>1, <3>3, <4>2 DEF Rest, CallsWhere, m
        <3> QED BY <1>0, <2>1, <3>0, <3>1, <3>2, <3>3 DEF CallsWhere
    <2>7. Chain'
        <3>1. ASSUME NEW i \in 2 .. m + 1 PROVE op'[maintenance'[i]].stage = "scan"
            <4>1. CASE i = m + 1
                BY <2>1, <2>2, <2>3, <4>1
            <4>2. CASE i # m + 1
                <5>1. i \in 2 .. m /\ i \in 1 .. m
                    BY <2>1, <4>2
                <5> QED BY <2>1, <2>5, <5>1 DEF Rest, Chain, m
            <4> QED BY <4>1, <4>2
        <3>2. CASE m = 0
            <4>1. Head(maintenance') = c
                BY <2>1, <3>2
            <4> QED BY <2>1, <2>2, <2>3, <3>1, <4>1 DEF Chain
        <3>3. CASE m # 0
            <4>1. 1 \in 1 .. m /\ maintenance # <<>> /\ Head(maintenance) = maintenance[1]
                BY <1>0, <2>1, <3>3 DEF m
            <4>2. Head(maintenance') = maintenance[1]
                BY <2>1, <4>1
            <4>3. op'[Head(maintenance')] = op[Head(maintenance)]
                  /\ Head(maintenance') = Head(maintenance)
                BY <2>5, <4>1, <4>2
            <4> QED BY <1>0, <2>1, <3>1, <4>1, <4>3 DEF Rest, Chain
        <3> QED BY <3>2, <3>3
    <2> QED BY <1>4, <1>5, <1>6, <1>7, <1>8, <2>4, <2>6, <2>7 DEF Rest
<1> QED BY <1>1, <1>2, <1>10, <1>11

(* An active call that fails or stores its capture, and drops its stream. *)
LEMMA DropsInv ==
    ASSUME Inv, NEW c \in Calls, Active(c), Finishes(c), streams' = Without(want[c].streamId)
    PROVE  Inv'
<1>1. Rest' /\ phase'[c] \in {"failed", "storing"} /\ \A d \in Calls \ {c} : phase'[d] = phase[d]
    BY FinishesRest DEF Inv, Rest
<1>2. StreamsTyped'
    BY DEF Inv, StreamsTyped, Without
<1>3. ClaimsMatch'
    <2> DEFINE id == want[c].streamId
    <2>1. \A d \in Calls \ {c} : ~Claims(d, id)
        BY AloneOnStream DEF Inv
    <2>2. GivesUp(c, id)
        BY <1>1, <2>1 DEF GivesUp, Finishes
    <2> HIDE DEF id
    <2> QED BY <2>2, ClaimsDrop DEF Inv
<1> QED BY <1>1, <1>2, <1>3 DEF Inv, Rest

(* A wait that has come to its end. *)
LEMMA EndWaitInv ==
    ASSUME Inv, NEW c \in Calls, Active(c), NEW s, EndWait(c, s),
           UNCHANGED <<want, pending, net, running, files>>
    PROVE  Inv'
<1>1. phase[c] \in {"answered", "waiting", "woken"} /\ want[c] # None
    BY DEF Active, Streamed
<1>2. Finishes(c)
    <2>1. CASE Fail(c)
        BY <1>1, <2>1 DEF Finishes
    <2>2. CASE Verified(c, s.chunks) /\ Put(c, s.chunks)
        <3>1. s.chunks = Whole(c, want[c].total)
            BY <2>2 DEF Verified
        <3> QED BY <1>1, <2>2, <3>1 DEF Finishes
    <2> QED BY <2>1, <2>2 DEF EndWait
<1>3. streams' = Without(want[c].streamId)
    BY DEF EndWait
<1> QED BY <1>2, <1>3, DropsInv

(* From the response to the first await. *)
LEMMA ProcessGuestResponseInv ==
    ASSUME Inv, NEW c \in Calls, ProcessGuestResponse(c)
    PROVE  Inv'
<1>0. phase[c] = "answered" /\ UNCHANGED <<want, pending, net, running, files>>
    BY DEF ProcessGuestResponse
<1>1. ASSUME Finishes(c), streams' = streams PROVE Inv'
    <2>1. Rest' /\ phase'[c] \in {"failed", "storing"} /\ \A d \in Calls \ {c} : phase'[d] = phase[d]
        BY <1>1, FinishesRest DEF Inv, Rest
    <2>2. SameClaims
        BY <1>0, <2>1 DEF SameClaims
    <2>3. ClaimsMatch' /\ StreamsTyped'
        BY <1>1, <2>2, ClaimsShift DEF Inv, StreamsTyped
    <2> QED BY <2>1, <2>3 DEF Inv, Rest
<1>2. CASE Fail(c) /\ UNCHANGED streams
    BY <1>0, <1>1, <1>2 DEF Finishes
<1>3. CASE want[c] # None /\ Put(c, Whole(c, want[c].total)) /\ UNCHANGED streams
    BY <1>0, <1>1, <1>3 DEF Finishes
<1> DEFINE id == want[c].streamId
           s == IF id \in DOMAIN streams THEN streams[id] ELSE NewStream
<1>4. CASE want[c] # None /\ ~want[c].inline /\ s.complete /\ EndWait(c, s)
    <2>1. Active(c)
        BY <1>0, <1>4 DEF Active, Streamed
    <2> HIDE DEF s
    <2> QED BY <1>0, <1>4, <2>1, EndWaitInv
<1>5. CASE /\ want[c] # None /\ ~want[c].inline
           /\ streams' = With(id, [s EXCEPT !.retention = FALSE])
           /\ phase' = [phase EXCEPT ![c] = "waiting"]
           /\ UNCHANGED <<image, maintenance, op>>
    <2>0. /\ phase \in [Calls -> Phases]
          /\ UNCHANGED <<want, pending, conn, inbox, nextStream, wire, running, files>>
        BY <1>0 DEF Inv, CallsTyped, net
    <2>1. phase'[c] = "waiting" /\ \A d \in Calls \ {c} : phase'[d] = phase[d]
        BY <1>5, <2>0
    <2>2. Active(c) /\ id \in 1 .. nextStream /\ nextStream \in Nat
        BY <1>0, <1>5 DEF Active, Streamed, Inv, IdsAreFresh, NetTyped
    <2> DEFINE t == [s EXCEPT !.retention = FALSE]
    <2>3. t \in Stream /\ t.retention = FALSE
        <3>1. s \in Stream
            <4>1. <<>> \in Seq(Payload)
                OBVIOUS
            <4>2. NewStream \in Stream
                BY <4>1 DEF NewStream, Stream
            <4> QED BY <4>2 DEF Inv, StreamsTyped
        <3> HIDE DEF s
        <3> QED BY <3>1 DEF Stream
    <2>4. CallsTyped'
        <3>1. phase' \in [Calls -> Phases]
            BY <1>5, <2>0 DEF Phases
        <3> QED BY <1>5, <2>0, <3>1 DEF Inv, CallsTyped
    <2>5. NetTyped' /\ StoreTyped' /\ Chain' /\ StoreIsBounded'
        <3> HIDE DEF s
        <3> QED BY <1>5, <2>0 DEF Inv, NetTyped, StoreTyped, Chain, StoreIsBounded
    <2> HIDE DEF t, s
    <2>6. streams' = With(id, t)
        BY <1>5 DEF t
    <2>7. StreamsTyped'
        BY <2>2, <2>3, <2>6 DEF Inv, StreamsTyped, With
    <2>8. IdsAreFresh'
        <3>1. \A d \in Calls : Active(d)' => Active(d) /\ want'[d] = want[d]
            BY <1>0, <1>5, <2>0, <2>1, <2>2 DEF Active
        <3> QED BY <2>0, <3>1, IdsShrink DEF Inv
    <2>9. ClaimsMatch'
        <3>1. DOMAIN streams' = DOMAIN streams \cup {id} /\ streams'[id] = t
              /\ \A i \in DOMAIN streams \ {id} : streams'[i] = streams[i]
            BY <2>6 DEF With
        <3>2. ASSUME NEW d \in Calls, phase'[d] \in {"waiting", "woken"}
              PROVE  /\ Streamed(want'[d])
                     /\ want'[d].streamId \in DOMAIN streams'
                     /\ ~streams'[want'[d].streamId].retention
            <4>1. CASE d = c
                BY <1>5, <2>0, <2>3, <3>1, <4>1 DEF Streamed
            <4>2. CASE d # c
                <5>1. phase[d] \in {"waiting", "woken"}
                    BY <2>1, <3>2, <4>2
                <5>2. ~Claims(d, id)
                    BY <2>2, <4>2, AloneOnStream DEF Inv
                <5>3. want[d].streamId # id
                    BY <5>1, <5>2 DEF Claims
                <5> QED BY <2>0, <3>1, <5>1, <5>3 DEF Inv, ClaimsMatch
            <4> QED BY <4>1, <4>2
        <3>3. ASSUME NEW i \in DOMAIN streams', ~streams'[i].retention
              PROVE  \E d \in Calls : Claims(d, i)'
            <4>1. CASE i = id
                BY <2>0, <2>1, <4>1 DEF Claims
            <4>2. CASE i # id
                <5>1. i \in DOMAIN streams /\ ~streams[i].retention
                    BY <3>1, <3>3, <4>2
                <5>2. PICK d \in Calls : Claims(d, i)
                    BY <5>1 DEF Inv, ClaimsMatch
                <5>3. d # c
                    BY <1>0, <5>2 DEF Claims
                <5> QED BY <2>0, <2>1, <5>2, <5>3 DEF Claims
            <4> QED BY <4>1, <4>2
        <3> QED BY <3>2, <3>3 DEF ClaimsMatch, Streamed
    <2>10. DownIsEmpty'
        BY <1>0, <2>0 DEF Inv, DownIsEmpty
    <2>11. CallsWhere' /\ StoresOwnCapture'
        BY <1>0, <1>5, <2>0, <2>1 DEF Inv, CallsWhere, CallsTyped, StoresOwnCapture
    <2> QED BY <2>4, <2>5, <2>7, <2>8, <2>9, <2>10, <2>11 DEF Inv
<1> QED BY <1>2, <1>3, <1>4, <1>5 DEF ProcessGuestResponse

(* The continuation of a waitFor. *)
LEMMA GoOnInv ==
    ASSUME Inv, NEW c \in Calls, GoOn(c)
    PROVE  Inv'
<1>1. phase[c] = "woken" /\ EndWait(c, streams[want[c].streamId])
      /\ UNCHANGED <<want, pending, net, running, files>>
    BY DEF GoOn
<1>2. Active(c)
    BY <1>1 DEF Inv, ClaimsMatch, Active
<1> QED BY <1>1, <1>2, EndWaitInv

(* DATA_STREAM_TIMEOUT. *)
LEMMA WaitTimeoutInv ==
    ASSUME Inv, NEW c \in Calls, WaitTimeout(c)
    PROVE  Inv'
<1>1. phase[c] = "waiting" /\ Fail(c) /\ streams' = Without(want[c].streamId)
      /\ UNCHANGED <<want, pending, net, running, files>>
    BY DEF WaitTimeout
<1>2. Active(c)
    BY <1>1 DEF Inv, ClaimsMatch, Active
<1>3. Finishes(c)
    BY <1>1 DEF Finishes
<1> QED BY <1>1, <1>2, <1>3, DropsInv

(* The retention timer takes a stream that nobody has claimed. *)
LEMMA RetentionInv ==
    ASSUME Inv, NEW id \in DOMAIN streams, Retention(id)
    PROVE  Inv'
<1> USE DEF Retention, calls, net, store
<1>1. /\ CallsTyped' /\ NetTyped' /\ StoreTyped' /\ IdsAreFresh' /\ DownIsEmpty' /\ CallsWhere'
      /\ Chain' /\ StoresOwnCapture' /\ StoreIsBounded'
    BY DEF Inv, CallsTyped, NetTyped, StoreTyped, IdsAreFresh, Active, Names, DownIsEmpty,
           CallsWhere, Chain, StoresOwnCapture, StoreIsBounded
<1>2. DOMAIN streams' = DOMAIN streams \ {id} /\ \A i \in DOMAIN streams' : streams'[i] = streams[i]
    BY DEF Without
<1>3. StreamsTyped'
    BY <1>2 DEF Inv, StreamsTyped
<1>4. ClaimsMatch'
    <2>1. streams[id].retention
        OBVIOUS
    <2>2. \A c \in Calls : phase[c] \in {"waiting", "woken"} => want[c].streamId # id
        BY <2>1 DEF Inv, ClaimsMatch
    <2>3. phase' = phase /\ want' = want
        OBVIOUS
    <2> HIDE DEF Retention
    <2> QED BY <1>2, <2>2, <2>3 DEF Inv, ClaimsMatch, Claims
<1> QED BY <1>1, <1>3, <1>4 DEF Inv

-----------------------------------------------------------------------------
(* The connection *)

(* The socket of the guest fails. *)
LEMMA SocketErrorInv ==
    ASSUME Inv, SocketError
    PROVE  Inv'
<1>0. /\ conn' = "failing"
      /\ UNCHANGED <<phase, want, image, pending, inbox, nextStream, wire, streams, running, files,
                     maintenance, op>>
    BY DEF SocketError, calls, store
<1>1. NetTyped' /\ DownIsEmpty'
    BY <1>0 DEF Inv, NetTyped, DownIsEmpty
<1>2. CallsTyped' /\ StreamsTyped' /\ StoreTyped'
    BY <1>0 DEF Inv, CallsTyped, StreamsTyped, StoreTyped
<1>3. IdsAreFresh'
    BY <1>0 DEF Inv, IdsAreFresh, Active, Names
<1>4. ClaimsMatch' /\ CallsWhere'
    BY <1>0 DEF Inv, ClaimsMatch, Claims, CallsWhere
<1>5. Chain' /\ StoresOwnCapture' /\ StoreIsBounded'
    BY <1>0 DEF Inv, Chain, StoresOwnCapture, StoreIsBounded
<1> QED BY <1>1, <1>2, <1>3, <1>4, <1>5 DEF Inv

(* Everything that waits for the guest is rejected. *)
LEMMA CloseInternalInv ==
    ASSUME Inv, CloseInternal
    PROVE  Inv'
<1>0. /\ conn' = "down" /\ inbox' = <<>> /\ wire' = <<>> /\ pending' = {} /\ streams' = <<>>
      /\ phase \in [Calls -> Phases]
      /\ phase' = [c \in Calls |-> IF c \in pending \cup WaitingForData THEN "failed" ELSE phase[c]]
      /\ Settled
      /\ UNCHANGED <<want, image, nextStream, running, files, maintenance, op>>
    BY DEF CloseInternal, store, Inv, CallsTyped
<1>1. \A c \in Calls : \/ phase'[c] = phase[c] /\ phase[c] \notin {"answered", "waiting", "woken"}
                       \/ phase'[c] = "failed" /\ phase[c] # "storing"
    BY <1>0 DEF Settled, WaitingForData, Inv, CallsWhere
<1>2. CallsTyped'
    <2>1. phase' \in [Calls -> Phases]
        BY <1>0 DEF Phases
    <2> QED BY <1>0, <2>1 DEF Inv, CallsTyped
<1>3. NetTyped' /\ StreamsTyped'
    BY <1>0 DEF Inv, NetTyped, StreamsTyped
<1>4. StoreTyped' /\ Chain' /\ StoreIsBounded'
    BY <1>0 DEF Inv, StoreTyped, Chain, StoreIsBounded
<1>5. IdsAreFresh'
    BY <1>0, <1>1 DEF IdsAreFresh, Active
<1>6. ClaimsMatch' /\ DownIsEmpty'
    BY <1>0, <1>1 DEF ClaimsMatch, DownIsEmpty
<1>7. CallsWhere'
    BY <1>0, <1>1 DEF Inv, CallsWhere
<1>8. StoresOwnCapture'
    BY <1>0, <1>1 DEF Inv, StoresOwnCapture
<1> QED BY <1>2, <1>3, <1>4, <1>5, <1>6, <1>7, <1>8 DEF Inv

(* A new connection, on which the ids may start anew. *)
LEMMA ReconnectInv ==
    ASSUME Inv, Reconnect
    PROVE  Inv'
<1>0. /\ conn = "down" /\ conn' = "up" /\ nextStream' \in {0, nextStream}
      /\ UNCHANGED <<phase, want, image, pending, inbox, wire, streams, running, files, maintenance, op>>
    BY DEF Reconnect, calls, store
<1>1. wire = <<>> /\ \A c \in Calls : phase[c] \notin {"answered", "waiting", "woken"}
    BY <1>0 DEF Inv, DownIsEmpty
<1>2. IdsAreFresh'
    BY <1>0, <1>1 DEF IdsAreFresh, Active
<1>3. NetTyped' /\ DownIsEmpty'
    BY <1>0 DEF Inv, NetTyped, DownIsEmpty
<1>4. /\ CallsTyped' /\ StreamsTyped' /\ StoreTyped' /\ ClaimsMatch' /\ CallsWhere' /\ Chain'
      /\ StoresOwnCapture' /\ StoreIsBounded'
    <2>1. CallsTyped' /\ StreamsTyped' /\ StoreTyped'
        BY <1>0 DEF Inv, CallsTyped, StreamsTyped, StoreTyped
    <2>2. ClaimsMatch' /\ CallsWhere'
        BY <1>0 DEF Inv, ClaimsMatch, Claims, CallsWhere
    <2>3. Chain' /\ StoresOwnCapture' /\ StoreIsBounded'
        BY <1>0 DEF Inv, Chain, StoresOwnCapture, StoreIsBounded
    <2> QED BY <2>1, <2>2, <2>3
<1> QED BY <1>2, <1>3, <1>4 DEF Inv

-----------------------------------------------------------------------------
(* ArtifactStore *)

(* The first operation of the chain, and where the others are. *)
LEMMA HeadOfChain ==
    ASSUME Inv, NEW x, Runs(x)
    PROVE  /\ maintenance \in Seq(Calls \cup {Boot}) /\ maintenance # <<>> /\ x = Head(maintenance)
           /\ x \in Calls \cup {Boot}
           /\ op \in [Calls \cup {Boot} -> OpRecord] /\ op[x] \in OpRecord
           /\ \A i \in 2 .. Len(maintenance) :
                 /\ maintenance[i] \in Calls \cup {Boot} /\ maintenance[i] # x
                 /\ op[maintenance[i]].stage = "scan"
           /\ x \in Calls => phase[x] = "storing"
<1>1. maintenance \in Seq(Calls \cup {Boot}) /\ maintenance # <<>> /\ x = Head(maintenance)
      /\ op \in [Calls \cup {Boot} -> OpRecord]
    BY DEF Inv, StoreTyped, Runs
<1>2. Len(maintenance) \in Nat /\ 1 \in 1 .. Len(maintenance) /\ x = maintenance[1]
      /\ x \in Calls \cup {Boot}
    BY <1>1
<1>3. \A i \in 2 .. Len(maintenance) : i \in 1 .. Len(maintenance) /\ i # 1
    BY <1>2
<1>4. \A i \in 1 .. Len(maintenance) : maintenance[i] \in Calls \cup {Boot}
    BY <1>1
<1>5. \A i \in 2 .. Len(maintenance) : maintenance[i] # x
    BY <1>2, <1>3 DEF Inv, CallsWhere
<1>6. \A i \in 2 .. Len(maintenance) : op[maintenance[i]].stage = "scan"
    BY DEF Inv, Chain
<1>7. x \in Calls => phase[x] = "storing"
    BY <1>2 DEF Inv, CallsWhere
<1> QED BY <1>1, <1>2, <1>3, <1>4, <1>5, <1>6, <1>7

\* The operation x goes on within the chain.
Advances(x) ==
    /\ Runs(x)
    /\ op' = [op EXCEPT ![x] = op'[x]] /\ op'[x] \in OpRecord
    /\ files' \in Seq(Artifact)
    /\ op'[x].stage \in {"evict", "write"} => op'[x].total = TotalBytes(files')
    /\ op'[x].stage = "evict" => op'[x].listing = files'
    /\ op'[x].stage = "write" => x # Boot /\ op'[x].total + op'[x].bytes <= MaxTotalBytes
    /\ running => TotalBytes(files') <= MaxTotalBytes
    /\ UNCHANGED <<calls, pending, net, streams, running, maintenance>>

(* The others in the chain still have not begun. *)
LEMMA AdvancesInv ==
    ASSUME Inv, NEW x, Advances(x)
    PROVE  Inv'
<1>0. /\ Runs(x) /\ op' = [op EXCEPT ![x] = op'[x]] /\ op'[x] \in OpRecord /\ files' \in Seq(Artifact)
      /\ UNCHANGED <<phase, want, image, pending, conn, inbox, nextStream, wire, streams, running, maintenance>>
    BY DEF Advances, calls, net
<1>1. /\ CallsTyped' /\ NetTyped' /\ StreamsTyped' /\ IdsAreFresh' /\ ClaimsMatch' /\ DownIsEmpty'
      /\ CallsWhere' /\ StoresOwnCapture'
    <2>1. CallsTyped' /\ NetTyped' /\ StreamsTyped'
        BY <1>0 DEF Inv, CallsTyped, NetTyped, StreamsTyped
    <2>2. IdsAreFresh'
        BY <1>0 DEF Inv, IdsAreFresh, Active, Names
    <2>3. ClaimsMatch' /\ DownIsEmpty'
        BY <1>0 DEF Inv, ClaimsMatch, Claims, DownIsEmpty
    <2>4. CallsWhere' /\ StoresOwnCapture'
        BY <1>0 DEF Inv, CallsWhere, StoresOwnCapture
    <2> QED BY <2>1, <2>2, <2>3, <2>4
<1>2. StoreIsBounded'
    BY <1>0 DEF Advances, StoreIsBounded
<1>3. /\ maintenance # <<>> /\ x = Head(maintenance) /\ x \in Calls \cup {Boot}
      /\ op \in [Calls \cup {Boot} -> OpRecord]
      /\ \A i \in 2 .. Len(maintenance) :
            /\ maintenance[i] \in Calls \cup {Boot} /\ maintenance[i] # x
            /\ op[maintenance[i]].stage = "scan"
    BY <1>0, HeadOfChain
<1>4. op' \in [Calls \cup {Boot} -> OpRecord]
      /\ \A y \in Calls \cup {Boot} : y # x => op'[y] = op[y]
    BY <1>0, <1>3
<1>5. StoreTyped'
    BY <1>0, <1>4 DEF Inv, StoreTyped
<1>6. Chain'
    <2>1. \A i \in 2 .. Len(maintenance') : op'[maintenance'[i]].stage = "scan"
        BY <1>0, <1>3, <1>4
    <2> QED BY <1>0, <1>3, <2>1 DEF Advances, Chain
<1> QED BY <1>1, <1>2, <1>5, <1>6 DEF Inv

(* evictFor reads the directory. *)
LEMMA ScanInv ==
    ASSUME Inv, NEW x, Scan(x)
    PROVE  Inv'
<1>0. /\ Runs(x) /\ files' = files
      /\ op' = [op EXCEPT ![x].stage = "evict", ![x].listing = files, ![x].total = TotalBytes(files)]
      /\ UNCHANGED <<calls, pending, net, streams, running, maintenance>>
    BY DEF Scan
<1>1. x \in Calls \cup {Boot} /\ op \in [Calls \cup {Boot} -> OpRecord] /\ op[x] \in OpRecord
    BY <1>0, HeadOfChain
<1>2. files \in Seq(Artifact) /\ TotalBytes(files) \in Nat
    BY TotalBytesType DEF Inv, StoreTyped
<1>3. /\ op'[x].stage = "evict" /\ op'[x].listing = files /\ op'[x].total = TotalBytes(files)
      /\ op'[x] \in OpRecord /\ op' = [op EXCEPT ![x] = op'[x]]
    BY <1>0, <1>1, <1>2 DEF OpRecord
<1>4. Advances(x)
    BY <1>0, <1>2, <1>3 DEF Advances, Inv, StoreIsBounded
<1> QED BY <1>4, AdvancesInv

(* The file that is removed is the oldest. *)
LEMMA UnlinkStep ==
    ASSUME Inv, NEW x, Unlink(x)
    PROVE  /\ files \in Seq(Artifact) /\ files # <<>>
           /\ op[x].listing = files /\ op[x].total = TotalBytes(files)
           /\ files' = Tail(files)
           /\ files' \in Seq(Artifact)
           /\ TotalBytes(files) = Head(files).bytes + TotalBytes(files')
           /\ Head(files).bytes \in Nat /\ TotalBytes(files') \in Nat
           /\ TotalBytes(files) + op[x].bytes > MaxTotalBytes
           /\ x = Head(maintenance)
<1>0. /\ Runs(x) /\ op[x].stage = "evict" /\ ~Fits(x) /\ op[x].listing # <<>>
      /\ files' = RemoveFirst(files, Head(op[x].listing))
    BY DEF Unlink
<1>1. maintenance # <<>> /\ x = Head(maintenance) /\ op[x] \in OpRecord
    BY <1>0, HeadOfChain
<1>2. op[x].listing = files /\ op[x].total = TotalBytes(files)
    BY <1>0, <1>1 DEF Inv, Chain
<1>3. files \in Seq(Artifact) /\ files # <<>>
    BY <1>0, <1>2 DEF Inv, StoreTyped
<1>4. files' = Tail(files)
    BY <1>0, <1>2, <1>3, RemoveFirstHead
<1>5. Tail(files) \in Seq(Artifact) /\ Head(files) \in Artifact
      /\ TotalBytes(files) = Head(files).bytes + TotalBytes(Tail(files))
    BY <1>3, TotalBytesTail
<1>6. Head(files).bytes \in Nat /\ TotalBytes(Tail(files)) \in Nat /\ TotalBytes(files) \in Nat
    BY <1>3, <1>5, TotalBytesType DEF Artifact
<1>7. op[x].bytes \in Nat
    BY <1>1 DEF OpRecord
<1>8. TotalBytes(files) + op[x].bytes > MaxTotalBytes
    BY <1>0, <1>2, <1>6, <1>7, CaptureAssumption DEF Fits
<1> QED BY <1>1, <1>2, <1>3, <1>4, <1>5, <1>6, <1>8

(* evictFor removes the oldest file of its listing. *)
LEMMA UnlinkInv ==
    ASSUME Inv, NEW x, Unlink(x)
    PROVE  Inv'
<1>0. /\ Runs(x) /\ op[x].stage = "evict"
      /\ LET oldest == Head(op[x].listing)
         IN op' = [op EXCEPT ![x].listing = Tail(@), ![x].total = @ - oldest.bytes]
      /\ UNCHANGED <<calls, pending, net, streams, running, maintenance>>
    BY DEF Unlink
<1>1. x \in Calls \cup {Boot} /\ op \in [Calls \cup {Boot} -> OpRecord] /\ op[x] \in OpRecord
    BY <1>0, HeadOfChain
<1>2. /\ op[x].listing = files /\ op[x].total = TotalBytes(files)
      /\ files' = Tail(files) /\ files' \in Seq(Artifact)
      /\ TotalBytes(files) = Head(files).bytes + TotalBytes(files')
      /\ Head(files).bytes \in Nat /\ TotalBytes(files') \in Nat
    BY UnlinkStep
<1>3. TotalBytes(files) - Head(files).bytes = TotalBytes(files') /\ TotalBytes(files') <= TotalBytes(files)
    BY <1>2
<1>4. op' = [op EXCEPT ![x] = [op[x] EXCEPT !.listing = files', !.total = TotalBytes(files')]]
    BY <1>0, <1>1, <1>2, <1>3 DEF OpRecord
<1> DEFINE o == [op[x] EXCEPT !.listing = files', !.total = TotalBytes(files')]
<1>5. o \in OpRecord /\ o.stage = "evict" /\ o.listing = files' /\ o.total = TotalBytes(files')
    BY <1>0, <1>1, <1>2 DEF OpRecord
<1>6. op'[x] = o
    BY <1>1, <1>4
<1> HIDE DEF o
<1>7. running => TotalBytes(files') <= MaxTotalBytes
    BY <1>2, <1>3, CaptureAssumption DEF Inv, StoreIsBounded
<1>8. op' = [op EXCEPT ![x] = op'[x]]
    BY <1>4, <1>6 DEF o
<1>9. Advances(x)
    BY <1>0, <1>2, <1>5, <1>6, <1>7, <1>8 DEF Advances
<1> QED BY <1>9, AdvancesInv

\* The operation x of the chain ends.
Ends(x, outcome) ==
    /\ Runs(x) /\ EndOp(x, outcome) /\ outcome \in Ended
    /\ files' \in Seq(Artifact)
    /\ running' => TotalBytes(files') <= MaxTotalBytes
    /\ UNCHANGED <<want, image, pending, net, streams>>

(* The next operation begins with a scan. *)
LEMMA EndsInv ==
    ASSUME Inv, NEW x, NEW outcome, Ends(x, outcome)
    PROVE  Inv'
<1>0. /\ Runs(x) /\ outcome \in {"stored", "failed"} /\ files' \in Seq(Artifact)
      /\ maintenance' = RemoveFirst(maintenance, x) /\ op' = [op EXCEPT ![x] = NoOp]
      /\ UNCHANGED <<want, image, pending, conn, inbox, nextStream, wire, streams>>
    BY DEF Ends, EndOp, Ended, net
<1>1. /\ maintenance \in Seq(Calls \cup {Boot}) /\ maintenance # <<>> /\ x = Head(maintenance)
      /\ x \in Calls \cup {Boot} /\ op \in [Calls \cup {Boot} -> OpRecord]
      /\ \A i \in 2 .. Len(maintenance) :
            /\ maintenance[i] \in Calls \cup {Boot} /\ maintenance[i] # x
            /\ op[maintenance[i]].stage = "scan"
      /\ x \in Calls => phase[x] = "storing"
    BY <1>0, HeadOfChain
<1>2. phase \in [Calls -> Phases] /\ running \in BOOLEAN
    BY DEF Inv, CallsTyped, StoreTyped
<1>3. \/ phase' = phase /\ running' \in BOOLEAN
      \/ /\ x \in Calls /\ phase' = [phase EXCEPT ![x] = outcome] /\ running' = running
    <2>1. CASE x = Boot
        BY <2>1 DEF Ends, EndOp, Start
    <2>2. CASE x # Boot
        BY <1>1, <2>2 DEF Ends, EndOp
    <2> QED BY <2>1, <2>2
<1>4. \A d \in Calls : \/ phase'[d] = phase[d]
                       \/ d = x /\ phase[d] = "storing" /\ phase'[d] = outcome
    BY <1>1, <1>2, <1>3
<1>5. maintenance' = Tail(maintenance)
    BY <1>0, <1>1, RemoveFirstHead
<1>6. /\ maintenance' \in Seq(Calls \cup {Boot}) /\ Len(maintenance') \in Nat
      /\ \A i \in 1 .. Len(maintenance') :
            i + 1 \in 2 .. Len(maintenance) /\ i + 1 \in 1 .. Len(maintenance)
            /\ i + 1 # 1 /\ maintenance'[i] = maintenance[i + 1]
    BY <1>1, <1>5, HeadTailProperties
<1>7. op' \in [Calls \cup {Boot} -> OpRecord] /\ \A y \in Calls \cup {Boot} : y # x => op'[y] = op[y]
    <2>1. NoOp \in OpRecord
        BY NewOpType
    <2> QED BY <1>0, <1>1, <2>1
<1>8. CallsTyped'
    <2>1. phase' \in [Calls -> Phases]
        BY <1>0, <1>2, <1>3 DEF Phases
    <2> QED BY <1>0, <2>1 DEF Inv, CallsTyped
<1>9. StoreTyped'
    BY <1>0, <1>2, <1>3, <1>6, <1>7 DEF StoreTyped
<1>10. NetTyped' /\ StreamsTyped'
    BY <1>0 DEF Inv, NetTyped, StreamsTyped
<1>11. IdsAreFresh'
    <2>1. \A d \in Calls : Active(d)' => Active(d) /\ want'[d] = want[d]
        BY <1>0, <1>4 DEF Active
    <2> QED BY <1>0, <2>1, IdsShrink DEF Inv
<1>12. ClaimsMatch'
    <2>1. SameClaims
        BY <1>0, <1>4 DEF SameClaims
    <2> QED BY <1>0, <2>1, ClaimsShift DEF Inv
<1>13. DownIsEmpty'
    BY <1>0, <1>4 DEF Inv, DownIsEmpty
<1>14. CallsWhere'
    <2>1. \A d \in pending' : phase'[d] = "asked"
        BY <1>0, <1>4 DEF Inv, CallsWhere, CallsTyped
    <2>2. ASSUME NEW i \in 1 .. Len(maintenance'), maintenance'[i] \in Calls
          PROVE  phase'[maintenance'[i]] = "storing"
        <3>1. maintenance[i + 1] # x /\ phase[maintenance[i + 1]] = "storing"
            BY <1>1, <1>6, <2>2 DEF Inv, CallsWhere
        <3> QED BY <1>4, <1>6, <2>2, <3>1
    <2>3. ASSUME NEW i \in 1 .. Len(maintenance'), NEW j \in 1 .. Len(maintenance'), i # j
          PROVE  maintenance'[i] # maintenance'[j]
        <3>1. /\ i + 1 # j + 1 /\ i + 1 \in 1 .. Len(maintenance) /\ j + 1 \in 1 .. Len(maintenance)
            BY <1>6, <2>3
        <3>2. maintenance[i + 1] # maintenance[j + 1]
            BY <3>1 DEF Inv, CallsWhere
        <3>3. maintenance'[i] = maintenance[i + 1] /\ maintenance'[j] = maintenance[j + 1]
            BY <1>6, <2>3
        <3> QED BY <3>2, <3>3
    <2>4. ASSUME NEW i \in 1 .. Len(maintenance') PROVE maintenance'[i] # Boot
        BY <1>6 DEF Inv, CallsWhere
    <2> QED BY <2>1, <2>2, <2>3, <2>4 DEF CallsWhere
<1>15. \A i \in 1 .. Len(maintenance') : op'[maintenance'[i]].stage = "scan"
    BY <1>1, <1>6, <1>7
<1>16. Chain'
    <2>1. maintenance' # <<>> => 1 \in 1 .. Len(maintenance') /\ Head(maintenance') = maintenance'[1]
        BY <1>6
    <2>2. \A i \in 2 .. Len(maintenance') : i \in 1 .. Len(maintenance')
        BY <1>6
    <2> QED BY <1>15, <2>1, <2>2 DEF Chain
<1>17. StoresOwnCapture'
    BY <1>0, <1>4 DEF Inv, StoresOwnCapture
<1>18. StoreIsBounded'
    BY DEF Ends, StoreIsBounded
<1> QED BY <1>8, <1>9, <1>10, <1>11, <1>12, <1>13, <1>14, <1>16, <1>17, <1>18 DEF Inv

(* What a write, whole or in part, leaves in the directory. *)
LEMMA WriteStep ==
    ASSUME Inv, NEW x, Runs(x), op[x].stage = "write", NEW n \in 0 .. op[x].bytes
    PROVE  /\ Append(files, [name |-> x, bytes |-> n]) \in Seq(Artifact)
           /\ TotalBytes(Append(files, [name |-> x, bytes |-> n])) <= MaxTotalBytes
           /\ TotalBytes(files) <= MaxTotalBytes
<1>1. maintenance # <<>> /\ x = Head(maintenance) /\ x \in Calls \cup {Boot} /\ op[x] \in OpRecord
    BY HeadOfChain
<1>2. x # Boot /\ op[x].total = TotalBytes(files) /\ op[x].total + op[x].bytes <= MaxTotalBytes
    BY <1>1 DEF Inv, Chain
<1>3. op[x].bytes \in Nat /\ files \in Seq(Artifact) /\ n \in Nat
    BY <1>1 DEF OpRecord, Inv, StoreTyped
<1> DEFINE f == [name |-> x, bytes |-> n]
<1>4. f \in Artifact /\ f.bytes = n
    BY <1>1, <1>2, <1>3 DEF Artifact
<1> HIDE DEF f
<1>5. Append(files, f) \in Seq(Artifact) /\ TotalBytes(Append(files, f)) = TotalBytes(files) + n
    BY <1>3, <1>4, TotalBytesAppend
<1>6. TotalBytes(files) \in Nat
    BY <1>3, TotalBytesType
<1> QED BY <1>2, <1>3, <1>5, <1>6, CaptureAssumption DEF f

(* evictFor is done. *)
LEMMA EvictedInv ==
    ASSUME Inv, NEW x, Evicted(x)
    PROVE  Inv'
<1>0. /\ Runs(x) /\ op[x].stage = "evict" /\ Fits(x)
      /\ UNCHANGED <<want, image, pending, net, streams, files>>
    BY DEF Evicted
<1>1. /\ maintenance # <<>> /\ x = Head(maintenance) /\ x \in Calls \cup {Boot} /\ op[x] \in OpRecord
      /\ op \in [Calls \cup {Boot} -> OpRecord]
    BY <1>0, HeadOfChain
<1>2. op[x].total = TotalBytes(files) /\ files \in Seq(Artifact)
    BY <1>0, <1>1 DEF Inv, Chain, StoreTyped
<1>3. op[x].bytes \in Nat /\ TotalBytes(files) \in Nat /\ op[x].total + op[x].bytes <= MaxTotalBytes
    BY <1>0, <1>1, <1>2, TotalBytesType DEF OpRecord, Fits
<1>4. TotalBytes(files) <= MaxTotalBytes
    BY <1>2, <1>3, CaptureAssumption
<1>5. CASE x = Boot
    <2>1. EndOp(x, "stored")
        BY <1>5 DEF Evicted
    <2>2. Ends(x, "stored")
        BY <1>0, <1>2, <1>4, <2>1 DEF Ends, Ended
    <2> QED BY <2>2, EndsInv
<1>6. CASE x # Boot
    <2>1. op' = [op EXCEPT ![x].stage = "write"] /\ UNCHANGED <<maintenance, running, phase>>
        BY <1>6 DEF Evicted
    <2>2. /\ op'[x].stage = "write" /\ op'[x].total = op[x].total /\ op'[x].bytes = op[x].bytes
          /\ op'[x] \in OpRecord /\ op' = [op EXCEPT ![x] = op'[x]]
        BY <1>1, <2>1 DEF OpRecord
    <2>3. Advances(x)
        BY <1>0, <1>2, <1>3, <1>4, <1>6, <2>1, <2>2 DEF Advances, calls
    <2> QED BY <2>3, AdvancesInv
<1> QED BY <1>5, <1>6

(* put writes its file. *)
LEMMA WriteFileInv ==
    ASSUME Inv, NEW x, WriteFile(x)
    PROVE  Inv'
<1>0. /\ Runs(x) /\ op[x].stage = "write" /\ EndOp(x, "stored")
      /\ files' = Append(files, [name |-> x, bytes |-> op[x].bytes])
      /\ UNCHANGED <<want, image, pending, net, streams>>
    BY DEF WriteFile
<1>1. op[x] \in OpRecord
    BY <1>0, HeadOfChain
<1>2. op[x].bytes \in 0 .. op[x].bytes
    BY <1>1 DEF OpRecord
<1>3. files' \in Seq(Artifact) /\ TotalBytes(files') <= MaxTotalBytes
    BY <1>0, <1>2, WriteStep
<1>4. Ends(x, "stored")
    BY <1>0, <1>3 DEF Ends, Ended
<1> QED BY <1>4, EndsInv

(* A failed operation leaves the directory as it was, or longer by a part of a file. *)
LEMMA PartlyWrittenStep ==
    ASSUME Inv, NEW x, Runs(x), NEW fs \in PartlyWritten(x)
    PROVE  /\ fs \in Seq(Artifact) /\ files \in Seq(Artifact)
           /\ fs = files \/ Len(fs) = Len(files) + 1
           /\ fs = files \/ TotalBytes(fs) <= MaxTotalBytes
<1>1. files \in Seq(Artifact)
    BY DEF Inv, StoreTyped
<1>2. CASE fs = files
    BY <1>1, <1>2
<1>3. ASSUME op[x].stage = "write", NEW n \in 0 .. op[x].bytes - 1,
             fs = Append(files, [name |-> x, bytes |-> n])
      PROVE  /\ fs \in Seq(Artifact) /\ Len(fs) = Len(files) + 1
             /\ TotalBytes(fs) <= MaxTotalBytes
    <2>1. op[x] \in OpRecord
        BY HeadOfChain
    <2>2. n \in 0 .. op[x].bytes
        BY <2>1 DEF OpRecord
    <2>3. fs \in Seq(Artifact) /\ TotalBytes(fs) <= MaxTotalBytes
        BY <1>3, <2>2, WriteStep
    <2>4. Len(fs) = Len(files) + 1
        BY <1>1, <1>3
    <2> QED BY <2>3, <2>4
<1> QED BY <1>1, <1>2, <1>3 DEF PartlyWritten

(* A call on the directory fails. *)
LEMMA DiskFailsInv ==
    ASSUME Inv, NEW x, DiskFails(x)
    PROVE  Inv'
<1>0. /\ Runs(x) /\ EndOp(x, "failed") /\ files' \in PartlyWritten(x)
      /\ UNCHANGED <<want, image, pending, net, streams>>
    BY DEF DiskFails
<1>1. files' \in Seq(Artifact) /\ (files' = files \/ TotalBytes(files') <= MaxTotalBytes)
    BY <1>0, PartlyWrittenStep
<1>2. running' => running
    BY <1>0 DEF EndOp, Start
<1>3. running' => TotalBytes(files') <= MaxTotalBytes
    BY <1>1, <1>2 DEF Inv, StoreIsBounded
<1>4. Ends(x, "failed")
    BY <1>0, <1>1, <1>3 DEF Ends, Ended
<1> QED BY <1>4, EndsInv

(* A crash in the middle of a write leaves a part of the file. *)
LEMMA RestartFiles ==
    ASSUME Inv, Restart
    PROVE  /\ files' \in Seq(Artifact) /\ files \in Seq(Artifact)
           /\ files' = files \/ Len(files') = Len(files) + 1
<1>1. files \in Seq(Artifact)
    BY DEF Inv, StoreTyped
<1>2. CASE files' = files
    BY <1>1, <1>2
<1>3. CASE maintenance # <<>> /\ files' \in PartlyWritten(Head(maintenance))
    <2>1. Runs(Head(maintenance))
        BY <1>3 DEF Runs
    <2> QED BY <1>3, <2>1, PartlyWrittenStep
<1> QED BY <1>2, <1>3 DEF Restart

(* The broker dies and is started again. *)
LEMMA RestartInv ==
    ASSUME Inv, Restart
    PROVE  Inv'
<1>0. /\ phase' = [c \in Calls |-> IF phase[c] \in {"idle", "stored"} THEN phase[c] ELSE "failed"]
      /\ pending' = {} /\ streams' = <<>>
      /\ conn' = "down" /\ inbox' = <<>> /\ wire' = <<>>
      /\ running' = FALSE /\ maintenance' = <<Boot>>
      /\ op' = [x \in Calls \cup {Boot} |-> IF x = Boot THEN NewOp(0) ELSE NoOp]
      /\ UNCHANGED <<want, image, nextStream>>
    BY DEF Restart
<1>1. \A c \in Calls : phase'[c] = "failed" \/ phase'[c] = "idle" \/ (phase'[c] = phase[c] /\ phase[c] = "stored")
    BY <1>0
<1>2. CallsTyped'
    <2>1. phase' \in [Calls -> Phases]
        BY <1>0 DEF Phases
    <2> QED BY <1>0, <2>1 DEF Inv, CallsTyped
<1>3. NetTyped' /\ StreamsTyped'
    BY <1>0 DEF Inv, NetTyped, StreamsTyped
<1>4. StoreTyped'
    <2>1. NewOp(0) \in OpRecord /\ NoOp \in OpRecord
        BY NewOpType
    <2>2. op' \in [Calls \cup {Boot} -> OpRecord]
        BY <1>0, <2>1
    <2>3. maintenance' \in Seq(Calls \cup {Boot}) /\ running' \in BOOLEAN
        BY <1>0, SingletonSeq
    <2> QED BY <2>2, <2>3, RestartFiles DEF StoreTyped
<1>5. IdsAreFresh' /\ ClaimsMatch' /\ DownIsEmpty'
    <2>1. \A c \in Calls : phase'[c] \notin {"answered", "waiting", "woken"}
        BY <1>1
    <2>2. IdsAreFresh'
        BY <1>0, <2>1 DEF IdsAreFresh, Active
    <2> QED BY <1>0, <2>1, <2>2 DEF ClaimsMatch, DownIsEmpty
<1>6. Len(maintenance') = 1 /\ maintenance'[1] = Boot /\ Head(maintenance') = Boot
    BY <1>0, SingletonSeq
<1>7. CallsWhere'
    BY <1>0, <1>6, CaptureAssumption DEF CallsWhere
<1>8. Chain'
    <2>1. op'[Boot].stage = "scan"
        BY <1>0, NewOpType
    <2> QED BY <1>6, <2>1 DEF Chain
<1>9. StoresOwnCapture' /\ StoreIsBounded'
    BY <1>0, <1>1 DEF Inv, StoresOwnCapture, StoreIsBounded
<1> QED BY <1>2, <1>3, <1>4, <1>5, <1>7, <1>8, <1>9 DEF Inv

-----------------------------------------------------------------------------
(* The theorems *)

(* Every step keeps the invariant. *)
LEMMA NextInv == Inv /\ [Next]_vars => Inv'
<1> SUFFICES ASSUME Inv, [Next]_vars PROVE Inv'
    OBVIOUS
<1>1. ASSUME NEW c \in Calls, RequestNow(c) PROVE Inv'
    BY <1>1, RequestNowInv
<1>2. ASSUME NEW c \in Calls, CallStep(c) PROVE Inv'
    BY <1>2, RequestTimeoutInv, ProcessGuestResponseInv, GoOnInv, WaitTimeoutInv DEF CallStep
<1>3. CASE GuestCaptures
    BY <1>3, GuestCapturesInv
<1>4. CASE HandleData
    BY <1>4, HandleDataInv
<1>5. CASE HandleResponse
    BY <1>5, HandleResponseInv
<1>6. ASSUME NEW id \in DOMAIN streams, Retention(id) PROVE Inv'
    BY <1>6, RetentionInv
<1>7. CASE SocketError
    BY <1>7, SocketErrorInv
<1>8. CASE CloseInternal
    BY <1>8, CloseInternalInv
<1>9. CASE Reconnect
    BY <1>9, ReconnectInv
<1>10. ASSUME NEW x \in Calls \cup {Boot}, StoreStep(x) PROVE Inv'
    BY <1>10, ScanInv, UnlinkInv, EvictedInv, WriteFileInv, DiskFailsInv DEF StoreStep
<1>11. CASE Restart
    BY <1>11, RestartInv
<1>12. CASE UNCHANGED vars
    <2>1. UNCHANGED <<phase, want, image, pending, conn, inbox, nextStream, wire, streams, running, files, maintenance, op>>
        BY <1>12 DEF vars, calls, net, store
    <2>2. CallsTyped' /\ NetTyped' /\ StreamsTyped' /\ StoreTyped'
        BY <2>1 DEF Inv, CallsTyped, NetTyped, StreamsTyped, StoreTyped
    <2>3. IdsAreFresh'
        BY <2>1 DEF Inv, IdsAreFresh, Active, Names
    <2>4. ClaimsMatch' /\ DownIsEmpty'
        BY <2>1 DEF Inv, ClaimsMatch, Claims, DownIsEmpty
    <2>5. CallsWhere' /\ Chain' /\ StoresOwnCapture' /\ StoreIsBounded'
        BY <2>1 DEF Inv, CallsWhere, Chain, StoresOwnCapture, StoreIsBounded
    <2> QED BY <2>2, <2>3, <2>4, <2>5 DEF Inv
<1> QED BY <1>1, <1>2, <1>3, <1>4, <1>5, <1>6, <1>7, <1>8, <1>9, <1>10, <1>11, <1>12 DEF Next

(* The invariant of the capture path: who holds which stream id, which     *)
(* stream, which place in the maintenance chain, and what the operation at *)
(* the head of the chain knows of the directory.                           *)
THEOREM CaptureInvariant == Spec => []Inv
<1>1. Init => Inv
    BY InitInv
<1>2. Inv /\ [Next]_vars => Inv'
    BY NextInv
<1> QED BY <1>1, <1>2, PTL DEF Spec

(* Every variable keeps its type; in particular evictFor's running total   *)
(* never falls below zero, whatever is removed.                            *)
THEOREM CaptureTypeCorrect == Spec => []TypeOK
<1>1. Inv => TypeOK
    BY DEF Inv, TypeOK, CallsTyped, NetTyped, StreamsTyped, StoreTyped, OpRecord
<1> QED BY <1>1, CaptureInvariant, PTL

(* The artifact that a screen_capture call stores is its own capture and   *)
(* whole, for any number of calls, frames, timeouts and reconnections      *)
(* (waitFor and processGuestResponse).                                     *)
THEOREM CaptureStoresOwn == Spec => []StoresOwnCapture
<1>1. Inv => StoresOwnCapture
    BY DEF Inv
<1> QED BY <1>1, CaptureInvariant, PTL

(* A stream in the registry has a retention timer and no call, or no timer *)
(* and exactly one call that will remove it.                               *)
THEOREM CaptureStreamsOwned == Spec => []StreamIsOwned
<1>1. Inv => StreamIsOwned
    <2> SUFFICES ASSUME Inv, NEW id \in DOMAIN streams
                 PROVE  Cardinality({c \in Calls : phase[c] \in {"waiting", "woken"}
                                                   /\ want[c].streamId = id})
                        = IF streams[id].retention THEN 0 ELSE 1
        BY DEF StreamIsOwned
    <2> DEFINE O == {c \in Calls : phase[c] \in {"waiting", "woken"} /\ want[c].streamId = id}
    <2>1. CASE streams[id].retention
        <3>1. O = {}
            BY <2>1 DEF Inv, ClaimsMatch
        <3>2. Cardinality(O) = 0
            <4> HIDE DEF O
            <4> QED BY <3>1, FS_EmptySet
        <3> QED BY <2>1, <3>2
    <2>2. CASE ~streams[id].retention
        <3>1. PICK c \in Calls : Claims(c, id)
            BY <2>2 DEF Inv, ClaimsMatch
        <3>2. Active(c) /\ want[c].streamId = id
            BY <3>1 DEF Inv, ClaimsMatch, Claims, Active
        <3>3. \A d \in Calls \ {c} : ~Claims(d, id)
            BY <3>2, AloneOnStream DEF Inv
        <3>4. O = {c}
            BY <3>1, <3>3 DEF Claims
        <3>5. Cardinality(O) = 1
            <4> HIDE DEF O
            <4> QED BY <3>4, FS_Singleton
        <3> QED BY <2>2, <3>5
    <2> QED BY <2>1, <2>2
<1> QED BY <1>1, CaptureInvariant, PTL

(* The artifact directory of a running broker stays within maxTotalBytes,  *)
(* for any sizes of files, any number of puts, failed writes and crashes.  *)
THEOREM CaptureStoreBounded == Spec => []StoreIsBounded
<1>1. Inv => StoreIsBounded
    BY DEF Inv
<1> QED BY <1>1, CaptureInvariant, PTL

(* Only evictFor removes a file: the oldest one, when there is no room.    *)
THEOREM CaptureEvictsOldest == Spec => EvictsOldest
<1> DEFINE Evicts == Len(files') < Len(files)
                     => /\ files' = Tail(files)
                        /\ TotalBytes(files) + op[Head(maintenance)].bytes > MaxTotalBytes
<1>1. Inv /\ [Next]_vars => [Evicts]_vars
    <2> SUFFICES ASSUME Inv, Next PROVE Evicts
        OBVIOUS
    <2>0. files \in Seq(Artifact) /\ Len(files) \in Nat
        BY DEF Inv, StoreTyped
    <2>1. CASE files' = files
        BY <2>0, <2>1
    <2>2. ASSUME NEW x, Unlink(x) PROVE Evicts
        BY <2>2, UnlinkStep
    <2>3. CASE Len(files') = Len(files) + 1
        BY <2>0, <2>3
    <2>4. ASSUME NEW x, WriteFile(x) PROVE Len(files') = Len(files) + 1
        BY <2>0, <2>4 DEF WriteFile
    <2>5. ASSUME NEW x, DiskFails(x) PROVE files' = files \/ Len(files') = Len(files) + 1
        BY <2>5, PartlyWrittenStep DEF DiskFails
    <2>6. CASE Restart
        BY <2>1, <2>3, <2>6, RestartFiles
    <2>7. ASSUME NEW c, RequestNow(c) \/ CallStep(c) PROVE files' = files
        BY <2>7 DEF RequestNow, CallStep, RequestTimeout, ProcessGuestResponse, GoOn, WaitTimeout, store
    <2>8. ASSUME GuestCaptures \/ HandleData \/ HandleResponse \/ SocketError \/ CloseInternal \/ Reconnect
          PROVE  files' = files
        BY <2>8 DEF GuestCaptures, HandleData, HandleResponse, SocketError, CloseInternal, Reconnect, store
    <2>9. ASSUME NEW id, Retention(id) PROVE files' = files
        BY <2>9 DEF Retention, store
    <2>10. ASSUME NEW x, Scan(x) \/ Evicted(x) PROVE files' = files
        BY <2>10 DEF Scan, Evicted
    <2>11. ASSUME NEW x, StoreStep(x) PROVE Evicts
        <3> HIDE DEF Evicts
        <3> QED BY <2>1, <2>2, <2>3, <2>4, <2>5, <2>10, <2>11 DEF StoreStep
    <2> HIDE DEF Evicts
    <2> QED BY <2>1, <2>6, <2>7, <2>8, <2>9, <2>11 DEF Next
<1>2. Spec => []Inv /\ [][Next]_vars
    BY CaptureInvariant DEF Spec
<1>3. Spec => [][Evicts]_vars
    BY <1>1, <1>2, PTL
<1> QED BY <1>3 DEF EvictsOldest

=============================================================================
