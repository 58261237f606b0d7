----------------------------- MODULE BrokerProofs -----------------------------
(***************************************************************************)
(* Proofs about the broker, for any number of sessions, requests on a      *)
(* connection and cleanups in the chain.                                   *)
(***************************************************************************)
EXTENDS Broker, LeaseManagerProofs

-----------------------------------------------------------------------------
(* The connection *)

\* What the broker sends: an operation or the close of a cleanup names its
\* session, and only an abort bypasses the advisory chain.
SoundRequest ==
    {r \in Request : /\ r.kind # "abort" => r.by \in Sessions
                     /\ r.queued => r.kind # "abort"
                     /\ r.job = "op" => r.kind # "abort"
                     /\ r.job = "start" => r.kind = "abort"}

\* Requests of the advisory chain that have not settled.
InChain == {r \in SoundRequest : r.live /\ r.queued}

SoundAnswer == [req : SoundRequest, ok : BOOLEAN]

SoundConnection ==
    [link     : {"none", "hello", "ready", "destroyed"},
     wire     : Seq(SoundRequest),
     answers  : Seq(SoundAnswer),
     advisory : Seq(InChain)]

\* The session_abort of a cleanup, and the sanitize of a new connection, while
\* the broker awaits them.
Aborting == {r \in SoundRequest : r.live /\ r.job = "cleanup" /\ r.kind = "abort"}
Starting == {r \in SoundRequest : r.live /\ r.job = "start"}

\* At most one request that was sent is in X.
AtMostOne(c, X) ==
    /\ \A i, j \in DOMAIN c.wire : c.wire[i] \in X /\ c.wire[j] \in X => i = j
    /\ \A i, j \in DOMAIN c.answers :
          c.answers[i].req \in X /\ c.answers[j].req \in X => i = j
    /\ \A i \in DOMAIN c.wire, j \in DOMAIN c.answers :
          ~(c.wire[i] \in X /\ c.answers[j].req \in X)

NoneOf(c, X) == \A r \in Sent(c) : r \notin X

\* A sanitize under way is the first request of its connection.
StartFirst(c) ==
    /\ \A i \in DOMAIN c.wire : c.wire[i] \in Starting => i = 1 /\ c.answers = <<>>
    /\ \A i \in DOMAIN c.answers : c.answers[i].req \in Starting => i = 1

\* A sequence with one more element.
LEMMA Appended ==
    ASSUME NEW S, NEW q \in Seq(S), NEW x \in S
    PROVE  /\ Append(q, x) \in Seq(S) /\ Append(q, x) # <<>>
           /\ Len(q) \in Nat /\ Len(Append(q, x)) = Len(q) + 1
           /\ DOMAIN q = 1..Len(q) /\ DOMAIN Append(q, x) = 1..(Len(q) + 1)
           /\ \A i \in 1..Len(q) : Append(q, x)[i] = q[i]
           /\ Append(q, x)[Len(q) + 1] = x
           /\ Elements(Append(q, x)) = Elements(q) \cup {x}
           /\ q # <<>> => Head(Append(q, x)) = Head(q)
           /\ q = <<>> => Head(Append(q, x)) = x
<1>1. Len(q) \in Nat /\ DOMAIN q = 1..Len(q)
  BY LenProperties
<1>2. /\ Append(q, x) \in Seq(S) /\ Append(q, x) # <<>>
      /\ Len(Append(q, x)) = Len(q) + 1
      /\ \A i \in 1..Len(q) : Append(q, x)[i] = q[i]
      /\ Append(q, x)[Len(q) + 1] = x
  BY AppendProperties
<1> DEFINE a == Append(q, x)
<1> HIDE DEF a
<1>3. DOMAIN a = 1..(Len(q) + 1)
  BY <1>1, <1>2, LenProperties DEF a
<1>4. Elements(a) = Elements(q) \cup {x}
  <2>1. \A i \in DOMAIN a : i = Len(q) + 1 \/ i \in DOMAIN q
    BY <1>1, <1>3
  <2>2. DOMAIN q \subseteq DOMAIN a /\ Len(q) + 1 \in DOMAIN a
    BY <1>1, <1>3
  <2>3. QED
    BY <1>1, <1>2, <2>1, <2>2 DEF Elements, a
<1>5. Head(a) = a[1]
  BY <1>2, HeadTailProperties DEF a
<1>6. q # <<>> => Head(q) = q[1] /\ 1 \in 1..Len(q)
  BY <1>1, HeadTailProperties, EmptySeq
<1>7. q = <<>> => Len(q) = 0
  OBVIOUS
<1>8. QED
  BY <1>1, <1>2, <1>3, <1>4, <1>5, <1>6, <1>7 DEF a

\* A sequence without its head.
LEMMA Tailed ==
    ASSUME NEW S, NEW q \in Seq(S), q # <<>>
    PROVE  /\ Tail(q) \in Seq(S) /\ Head(q) \in S /\ Head(q) = q[1]
           /\ Len(q) \in Nat \ {0} /\ Len(Tail(q)) = Len(q) - 1
           /\ DOMAIN q = 1..Len(q) /\ 1 \in DOMAIN q
           /\ DOMAIN Tail(q) = 1..(Len(q) - 1)
           /\ \A i \in 1..(Len(q) - 1) : i + 1 \in DOMAIN q /\ Tail(q)[i] = q[i + 1]
           /\ \A i \in DOMAIN q : i = 1 \/ (i - 1 \in DOMAIN Tail(q) /\ Tail(q)[i - 1] = q[i])
           /\ Elements(q) = {Head(q)} \cup Elements(Tail(q))
<1>1. Len(q) \in Nat \ {0} /\ DOMAIN q = 1..Len(q)
  BY LenProperties, EmptySeq
<1>2. /\ Tail(q) \in Seq(S) /\ Head(q) \in S /\ Head(q) = q[1]
      /\ Len(Tail(q)) = Len(q) - 1
      /\ \A i \in 1..Len(Tail(q)) : Tail(q)[i] = q[i + 1]
  <2>1. Head(q) = q[1]
    BY HeadTailProperties
  <2>2. q[1] \in S
    BY <1>1, ElementOfSeq
  <2>3. QED
    BY <1>1, <2>1, <2>2, HeadTailProperties
<1> DEFINE t == Tail(q)
<1> HIDE DEF t
<1>3. DOMAIN t = 1..(Len(q) - 1)
  BY <1>2, LenProperties DEF t
<1>4. \A i \in 1..(Len(q) - 1) : i + 1 \in DOMAIN q /\ t[i] = q[i + 1]
  BY <1>1, <1>2 DEF t
<1>5. \A i \in DOMAIN q : i = 1 \/ (i - 1 \in DOMAIN t /\ t[i - 1] = q[i])
  <2>1. SUFFICES ASSUME NEW i \in DOMAIN q, i # 1 PROVE i - 1 \in DOMAIN t /\ t[i - 1] = q[i]
    OBVIOUS
  <2>2. i - 1 \in 1..(Len(q) - 1) /\ (i - 1) + 1 = i
    BY <1>1, <2>1
  <2>3. QED
    BY <1>3, <1>4, <2>2
<1>6. Elements(q) = {q[1]} \cup Elements(t)
  <2>1. 1 \in DOMAIN q
    BY <1>1
  <2>2. Elements(q) \subseteq {q[1]} \cup Elements(t)
    BY <1>5 DEF Elements
  <2>3. Elements(t) \subseteq Elements(q)
    BY <1>3, <1>4 DEF Elements
  <2>4. QED
    BY <2>1, <2>2, <2>3 DEF Elements
<1>7. QED
  BY <1>1, <1>2, <1>3, <1>4, <1>5, <1>6 DEF t

\* The fields of a connection and the requests in it.
LEMMA ConnectionParts ==
    ASSUME NEW c \in SoundConnection
    PROVE  /\ c.wire \in Seq(SoundRequest) /\ c.answers \in Seq(SoundAnswer)
           /\ c.advisory \in Seq(InChain)
           /\ \A i \in DOMAIN c.wire : c.wire[i] \in SoundRequest /\ c.wire[i] \in Sent(c)
           /\ \A i \in DOMAIN c.answers :
                 /\ c.answers[i] \in SoundAnswer
                 /\ c.answers[i].req \in SoundRequest /\ c.answers[i].req \in Sent(c)
           /\ Sent(c) \subseteq SoundRequest
           /\ Elements(c.advisory) \subseteq InChain
           /\ \A r \in Sent(c) : \/ \E i \in DOMAIN c.wire : c.wire[i] = r
                                 \/ \E i \in DOMAIN c.answers : c.answers[i].req = r
<1>1. /\ c.wire \in Seq(SoundRequest) /\ c.answers \in Seq(SoundAnswer)
      /\ c.advisory \in Seq(InChain)
  BY DEF SoundConnection
<1>2. \A i \in DOMAIN c.wire : c.wire[i] \in SoundRequest
  BY <1>1, ElementOfSeq, LenProperties
<1>3. \A i \in DOMAIN c.answers : c.answers[i] \in SoundAnswer /\ c.answers[i].req \in SoundRequest
  <2>1. \A i \in DOMAIN c.answers : c.answers[i] \in SoundAnswer
    BY <1>1, ElementOfSeq, LenProperties
  <2>2. QED
    BY <2>1 DEF SoundAnswer
<1>4. \A i \in DOMAIN c.advisory : c.advisory[i] \in InChain
  BY <1>1, ElementOfSeq, LenProperties
<1>5. \A r \in Sent(c) :
         \/ \E i \in DOMAIN c.wire : c.wire[i] = r
         \/ \E i \in DOMAIN c.answers : c.answers[i].req = r
  BY DEF Sent, Elements
<1>6. /\ \A i \in DOMAIN c.wire : c.wire[i] \in Sent(c)
      /\ \A i \in DOMAIN c.answers : c.answers[i].req \in Sent(c)
  BY DEF Sent, Elements
<1>7. QED
  BY <1>1, <1>2, <1>3, <1>4, <1>5, <1>6 DEF Elements

\* c with r on the wire and with the advisory chain a.
Send(c, r, a) == [c EXCEPT !.wire = Append(@, r), !.advisory = a]

\* A request is written to the socket.
LEMMA SendStep ==
    ASSUME NEW c \in SoundConnection, NEW r \in SoundRequest, NEW a \in Seq(InChain),
           NEW d, d = Send(c, r, a)
    PROVE  /\ d \in SoundConnection /\ d.link = c.link /\ d.answers = c.answers
           /\ d.wire = Append(c.wire, r) /\ d.advisory = a /\ d.wire # c.wire
           /\ Sent(d) = Sent(c) \cup {r}
           /\ \A X : AtMostOne(c, X) /\ (r \notin X \/ NoneOf(c, X)) => AtMostOne(d, X)
           /\ StartFirst(c) /\ (r \notin Starting \/ (c.wire = <<>> /\ c.answers = <<>>))
                 => StartFirst(d)
<1>1. c.wire \in Seq(SoundRequest) /\ c.answers \in Seq(SoundAnswer)
  BY ConnectionParts
<1> DEFINE w == Append(c.wire, r)
<1>2. /\ w \in Seq(SoundRequest)
      /\ Len(c.wire) \in Nat /\ DOMAIN c.wire = 1..Len(c.wire) /\ DOMAIN w = 1..(Len(c.wire) + 1)
      /\ \A i \in 1..Len(c.wire) : w[i] = c.wire[i]
      /\ w[Len(c.wire) + 1] = r /\ Len(w) = Len(c.wire) + 1
      /\ Elements(w) = Elements(c.wire) \cup {r}
  BY <1>1, Appended
<1> HIDE DEF w
<1>3. /\ d \in SoundConnection /\ d.link = c.link /\ d.answers = c.answers
      /\ d.wire = w /\ d.advisory = a
  BY <1>2 DEF SoundConnection, w, Send
<1>4. w # c.wire
  BY <1>2
<1>5. Sent(d) = Sent(c) \cup {r}
  BY <1>2, <1>3 DEF Sent
<1>6. ASSUME NEW X, AtMostOne(c, X), r \notin X \/ NoneOf(c, X) PROVE AtMostOne(d, X)
  <2>1. CASE r \notin X
    <3>1. \A i \in DOMAIN w : w[i] \in X => i \in DOMAIN c.wire /\ w[i] = c.wire[i]
      BY <1>2, <2>1
    <3>2. QED
      BY <1>3, <1>6, <3>1 DEF AtMostOne
  <2>2. CASE NoneOf(c, X)
    <3>1. /\ \A i \in DOMAIN c.wire : c.wire[i] \notin X
          /\ \A i \in DOMAIN c.answers : c.answers[i].req \notin X
      BY <2>2, ConnectionParts DEF NoneOf
    <3>2. \A i \in DOMAIN w : w[i] \in X => i = Len(c.wire) + 1
      BY <1>2, <3>1
    <3>3. QED
      BY <1>3, <3>1, <3>2 DEF AtMostOne
  <2>3. QED
    BY <1>6, <2>1, <2>2
<1>7. ASSUME StartFirst(c), r \notin Starting \/ (c.wire = <<>> /\ c.answers = <<>>)
      PROVE  StartFirst(d)
  <2>1. CASE r \notin Starting
    <3>1. \A i \in DOMAIN w : w[i] \in Starting => i \in DOMAIN c.wire /\ w[i] = c.wire[i]
      BY <1>2, <2>1
    <3>2. QED
      BY <1>3, <1>7, <3>1 DEF StartFirst
  <2>2. CASE c.wire = <<>> /\ c.answers = <<>>
    <3>1. Len(c.wire) = 0
      BY <2>2
    <3>2. \A i \in DOMAIN w : i = 1
      BY <1>2, <3>1
    <3>3. DOMAIN c.answers = {}
      BY <2>2
    <3>4. QED
      BY <1>3, <2>2, <3>2, <3>3 DEF StartFirst
  <2>3. QED
    BY <1>7, <2>1, <2>2
<1>8. QED
  BY <1>3, <1>4, <1>5, <1>6, <1>7 DEF w

\* The next request of the advisory chain is sent, if it is its turn; on a dead
\* connection the chain is emptied.
LEMMA NextAdvisoryStep ==
    ASSUME NEW c \in SoundConnection, NEW d, d = NextAdvisory(c), AtMostOne(c, InChain)
    PROVE  /\ d \in SoundConnection /\ d.link = c.link /\ d.answers = c.answers
           /\ AtMostOne(d, InChain)
           /\ d.advisory # <<>> => \E r \in Sent(d) : r \in InChain
           /\ \/ d.wire = c.wire /\ d.advisory = c.advisory
              \/ d.wire = c.wire /\ d.advisory = <<>>
              \/ /\ c.advisory # <<>>
                 /\ d.wire = Append(c.wire, Head(c.advisory))
                 /\ d.advisory = Tail(c.advisory)
           /\ Sent(c) \subseteq Sent(d)
           /\ Sent(d) \subseteq Sent(c) \cup Elements(c.advisory)
           /\ Elements(d.advisory) \subseteq Elements(c.advisory)
           /\ c.advisory = <<>> => d = c
           /\ \A X : AtMostOne(c, X) /\ X \cap InChain = {} => AtMostOne(d, X)
           /\ StartFirst(c) => StartFirst(d)
<1>1. c.advisory \in Seq(InChain) /\ Sent(c) \subseteq SoundRequest
  BY ConnectionParts
<1>2. ChainBusy(c) <=> \E r \in Sent(c) : r \in InChain
  BY <1>1 DEF ChainBusy, InChain
<1>3. <<>> \in Seq(InChain) /\ Elements(<<>>) = {}
  BY DEF Elements
<1>4. CASE c.advisory = <<>> \/ ChainBusy(c)
  <2>1. d = c
    BY <1>4 DEF NextAdvisory
  <2>2. QED
    BY <1>2, <1>4, <2>1
<1>5. CASE c.advisory # <<>> /\ ~ChainBusy(c) /\ c.link = "ready"
  <2> DEFINE r == Head(c.advisory)
             a == Tail(c.advisory)
  <2>1. r \in InChain /\ a \in Seq(InChain) /\ Elements(c.advisory) = {r} \cup Elements(a)
    BY <1>1, <1>5, Tailed
  <2>2. r \in SoundRequest /\ r \notin Starting
    BY <2>1 DEF InChain, SoundRequest, Starting
  <2>3. d = Send(c, r, a)
    <3>1. [c EXCEPT !.advisory = a].link = "ready" /\ [c EXCEPT !.advisory = a].wire = c.wire
      BY <1>5 DEF SoundConnection
    <3>2. d = [[c EXCEPT !.advisory = a] EXCEPT !.wire = Append(@, r)]
      BY <1>5, <3>1 DEF NextAdvisory, RequestNow
    <3> HIDE DEF r, a
    <3>3. QED
      BY <3>2 DEF SoundConnection, Send
  <2> HIDE DEF r, a
  <2>4. /\ d \in SoundConnection /\ d.link = c.link /\ d.answers = c.answers
        /\ d.wire = Append(c.wire, r) /\ d.advisory = a
        /\ Sent(d) = Sent(c) \cup {r}
        /\ \A X : AtMostOne(c, X) /\ (r \notin X \/ NoneOf(c, X)) => AtMostOne(d, X)
        /\ StartFirst(c) /\ (r \notin Starting \/ (c.wire = <<>> /\ c.answers = <<>>))
              => StartFirst(d)
    BY <2>1, <2>2, <2>3, SendStep
  <2>5. NoneOf(c, InChain)
    BY <1>2, <1>5 DEF NoneOf
  <2>6. AtMostOne(d, InChain)
    BY <2>4, <2>5
  <2>7. \E x \in Sent(d) : x \in InChain
    BY <2>1, <2>4
  <2>8. \A X : AtMostOne(c, X) /\ X \cap InChain = {} => AtMostOne(d, X)
    BY <2>1, <2>4
  <2>9. QED
    BY <1>5, <2>1, <2>2, <2>4, <2>6, <2>7, <2>8 DEF r, a
<1>6. CASE c.advisory # <<>> /\ ~ChainBusy(c) /\ c.link # "ready"
  <2>1. d = [c EXCEPT !.advisory = <<>>]
    BY <1>6 DEF NextAdvisory
  <2>2. /\ d \in SoundConnection /\ d.link = c.link /\ d.answers = c.answers
        /\ d.wire = c.wire /\ d.advisory = <<>>
    BY <1>3, <2>1 DEF SoundConnection
  <2>3. Sent(d) = Sent(c)
    BY <2>2 DEF Sent
  <2>4. \A X : AtMostOne(c, X) => AtMostOne(d, X)
    BY <2>2 DEF AtMostOne
  <2>5. StartFirst(c) => StartFirst(d)
    BY <2>2 DEF StartFirst
  <2>6. QED
    BY <1>3, <1>6, <2>2, <2>3, <2>4, <2>5
<1>7. QED
  BY <1>4, <1>5, <1>6

\* r with its promise settled.
Dead(r) == [r EXCEPT !.live = FALSE]

\* The timer of a request fires: it is the same connection with that request dead.
LEMMA AbandonStep ==
    ASSUME NEW c \in SoundConnection, NEW r \in Sent(c), NEW d, d = Abandon(c, r)
    PROVE  /\ d \in SoundConnection /\ d.link = c.link /\ d.advisory = c.advisory
           /\ DOMAIN d.wire = DOMAIN c.wire /\ DOMAIN d.answers = DOMAIN c.answers
           /\ \A i \in DOMAIN c.wire :
                 d.wire[i] = IF c.wire[i] = r THEN Dead(r) ELSE c.wire[i]
           /\ \A i \in DOMAIN c.answers :
                 /\ d.answers[i].req = IF c.answers[i].req = r THEN Dead(r) ELSE c.answers[i].req
                 /\ d.answers[i].ok = c.answers[i].ok
<1>1. r \in SoundRequest /\ Dead(r) \in SoundRequest
  <2>1. r \in SoundRequest
    BY ConnectionParts
  <2>2. QED
    BY <2>1 DEF SoundRequest, Request, Dead
<1> DEFINE dead(x) == IF x = r THEN Dead(r) ELSE x
           w == [i \in DOMAIN c.wire |-> dead(c.wire[i])]
           a == [i \in DOMAIN c.answers |->
                    [req |-> dead(c.answers[i].req), ok |-> c.answers[i].ok]]
<1>2. d = [c EXCEPT !.wire = w, !.answers = a]
  BY DEF Abandon, Dead
<1>3. /\ c.wire \in Seq(SoundRequest) /\ c.answers \in Seq(SoundAnswer)
      /\ Len(c.wire) \in Nat /\ DOMAIN c.wire = 1..Len(c.wire)
      /\ Len(c.answers) \in Nat /\ DOMAIN c.answers = 1..Len(c.answers)
      /\ \A i \in DOMAIN c.wire : c.wire[i] \in SoundRequest
      /\ \A i \in DOMAIN c.answers : c.answers[i].req \in SoundRequest /\ c.answers[i] \in SoundAnswer
  BY ConnectionParts, LenProperties
<1>4. w \in Seq(SoundRequest)
  <2>1. w \in [1..Len(c.wire) -> SoundRequest]
    BY <1>1, <1>3
  <2>2. QED
    BY <1>3, <2>1, SeqDef
<1>5. a \in Seq(SoundAnswer)
  <2>1. \A i \in DOMAIN c.answers :
           [req |-> dead(c.answers[i].req), ok |-> c.answers[i].ok] \in SoundAnswer
    BY <1>1, <1>3 DEF SoundAnswer
  <2>2. a \in [1..Len(c.answers) -> SoundAnswer]
    BY <1>3, <2>1
  <2>3. QED
    BY <1>3, <2>2, SeqDef
<1>6. /\ DOMAIN w = DOMAIN c.wire /\ DOMAIN a = DOMAIN c.answers
      /\ \A i \in DOMAIN c.wire : w[i] = IF c.wire[i] = r THEN Dead(r) ELSE c.wire[i]
      /\ \A i \in DOMAIN c.answers :
             /\ a[i].req = IF c.answers[i].req = r THEN Dead(r) ELSE c.answers[i].req
             /\ a[i].ok = c.answers[i].ok
  OBVIOUS
<1> HIDE DEF w, a
<1>7. /\ d \in SoundConnection /\ d.link = c.link /\ d.advisory = c.advisory
      /\ d.wire = w /\ d.answers = a
  BY <1>2, <1>4, <1>5 DEF SoundConnection
<1>8. QED
  BY <1>6, <1>7

\* Every request of a set from which dead requests are excluded is where it was.
LEMMA AbandonKeeps ==
    ASSUME NEW c \in SoundConnection, NEW r \in Sent(c), NEW d, d = Abandon(c, r)
    PROVE  /\ Sent(d) \subseteq Sent(c) \cup {Dead(r)}
           /\ \A x \in Sent(c) : x \in Sent(d) \/ x = r
           /\ ~Dead(r).live /\ Dead(r).job = r.job /\ Dead(r).by = r.by
           /\ Dead(r).kind = r.kind /\ Dead(r).queued = r.queued
           /\ \A X : Dead(r) \notin X /\ AtMostOne(c, X) => AtMostOne(d, X)
           /\ \A X : Dead(r) \notin X /\ AtMostOne(c, X) /\ r \in X => NoneOf(d, X)
           /\ \A X : Dead(r) \notin X /\ NoneOf(c, X) => NoneOf(d, X)
           /\ StartFirst(c) => StartFirst(d)
<1>1. /\ d \in SoundConnection
      /\ DOMAIN d.wire = DOMAIN c.wire /\ DOMAIN d.answers = DOMAIN c.answers
      /\ \A i \in DOMAIN c.wire :
            d.wire[i] = IF c.wire[i] = r THEN Dead(r) ELSE c.wire[i]
      /\ \A i \in DOMAIN c.answers :
            d.answers[i].req = IF c.answers[i].req = r THEN Dead(r) ELSE c.answers[i].req
  BY AbandonStep
<1>2. r \in SoundRequest
  BY ConnectionParts
<1>3. /\ ~Dead(r).live /\ Dead(r).job = r.job /\ Dead(r).by = r.by
      /\ Dead(r).kind = r.kind /\ Dead(r).queued = r.queued
  BY <1>2 DEF Dead, SoundRequest, Request
<1>4. Sent(d) \subseteq Sent(c) \cup {Dead(r)}
  <2>1. SUFFICES ASSUME NEW x \in Sent(d) PROVE x \in Sent(c) \cup {Dead(r)}
    OBVIOUS
  <2>2. \/ \E i \in DOMAIN d.wire : d.wire[i] = x
        \/ \E i \in DOMAIN d.answers : d.answers[i].req = x
    BY <1>1, ConnectionParts
  <2>3. /\ \A i \in DOMAIN c.wire : c.wire[i] \in Sent(c)
        /\ \A i \in DOMAIN c.answers : c.answers[i].req \in Sent(c)
    BY ConnectionParts
  <2>4. QED
    BY <1>1, <2>2, <2>3
<1>5. \A x \in Sent(c) : x \in Sent(d) \/ x = r
  <2>1. /\ \A i \in DOMAIN d.wire : d.wire[i] \in Sent(d)
        /\ \A i \in DOMAIN d.answers : d.answers[i].req \in Sent(d)
    BY <1>1, ConnectionParts
  <2>2. \A x \in Sent(c) :
           \/ \E i \in DOMAIN c.wire : c.wire[i] = x
           \/ \E i \in DOMAIN c.answers : c.answers[i].req = x
    BY ConnectionParts
  <2>3. QED
    BY <1>1, <2>1, <2>2
<1>6. ASSUME NEW X, Dead(r) \notin X
      PROVE  /\ \A i \in DOMAIN d.wire : d.wire[i] \in X => c.wire[i] = d.wire[i] /\ c.wire[i] # r
             /\ \A i \in DOMAIN d.answers :
                   d.answers[i].req \in X => c.answers[i].req = d.answers[i].req /\ c.answers[i].req # r
  BY <1>1, <1>6
<1>7. ASSUME NEW X, Dead(r) \notin X, AtMostOne(c, X)
      PROVE  AtMostOne(d, X) /\ (r \in X => NoneOf(d, X))
  <2>1. AtMostOne(d, X)
    BY <1>1, <1>6, <1>7 DEF AtMostOne
  <2>2. ASSUME r \in X, NEW x \in Sent(d), x \in X PROVE FALSE
    <3>1. \/ \E i \in DOMAIN d.wire : d.wire[i] = x
          \/ \E i \in DOMAIN d.answers : d.answers[i].req = x
      BY <1>1, ConnectionParts
    <3>2. \/ \E i \in DOMAIN c.wire : c.wire[i] = r
          \/ \E i \in DOMAIN c.answers : c.answers[i].req = r
      BY ConnectionParts
    <3>3. \/ \E i \in DOMAIN c.wire : c.wire[i] = x /\ x # r
          \/ \E i \in DOMAIN c.answers : c.answers[i].req = x /\ x # r
      BY <1>1, <1>6, <1>7, <2>2, <3>1
    <3>4. QED
      BY <1>7, <2>2, <3>2, <3>3 DEF AtMostOne
  <2>3. QED
    BY <2>1, <2>2 DEF NoneOf
<1>8. \A X : Dead(r) \notin X /\ NoneOf(c, X) => NoneOf(d, X)
  BY <1>4 DEF NoneOf
<1>9. StartFirst(c) => StartFirst(d)
  <2>1. Dead(r) \notin Starting
    BY <1>3 DEF Starting
  <2>2. /\ \A i \in DOMAIN d.wire : d.wire[i] \in Starting => c.wire[i] = d.wire[i]
        /\ \A i \in DOMAIN d.answers :
              d.answers[i].req \in Starting => c.answers[i].req = d.answers[i].req
    BY <1>6, <2>1
  <2>3. c.answers = <<>> => d.answers = <<>>
    <3>1. d.answers \in Seq(SoundAnswer) /\ c.answers \in Seq(SoundAnswer)
      BY <1>1, ConnectionParts
    <3>2. c.answers = <<>> => DOMAIN c.answers = {}
      OBVIOUS
    <3>3. d.answers # <<>> => 1 \in DOMAIN d.answers
      BY <3>1, Tailed
    <3>4. QED
      BY <1>1, <3>2, <3>3
  <2>4. QED
    BY <1>1, <2>2, <2>3 DEF StartFirst
<1>10. QED
  BY <1>3, <1>4, <1>5, <1>7, <1>8, <1>9

\* c without its first answer.
Answered(c) == [c EXCEPT !.answers = Tail(@)]

\* The first answer arrives.
LEMMA AnsweredStep ==
    ASSUME NEW c \in SoundConnection, c.answers # <<>>, NEW d, d = Answered(c)
    PROVE  /\ d \in SoundConnection /\ d.link = c.link /\ d.wire = c.wire
           /\ d.advisory = c.advisory /\ d.answers = Tail(c.answers)
           /\ Head(c.answers) = c.answers[1] /\ Head(c.answers).req \in Sent(c)
           /\ Sent(d) \subseteq Sent(c)
           /\ \A x \in Sent(c) : x \in Sent(d) \/ x = Head(c.answers).req
           /\ \A i \in DOMAIN d.answers : i + 1 \in DOMAIN c.answers /\ d.answers[i] = c.answers[i + 1]
           /\ \A X : AtMostOne(c, X) => AtMostOne(d, X)
           /\ \A X : AtMostOne(c, X) /\ Head(c.answers).req \in X => NoneOf(d, X)
           /\ StartFirst(c) => StartFirst(d)
<1> DEFINE q == c.answers
           t == Tail(q)
<1>1. q \in Seq(SoundAnswer) /\ q # <<>>
  BY ConnectionParts
<1>2. /\ t \in Seq(SoundAnswer) /\ Head(q) = q[1]
      /\ Len(q) \in Nat \ {0} /\ 1 \in DOMAIN q
      /\ DOMAIN t = 1..(Len(q) - 1)
      /\ \A i \in 1..(Len(q) - 1) : i + 1 \in DOMAIN q /\ t[i] = q[i + 1]
      /\ Elements(q) = {Head(q)} \cup Elements(t)
  BY <1>1, Tailed
<1> HIDE DEF t
<1>3. /\ d \in SoundConnection /\ d.link = c.link /\ d.wire = c.wire
      /\ d.advisory = c.advisory /\ d.answers = t
  BY <1>2 DEF SoundConnection, Answered, t
<1>4. /\ Sent(d) \subseteq Sent(c) /\ Head(q).req \in Sent(c)
      /\ \A x \in Sent(c) : x \in Sent(d) \/ x = Head(c.answers).req
  BY <1>2, <1>3 DEF Sent
<1>5. \A i, j \in DOMAIN t : i + 1 = j + 1 => i = j
  BY <1>2
<1>6. \A i \in DOMAIN t : i + 1 # 1 /\ i + 1 \in DOMAIN q /\ t[i] = q[i + 1]
  BY <1>2
<1>7. ASSUME NEW X, AtMostOne(c, X)
      PROVE  AtMostOne(d, X) /\ (Head(c.answers).req \in X => NoneOf(d, X))
  <2>1. AtMostOne(d, X)
    BY <1>3, <1>5, <1>6, <1>7 DEF AtMostOne
  <2>2. ASSUME q[1].req \in X, NEW x \in Sent(d), x \in X PROVE FALSE
    <3>1. \/ \E i \in DOMAIN d.wire : d.wire[i] = x
          \/ \E i \in DOMAIN d.answers : d.answers[i].req = x
      BY <1>3, ConnectionParts
    <3>2. QED
      BY <1>2, <1>3, <1>6, <1>7, <2>2, <3>1 DEF AtMostOne
  <2>3. QED
    BY <1>2, <2>1, <2>2 DEF NoneOf
<1>8. StartFirst(c) => StartFirst(d)
  <2>1. SUFFICES ASSUME StartFirst(c) PROVE StartFirst(d)
    OBVIOUS
  <2>2. \A i \in DOMAIN c.wire : c.wire[i] \notin Starting
    BY <2>1 DEF StartFirst
  <2>3. \A i \in DOMAIN t : t[i].req \notin Starting
    BY <1>6, <2>1 DEF StartFirst
  <2>4. QED
    BY <1>3, <2>2, <2>3 DEF StartFirst
<1>9. QED
  BY <1>2, <1>3, <1>4, <1>6, <1>7, <1>8 DEF t

\* d is c after the guest has dealt with requests: those still on the wire were
\* there before (f), in the same order, and each new answer is that of a request
\* that was on the wire (g); none is lost and none is answered twice.
Moved(c, d, f, g) ==
    /\ c \in SoundConnection /\ d \in SoundConnection
    /\ d.link = c.link /\ d.advisory = c.advisory
    /\ DOMAIN c.answers \subseteq DOMAIN d.answers
    /\ \A i \in DOMAIN c.answers : d.answers[i] = c.answers[i]
    /\ \A i \in DOMAIN d.wire : f[i] \in DOMAIN c.wire /\ d.wire[i] = c.wire[f[i]]
    /\ \A i \in DOMAIN d.answers \ DOMAIN c.answers :
          g[i] \in DOMAIN c.wire /\ d.answers[i].req = c.wire[g[i]]
    /\ \A i, j \in DOMAIN d.wire : i < j => f[i] < f[j]
    /\ \A i, j \in DOMAIN d.wire : f[i] = f[j] => i = j
    /\ \A i, j \in DOMAIN d.answers \ DOMAIN c.answers : g[i] = g[j] => i = j
    /\ \A i \in DOMAIN d.wire, j \in DOMAIN d.answers \ DOMAIN c.answers : f[i] # g[j]
    /\ \A k \in DOMAIN c.wire : \/ \E i \in DOMAIN d.wire : f[i] = k
                                \/ \E i \in DOMAIN d.answers \ DOMAIN c.answers : g[i] = k

\* The guest neither adds nor loses a request, and a sanitize comes first.
LEMMA MovedKeeps ==
    ASSUME NEW c, NEW d, NEW f, NEW g, Moved(c, d, f, g)
    PROVE  /\ Sent(d) = Sent(c)
           /\ \A X : AtMostOne(c, X) => AtMostOne(d, X)
           /\ /\ StartFirst(c)
              /\ c.answers = <<>> /\ 1 \in DOMAIN c.wire /\ c.wire[1] \in Starting =>
                    1 \in DOMAIN d.answers /\ g[1] = 1
              => StartFirst(d)
<1>1. c \in SoundConnection /\ d \in SoundConnection
  BY DEF Moved
<1>2. Sent(d) \subseteq Sent(c)
  <2>1. SUFFICES ASSUME NEW x \in Sent(d) PROVE x \in Sent(c)
    OBVIOUS
  <2>2. \/ \E i \in DOMAIN d.wire : d.wire[i] = x
        \/ \E i \in DOMAIN d.answers : d.answers[i].req = x
    BY <1>1, ConnectionParts
  <2>3. /\ \A i \in DOMAIN c.wire : c.wire[i] \in Sent(c)
        /\ \A i \in DOMAIN c.answers : c.answers[i].req \in Sent(c)
    BY <1>1, ConnectionParts
  <2>4. QED
    BY <2>2, <2>3 DEF Moved
<1>3. Sent(c) \subseteq Sent(d)
  <2>1. SUFFICES ASSUME NEW x \in Sent(c) PROVE x \in Sent(d)
    OBVIOUS
  <2>2. \/ \E i \in DOMAIN c.wire : c.wire[i] = x
        \/ \E i \in DOMAIN c.answers : c.answers[i].req = x
    BY <1>1, ConnectionParts
  <2>3. /\ \A i \in DOMAIN d.wire : d.wire[i] \in Sent(d)
        /\ \A i \in DOMAIN d.answers : d.answers[i].req \in Sent(d)
    BY <1>1, ConnectionParts
  <2>4. CASE \E i \in DOMAIN c.wire : c.wire[i] = x
    <3>1. PICK k \in DOMAIN c.wire : c.wire[k] = x
      BY <2>4
    <3>2. \/ \E i \in DOMAIN d.wire : f[i] = k
          \/ \E i \in DOMAIN d.answers \ DOMAIN c.answers : g[i] = k
      BY DEF Moved
    <3>3. QED
      BY <2>3, <3>1, <3>2 DEF Moved
  <2>5. CASE \E i \in DOMAIN c.answers : c.answers[i].req = x
    BY <2>3, <2>5 DEF Moved
  <2>6. QED
    BY <2>2, <2>4, <2>5
<1>4. ASSUME NEW X, AtMostOne(c, X) PROVE AtMostOne(d, X)
  <2>1. ASSUME NEW i \in DOMAIN d.wire, NEW j \in DOMAIN d.wire, d.wire[i] \in X, d.wire[j] \in X
        PROVE  i = j
    BY <1>4, <2>1 DEF Moved, AtMostOne
  <2>2. ASSUME NEW i \in DOMAIN d.answers, NEW j \in DOMAIN d.answers,
               d.answers[i].req \in X, d.answers[j].req \in X
        PROVE  i = j
    BY <1>4, <2>2 DEF Moved, AtMostOne
  <2>3. ASSUME NEW i \in DOMAIN d.wire, NEW j \in DOMAIN d.answers,
               d.wire[i] \in X, d.answers[j].req \in X
        PROVE  FALSE
    BY <1>4, <2>3 DEF Moved, AtMostOne
  <2>4. QED
    BY <2>1, <2>2, <2>3 DEF AtMostOne
<1>5. ASSUME StartFirst(c),
             c.answers = <<>> /\ 1 \in DOMAIN c.wire /\ c.wire[1] \in Starting =>
                1 \in DOMAIN d.answers /\ g[1] = 1
      PROVE  StartFirst(d)
  <2>1. c.answers = <<>> => DOMAIN c.answers = {}
    OBVIOUS
  <2>2. ASSUME NEW i \in DOMAIN d.wire, d.wire[i] \in Starting PROVE FALSE
    BY <1>5, <2>1, <2>2 DEF Moved, StartFirst
  <2>3. ASSUME NEW i \in DOMAIN d.answers, d.answers[i].req \in Starting PROVE i = 1
    BY <1>5, <2>1, <2>3 DEF Moved, StartFirst
  <2>4. QED
    BY <2>2, <2>3 DEF StartFirst
<1>6. QED
  BY <1>2, <1>3, <1>4, <1>5

\* c after the guest has executed its first request.
Execute(c, ok) == [c EXCEPT !.wire = Tail(@),
                            !.answers = Append(@, [req |-> Head(c.wire), ok |-> ok])]

\* The first request moves from the wire to the answers.
LEMMA ExecuteStep ==
    ASSUME NEW c \in SoundConnection, c.wire # <<>>, NEW ok \in BOOLEAN,
           NEW d, d = Execute(c, ok)
    PROVE  /\ d \in SoundConnection /\ d.wire = Tail(c.wire)
           /\ Head(c.wire) = c.wire[1] /\ 1 \in DOMAIN c.wire
           /\ \E f, g :
                /\ Moved(c, d, f, g)
                /\ \A i \in DOMAIN d.wire : f[i] # 1
                /\ \A i \in DOMAIN d.answers \ DOMAIN c.answers : g[i] = 1
                /\ c.answers = <<>> => 1 \in DOMAIN d.answers
<1> DEFINE w == c.wire
           t == Tail(w)
           a == c.answers
           x == [req |-> Head(w), ok |-> ok]
           b == Append(a, x)
           f == [i \in 1..(Len(w) - 1) |-> i + 1]
           g == [i \in {Len(a) + 1} |-> 1]
<1>1. w \in Seq(SoundRequest) /\ w # <<>> /\ a \in Seq(SoundAnswer)
  BY ConnectionParts
<1>2. /\ t \in Seq(SoundRequest) /\ Head(w) = w[1] /\ Head(w) \in SoundRequest
      /\ Len(w) \in Nat \ {0} /\ DOMAIN w = 1..Len(w)
      /\ DOMAIN t = 1..(Len(w) - 1)
      /\ \A i \in 1..(Len(w) - 1) : i + 1 \in DOMAIN w /\ t[i] = w[i + 1]
  BY <1>1, Tailed
<1>3. x \in SoundAnswer /\ x.req = w[1]
  BY <1>2 DEF SoundAnswer
<1> HIDE DEF x
<1>4. /\ b \in Seq(SoundAnswer)
      /\ Len(a) \in Nat /\ DOMAIN a = 1..Len(a) /\ DOMAIN b = 1..(Len(a) + 1)
      /\ \A i \in 1..Len(a) : b[i] = a[i]
      /\ b[Len(a) + 1] = x
  BY <1>1, <1>3, Appended
<1>5. d = [c EXCEPT !.wire = t, !.answers = b]
  BY DEF Execute, x
<1> HIDE DEF t, b
<1>6. /\ d \in SoundConnection /\ d.link = c.link /\ d.advisory = c.advisory
      /\ d.wire = t /\ d.answers = b
  BY <1>2, <1>4, <1>5 DEF SoundConnection
<1>7. /\ DOMAIN a \subseteq DOMAIN b /\ DOMAIN b \ DOMAIN a = {Len(a) + 1}
      /\ a = <<>> => Len(a) + 1 = 1
  BY <1>4
<1>8. /\ \A i \in DOMAIN t : f[i] = i + 1 /\ f[i] \in DOMAIN w /\ t[i] = w[f[i]] /\ f[i] # 1
      /\ \A i, j \in DOMAIN t : (i < j => f[i] < f[j]) /\ (f[i] = f[j] => i = j)
      /\ g[Len(a) + 1] = 1
  <2>1. \A i \in DOMAIN t : f[i] = i + 1 /\ i \in 1..(Len(w) - 1) /\ i + 1 # 1
    BY <1>2
  <2>2. g[Len(a) + 1] = 1
    OBVIOUS
  <2> HIDE DEF f, g, w, a
  <2>3. \A i, j \in DOMAIN t : (i < j => f[i] < f[j]) /\ (f[i] = f[j] => i = j)
    BY <2>1
  <2>4. QED
    BY <1>2, <2>1, <2>2, <2>3
<1>9. \A k \in DOMAIN w : \/ \E i \in DOMAIN t : f[i] = k
                          \/ k = 1
  <2>1. SUFFICES ASSUME NEW k \in DOMAIN w, k # 1 PROVE \E i \in DOMAIN t : f[i] = k
    OBVIOUS
  <2>2. k - 1 \in DOMAIN t /\ (k - 1) + 1 = k
    BY <1>2, <2>1
  <2>3. QED
    BY <1>8, <2>2
<1> HIDE DEF f, g
<1>10. \A i \in DOMAIN b \ DOMAIN a : g[i] \in DOMAIN w /\ b[i].req = w[g[i]] /\ g[i] = 1
  BY <1>2, <1>3, <1>4, <1>7, <1>8
<1>11. \E i \in DOMAIN b \ DOMAIN a : g[i] = 1
  BY <1>7, <1>8
<1>12. \A i \in DOMAIN a : b[i] = a[i]
  BY <1>4
<1>13. Moved(c, d, f, g)
  BY <1>6, <1>7, <1>8, <1>9, <1>10, <1>11, <1>12 DEF Moved
<1>14. QED
  BY <1>2, <1>4, <1>6, <1>7, <1>8, <1>10, <1>13 DEF t

\* c after an abort has overtaken the running request, and c after any other
\* request has been refused because of it.
Overtake(c) ==
    [c EXCEPT !.wire = Tail(Tail(@)),
              !.answers = @ \o <<[req |-> c.wire[2], ok |-> TRUE],
                                 [req |-> c.wire[1], ok |-> FALSE]>>]
TurnAway(c) ==
    [c EXCEPT !.wire = RemoveAt(@, 2),
              !.answers = Append(@, [req |-> c.wire[2], ok |-> FALSE])]

\* A running request that is no abort is overtaken.
LEMMA OvertakeStep ==
    ASSUME NEW c \in SoundConnection, Len(c.wire) > 1, NEW d, d = Overtake(c)
    PROVE  /\ d \in SoundConnection
           /\ {1, 2} \subseteq DOMAIN c.wire
           /\ \E f, g :
                /\ Moved(c, d, f, g)
                /\ \A i \in DOMAIN d.wire : f[i] > 2
                /\ \A i \in DOMAIN d.answers \ DOMAIN c.answers : g[i] \in {1, 2}
<1> DEFINE w == c.wire
           t == Tail(Tail(w))
           a == c.answers
           x == [req |-> w[2], ok |-> TRUE]
           y == [req |-> w[1], ok |-> FALSE]
           e == <<x, y>>
           b == a \o e
           n == Len(a)
           f == [i \in 1..(Len(w) - 2) |-> i + 2]
           g == [i \in {n + 1, n + 2} |-> IF i = n + 1 THEN 2 ELSE 1]
<1>1. /\ w \in Seq(SoundRequest) /\ a \in Seq(SoundAnswer) /\ Len(w) \in Nat /\ Len(w) > 1
      /\ DOMAIN w = 1..Len(w) /\ \A i \in DOMAIN w : w[i] \in SoundRequest
  BY ConnectionParts, LenProperties
<1>2. 1 \in DOMAIN w /\ 2 \in DOMAIN w /\ w # <<>>
  BY <1>1
<1>3. /\ t \in Seq(SoundRequest) /\ DOMAIN t = 1..(Len(w) - 2)
      /\ \A i \in 1..(Len(w) - 2) : i + 2 \in DOMAIN w /\ t[i] = w[i + 2]
  <2> DEFINE u == Tail(w)
  <2>1. /\ u \in Seq(SoundRequest) /\ Len(u) = Len(w) - 1 /\ DOMAIN u = 1..(Len(w) - 1)
        /\ \A i \in 1..(Len(w) - 1) : u[i] = w[i + 1]
    BY <1>1, <1>2, Tailed
  <2> HIDE DEF u
  <2>2. u # <<>>
    BY <1>1, <2>1
  <2>3. /\ Tail(u) \in Seq(SoundRequest) /\ DOMAIN Tail(u) = 1..(Len(u) - 1)
        /\ \A i \in 1..(Len(u) - 1) : Tail(u)[i] = u[i + 1]
    BY <2>1, <2>2, Tailed
  <2>4. t = Tail(u)
    BY DEF u
  <2> HIDE DEF t, w
  <2>5. Len(u) - 1 = Len(w) - 2
    BY <1>1, <2>1
  <2>6. ASSUME NEW i \in 1..(Len(w) - 2) PROVE i + 2 \in DOMAIN w /\ t[i] = w[i + 2]
    <3>1. i + 1 \in 1..(Len(w) - 1) /\ (i + 1) + 1 = i + 2 /\ i + 2 \in DOMAIN w
      BY <1>1
    <3>2. QED
      BY <2>1, <2>3, <2>4, <2>5, <3>1
  <2>7. QED
    BY <2>3, <2>4, <2>5, <2>6
<1>4. x \in SoundAnswer /\ y \in SoundAnswer /\ x.req = w[2] /\ y.req = w[1]
  BY <1>1, <1>2 DEF SoundAnswer
<1> HIDE DEF x, y
<1>5. e \in Seq(SoundAnswer) /\ Len(e) = 2 /\ e[1] = x /\ e[2] = y
  BY <1>4
<1> HIDE DEF e
<1>6. n \in Nat /\ DOMAIN a = 1..n
  BY <1>1, LenProperties
<1> HIDE DEF n
<1>7. /\ b \in Seq(SoundAnswer) /\ DOMAIN b = 1..(n + 2)
      /\ \A i \in 1..n : b[i] = a[i]
      /\ b[n + 1] = x /\ b[n + 2] = y
  <2>1. /\ b \in Seq(SoundAnswer) /\ Len(b) = n + 2
        /\ \A i \in 1..(n + 2) : b[i] = IF i <= n THEN a[i] ELSE e[i - n]
    <3>1. /\ a \o e \in Seq(SoundAnswer) /\ Len(a \o e) = Len(a) + Len(e)
          /\ \A i \in 1..(Len(a) + Len(e)) :
                (a \o e)[i] = IF i <= Len(a) THEN a[i] ELSE e[i - Len(a)]
      BY <1>1, <1>5, ConcatProperties
    <3>2. QED
      BY <1>5, <3>1 DEF n
  <2>2. DOMAIN b = 1..Len(b)
    BY <2>1, LenProperties
  <2> HIDE DEF b
  <2>3. /\ \A i \in 1..n : i \in 1..(n + 2) /\ i <= n
        /\ n + 1 \in 1..(n + 2) /\ ~(n + 1 <= n) /\ (n + 1) - n = 1
        /\ n + 2 \in 1..(n + 2) /\ ~(n + 2 <= n) /\ (n + 2) - n = 2
    BY <1>6
  <2>4. QED
    BY <1>5, <2>1, <2>2, <2>3
<1>8. d = [c EXCEPT !.wire = t, !.answers = b]
  BY DEF Overtake, e, x, y
<1> HIDE DEF t, b
<1>9. /\ d \in SoundConnection /\ d.link = c.link /\ d.advisory = c.advisory
      /\ d.wire = t /\ d.answers = b
  BY <1>3, <1>7, <1>8 DEF SoundConnection
<1>10. DOMAIN a \subseteq DOMAIN b /\ DOMAIN b \ DOMAIN a = {n + 1, n + 2} /\ n + 1 # n + 2
  BY <1>6, <1>7
<1>11. /\ \A i \in DOMAIN t : f[i] = i + 2 /\ f[i] \in DOMAIN w /\ t[i] = w[f[i]] /\ f[i] > 2
       /\ \A i, j \in DOMAIN t : (i < j => f[i] < f[j]) /\ (f[i] = f[j] => i = j)
  BY <1>3
<1>12. g[n + 1] = 2 /\ g[n + 2] = 1
  BY <1>10
<1>13. \A k \in DOMAIN w : \/ \E i \in DOMAIN t : f[i] = k
                           \/ k \in {1, 2}
  <2>1. SUFFICES ASSUME NEW k \in DOMAIN w, k \notin {1, 2} PROVE \E i \in DOMAIN t : f[i] = k
    OBVIOUS
  <2>2. k - 2 \in DOMAIN t /\ (k - 2) + 2 = k
    BY <1>1, <1>3, <2>1
  <2>3. QED
    BY <1>11, <2>2
<1> HIDE DEF f, g
<1>14. \A i \in DOMAIN b \ DOMAIN a : g[i] \in DOMAIN w /\ b[i].req = w[g[i]] /\ g[i] \in {1, 2}
  BY <1>2, <1>4, <1>7, <1>10, <1>12
<1>15. /\ \A i, j \in DOMAIN b \ DOMAIN a : g[i] = g[j] => i = j
       /\ \E i \in DOMAIN b \ DOMAIN a : g[i] = 1
       /\ \E i \in DOMAIN b \ DOMAIN a : g[i] = 2
  BY <1>10, <1>12
<1>16. \A i \in DOMAIN t, j \in DOMAIN b \ DOMAIN a : f[i] # g[j]
  BY <1>11, <1>14
<1>17. \A i \in DOMAIN a : b[i] = a[i]
  BY <1>6, <1>7
<1>18. Moved(c, d, f, g)
  BY <1>9, <1>10, <1>11, <1>13, <1>14, <1>15, <1>16, <1>17 DEF Moved
<1>19. QED
  BY <1>2, <1>9, <1>11, <1>14, <1>18

\* A request that is no abort is refused during another one.
LEMMA TurnAwayStep ==
    ASSUME NEW c \in SoundConnection, Len(c.wire) > 1, NEW d, d = TurnAway(c)
    PROVE  /\ d \in SoundConnection
           /\ {1, 2} \subseteq DOMAIN c.wire
           /\ \E f, g :
                /\ Moved(c, d, f, g)
                /\ \A i \in DOMAIN d.answers \ DOMAIN c.answers : g[i] = 2
<1> DEFINE w == c.wire
           t == RemoveAt(w, 2)
           a == c.answers
           x == [req |-> w[2], ok |-> FALSE]
           b == Append(a, x)
           f == [i \in 1..(Len(w) - 1) |-> IF i < 2 THEN i ELSE i + 1]
           g == [i \in {Len(a) + 1} |-> 2]
<1>1. /\ w \in Seq(SoundRequest) /\ a \in Seq(SoundAnswer) /\ Len(w) \in Nat /\ Len(w) > 1
      /\ DOMAIN w = 1..Len(w) /\ \A i \in DOMAIN w : w[i] \in SoundRequest
  BY ConnectionParts, LenProperties
<1>2. 1 \in DOMAIN w /\ 2 \in DOMAIN w
  BY <1>1
<1>3. /\ t \in Seq(SoundRequest) /\ DOMAIN t = 1..(Len(w) - 1)
      /\ \A i \in 1..(Len(w) - 1) : t[i] = IF i < 2 THEN w[i] ELSE w[i + 1]
  BY <1>1, <1>2, RemoveAtProperties
<1>4. x \in SoundAnswer /\ x.req = w[2]
  BY <1>1, <1>2 DEF SoundAnswer
<1> HIDE DEF x
<1>5. /\ b \in Seq(SoundAnswer)
      /\ Len(a) \in Nat /\ DOMAIN a = 1..Len(a) /\ DOMAIN b = 1..(Len(a) + 1)
      /\ \A i \in 1..Len(a) : b[i] = a[i]
      /\ b[Len(a) + 1] = x
  BY <1>1, <1>4, Appended
<1>6. d = [c EXCEPT !.wire = t, !.answers = b]
  BY DEF TurnAway, x
<1> HIDE DEF t, b
<1>7. /\ d \in SoundConnection /\ d.link = c.link /\ d.advisory = c.advisory
      /\ d.wire = t /\ d.answers = b
  BY <1>3, <1>5, <1>6 DEF SoundConnection
<1>8. DOMAIN a \subseteq DOMAIN b /\ DOMAIN b \ DOMAIN a = {Len(a) + 1}
  BY <1>5
<1>9. /\ \A i \in DOMAIN t : f[i] = IF i < 2 THEN i ELSE i + 1
      /\ \A i \in DOMAIN t : f[i] \in DOMAIN w /\ t[i] = w[f[i]] /\ f[i] # 2
      /\ \A i, j \in DOMAIN t : (i < j => f[i] < f[j]) /\ (f[i] = f[j] => i = j)
      /\ g[Len(a) + 1] = 2
  <2>1. \A i \in DOMAIN t : f[i] = IF i < 2 THEN i ELSE i + 1
    BY <1>3
  <2>2. g[Len(a) + 1] = 2
    OBVIOUS
  <2> HIDE DEF f, g
  <2>3. ASSUME NEW i \in DOMAIN t
        PROVE  f[i] \in DOMAIN w /\ t[i] = w[f[i]] /\ f[i] # 2
    <3>1. i \in Nat /\ i \in 1..(Len(w) - 1)
      BY <1>1, <1>3, <2>3
    <3>2. f[i] \in 1..Len(w) /\ f[i] # 2
      BY <1>1, <2>1, <3>1
    <3>3. t[i] = w[f[i]]
      BY <1>3, <2>1, <3>1
    <3>4. QED
      BY <1>1, <3>2, <3>3
  <2>4. ASSUME NEW i \in DOMAIN t, NEW j \in DOMAIN t
        PROVE  (i < j => f[i] < f[j]) /\ (f[i] = f[j] => i = j)
    <3>1. i \in Nat /\ j \in Nat
      BY <1>1, <1>3, <2>4
    <3>2. QED
      BY <2>1, <3>1
  <2>5. QED
    BY <2>1, <2>2, <2>3, <2>4
<1>10. \A k \in DOMAIN w : \/ \E i \in DOMAIN t : f[i] = k
                           \/ k = 2
  <2>1. SUFFICES ASSUME NEW k \in DOMAIN w, k # 2 PROVE \E i \in DOMAIN t : f[i] = k
    OBVIOUS
  <2>2. CASE k = 1
    <3>1. 1 \in DOMAIN t
      BY <1>1, <1>3
    <3>2. QED
      BY <1>9, <2>2, <3>1
  <2>3. CASE k # 1
    <3>1. k - 1 \in DOMAIN t /\ (k - 1) + 1 = k /\ ~(k - 1 < 2)
      BY <1>1, <1>3, <2>1, <2>3
    <3>2. QED
      BY <1>9, <3>1
  <2>4. QED
    BY <2>2, <2>3
<1> HIDE DEF f, g
<1>11. \A i \in DOMAIN b \ DOMAIN a : g[i] \in DOMAIN w /\ b[i].req = w[g[i]] /\ g[i] = 2
  BY <1>2, <1>4, <1>5, <1>8, <1>9
<1>12. \E i \in DOMAIN b \ DOMAIN a : g[i] = 2
  BY <1>8, <1>9
<1>13. \A i \in DOMAIN a : b[i] = a[i]
  BY <1>5
<1>14. Moved(c, d, f, g)
  BY <1>7, <1>8, <1>9, <1>10, <1>11, <1>12, <1>13 DEF Moved
<1>15. QED
  BY <1>2, <1>7, <1>11, <1>14

-----------------------------------------------------------------------------
(* What holds of the connection in every mode *)

\* Every request the broker still knows of.
Known(c) == Sent(c) \cup Elements(c.advisory)

\* One request of the advisory chain is under way while others wait.
Chain(c) ==
    /\ AtMostOne(c, InChain)
    /\ c.advisory # <<>> => \E r \in Sent(c) : r \in InChain

\* A request of a cleanup is awaited by the cleanup that is under way.
Cleaners(c, ph) ==
    /\ AtMostOne(c, Aborting)
    /\ \A r \in Known(c) :
          r.live /\ r.job = "cleanup" => ph = IF r.kind = "abort" THEN "abort" ELSE "closing"

\* During a sanitize no operation is sent and none waits, and the guest is not
\* said to be online.
StartAlone(c, st) ==
    (\E r \in Sent(c) : r \in Starting) =>
        /\ \A r \in Sent(c) : r.job # "op"
        /\ c.advisory = <<>>
        /\ st # "online"

\* Nothing is sent before the hello.
Quiet(c) ==
    c.link \in {"none", "hello"} => c.wire = <<>> /\ c.answers = <<>> /\ c.advisory = <<>>

Net(c, ph, st) ==
    /\ c \in SoundConnection
    /\ Quiet(c)
    /\ Chain(c)
    /\ Cleaners(c, ph)
    /\ StartFirst(c)
    /\ StartAlone(c, st)

\* The sets of requests are told apart by their fields.
LEMMA RequestSets ==
    /\ InChain \subseteq SoundRequest /\ Aborting \subseteq SoundRequest
    /\ Starting \subseteq SoundRequest
    /\ Aborting \cap InChain = {} /\ Starting \cap InChain = {}
    /\ \A r \in SoundRequest : Dead(r) \notin InChain /\ Dead(r) \notin Aborting
                               /\ Dead(r) \notin Starting
  BY DEF InChain, Aborting, Starting, SoundRequest, Request, Dead

\* A connection without requests is sound.
LEMMA EmptyConnection ==
    ASSUME NEW c, c = NoGuest \/ c = [NoGuest EXCEPT !.link = "hello"]
    PROVE  /\ c \in SoundConnection /\ Known(c) = {} /\ Sent(c) = {}
           /\ c.wire = <<>> /\ c.answers = <<>> /\ c.advisory = <<>>
           /\ c = NoGuest => c.link = "none"
           /\ c # NoGuest => c.link = "hello"
           /\ \A ph, st : Net(c, ph, st)
<1>1. <<>> \in Seq(SoundRequest) /\ <<>> \in Seq(SoundAnswer) /\ <<>> \in Seq(InChain)
  OBVIOUS
<1>2. /\ c.wire = <<>> /\ c.answers = <<>> /\ c.advisory = <<>>
      /\ c \in SoundConnection
      /\ c = NoGuest => c.link = "none"
      /\ c # NoGuest => c.link = "hello"
  <2>1. CASE c = NoGuest
    BY <1>1, <2>1 DEF NoGuest, SoundConnection
  <2>2. CASE c = [NoGuest EXCEPT !.link = "hello"]
    BY <1>1, <2>2 DEF NoGuest, SoundConnection
  <2>3. QED
    BY <2>1, <2>2
<1>3. DOMAIN c.wire = {} /\ DOMAIN c.answers = {} /\ DOMAIN c.advisory = {}
  BY <1>2
<1>4. Known(c) = {} /\ Sent(c) = {}
  BY <1>3 DEF Known, Sent, Elements
<1>5. \A X : AtMostOne(c, X)
  BY <1>3 DEF AtMostOne
<1>6. StartFirst(c)
  BY <1>3 DEF StartFirst
<1>7. QED
  BY <1>2, <1>4, <1>5, <1>6 DEF Net, Quiet, Chain, Cleaners, StartAlone

\* The request GuestConnection.request makes.
NewRequest(kind, by, job) ==
    [kind |-> kind, by |-> by, job |-> job, live |-> TRUE,
     queued |-> ~locking /\ kind # "abort"]

\* d is c with r on the wire or in the advisory chain, or c if it is dead.
Requested(c, d, r) ==
    /\ d \in SoundConnection /\ Chain(d)
    /\ r \in SoundRequest
    /\ d.link = c.link /\ d.answers = c.answers
    /\ Known(d) \subseteq Known(c) \cup {r}
    /\ Sent(c) \subseteq Sent(d)
    /\ r \notin InChain => d.advisory = c.advisory /\ Sent(d) \subseteq Sent(c) \cup {r}
    /\ NoneOf(c, InChain) => d.advisory = <<>>
    /\ \A X : /\ AtMostOne(c, X) /\ X \cap InChain = {}
              /\ r \notin X \/ NoneOf(c, X)
              => AtMostOne(d, X)
    /\ /\ StartFirst(c)
       /\ r \notin Starting \/ (c.wire = <<>> /\ c.answers = <<>>)
       => StartFirst(d)

\* The fields of a new request.
LEMMA NewRequestFields ==
    ASSUME NEW kind, NEW by, NEW job
    PROVE  LET r == NewRequest(kind, by, job)
           IN  /\ r.kind = kind /\ r.by = by /\ r.job = job /\ r.live
               /\ r.queued <=> ~locking /\ kind # "abort"
  BY DEF NewRequest

\* A request of the broker: what GuestConnection.request makes of it.
LEMMA RequestStep ==
    ASSUME NEW c \in SoundConnection, Chain(c), locking \in BOOLEAN,
           NEW kind \in OpKinds \cup {"abort"}, NEW by \in Sessions \cup {None},
           NEW job \in {"op", "cleanup", "start"},
           kind # "abort" => by \in Sessions,
           job = "op" => kind # "abort", job = "start" => kind = "abort"
    PROVE  Requested(c, GuestRequest(c, kind, by, job), NewRequest(kind, by, job))
<1> DEFINE r == NewRequest(kind, by, job)
           d == GuestRequest(c, kind, by, job)
<1> SUFFICES Requested(c, d, r)
  OBVIOUS
<1>1. r \in SoundRequest /\ (r.queued => r \in InChain) /\ (r \in InChain => r.queued)
  BY DEF SoundRequest, Request, InChain, NewRequest
<1>2. c.advisory \in Seq(InChain)
  BY ConnectionParts
<1>3. CASE r.queued
  <2> DEFINE e == [c EXCEPT !.advisory = Append(@, r)]
  <2>1. d = NextAdvisory(e) /\ r \in InChain
    BY <1>1, <1>3 DEF GuestRequest, NewRequest
  <2> HIDE DEF r, d
  <2>2. /\ Append(c.advisory, r) \in Seq(InChain)
        /\ Elements(Append(c.advisory, r)) = Elements(c.advisory) \cup {r}
        /\ Append(c.advisory, r) # <<>>
    BY <1>2, <2>1, Appended
  <2>3. /\ e \in SoundConnection /\ e.link = c.link /\ e.answers = c.answers
        /\ e.wire = c.wire /\ e.advisory = Append(c.advisory, r)
    BY <2>2 DEF SoundConnection
  <2> HIDE DEF e
  <2>4. /\ Sent(e) = Sent(c) /\ \A X : AtMostOne(c, X) => AtMostOne(e, X)
        /\ StartFirst(c) => StartFirst(e)
    BY <2>3 DEF Sent, AtMostOne, StartFirst
  <2>5. AtMostOne(e, InChain)
    BY <2>4 DEF Chain
  <2>6. /\ d \in SoundConnection /\ d.link = e.link /\ d.answers = e.answers
        /\ AtMostOne(d, InChain)
        /\ d.advisory # <<>> => \E x \in Sent(d) : x \in InChain
        /\ Sent(e) \subseteq Sent(d)
        /\ Sent(d) \subseteq Sent(e) \cup Elements(e.advisory)
        /\ Elements(d.advisory) \subseteq Elements(e.advisory)
        /\ \A X : AtMostOne(e, X) /\ X \cap InChain = {} => AtMostOne(d, X)
        /\ StartFirst(e) => StartFirst(d)
    BY <2>1, <2>3, <2>5, NextAdvisoryStep
  <2>7. NoneOf(c, InChain) => d.advisory = <<>>
    <3>1. SUFFICES ASSUME NoneOf(c, InChain) PROVE d.advisory = <<>>
      OBVIOUS
    <3>2. c.advisory = <<>>
      BY <3>1 DEF Chain, NoneOf
    <3>3. ~ChainBusy(e)
      BY <2>3, <2>4, <3>1, ConnectionParts DEF ChainBusy, NoneOf, InChain
    <3>4. \/ d = [e EXCEPT !.advisory = <<>>]
          \/ d = RequestNow([e EXCEPT !.advisory = Tail(@)], Head(e.advisory))
      BY <2>1, <2>2, <2>3, <3>3 DEF NextAdvisory
    <3>5. Tail(e.advisory) = <<>>
      <4>1. Len(Append(c.advisory, r)) = 1
        BY <1>2, <2>1, <3>2, Appended
      <4>2. /\ Tail(Append(c.advisory, r)) \in Seq(InChain)
            /\ Len(Tail(Append(c.advisory, r))) = Len(Append(c.advisory, r)) - 1
        BY <2>2, Tailed
      <4>3. QED
        BY <2>3, <4>1, <4>2, EmptySeq
    <3>6. [e EXCEPT !.advisory = Tail(@)].advisory = <<>>
      BY <2>3, <3>5 DEF SoundConnection
    <3>7. QED
      BY <2>3, <3>4, <3>6 DEF RequestNow, SoundConnection
  <2>8. QED
    BY <1>1, <2>1, <2>2, <2>3, <2>4, <2>6, <2>7 DEF Known, Chain, Requested
<1>4. CASE ~r.queued
  <2>1. d = RequestNow(c, r) /\ r \notin InChain
    BY <1>1, <1>4 DEF GuestRequest, NewRequest
  <2> HIDE DEF r, d
  <2>2. NoneOf(c, InChain) => c.advisory = <<>>
    BY DEF Chain, NoneOf
  <2>3. CASE c.link = "ready"
    <3>1. d = Send(c, r, c.advisory)
      <4>1. d = [c EXCEPT !.wire = Append(@, r)]
        BY <2>1, <2>3 DEF RequestNow
      <4>2. QED
        BY <4>1 DEF Send, SoundConnection
    <3>2. /\ d \in SoundConnection /\ d.link = c.link /\ d.answers = c.answers
          /\ d.advisory = c.advisory
          /\ Sent(d) = Sent(c) \cup {r}
          /\ \A X : AtMostOne(c, X) /\ (r \notin X \/ NoneOf(c, X)) => AtMostOne(d, X)
          /\ StartFirst(c) /\ (r \notin Starting \/ (c.wire = <<>> /\ c.answers = <<>>))
                => StartFirst(d)
      BY <1>1, <1>2, <3>1, SendStep
    <3>3. QED
      BY <1>1, <2>1, <2>2, <3>2 DEF Known, Chain, Requested
  <2>4. CASE c.link # "ready"
    <3>1. d = c
      BY <2>1, <2>4 DEF RequestNow
    <3>2. QED
      BY <1>1, <2>1, <2>2, <3>1 DEF Known, Requested
  <2>5. QED
    BY <2>3, <2>4
<1>5. QED
  BY <1>3, <1>4

\* c is what is left of a connection in which r settled: r is gone or dead, the
\* next request of the advisory chain may be on the wire.
Settlement(c, r) ==
    /\ c \in SoundConnection /\ c.link = conn.link
    /\ Sent(c) \subseteq Sent(conn) \cup Elements(conn.advisory) \cup {Dead(r)}
    /\ Elements(c.advisory) \subseteq Elements(conn.advisory)
    /\ conn.advisory = <<>> => c.advisory = <<>>
    /\ \A x \in Sent(conn) : x \in Sent(c) \/ x = r
    /\ Chain(c)
    /\ \A X : /\ Dead(r) \notin X /\ X \cap InChain = {} /\ AtMostOne(conn, X)
              => AtMostOne(c, X) /\ (r \in X => NoneOf(c, X))
    /\ StartFirst(conn) => StartFirst(c)

\* A request settles.
LEMMA SettledStep ==
    ASSUME conn \in SoundConnection, Chain(conn), NEW r \in Sent(conn), NEW ok \in BOOLEAN,
           NEW c \in Settled(r, ok)
    PROVE  Settlement(c, r)
<1>1. r \in SoundRequest /\ Dead(r) \notin InChain
  BY ConnectionParts, RequestSets
<1>2. ASSUME NEW e, e \in SoundConnection, c = NextAdvisory(e), e.link = conn.link,
             e.advisory = conn.advisory,
             Sent(e) \subseteq Sent(conn) \cup {Dead(r)},
             \A x \in Sent(conn) : x \in Sent(e) \/ x = r,
             \A X : Dead(r) \notin X /\ AtMostOne(conn, X) =>
                       AtMostOne(e, X) /\ (r \in X => NoneOf(e, X)),
             StartFirst(conn) => StartFirst(e)
      PROVE  Settlement(c, r)
  <2>1. AtMostOne(e, InChain)
    BY <1>1, <1>2 DEF Chain
  <2>2. /\ c \in SoundConnection /\ c.link = e.link
        /\ AtMostOne(c, InChain)
        /\ c.advisory # <<>> => \E x \in Sent(c) : x \in InChain
        /\ Sent(e) \subseteq Sent(c)
        /\ Sent(c) \subseteq Sent(e) \cup Elements(e.advisory)
        /\ Elements(c.advisory) \subseteq Elements(e.advisory)
        /\ e.advisory = <<>> => c = e
        /\ \A X : AtMostOne(e, X) /\ X \cap InChain = {} => AtMostOne(c, X)
        /\ StartFirst(e) => StartFirst(c)
    BY <1>2, <2>1, NextAdvisoryStep
  <2>3. Elements(conn.advisory) \subseteq InChain
    BY ConnectionParts
  <2>4. \A X : X \cap InChain = {} /\ NoneOf(e, X) => NoneOf(c, X)
    BY <1>2, <2>2, <2>3 DEF NoneOf
  <2>5. QED
    BY <1>2, <2>2, <2>4 DEF Settlement, Chain
<1>3. CASE /\ conn.answers # <<>> /\ Head(conn.answers) = [req |-> r, ok |-> ok]
           /\ c = NextAdvisory([conn EXCEPT !.answers = Tail(@)])
  <2> DEFINE e == Answered(conn)
  <2>1. c = NextAdvisory(e) /\ Head(conn.answers).req = r
    BY <1>3 DEF Answered
  <2> HIDE DEF e
  <2>2. /\ e \in SoundConnection /\ e.link = conn.link
        /\ e.advisory = conn.advisory
        /\ Sent(e) \subseteq Sent(conn)
        /\ \A x \in Sent(conn) : x \in Sent(e) \/ x = Head(conn.answers).req
        /\ \A X : AtMostOne(conn, X) => AtMostOne(e, X)
        /\ \A X : AtMostOne(conn, X) /\ Head(conn.answers).req \in X => NoneOf(e, X)
        /\ StartFirst(conn) => StartFirst(e)
    BY <1>3, AnsweredStep DEF e
  <2>3. QED
    BY <1>2, <2>1, <2>2
<1>4. CASE c = NextAdvisory(Abandon(conn, r))
  <2> DEFINE e == Abandon(conn, r)
  <2>1. /\ e \in SoundConnection /\ e.link = conn.link /\ e.advisory = conn.advisory
    BY AbandonStep
  <2>2. /\ Sent(e) \subseteq Sent(conn) \cup {Dead(r)}
        /\ \A x \in Sent(conn) : x \in Sent(e) \/ x = r
        /\ \A X : Dead(r) \notin X /\ AtMostOne(conn, X) => AtMostOne(e, X)
        /\ \A X : Dead(r) \notin X /\ AtMostOne(conn, X) /\ r \in X => NoneOf(e, X)
        /\ StartFirst(conn) => StartFirst(e)
    BY AbandonKeeps
  <2> HIDE DEF e
  <2>3. c = NextAdvisory(e)
    BY <1>4 DEF e
  <2>4. QED
    BY <1>2, <2>1, <2>2, <2>3
<1>5. QED
  BY <1>3, <1>4 DEF Settled

\* What Net says survives the end of a request.
LEMMA SettlementNet ==
    ASSUME NEW ph, NEW st, Net(conn, ph, st), NEW r \in Sent(conn), NEW c, Settlement(c, r)
    PROVE  /\ Net(c, ph, st)
           /\ r \in Aborting => \A x \in Known(c) : ~(x.live /\ x.job = "cleanup")
           /\ r \in Starting => \A x \in Sent(c) : x \notin Starting
           /\ \A x \in Known(c) : x.live => x \in Known(conn)
<1>1. /\ r \in SoundRequest /\ Sent(conn) \subseteq SoundRequest
      /\ Elements(conn.advisory) \subseteq InChain
  BY ConnectionParts DEF Net
<1>2. /\ Dead(r) \notin InChain /\ Dead(r) \notin Aborting /\ Dead(r) \notin Starting
      /\ Aborting \cap InChain = {} /\ Starting \cap InChain = {}
  BY <1>1, RequestSets
<1>3. ~Dead(r).live /\ Dead(r).job = r.job
  BY <1>1 DEF Dead, SoundRequest, Request
<1>4. \A x \in Known(c) : x.live => x \in Known(conn)
  BY <1>3 DEF Settlement, Known
<1>5. AtMostOne(c, Aborting) /\ (r \in Aborting => NoneOf(c, Aborting))
  BY <1>2 DEF Settlement, Net, Cleaners
<1>6. Cleaners(c, ph)
  BY <1>4, <1>5 DEF Net, Cleaners
<1>7. StartFirst(c)
  BY DEF Settlement, Net
<1>8. \A x \in Sent(c) : x \in Starting => x \in Sent(conn)
  BY <1>1, <1>2 DEF Settlement
<1>9. StartAlone(c, st)
  <2>1. SUFFICES ASSUME NEW x \in Sent(c), x \in Starting
                 PROVE  /\ \A y \in Sent(c) : y.job # "op"
                        /\ c.advisory = <<>>
                        /\ st # "online"
    BY DEF StartAlone
  <2>2. /\ \A y \in Sent(conn) : y.job # "op"
        /\ conn.advisory = <<>>
        /\ st # "online"
    BY <1>8, <2>1 DEF Net, StartAlone
  <2>3. Elements(conn.advisory) = {}
    BY <2>2 DEF Elements
  <2>4. QED
    BY <1>3, <2>2, <2>3 DEF Settlement
<1>10. ASSUME r \in Aborting, NEW x \in Known(c), x.live, x.job = "cleanup" PROVE FALSE
  <2>1. x \in Known(conn) /\ ph = IF x.kind = "abort" THEN "abort" ELSE "closing"
    BY <1>4, <1>10 DEF Net, Cleaners
  <2>2. r \in Known(conn) /\ r.live /\ r.job = "cleanup" /\ r.kind = "abort"
    BY <1>10 DEF Known, Aborting
  <2>3. ph = "abort"
    BY <2>2 DEF Net, Cleaners
  <2>4. x.kind = "abort"
    BY <2>1, <2>3
  <2>5. x \notin InChain /\ x \in SoundRequest
    BY <1>1, <2>1, <2>4, RequestSets DEF Known, InChain, SoundRequest
  <2>6. x \in Sent(c)
    BY <1>1, <1>10, <2>5 DEF Known, Settlement
  <2>7. QED
    BY <1>5, <1>10, <2>4, <2>5, <2>6 DEF NoneOf, Aborting
<1>11. ASSUME r \in Starting, NEW x \in Sent(c), x \in Starting PROVE FALSE
  <2>1. AtMostOne(conn, Starting)
    BY DEF Net, StartFirst, AtMostOne
  <2>2. NoneOf(c, Starting)
    BY <1>2, <1>11, <2>1 DEF Settlement
  <2>3. QED
    BY <1>11, <2>2 DEF NoneOf
<1>12. Quiet(c)
  <2>1. \/ \E i \in DOMAIN conn.wire : conn.wire[i] = r
        \/ \E i \in DOMAIN conn.answers : conn.answers[i].req = r
    BY ConnectionParts DEF Net
  <2>2. DOMAIN <<>> = {}
    OBVIOUS
  <2>3. conn.link \notin {"none", "hello"}
    BY <2>1, <2>2 DEF Net, Quiet
  <2>4. QED
    BY <2>3 DEF Settlement, Quiet
<1>13. QED
  BY <1>4, <1>6, <1>7, <1>9, <1>10, <1>11, <1>12 DEF Net, Settlement

\* A socket that is destroyed keeps its requests until its close event.
LEMMA DestroyedStep ==
    ASSUME NEW c \in SoundConnection, NEW d, d = Destroyed(c)
    PROVE  /\ d \in SoundConnection /\ d.wire = c.wire /\ d.answers = c.answers
           /\ d.advisory = c.advisory /\ d.link \in {"none", "destroyed"}
           /\ d.link = "none" => c.link = "none"
           /\ Known(d) = Known(c) /\ Sent(d) = Sent(c)
           /\ \A ph, st : Net(c, ph, st) => Net(d, ph, st)
<1>1. /\ d \in SoundConnection /\ d.wire = c.wire /\ d.answers = c.answers
      /\ d.advisory = c.advisory /\ d.link \in {"none", "destroyed"}
      /\ d.link = "none" => c.link = "none"
  BY DEF Destroyed, SoundConnection
<1>2. Known(d) = Known(c) /\ Sent(d) = Sent(c)
  BY <1>1 DEF Known, Sent
<1>3. \A X : AtMostOne(c, X) => AtMostOne(d, X)
  BY <1>1 DEF AtMostOne
<1>4. StartFirst(c) => StartFirst(d)
  BY <1>1 DEF StartFirst
<1>5. QED
  BY <1>1, <1>2, <1>3, <1>4 DEF Net, Quiet, Chain, Cleaners, StartAlone

\* What the guest does with the requests on the wire keeps Net.
LEMMA MovedNet ==
    ASSUME NEW c, NEW d, NEW f, NEW g, Moved(c, d, f, g), NEW ph, NEW st, Net(c, ph, st),
           c.answers = <<>> /\ 1 \in DOMAIN c.wire /\ c.wire[1] \in Starting =>
              1 \in DOMAIN d.answers /\ g[1] = 1
    PROVE  Net(d, ph, st)
<1>1. /\ Sent(d) = Sent(c)
      /\ \A X : AtMostOne(c, X) => AtMostOne(d, X)
      /\ StartFirst(d)
  BY MovedKeeps DEF Net
<1>2. d \in SoundConnection /\ d.advisory = c.advisory /\ Known(d) = Known(c)
  BY <1>1 DEF Moved, Known
<1>3. Quiet(d)
  <2>1. c.link \in {"none", "hello"} => DOMAIN c.wire = {} /\ DOMAIN c.answers = {}
    BY DEF Net, Quiet
  <2>2. d.wire \in Seq(SoundRequest) /\ d.answers \in Seq(SoundAnswer)
    BY <1>2, ConnectionParts
  <2>3. /\ d.wire # <<>> => 1 \in DOMAIN d.wire
        /\ d.answers # <<>> => 1 \in DOMAIN d.answers
    BY <2>2, Tailed
  <2>4. QED
    BY <1>2, <2>1, <2>3 DEF Moved, Net, Quiet
<1>4. QED
  BY <1>1, <1>2, <1>3 DEF Net, Chain, Cleaners, StartAlone

-----------------------------------------------------------------------------
(* What holds of the rest of the state in every mode *)

Works == {"idle", "polling", "op", "unlock", "cleaning"}

Rest ==
    /\ locking \in Modes
    /\ state \in {"unseen", "offline", "connecting", "sanitizing", "online"}
    /\ residue \in [held : SUBSET Sessions, terms : SUBSET Sessions]
    /\ tracked \subseteq Sessions
    /\ present \in [Sessions -> BOOLEAN]
    /\ work \in [Sessions -> Works]
    /\ final \in [Sessions -> {"none", "release", "keep"}]
    /\ cleanups \in Seq(Cleanup)
    /\ phase \in {"idle", "transfers", "abort", "partials", "closing"}
    /\ phase # "idle" => cleanups # <<>>

\* The invariant of every mode.
Inv == LeaseOK(lease) /\ Rest /\ Net(conn, phase, state)

\* m is l after the answers of settled vm_wait calls were given.
Consumed(l, m) ==
    /\ LeaseOK(m)
    /\ m.owner = l.owner /\ m.due = l.due /\ m.blocked = l.blocked /\ m.waiters = l.waiters
    /\ \A s \in Sessions : m.call[s] = "waiting" <=> l.call[s] = "waiting"

\* The next lease is the result of the methods that were called.
LEMMA SetLeaseStep ==
    ASSUME NEW l, LeaseOK(l), SetLease(l)
    PROVE  Consumed(l, lease')
<1> DEFINE call == [s \in Sessions |-> IF l.call[s] = "waiting" THEN "waiting" ELSE "idle"]
<1>1. l \in LeaseState
  BY DEF LeaseOK
<1>2. lease' = [l EXCEPT !.call = call]
  BY DEF SetLease
<1>3. call \in [Sessions -> CallState]
  BY DEF CallState
<1>4. \A s \in Sessions : call[s] = "waiting" <=> l.call[s] = "waiting"
  OBVIOUS
<1> HIDE DEF call
<1>5. /\ lease' \in LeaseState /\ lease'.owner = l.owner /\ lease'.due = l.due
      /\ lease'.blocked = l.blocked /\ lease'.waiters = l.waiters /\ lease'.call = call
  BY <1>1, <1>2, <1>3 DEF LeaseState
<1>6. QED
  BY <1>4, <1>5 DEF Consumed, LeaseOK

\* The cleanup the "expired" listener adds for a session.
Expiry(s) == [session |-> s, release |-> FALSE, awaited |-> FALSE, reply |-> FALSE]

\* The cleanup chain after an expiry was noticed, if there was one.
Noting(q, l) == IF Expires(l) THEN Append(q, Expiry(l.owner)) ELSE q

\* The cleanup of an expired owner joins the chain.
LEMMA NoticedStep ==
    ASSUME NEW l, LeaseOK(l), NEW q \in Seq(Cleanup)
    PROVE  /\ q \o Noticed(l) = Noting(q, l)
           /\ Noting(q, l) \in Seq(Cleanup)
           /\ q # <<>> => Noting(q, l) # <<>>
           /\ Expires(l) => Expiry(l.owner) \in Cleanup
<1>1. CASE Expires(l)
  <2> DEFINE x == Expiry(l.owner)
  <2>1. x \in Cleanup
    BY <1>1 DEF Expiry, Expires, LeaseOK, LeaseState, Cleanup
  <2>2. Noticed(l) = <<x>>
    BY <1>1 DEF Noticed, Expiry
  <2> HIDE DEF x
  <2>3. Append(q, x) = q \o <<x>>
    BY <2>1, AppendIsConcat
  <2>4. Append(q, x) \in Seq(Cleanup) /\ Append(q, x) # <<>>
    BY <2>1, Appended
  <2>5. QED
    BY <1>1, <2>1, <2>2, <2>3, <2>4 DEF Noting, x
<1>2. CASE ~Expires(l)
  <2>1. Noticed(l) = <<>>
    BY <1>2 DEF Noticed
  <2>2. q \o <<>> = q
    BY ConcatEmptySeq
  <2>3. QED
    BY <1>2, <2>1, <2>2 DEF Noting
<1>3. QED
  BY <1>1, <1>2

\* A call is answered.
LEMMA AnswerStep ==
    ASSUME NEW l, LeaseOK(l), cleanups \in Seq(Cleanup), Answer(l)
    PROVE  /\ Consumed(ExpireIfDue(l), lease')
           /\ cleanups' = Noting(cleanups, l)
           /\ cleanups' \in Seq(Cleanup)
           /\ cleanups # <<>> => cleanups' # <<>>
<1>1. LeaseOK(ExpireIfDue(l))
  BY ExpireIfDueOK
<1>2. SetLease(ExpireIfDue(l)) /\ cleanups' = cleanups \o Noticed(l)
  BY DEF Answer
<1>3. QED
  BY <1>1, <1>2, SetLeaseStep, NoticedStep

\* An operation that returns renews the lease of the owner.
LEMMA LeaseAfterStep ==
    ASSUME LeaseOK(lease), NEW c
    PROVE  LET l == LeaseAfter(c)
           IN  /\ LeaseOK(l)
               /\ l.owner = lease.owner /\ l.blocked = lease.blocked
               /\ l.waiters = lease.waiters /\ l.call = lease.call
               /\ l.due = IF locking /\ lease.owner \in Returned(c) THEN FALSE ELSE lease.due
<1>1. lease \in LeaseState
  BY DEF LeaseOK
<1>2. CASE locking /\ lease.owner \in Returned(c)
  <2>1. lease.owner \in Sessions
    BY <1>2 DEF Returned
  <2>2. LeaseAfter(c) = [lease EXCEPT !.due = FALSE]
    BY <1>2 DEF LeaseAfter, Touch
  <2>3. LeaseOK(LeaseAfter(c))
    BY <2>2, DueOK
  <2>4. QED
    BY <1>1, <1>2, <2>2, <2>3 DEF LeaseState
<1>3. CASE ~(locking /\ lease.owner \in Returned(c))
  BY <1>3 DEF LeaseAfter
<1>4. QED
  BY <1>2, <1>3

\* The calls whose operation settled are idle, the others go on.
LEMMA WorkAfterStep ==
    ASSUME work \in [Sessions -> Works], NEW c
    PROVE  /\ WorkAfter(c) \in [Sessions -> Works]
           /\ \A s \in Sessions : WorkAfter(c)[s] = IF s \in Returned(c) THEN "idle" ELSE work[s]
           /\ \A s \in Returned(c) : s \in Sessions /\ work[s] = "op"
  BY DEF WorkAfter, Works, Returned

\* The lease and the chain after the operations that settled were answered.
Answers(c) ==
    IF Returned(c) = {} THEN lease' = lease /\ cleanups' = cleanups
    ELSE /\ Consumed(ExpireIfDue(LeaseAfter(c)), lease')
         /\ cleanups' = Noting(cleanups, LeaseAfter(c))

\* The operations that settled are answered.
LEMMA AnswerReturnedStep ==
    ASSUME Inv, NEW c, AnswerReturned(c)
    PROVE  /\ LeaseOK(lease') /\ Answers(c)
           /\ cleanups' \in Seq(Cleanup) /\ (cleanups # <<>> => cleanups' # <<>>)
           /\ work' \in [Sessions -> Works] /\ work' = WorkAfter(c)
<1>1. LeaseOK(lease) /\ work \in [Sessions -> Works] /\ cleanups \in Seq(Cleanup)
  BY DEF Inv, Rest
<1>2. work' = WorkAfter(c) /\ work' \in [Sessions -> Works]
  BY <1>1, WorkAfterStep DEF AnswerReturned
<1>3. CASE Returned(c) = {}
  BY <1>1, <1>2, <1>3 DEF AnswerReturned, Answers
<1>4. CASE Returned(c) # {}
  <2>1. LeaseOK(LeaseAfter(c)) /\ Answer(LeaseAfter(c))
    BY <1>1, <1>4, LeaseAfterStep DEF AnswerReturned
  <2>2. /\ Consumed(ExpireIfDue(LeaseAfter(c)), lease')
        /\ cleanups' = Noting(cleanups, LeaseAfter(c))
        /\ cleanups' \in Seq(Cleanup)
        /\ cleanups # <<>> => cleanups' # <<>>
    BY <1>1, <2>1, AnswerStep
  <2>3. QED
    BY <1>2, <1>4, <2>2 DEF Answers, Consumed
<1>5. QED
  BY <1>3, <1>4

\* The cleanup chain has lost its first cleanup.
LEMMA EndCleanupStep ==
    ASSUME Inv, cleanups # <<>>, NEW c, NEW l, LeaseOK(l), EndCleanup(c, l)
    PROVE  LET job == Head(cleanups)
               answers == job.reply \/ Returned(c) # {}
           IN  /\ job \in Cleanup /\ job = cleanups[1]
               /\ Consumed(IF answers THEN ExpireIfDue(l) ELSE l, lease')
               /\ cleanups' = IF answers THEN Noting(Tail(cleanups), l) ELSE Tail(cleanups)
               /\ cleanups' \in Seq(Cleanup) /\ Tail(cleanups) \in Seq(Cleanup)
               /\ phase' = "idle"
               /\ work' \in [Sessions -> Works]
               /\ \A s \in Sessions :
                     work'[s] = IF (s = job.session /\ job.awaited) \/ s \in Returned(c)
                                THEN "idle" ELSE work[s]
<1> DEFINE job == Head(cleanups)
           answers == job.reply \/ Returned(c) # {}
<1>1. work \in [Sessions -> Works] /\ cleanups \in Seq(Cleanup)
  BY DEF Inv, Rest
<1>2. /\ job \in Cleanup /\ job = cleanups[1] /\ Tail(cleanups) \in Seq(Cleanup)
  BY <1>1, Tailed
<1>3. job.session \in Sessions /\ job.awaited \in BOOLEAN
  BY <1>2 DEF Cleanup
<1>4. /\ SetLease(IF answers THEN ExpireIfDue(l) ELSE l)
      /\ cleanups' = Tail(cleanups) \o (IF answers THEN Noticed(l) ELSE <<>>)
      /\ phase' = "idle"
      /\ work' = [WorkAfter(c) EXCEPT
                      ![job.session] = IF job.awaited THEN "idle" ELSE @]
  BY DEF EndCleanup
<1> HIDE DEF job
<1>5. Consumed(IF answers THEN ExpireIfDue(l) ELSE l, lease')
  BY <1>4, ExpireIfDueOK, SetLeaseStep
<1>6. /\ cleanups' = IF answers THEN Noting(Tail(cleanups), l) ELSE Tail(cleanups)
      /\ cleanups' \in Seq(Cleanup)
  <2>1. Tail(cleanups) \o <<>> = Tail(cleanups)
    BY <1>2, ConcatEmptySeq
  <2>2. /\ Tail(cleanups) \o Noticed(l) = Noting(Tail(cleanups), l)
        /\ Noting(Tail(cleanups), l) \in Seq(Cleanup)
    BY <1>2, NoticedStep
  <2>3. QED
    BY <1>2, <1>4, <2>1, <2>2
<1>7. /\ work' \in [Sessions -> Works]
      /\ \A s \in Sessions :
            work'[s] = IF (s = job.session /\ job.awaited) \/ s \in Returned(c)
                       THEN "idle" ELSE work[s]
  <2>1. /\ WorkAfter(c) \in [Sessions -> Works]
        /\ \A s \in Sessions : WorkAfter(c)[s] = IF s \in Returned(c) THEN "idle" ELSE work[s]
    BY <1>1, WorkAfterStep
  <2>2. QED
    BY <1>3, <1>4, <2>1 DEF Works
<1>8. QED
  BY <1>2, <1>4, <1>5, <1>6, <1>7 DEF job

\* The lease at the end of a cleanup in exclusive mode.
Freed(l, sanitized) ==
    LET job == Head(cleanups)
        released == IF job.release THEN Release(l, job.session) ELSE l
    IN  IF sanitized THEN SetBlocked(released, FALSE) ELSE released

\* The end of a cleanup releases and unblocks as it should.
LEMMA FreedOK ==
    ASSUME Inv, cleanups # <<>>, NEW l, LeaseOK(l), NEW sanitized \in BOOLEAN
    PROVE  /\ LeaseOK(Freed(l, sanitized))
           /\ \A c : EndExclusive(c, l, sanitized) = EndCleanup(c, Freed(l, sanitized))
<1>1. Head(cleanups) \in Cleanup
  BY Tailed DEF Inv, Rest
<1>2. Head(cleanups).session \in Sessions
  BY <1>1 DEF Cleanup
<1> DEFINE released == IF Head(cleanups).release THEN Release(l, Head(cleanups).session) ELSE l
<1>3. LeaseOK(released)
  BY <1>2, ReleaseOK
<1>4. LeaseOK(SetBlocked(released, FALSE))
  <2> HIDE DEF released
  <2>1. QED
    BY <1>3, SetBlockedOK
<1>5. \A c : EndExclusive(c, l, sanitized) = EndCleanup(c, Freed(l, sanitized))
  BY DEF EndExclusive, Freed
<1>6. QED
  BY <1>3, <1>4, <1>5 DEF Freed

\* The phase only matters to requests of cleanups, the state to a sanitize.
LEMMA NetFrame ==
    ASSUME NEW c, NEW ph, NEW st, Net(c, ph, st), NEW ph2, NEW st2,
           ph2 = ph \/ \A x \in Known(c) : ~(x.live /\ x.job = "cleanup"),
           st2 = st \/ st2 # "online" \/ \A x \in Sent(c) : x \notin Starting
    PROVE  Net(c, ph2, st2)
  BY DEF Net, Cleaners, StartAlone

\* No cleanup awaits a request before it has sent one.
LEMMA NothingAwaited ==
    ASSUME Inv, phase \notin {"abort", "closing"}
    PROVE  /\ \A x \in Known(conn) : ~(x.live /\ x.job = "cleanup")
           /\ NoneOf(conn, Aborting)
<1>1. \A x \in Known(conn) : ~(x.live /\ x.job = "cleanup")
  BY DEF Inv, Net, Cleaners
<1>2. QED
  BY <1>1 DEF NoneOf, Known, Aborting

\* A cleanup of exclusive mode goes on to the guest, or ends without one.
LEMMA AbortInGuestStep ==
    ASSUME Inv, cleanups # <<>>, phase \in {"idle", "transfers"}, NEW l, LeaseOK(l),
           AbortInGuest(l), UNCHANGED <<locking, residue, present, final>>
    PROVE  Inv'
<1> DEFINE s == Head(cleanups).session
           r == NewRequest("abort", s, "cleanup")
<1>1. s \in Sessions
  <2>1. Head(cleanups) \in Cleanup
    BY Tailed DEF Inv, Rest
  <2>2. QED
    BY <2>1 DEF Cleanup
<1>2. conn \in SoundConnection /\ Chain(conn) /\ locking \in BOOLEAN
  BY BrokerAssumption DEF Inv, Net, Rest
<1>3. conn' = GuestRequest(conn, "abort", s, "cleanup") /\ tracked' = tracked \ {s}
  BY DEF AbortInGuest
<1>4. CASE conn.link = "ready"
  <2>1. /\ phase' = "abort" /\ state' = "sanitizing" /\ SetLease(l)
        /\ UNCHANGED <<work, cleanups>>
    BY <1>4 DEF AbortInGuest
  <2>2. LeaseOK(lease')
    BY <2>1, SetLeaseStep DEF Consumed
  <2> HIDE DEF s
  <2>3. Requested(conn, conn', r)
    BY <1>1, <1>2, <1>3, RequestStep
  <2>4. /\ r \notin InChain /\ r \notin Starting /\ r.kind = "abort" /\ r.job = "cleanup"
    BY NewRequestFields DEF InChain, Starting
  <2> HIDE DEF r
  <2>5. Cleaners(conn', "abort")
    <3>1. AtMostOne(conn', Aborting)
      BY <2>3, NothingAwaited, RequestSets DEF Inv, Net, Cleaners, Requested
    <3>2. QED
      BY <2>3, <2>4, <3>1, NothingAwaited DEF Cleaners, Requested
  <2>6. StartFirst(conn')
    BY <2>3, <2>4 DEF Inv, Net, Requested
  <2>7. StartAlone(conn', "sanitizing")
    BY <2>3, <2>4 DEF Inv, Net, StartAlone, Requested
  <2>8. Net(conn', phase', state')
    BY <1>4, <2>1, <2>3, <2>5, <2>6, <2>7 DEF Net, Requested, Quiet
  <2>9. QED
    BY <1>3, <2>1, <2>2, <2>8 DEF Inv, Rest
<1>5. CASE conn.link # "ready"
  <2>1. conn' = conn
    BY <1>3, <1>5 DEF GuestRequest, RequestNow
  <2>2. /\ EndExclusive(conn, l, FALSE)
        /\ state' = IF conn.link = "destroyed" THEN "sanitizing" ELSE state
    BY <1>5 DEF AbortInGuest
  <2>3. LeaseOK(Freed(l, FALSE)) /\ EndCleanup(conn, Freed(l, FALSE))
    BY <2>2, FreedOK
  <2>4. /\ \E m : Consumed(m, lease')
        /\ cleanups' \in Seq(Cleanup) /\ phase' = "idle" /\ work' \in [Sessions -> Works]
    BY <2>3, EndCleanupStep
  <2>5. LeaseOK(lease')
    BY <2>4 DEF Consumed
  <2>6. Net(conn', phase', state')
    BY <2>1, <2>2, <2>4, NetFrame, NothingAwaited DEF Inv
  <2>7. QED
    BY <1>3, <2>2, <2>4, <2>5, <2>6 DEF Inv, Rest
<1>6. QED
  BY <1>4, <1>5

\* A cleanup of parallel mode goes on to the guest, or ends without one.
LEMMA CloseInGuestStep ==
    ASSUME Inv, cleanups # <<>>, phase \in {"idle", "partials"},
           CloseInGuest, UNCHANGED <<locking, state, residue, present, final>>
    PROVE  Inv'
<1> DEFINE s == Head(cleanups).session
           r == NewRequest("close", s, "cleanup")
<1>1. s \in Sessions
  <2>1. Head(cleanups) \in Cleanup
    BY Tailed DEF Inv, Rest
  <2>2. QED
    BY <2>1 DEF Cleanup
<1>2. conn \in SoundConnection /\ Chain(conn) /\ locking \in BOOLEAN /\ LeaseOK(lease)
  BY BrokerAssumption DEF Inv, Net, Rest
<1>3. CASE s \in tracked /\ conn.link = "ready"
  <2>1. /\ phase' = "closing" /\ conn' = GuestRequest(conn, "close", s, "cleanup")
        /\ UNCHANGED <<lease, cleanups, work, tracked>>
    BY <1>3 DEF CloseInGuest
  <2> HIDE DEF s
  <2>2. "close" \in OpKinds \cup {"abort"} /\ "close" # "abort"
    BY DEF OpKinds
  <2>3. Requested(conn, conn', r)
    BY <1>1, <1>2, <2>1, <2>2, RequestStep
  <2>4. r \notin Aborting /\ r \notin Starting /\ r.kind = "close" /\ r.job = "cleanup"
    BY NewRequestFields DEF Aborting, Starting
  <2> HIDE DEF r
  <2>5. Cleaners(conn', "closing")
    <3>1. AtMostOne(conn', Aborting)
      BY <2>3, <2>4, RequestSets DEF Inv, Net, Cleaners, Requested
    <3>2. QED
      BY <2>3, <2>4, <3>1, NothingAwaited DEF Cleaners, Requested
  <2>6. StartFirst(conn')
    BY <2>3, <2>4 DEF Inv, Net, Requested
  <2>7. StartAlone(conn', state)
    <3>1. SUFFICES ASSUME NEW x \in Sent(conn'), x \in Starting
                   PROVE  /\ \A y \in Sent(conn') : y.job # "op"
                          /\ conn'.advisory = <<>>
                          /\ state # "online"
      BY DEF StartAlone
    <3>2. Elements(conn.advisory) \subseteq InChain /\ Sent(conn) \subseteq SoundRequest
      BY <1>2, ConnectionParts
    <3>3. x \in Sent(conn)
      BY <2>3, <2>4, <3>1, <3>2, RequestSets DEF Known, Requested
    <3>4. /\ \A y \in Sent(conn) : y.job # "op"
          /\ conn.advisory = <<>> /\ state # "online"
      BY <3>1, <3>3 DEF Inv, Net, StartAlone
    <3>5. NoneOf(conn, InChain)
      <4>1. SUFFICES ASSUME NEW y \in Sent(conn), y \in InChain PROVE FALSE
        BY DEF NoneOf
      <4>2. y.live /\ y.job # "start" /\ y.job \in {"op", "cleanup", "start"}
        BY <4>1 DEF InChain, SoundRequest, Request
      <4>3. QED
        BY <3>4, <4>1, <4>2, NothingAwaited DEF Known
    <3>6. Known(conn) = Sent(conn)
      BY <3>4 DEF Known, Elements
    <3>7. Sent(conn') \subseteq Sent(conn) \cup {r}
      BY <2>3, <3>6 DEF Known, Requested
    <3>8. QED
      BY <2>3, <2>4, <3>4, <3>5, <3>7 DEF Requested
  <2>8. Net(conn', phase', state')
    BY <1>3, <2>1, <2>3, <2>5, <2>6, <2>7 DEF Net, Requested, Quiet
  <2>9. QED
    BY <2>1, <2>8 DEF Inv, Rest
<1>4. CASE ~(s \in tracked /\ conn.link = "ready")
  <2>1. EndCleanup(conn, lease) /\ tracked' = tracked \ {s} /\ UNCHANGED conn
    BY <1>4 DEF CloseInGuest, EndParallel
  <2>2. /\ \E m : Consumed(m, lease')
        /\ cleanups' \in Seq(Cleanup) /\ phase' = "idle" /\ work' \in [Sessions -> Works]
    BY <1>2, <2>1, EndCleanupStep
  <2>3. LeaseOK(lease')
    BY <2>2 DEF Consumed
  <2>4. Net(conn', phase', state')
    BY <2>1, <2>2, NetFrame, NothingAwaited DEF Inv
  <2>5. QED
    BY <2>1, <2>2, <2>3, <2>4 DEF Inv, Rest
<1>5. QED
  BY <1>3, <1>4

\* Requests have settled: the operations among them are answered, and a cleanup
\* of parallel mode whose request is among them ends.
LEMMA ResumeStep ==
    ASSUME Inv, NEW c, NEW st, Net(c, phase, st), Resume(c)
    PROVE  /\ LeaseOK(lease') /\ tracked' \subseteq Sessions
           /\ cleanups' \in Seq(Cleanup) /\ work' \in [Sessions -> Works]
           /\ phase' \in {phase, "idle"} /\ (phase' # "idle" => cleanups' # <<>>)
           /\ Net(c, phase', st)
<1>1. CASE /\ phase = "closing"
           /\ ~ \E r \in Sent(c) \cup Elements(c.advisory) : r.job = "cleanup" /\ r.live
  <2>1. EndCleanup(c, LeaseAfter(c)) /\ tracked' = tracked \ {Head(cleanups).session}
    BY <1>1 DEF Resume, EndParallel
  <2>2. LeaseOK(LeaseAfter(c)) /\ cleanups # <<>>
    BY <1>1, LeaseAfterStep DEF Inv, Rest
  <2>3. /\ \E m : Consumed(m, lease')
        /\ cleanups' \in Seq(Cleanup) /\ phase' = "idle" /\ work' \in [Sessions -> Works]
    BY <2>1, <2>2, EndCleanupStep
  <2>4. Net(c, phase', st)
    BY <1>1, <2>3, NetFrame DEF Known
  <2>5. QED
    BY <2>1, <2>3, <2>4 DEF Consumed, Inv, Rest
<1>2. CASE ~ (/\ phase = "closing"
              /\ ~ \E r \in Sent(c) \cup Elements(c.advisory) : r.job = "cleanup" /\ r.live)
  <2>1. AnswerReturned(c) /\ UNCHANGED <<phase, tracked>>
    BY <1>2 DEF Resume
  <2>2. QED
    BY <2>1, AnswerReturnedStep DEF Inv, Rest
<1>3. QED
  BY <1>1, <1>2

\* The session of the first cleanup.
LEMMA FirstCleanup ==
    ASSUME Inv, cleanups # <<>>
    PROVE  Head(cleanups) \in Cleanup /\ Head(cleanups).session \in Sessions
<1>1. Head(cleanups) \in Cleanup
  BY Tailed DEF Inv, Rest
<1>2. QED
  BY <1>1 DEF Cleanup

\* A step that leaves the guest and its connection alone.
LEMMA AdapterStep ==
    ASSUME Inv, LeaseOK(lease'), UNCHANGED <<state, conn, residue, tracked, phase>>,
           locking' \in Modes, present' \in [Sessions -> BOOLEAN],
           work' \in [Sessions -> Works],
           final' \in [Sessions -> {"none", "release", "keep"}],
           cleanups' \in Seq(Cleanup), cleanups # <<>> => cleanups' # <<>>
    PROVE  Inv'
  BY DEF Inv, Rest

\* The lease and the cleanup chain after a lease call that may notice an expiry.
LEMMA CallStep ==
    ASSUME Inv, NEW l, LeaseOK(l), SetLease(l), cleanups' = cleanups \o Noticed(lease)
    PROVE  /\ Consumed(l, lease') /\ LeaseOK(lease')
           /\ cleanups' = Noting(cleanups, lease)
           /\ cleanups' \in Seq(Cleanup) /\ (cleanups # <<>> => cleanups' # <<>>)
<1>1. LeaseOK(lease) /\ cleanups \in Seq(Cleanup)
  BY DEF Inv, Rest
<1>2. Consumed(l, lease')
  BY SetLeaseStep
<1>3. QED
  BY <1>1, <1>2, NoticedStep DEF Consumed

\* A session hears of an expiry, or causes nothing else.
LEMMA AnswerInv ==
    ASSUME Inv, NEW l, LeaseOK(l), Answer(l), UNCHANGED <<state, conn, residue, tracked, phase>>,
           locking' \in Modes, UNCHANGED <<present, final>>, work' \in [Sessions -> Works]
    PROVE  Inv'
<1>1. cleanups \in Seq(Cleanup)
  BY DEF Inv, Rest
<1>2. LeaseOK(lease') /\ cleanups' \in Seq(Cleanup) /\ (cleanups # <<>> => cleanups' # <<>>)
  BY <1>1, AnswerStep DEF Consumed
<1>3. present' \in [Sessions -> BOOLEAN] /\ final' \in [Sessions -> {"none", "release", "keep"}]
  BY DEF Inv, Rest
<1>4. QED
  BY <1>2, <1>3, AdapterStep

\* An operation is called or goes on after polling.
LEMMA StartOperationInv ==
    ASSUME Inv, NEW s \in Sessions, NEW kind \in Kinds, StartOperation(s, kind)
    PROVE  Inv'
<1> DEFINE l == IF locking THEN Acquire(lease, s, TRUE) ELSE lease
           c == IF locking /\ l.owner # s THEN conn ELSE GuestRequest(conn, kind, s, "op")
           r == NewRequest(kind, s, "op")
<1>1. /\ LeaseOK(lease) /\ conn \in SoundConnection /\ Chain(conn) /\ locking \in BOOLEAN
      /\ cleanups \in Seq(Cleanup) /\ work \in [Sessions -> Works]
  BY BrokerAssumption DEF Inv, Net, Rest
<1>2. LeaseOK(l)
  BY <1>1, AcquireOK
<1>3. /\ SetLease(l)
      /\ cleanups' = cleanups \o (IF locking THEN Noticed(lease) ELSE <<>>)
      /\ conn' = c
      /\ work' = [work EXCEPT ![s] = IF c = conn THEN "idle" ELSE "op"]
      /\ UNCHANGED <<locking, state, residue, tracked, present, final, phase>>
      /\ Online
  BY DEF StartOperation
<1> HIDE DEF l, c
<1>4. LeaseOK(lease')
  BY <1>2, <1>3, SetLeaseStep DEF Consumed
<1>5. cleanups' \in Seq(Cleanup) /\ (cleanups # <<>> => cleanups' # <<>>)
  <2>1. CASE locking
    <3>1. cleanups' = cleanups \o Noticed(lease)
      BY <1>3, <2>1
    <3>2. QED
      BY <1>1, <3>1, NoticedStep
  <2>2. CASE ~locking
    <3>1. cleanups' = cleanups \o <<>>
      BY <1>3, <2>2
    <3>2. QED
      BY <1>1, <3>1, ConcatEmptySeq
  <2>3. QED
    BY <2>1, <2>2
<1>6. work' \in [Sessions -> Works]
  BY <1>1, <1>3 DEF Works
<1>7. Net(c, phase, state)
  <2>1. kind \in OpKinds \cup {"abort"} /\ kind # "abort"
    BY BrokerAssumption DEF OpKinds
  <2>2. Requested(conn, GuestRequest(conn, kind, s, "op"), r)
    BY <1>1, <2>1, RequestStep
  <2>3. c = conn \/ c = GuestRequest(conn, kind, s, "op")
    BY DEF c
  <2>4. r.job = "op" /\ r \notin Aborting /\ r \notin Starting
    BY NewRequestFields DEF Aborting, Starting
  <2> HIDE DEF r
  <2>5. ASSUME Requested(conn, c, r) PROVE Net(c, phase, state)
    <3>1. Cleaners(c, phase)
      <4>1. AtMostOne(c, Aborting)
        BY <2>4, <2>5, RequestSets DEF Inv, Net, Cleaners, Requested
      <4>2. QED
        BY <2>4, <2>5, <4>1 DEF Inv, Net, Cleaners, Requested
    <3>2. StartAlone(c, state)
      <4>1. \A x \in Sent(conn) : x \notin Starting
        BY <1>3 DEF Inv, Net, StartAlone, Online
      <4>2. Elements(conn.advisory) \subseteq InChain
        BY <1>1, ConnectionParts
      <4>3. \A x \in Sent(c) : x \notin Starting
        BY <2>4, <2>5, <4>1, <4>2, RequestSets DEF Requested, Known
      <4>4. QED
        BY <4>3 DEF StartAlone
    <3>3. StartFirst(c)
      BY <2>4, <2>5 DEF Inv, Net, Requested
    <3>4. Quiet(c)
      BY <1>3, <2>5 DEF Quiet, Requested, Online
    <3>5. QED
      BY <2>5, <3>1, <3>2, <3>3, <3>4 DEF Net, Requested
  <2>6. QED
    BY <2>2, <2>3, <2>5 DEF Inv
<1>8. QED
  BY <1>3, <1>4, <1>5, <1>6, <1>7 DEF Inv, Rest

\* What a session does or what happens to it.
LEMMA SessionInv ==
    ASSUME Inv, NEW s \in Sessions, Session(s)
    PROVE  Inv'
<1>1. /\ LeaseOK(lease) /\ locking \in BOOLEAN /\ locking \in Modes
      /\ work \in [Sessions -> Works] /\ cleanups \in Seq(Cleanup)
      /\ present \in [Sessions -> BOOLEAN] /\ final \in [Sessions -> {"none", "release", "keep"}]
  BY BrokerAssumption DEF Inv, Rest
<1>2. CASE Connect(s)
  BY <1>1, <1>2, AdapterStep DEF Connect
<1>3. CASE Disconnected(s)
  <2>1. LeaseOK(Disconnect(lease, s)) /\ SetLease(Disconnect(lease, s))
    BY <1>1, <1>3, DisconnectOK DEF Disconnected
  <2>2. LeaseOK(lease')
    BY <2>1, SetLeaseStep DEF Consumed
  <2>3. /\ present' \in [Sessions -> BOOLEAN] /\ final' \in [Sessions -> {"none", "release", "keep"}]
        /\ UNCHANGED <<locking, state, conn, residue, tracked, work, cleanups, phase>>
    BY <1>1, <1>3 DEF Disconnected
  <2>4. QED
    BY <1>1, <2>2, <2>3, AdapterStep
<1>4. CASE VmLock(s)
  <2>1. LeaseOK(Acquire(lease, s, TRUE))
    BY <1>1, AcquireOK
  <2>2. LeaseOK(lease') /\ cleanups' \in Seq(Cleanup) /\ (cleanups # <<>> => cleanups' # <<>>)
    BY <1>4, <2>1, CallStep DEF VmLock
  <2>3. QED
    BY <1>1, <1>4, <2>2, AdapterStep DEF VmLock
<1>5. ASSUME NEW ticketMatches \in BOOLEAN, VmWait(s, ticketMatches) PROVE Inv'
  <2>1. LeaseOK(Wait(lease, s, ticketMatches))
    BY <1>1, WaitOK
  <2>2. LeaseOK(lease') /\ cleanups' \in Seq(Cleanup) /\ (cleanups # <<>> => cleanups' # <<>>)
    BY <1>5, <2>1, CallStep DEF VmWait
  <2>3. QED
    BY <1>1, <1>5, <2>2, AdapterStep DEF VmWait
<1>6. ASSUME NEW force \in BOOLEAN, VmUnlock(s, force) PROVE Inv'
  <2>1. UNCHANGED <<locking, state, conn, residue, tracked, present, final, phase>>
    BY <1>6 DEF VmUnlock
  <2>2. CASE Answer(Disconnect(lease, s)) /\ UNCHANGED work
    <3>1. LeaseOK(Disconnect(lease, s))
      BY <1>1, DisconnectOK
    <3>2. QED
      BY <1>1, <2>1, <2>2, <3>1, AnswerInv
  <2>3. CASE Answer(lease) /\ UNCHANGED work
    BY <1>1, <2>1, <2>3, AnswerInv
  <2>4. CASE /\ cleanups' = Append(cleanups, [session |-> s, release |-> locking,
                                              awaited |-> TRUE, reply |-> TRUE])
             /\ work' = [work EXCEPT ![s] = "unlock"]
             /\ UNCHANGED lease
    <3>1. [session |-> s, release |-> locking, awaited |-> TRUE, reply |-> TRUE] \in Cleanup
      BY <1>1 DEF Cleanup
    <3>2. cleanups' \in Seq(Cleanup) /\ cleanups' # <<>>
      BY <1>1, <2>4, <3>1, Appended
    <3>3. work' \in [Sessions -> Works]
      BY <1>1, <2>4 DEF Works
    <3>4. QED
      BY <1>1, <2>1, <2>4, <3>2, <3>3, AdapterStep
  <2>5. QED
    BY <1>6, <2>2, <2>3, <2>4 DEF VmUnlock
<1>7. CASE CallOperation(s)
  <2>1. UNCHANGED <<locking, state, conn, residue, tracked, present, final, phase>>
    BY <1>7 DEF CallOperation
  <2>2. CASE Answer(lease) /\ UNCHANGED work
    BY <1>1, <2>1, <2>2, AnswerInv
  <2>3. CASE work' = [work EXCEPT ![s] = "polling"] /\ UNCHANGED <<lease, cleanups>>
    <3>1. work' \in [Sessions -> Works]
      BY <1>1, <2>3 DEF Works
    <3>2. QED
      BY <1>1, <2>1, <2>3, <3>1, AdapterStep
  <2>4. QED
    BY <1>7, <2>2, <2>3 DEF CallOperation
<1>8. ASSUME NEW kind \in Kinds, StartOperation(s, kind) PROVE Inv'
  BY <1>8, StartOperationInv
<1>9. CASE PollTimeout(s)
  <2>1. work' \in [Sessions -> Works]
    BY <1>1, <1>9 DEF PollTimeout, Works
  <2>2. QED
    BY <1>1, <1>9, <2>1, AnswerInv DEF PollTimeout
<1>10. CASE StartFinal(s)
  <2> DEFINE x == [session |-> s, release |-> final[s] = "release", awaited |-> TRUE,
                   reply |-> FALSE]
  <2>1. x \in Cleanup /\ cleanups' = Append(cleanups, x)
    BY <1>10 DEF Cleanup, StartFinal
  <2> HIDE DEF x
  <2>2. cleanups' \in Seq(Cleanup) /\ cleanups' # <<>>
    BY <1>1, <2>1, Appended
  <2>3. /\ work' \in [Sessions -> Works] /\ final' \in [Sessions -> {"none", "release", "keep"}]
        /\ UNCHANGED <<lease, locking, state, conn, residue, tracked, present, phase>>
    BY <1>1, <1>10 DEF StartFinal, Works
  <2>4. QED
    BY <1>1, <2>2, <2>3, AdapterStep
<1>11. CASE TicketTimer(s)
  <2>1. LeaseOK(ExpireTicket(lease, s))
    BY <1>1, <1>11, DropWaiterOK DEF TicketTimer, ExpireTicket
  <2>2. QED
    BY <1>1, <1>11, <2>1, AnswerInv DEF TicketTimer
<1>12. CASE WaitTimer(s)
  <2>1. Queued(lease, s)
    BY <1>1, <1>12 DEF WaitTimer, LeaseOK, Pending, Queued
  <2>2. LeaseOK(WaitTimedOut(lease, s))
    BY <1>1, <2>1, WaitTimedOutOK
  <2>3. QED
    BY <1>1, <1>12, <2>2, AnswerInv DEF WaitTimer
<1>13. QED
  BY <1>2, <1>3, <1>4, <1>5, <1>6, <1>7, <1>8, <1>9, <1>10, <1>11, <1>12 DEF Session

\* An operation settles.
LEMMA OperationReturnsInv ==
    ASSUME Inv, NEW r \in Sent(conn), NEW ok \in BOOLEAN, OperationReturns(r, ok)
    PROVE  Inv'
<1>1. PICK c \in Settled(r, ok) :
         /\ conn' = c
         /\ IF ok
            THEN /\ AnswerReturned(c)
                 /\ tracked' = TrackResources(r)
                 /\ UNCHANGED phase
            ELSE Resume(c)
  BY DEF OperationReturns
<1>2. UNCHANGED <<locking, state, residue, present, final>> /\ r.job = "op"
  BY DEF OperationReturns
<1>3. Settlement(c, r)
  BY SettledStep DEF Inv, Net
<1>4. Net(c, phase, state)
  BY <1>3, SettlementNet DEF Inv
<1>5. CASE ok
  <2>1. AnswerReturned(c) /\ tracked' = TrackResources(r) /\ UNCHANGED phase
    BY <1>1, <1>5
  <2>2. /\ LeaseOK(lease')
        /\ cleanups' \in Seq(Cleanup) /\ (cleanups # <<>> => cleanups' # <<>>)
        /\ work' \in [Sessions -> Works]
    BY <2>1, AnswerReturnedStep
  <2>3. r.by \in Sessions
    <3>1. r \in SoundRequest
      BY ConnectionParts DEF Inv, Net
    <3>2. QED
      BY <1>2, <3>1 DEF SoundRequest
  <2>4. tracked' \subseteq Sessions
    BY <2>1, <2>3 DEF TrackResources, Inv, Rest
  <2>5. QED
    BY <1>1, <1>2, <1>4, <2>1, <2>2, <2>4 DEF Inv, Rest
<1>6. CASE ~ok
  <2>1. Resume(c)
    BY <1>1, <1>6
  <2>2. /\ LeaseOK(lease') /\ tracked' \subseteq Sessions
        /\ cleanups' \in Seq(Cleanup) /\ work' \in [Sessions -> Works]
        /\ phase' \in {phase, "idle"} /\ (phase' # "idle" => cleanups' # <<>>)
        /\ Net(c, phase', state)
    BY <1>4, <2>1, ResumeStep
  <2>3. QED
    BY <1>1, <1>2, <2>2 DEF Inv, Rest
<1>7. QED
  BY <1>5, <1>6

\* No request is answered before the sanitize of its connection.
LEMMA SanitizeOver ==
    ASSUME Inv, NEW r \in Sent(conn), r \notin Starting, NEW c \in Settled(r, TRUE)
    PROVE  \A x \in Sent(c) : x \notin Starting
<1>1. conn.answers # <<>> /\ Head(conn.answers) = [req |-> r, ok |-> TRUE]
  BY DEF Settled
<1>2. conn.answers \in Seq(SoundAnswer) /\ conn \in SoundConnection
  BY ConnectionParts DEF Inv, Net
<1>3. conn.answers[1].req = r
  <2>1. Head(conn.answers) = conn.answers[1]
    BY <1>1, <1>2, Tailed
  <2>2. QED
    BY <1>1, <2>1
<1>4. /\ \A i \in DOMAIN conn.wire : conn.wire[i] \notin Starting
      /\ \A i \in DOMAIN conn.answers : conn.answers[i].req \notin Starting
  BY <1>1, <1>3 DEF Inv, Net, StartFirst
<1>5. \A x \in Sent(conn) : x \notin Starting
  BY <1>2, <1>4, ConnectionParts
<1>6. Settlement(c, r)
  BY SettledStep DEF Inv, Net
<1>7. r \in SoundRequest /\ Elements(conn.advisory) \subseteq InChain
  BY <1>2, ConnectionParts
<1>8. Dead(r) \notin Starting /\ Starting \cap InChain = {}
  BY <1>7, RequestSets
<1>9. QED
  BY <1>5, <1>6, <1>7, <1>8 DEF Settlement

\* The session_abort of a cleanup settles.
LEMMA AbortReturnsInv ==
    ASSUME Inv, NEW r \in Sent(conn), NEW ok \in BOOLEAN, AbortReturns(r, ok)
    PROVE  Inv'
<1>1. PICK c \in Settled(r, ok) :
         conn' = (IF ok THEN c ELSE Destroyed(c)) /\ EndExclusive(c, lease, ok)
  BY DEF AbortReturns
<1>2. /\ r.job = "cleanup" /\ r.kind = "abort" /\ r.live
      /\ state' = IF ok THEN "online" ELSE state
      /\ UNCHANGED <<locking, residue, tracked, present, final>>
  BY DEF AbortReturns
<1>3. Settlement(c, r)
  BY SettledStep DEF Inv, Net
<1>4. r \in SoundRequest
  BY ConnectionParts DEF Inv, Net
<1>5. r \in Aborting /\ r \in Known(conn)
  BY <1>2, <1>4 DEF Aborting, Known
<1>6. phase = "abort" /\ cleanups # <<>>
  BY <1>2, <1>5 DEF Inv, Net, Cleaners, Rest
<1>7. /\ Net(c, phase, state)
      /\ \A x \in Known(c) : ~(x.live /\ x.job = "cleanup")
  BY <1>3, <1>5, SettlementNet DEF Inv
<1>8. LeaseOK(Freed(lease, ok)) /\ EndCleanup(c, Freed(lease, ok))
  BY <1>1, <1>6, FreedOK DEF Inv
<1>9. /\ \E m : Consumed(m, lease')
      /\ cleanups' \in Seq(Cleanup) /\ phase' = "idle" /\ work' \in [Sessions -> Works]
  BY <1>6, <1>8, EndCleanupStep
<1>10. LeaseOK(lease')
  BY <1>9 DEF Consumed
<1>11. Net(conn', phase', state')
  <2>1. CASE ok
    <3>1. r \notin Starting /\ c \in Settled(r, TRUE)
      BY <1>2, <2>1 DEF Starting
    <3>2. \A x \in Sent(c) : x \notin Starting
      BY <3>1, SanitizeOver
    <3>3. Net(c, "idle", "online")
      BY <1>7, <3>2, NetFrame
    <3>4. QED
      BY <1>1, <1>2, <1>9, <2>1, <3>3
  <2>2. CASE ~ok
    <3>1. Net(c, "idle", state)
      BY <1>7, NetFrame
    <3>2. c \in SoundConnection
      BY <1>7 DEF Net
    <3>3. Net(Destroyed(c), "idle", state)
      BY <3>1, <3>2, DestroyedStep
    <3>4. QED
      BY <1>1, <1>2, <1>9, <2>2, <3>3
  <2>3. QED
    BY <2>1, <2>2
<1>12. QED
  BY <1>1, <1>2, <1>9, <1>10, <1>11 DEF Inv, Rest

\* The close request of a parallel cleanup settles.
LEMMA CloseReturnsInv ==
    ASSUME Inv, NEW r \in Sent(conn), NEW ok \in BOOLEAN, CloseReturns(r, ok)
    PROVE  Inv'
<1>1. PICK c \in Settled(r, ok) : conn' = c /\ Resume(c)
  BY DEF CloseReturns
<1>2. UNCHANGED <<locking, state, residue, present, final>>
  BY DEF CloseReturns
<1>3. Settlement(c, r)
  BY SettledStep DEF Inv, Net
<1>4. Net(c, phase, state)
  BY <1>3, SettlementNet DEF Inv
<1>5. /\ LeaseOK(lease') /\ tracked' \subseteq Sessions
      /\ cleanups' \in Seq(Cleanup) /\ work' \in [Sessions -> Works]
      /\ phase' \in {phase, "idle"} /\ (phase' # "idle" => cleanups' # <<>>)
      /\ Net(c, phase', state)
  BY <1>1, <1>4, ResumeStep
<1>6. QED
  BY <1>1, <1>2, <1>5 DEF Inv, Rest

\* The sanitize of a connection settles.
LEMMA StartReturnsInv ==
    ASSUME Inv, NEW r \in Sent(conn), NEW ok \in BOOLEAN, StartReturns(r, ok)
    PROVE  Inv'
<1>1. PICK c \in Settled(r, ok) : conn' = IF ok THEN c ELSE Destroyed(c)
  BY DEF StartReturns
<1>2. /\ r.job = "start" /\ r.live
      /\ state' = IF ok THEN "online" ELSE state
      /\ IF ok THEN SetLease(SetBlocked(lease, FALSE)) ELSE UNCHANGED lease
      /\ UNCHANGED <<locking, residue, tracked, present, work, final, cleanups, phase>>
  BY DEF StartReturns
<1>3. Settlement(c, r)
  BY SettledStep DEF Inv, Net
<1>4. r \in Starting
  <2>1. r \in SoundRequest
    BY ConnectionParts DEF Inv, Net
  <2>2. QED
    BY <1>2, <2>1 DEF Starting
<1>5. Net(c, phase, state) /\ \A x \in Sent(c) : x \notin Starting
  BY <1>3, <1>4, SettlementNet DEF Inv
<1>6. LeaseOK(lease')
  <2>1. LeaseOK(lease) /\ LeaseOK(SetBlocked(lease, FALSE))
    BY SetBlockedOK DEF Inv
  <2>2. QED
    BY <1>2, <2>1, SetLeaseStep DEF Consumed
<1>7. Net(conn', phase', state')
  <2>1. CASE ok
    <3>1. Net(c, phase, "online")
      BY <1>5, NetFrame
    <3>2. QED
      BY <1>1, <1>2, <2>1, <3>1
  <2>2. CASE ~ok
    <3>1. c \in SoundConnection
      BY <1>5 DEF Net
    <3>2. Net(Destroyed(c), phase, state)
      BY <1>5, <3>1, DestroyedStep
    <3>3. QED
      BY <1>1, <1>2, <2>2, <3>2
  <2>3. QED
    BY <2>1, <2>2
<1>8. QED
  BY <1>2, <1>6, <1>7 DEF Inv, Rest

\* A cleanup starts or goes on.
LEMMA CleanupInv ==
    ASSUME Inv, (\E partials \in BOOLEAN : StartCleanup(partials)) \/ TransfersAborted
    PROVE  Inv'
<1>1. LeaseOK(lease) /\ LeaseOK(SetBlocked(lease, TRUE))
  BY SetBlockedOK DEF Inv
<1>2. ASSUME NEW partials \in BOOLEAN, StartCleanup(partials) PROVE Inv'
  <2>1. cleanups # <<>> /\ phase = "idle" /\ UNCHANGED <<locking, residue, present, final>>
    BY <1>2 DEF StartCleanup
  <2>2. CASE partials
    <3>1. /\ phase' = IF locking THEN "transfers" ELSE "partials"
          /\ IF locking THEN SetLease(SetBlocked(lease, TRUE)) ELSE UNCHANGED lease
          /\ UNCHANGED <<state, conn, tracked, work, cleanups>>
      BY <1>2, <2>2 DEF StartCleanup
    <3>2. LeaseOK(lease')
      BY <1>1, <3>1, SetLeaseStep DEF Consumed
    <3>3. Net(conn, phase', state)
      BY <2>1, NetFrame, NothingAwaited DEF Inv
    <3>4. QED
      BY <2>1, <3>1, <3>2, <3>3 DEF Inv, Rest
  <2>3. CASE ~partials /\ locking
    BY <1>1, <1>2, <2>1, <2>3, AbortInGuestStep DEF StartCleanup
  <2>4. CASE ~partials /\ ~locking
    BY <1>2, <2>1, <2>4, CloseInGuestStep DEF StartCleanup
  <2>5. QED
    BY <2>2, <2>3, <2>4
<1>3. CASE TransfersAborted
  <2>1. UNCHANGED <<locking, residue, present, final>>
    BY <1>3 DEF TransfersAborted
  <2>2. CASE phase = "transfers" /\ AbortInGuest(lease)
    <3>1. cleanups # <<>>
      BY <2>2 DEF Inv, Rest
    <3>2. QED
      BY <1>1, <2>1, <2>2, <3>1, AbortInGuestStep
  <2>3. CASE phase = "partials" /\ CloseInGuest /\ UNCHANGED state
    <3>1. cleanups # <<>>
      BY <2>3 DEF Inv, Rest
    <3>2. QED
      BY <2>1, <2>3, <3>1, CloseInGuestStep
  <2>4. QED
    BY <1>3, <2>2, <2>3 DEF TransfersAborted
<1>4. QED
  BY <1>2, <1>3

\* The answer to a request that timed out is dropped.
LEMMA StaleAnswerInv ==
    ASSUME Inv, StaleAnswer
    PROVE  Inv'
<1> DEFINE d == Answered(conn)
<1>1. /\ conn' = d /\ conn.answers # <<>> /\ ~Head(conn.answers).req.live
      /\ UNCHANGED <<lease, locking, state, residue, tracked, present, work, final,
                     cleanups, phase>>
  BY DEF StaleAnswer, Answered
<1>2. conn \in SoundConnection
  BY DEF Inv, Net
<1>3. /\ d \in SoundConnection /\ d.link = conn.link /\ d.wire = conn.wire
      /\ d.advisory = conn.advisory
      /\ Sent(d) \subseteq Sent(conn)
      /\ \A x \in Sent(conn) : x \in Sent(d) \/ x = Head(conn.answers).req
      /\ \A X : AtMostOne(conn, X) => AtMostOne(d, X)
      /\ StartFirst(conn) => StartFirst(d)
  BY <1>1, <1>2, AnsweredStep
<1> HIDE DEF d
<1>4. Head(conn.answers).req \notin InChain
  BY <1>1 DEF InChain
<1>5. Chain(d)
  BY <1>3, <1>4 DEF Inv, Net, Chain
<1>6. Cleaners(d, phase)
  BY <1>3 DEF Inv, Net, Cleaners, Known
<1>7. Quiet(d) /\ StartAlone(d, state) /\ StartFirst(d)
  BY <1>1, <1>3 DEF Inv, Net, Quiet, StartAlone
<1>8. QED
  BY <1>1, <1>3, <1>5, <1>6, <1>7 DEF Inv, Rest, Net

\* The guest says hello and is sent its sanitize.
LEMMA GuestHelloInv ==
    ASSUME Inv, GuestHello
    PROVE  Inv'
<1> DEFINE e == [conn EXCEPT !.link = "ready"]
           r == NewRequest("abort", None, "start")
<1>1. /\ conn.link = "hello" /\ conn' = GuestRequest(e, "abort", None, "start")
      /\ state' = "sanitizing" /\ SetLease(SetBlocked(lease, TRUE))
      /\ UNCHANGED <<locking, residue, tracked, present, work, final, cleanups, phase>>
  BY DEF GuestHello
<1>2. /\ conn \in SoundConnection /\ locking \in BOOLEAN
      /\ conn.wire = <<>> /\ conn.answers = <<>> /\ conn.advisory = <<>>
  BY <1>1, BrokerAssumption DEF Inv, Rest, Net, Quiet
<1>3. /\ e \in SoundConnection /\ e.link = "ready"
      /\ e.wire = <<>> /\ e.answers = <<>> /\ e.advisory = <<>>
  BY <1>2 DEF SoundConnection
<1> HIDE DEF e
<1>4. Sent(e) = {} /\ Known(e) = {} /\ (\A X : AtMostOne(e, X)) /\ StartFirst(e)
  <2>1. DOMAIN e.wire = {} /\ DOMAIN e.answers = {} /\ DOMAIN e.advisory = {}
    BY <1>3
  <2>2. QED
    BY <2>1 DEF Sent, Known, Elements, AtMostOne, StartFirst
<1>5. Chain(e)
  BY <1>3, <1>4 DEF Chain
<1>6. Requested(e, conn', r)
  BY <1>1, <1>2, <1>3, <1>5, RequestStep
<1>7. r.job = "start" /\ r \notin InChain
  BY NewRequestFields DEF InChain
<1> HIDE DEF r
<1>8. /\ conn' \in SoundConnection /\ Chain(conn') /\ conn'.link = "ready"
      /\ conn'.advisory = <<>> /\ Known(conn') \subseteq {r} /\ Sent(conn') \subseteq {r}
  BY <1>3, <1>4, <1>6, <1>7 DEF Requested
<1>9. Cleaners(conn', phase)
  <2>1. AtMostOne(conn', Aborting)
    BY <1>4, <1>6, RequestSets DEF Requested, NoneOf
  <2>2. QED
    BY <1>7, <1>8, <2>1 DEF Cleaners
<1>10. Quiet(conn') /\ StartAlone(conn', "sanitizing")
  BY <1>7, <1>8 DEF Quiet, StartAlone
<1>11. StartFirst(conn')
  BY <1>3, <1>4, <1>6 DEF Requested
<1>12. LeaseOK(lease')
  <2>1. LeaseOK(SetBlocked(lease, TRUE))
    BY SetBlockedOK DEF Inv
  <2>2. QED
    BY <1>1, <2>1, SetLeaseStep DEF Consumed
<1>13. QED
  BY <1>1, <1>8, <1>9, <1>10, <1>11, <1>12 DEF Inv, Rest, Net

\* A connection is accepted, fails or is closed.
LEMMA LinkInv ==
    ASSUME Inv, AcceptGuest \/ GuestFails \/ GuestCloses
    PROVE  Inv'
<1>1. CASE AcceptGuest
  <2>1. Net(conn', phase, "connecting")
    BY <1>1, EmptyConnection DEF AcceptGuest
  <2>2. NoResidue \in [held : SUBSET Sessions, terms : SUBSET Sessions]
    BY DEF NoResidue
  <2>3. QED
    BY <1>1, <2>1, <2>2 DEF AcceptGuest, Inv, Rest
<1>2. CASE GuestFails
  <2>1. Net(conn', phase, state)
    <3>1. conn \in SoundConnection /\ Net(conn, phase, state)
      BY DEF Inv, Net
    <3>2. QED
      BY <1>2, <3>1, DestroyedStep DEF GuestFails
  <2>2. QED
    BY <1>2, <2>1 DEF GuestFails, Inv, Rest
<1>3. CASE GuestCloses
  <2>1. /\ conn' = NoGuest /\ state' = "offline"
        /\ UNCHANGED <<locking, residue, present, final>>
    BY <1>3 DEF GuestCloses
  <2>2. \A ph, st : Net(NoGuest, ph, st)
    BY EmptyConnection
  <2>3. LeaseOK(LeaseAfter(NoGuest))
    BY LeaseAfterStep DEF Inv
  <2>4. CASE phase = "abort"
    <3>1. EndExclusive(NoGuest, LeaseAfter(NoGuest), FALSE) /\ UNCHANGED tracked
      BY <1>3, <2>4 DEF GuestCloses
    <3>2. cleanups # <<>>
      BY <2>4 DEF Inv, Rest
    <3> DEFINE l == Freed(LeaseAfter(NoGuest), FALSE)
    <3>3. LeaseOK(l) /\ EndCleanup(NoGuest, l)
      BY <2>3, <3>1, <3>2, FreedOK
    <3> HIDE DEF l
    <3>4. /\ \E m : Consumed(m, lease')
          /\ cleanups' \in Seq(Cleanup) /\ phase' = "idle" /\ work' \in [Sessions -> Works]
      BY <3>2, <3>3, EndCleanupStep
    <3>5. QED
      BY <2>1, <2>2, <3>1, <3>4 DEF Inv, Rest, Consumed
  <2>5. CASE phase # "abort"
    <3>1. Resume(NoGuest)
      BY <1>3, <2>5 DEF GuestCloses
    <3>2. /\ LeaseOK(lease') /\ tracked' \subseteq Sessions
          /\ cleanups' \in Seq(Cleanup) /\ work' \in [Sessions -> Works]
          /\ phase' \in {phase, "idle"} /\ (phase' # "idle" => cleanups' # <<>>)
      BY <2>2, <3>1, ResumeStep
    <3>3. QED
      BY <2>1, <2>2, <3>2 DEF Inv, Rest
  <2>6. QED
    BY <2>4, <2>5
<1>4. QED
  BY <1>1, <1>2, <1>3

\* What a request leaves in the guest has a type.
LEMMA ExecutedType ==
    ASSUME Inv, NEW r \in SoundRequest, NEW ok \in BOOLEAN
    PROVE  Executed(r, ok) \in [held : SUBSET Sessions, terms : SUBSET Sessions]
<1>1. residue \in [held : SUBSET Sessions, terms : SUBSET Sessions]
  BY DEF Inv, Rest
<1>2. r.kind # "abort" => r.by \in Sessions /\ r.kind \in {"term", "hold", "close"}
  BY DEF SoundRequest, Request, OpKinds
<1>3. QED
  BY <1>1, <1>2 DEF Executed, NoResidue

\* The guest works.
LEMMA GuestInv ==
    ASSUME Inv, (\E ok \in BOOLEAN : GuestExecutes(ok)) \/ GuestInterrupted
    PROVE  Inv'
<1>1. conn \in SoundConnection /\ Net(conn, phase, state)
  BY DEF Inv, Net
<1>2. ASSUME NEW ok \in BOOLEAN, GuestExecutes(ok) PROVE Inv'
  <2>1. /\ conn' = Execute(conn, ok) /\ conn.wire # <<>>
        /\ residue' = Executed(Head(conn.wire), ok)
        /\ UNCHANGED <<lease, locking, state, tracked, present, work, final, cleanups, phase>>
    BY <1>2 DEF GuestExecutes, Execute
  <2>2. PICK f, g :
           /\ Moved(conn, conn', f, g)
           /\ \A i \in DOMAIN conn'.answers \ DOMAIN conn.answers : g[i] = 1
           /\ conn.answers = <<>> => 1 \in DOMAIN conn'.answers
    BY <1>1, <2>1, ExecuteStep
  <2>3. conn.answers = <<>> => 1 \in DOMAIN conn'.answers /\ g[1] = 1
    <3>1. conn.answers = <<>> => DOMAIN conn.answers = {}
      OBVIOUS
    <3>2. QED
      BY <2>2, <3>1
  <2>4. Net(conn', phase, state)
    BY <1>1, <2>2, <2>3, MovedNet
  <2>5. Head(conn.wire) \in SoundRequest
    BY <1>1, <2>1, ConnectionParts, Tailed
  <2>6. QED
    BY <2>1, <2>4, <2>5, ExecutedType DEF Inv, Rest
<1>3. CASE GuestInterrupted
  <2>1. /\ Len(conn.wire) > 1 /\ conn.wire[1].kind # "abort"
        /\ conn' = (IF conn.wire[2].kind = "abort" THEN Overtake(conn) ELSE TurnAway(conn))
        /\ residue' = IF conn.wire[2].kind = "abort" THEN NoResidue ELSE residue
        /\ UNCHANGED <<lease, locking, state, tracked, present, work, final, cleanups, phase>>
    BY <1>3 DEF GuestInterrupted, Overtake, TurnAway
  <2>2. conn.wire[1] \notin Starting
    BY <2>1 DEF Starting, SoundRequest
  <2>3. \E f, g : Moved(conn, conn', f, g)
    <3>1. CASE conn.wire[2].kind = "abort"
      BY <1>1, <2>1, <3>1, OvertakeStep
    <3>2. CASE conn.wire[2].kind # "abort"
      BY <1>1, <2>1, <3>2, TurnAwayStep
    <3>3. QED
      BY <3>1, <3>2
  <2>4. Net(conn', phase, state)
    BY <1>1, <2>2, <2>3, MovedNet
  <2>5. NoResidue \in [held : SUBSET Sessions, terms : SUBSET Sessions]
    BY DEF NoResidue
  <2>6. QED
    BY <2>1, <2>4, <2>5 DEF Inv, Rest
<1>4. QED
  BY <1>2, <1>3

\* The broker starts with no guest, no cleanup and a free VM.
LEMMA InitInv ==
    ASSUME Init
    PROVE  Inv
<1>1. LeaseOK(lease)
  BY InitLeaseOK DEF Init
<1>2. Net(conn, phase, state)
  BY EmptyConnection DEF Init
<1>3. <<>> \in Seq(Cleanup)
  OBVIOUS
<1>4. Rest
  BY <1>3 DEF Init, Rest, NoResidue, Works
<1>5. QED
  BY <1>1, <1>2, <1>4 DEF Inv

\* Every step keeps the invariant.
LEMMA NextInv ==
    ASSUME Inv, [Next]_vars
    PROVE  Inv'
<1>1. LeaseOK(lease) /\ locking \in Modes /\ work \in [Sessions -> Works]
  BY DEF Inv, Rest
<1>2. ASSUME NEW enabled \in Modes, SetLocking(enabled) PROVE Inv'
  <2>1. LeaseOK(ClearWaiters(lease))
    BY <1>1, ClearWaitersOK
  <2>2. QED
    BY <1>1, <1>2, <2>1, AnswerInv DEF SetLocking
<1>3. ASSUME NEW r \in Sent(conn), Settles(r) PROVE Inv'
  BY <1>3, OperationReturnsInv, AbortReturnsInv, CloseReturnsInv, StartReturnsInv DEF Settles
<1>4. CASE OwnerDue
  <2>1. LeaseOK(lease')
    BY <1>1, <1>4, DueOK DEF OwnerDue
  <2>2. QED
    BY <1>4, <2>1 DEF OwnerDue, Inv, Rest
<1>5. CASE ExpirationTimer
  BY <1>1, <1>5, AnswerInv DEF ExpirationTimer
<1>6. CASE UNCHANGED vars
  BY <1>6 DEF vars, Inv, Rest
<1>7. QED
  BY <1>2, <1>3, <1>4, <1>5, <1>6, SessionInv, CleanupInv, StaleAnswerInv, GuestHelloInv,
     LinkInv, GuestInv DEF Next

\* Whatever the configuration and however sessions, guest and timers interleave,
\* the lease is sound and every request is where it should be.
THEOREM BrokerSound == Spec => []Inv
<1>1. Init => Inv
  BY InitInv
<1>2. Inv /\ [Next]_vars => Inv'
  BY NextInv
<1>3. QED
  BY <1>1, <1>2, PTL DEF Spec

\* The broker's state keeps its types: in particular no request without a session
\* and no cleanup of nobody ever gets into a queue.
THEOREM BrokerTypeCorrect == Spec => []TypeOK
<1>1. Inv => TypeOK
  <2>1. SUFFICES ASSUME Inv PROVE TypeOK
    OBVIOUS
  <2>2. lease \in LeaseState
    BY <2>1 DEF Inv, LeaseOK
  <2>3. conn \in Connection
    <3>1. conn \in SoundConnection
      BY <2>1 DEF Inv, Net
    <3>2. SoundRequest \subseteq Request /\ InChain \subseteq Request
      BY DEF SoundRequest, InChain
    <3>3. SoundAnswer \subseteq [req : Request, ok : BOOLEAN]
      BY <3>2 DEF SoundAnswer
    <3>4. /\ conn.wire \in Seq(Request) /\ conn.answers \in Seq([req : Request, ok : BOOLEAN])
          /\ conn.advisory \in Seq(Request)
      <4>1. /\ conn.wire \in Seq(SoundRequest) /\ conn.answers \in Seq(SoundAnswer)
            /\ conn.advisory \in Seq(InChain)
        BY <3>1, ConnectionParts
      <4>2. conn.wire \in Seq(Request)
        BY <3>2, <4>1, SeqMonotonic
      <4>3. conn.advisory \in Seq(Request)
        BY <3>2, <4>1, SeqMonotonic
      <4>4. conn.answers \in Seq([req : Request, ok : BOOLEAN])
        BY <3>3, <4>1, SeqMonotonic
      <4>5. QED
        BY <4>2, <4>3, <4>4
    <3>5. QED
      BY <3>1, <3>4 DEF SoundConnection, Connection
  <2>4. QED
    BY <2>1, <2>2, <2>3 DEF Inv, Rest, TypeOK, Works
<1>2. QED
  BY <1>1, BrokerSound, PTL

\* A new connection carries no session's work before its sanitize was answered
\* (startGuest), in either mode and also when the mode changes.
THEOREM SanitizeComesFirst == Spec => []SanitizedFirst
<1>1. Inv => SanitizedFirst
  <2>1. SUFFICES ASSUME Inv, NEW r \in Sent(conn), r.job = "start", r.live
                 PROVE  /\ \A x \in Sent(conn) : x.job # "op"
                        /\ conn.advisory = <<>>
    BY DEF SanitizedFirst
  <2>2. r \in SoundRequest
    BY <2>1, ConnectionParts DEF Inv, Net
  <2>3. r \in Starting
    BY <2>1, <2>2 DEF Starting
  <2>4. QED
    BY <2>1, <2>3 DEF Inv, Net, StartAlone
<1>2. QED
  BY <1>1, BrokerSound, PTL

\* advisoryRequestChain never stalls and never overlaps: while a request waits in
\* it exactly one that went through it is under way, also across timeouts and
\* lost connections.
THEOREM ChainIsServed == Spec => []AdvisoryChainServed
<1>1. Inv => AdvisoryChainServed
  <2>1. SUFFICES ASSUME Inv PROVE AdvisoryChainServed
    OBVIOUS
  <2>2. conn \in SoundConnection /\ Chain(conn)
    BY <2>1 DEF Inv, Net
  <2>3. /\ \A i \in DOMAIN conn.wire :
              conn.wire[i].live /\ conn.wire[i].queued <=> conn.wire[i] \in InChain
        /\ \A i \in DOMAIN conn.answers :
              conn.answers[i].req.live /\ conn.answers[i].req.queued
                 <=> conn.answers[i].req \in InChain
    BY <2>2, ConnectionParts DEF InChain
  <2> DEFINE w == {i \in DOMAIN conn.wire : conn.wire[i] \in InChain}
             a == {i \in DOMAIN conn.answers : conn.answers[i].req \in InChain}
  <2>4. UnderWay = {<<"wire", i>> : i \in w} \cup {<<"answers", i>> : i \in a}
    BY <2>3 DEF UnderWay
  <2>5. /\ \A i, j \in w : i = j
        /\ \A i, j \in a : i = j
        /\ \A i \in w, j \in a : FALSE
    BY <2>2 DEF Chain, AtMostOne
  <2>6. conn.advisory # <<>> => w # {} \/ a # {}
    BY <2>2, ConnectionParts DEF Chain
  <2> HIDE DEF w, a
  <2>7. \A x, y \in UnderWay : x = y
    BY <2>4, <2>5
  <2>8. w # {} \/ a # {} => UnderWay # {}
    BY <2>4
  <2>9. QED
    BY <2>6, <2>7, <2>8 DEF AdvisoryChainServed
<1>2. QED
  BY <1>1, BrokerSound, PTL

-----------------------------------------------------------------------------
(* The cleanup chain *)

\* A session's chain stands still while it waits for one of its cleanups.
Stopped == {"unlock", "cleaning"}

\* Only an awaited cleanup releases the lease, its session does nothing else, and
\* no session waits for two.
AwaitOK(q, w) ==
    /\ \A i \in DOMAIN q : /\ q[i].release => q[i].awaited
                           /\ q[i].awaited => w[q[i].session] \in Stopped
    /\ \A i, j \in DOMAIN q :
          q[i].awaited /\ q[j].awaited /\ q[i].session = q[j].session => i = j

Awaits == AwaitOK(cleanups, work)

\* There is a cleanup of s in the chain q, or there is one that is not the first.
Waits(q, s) == \E i \in DOMAIN q : q[i].session = s
Behind(q, s) == \E i \in DOMAIN q : i # 1 /\ q[i].session = s

\* A cleanup that joins the chain is the last.
LEMMA JoinWaits ==
    ASSUME NEW q \in Seq(Cleanup), NEW x \in Cleanup
    PROVE  /\ \A s : Waits(Append(q, x), s) <=> Waits(q, s) \/ x.session = s
           /\ q # <<>> => \A s : Behind(Append(q, x), s) <=> Behind(q, s) \/ x.session = s
<1> DEFINE a == Append(q, x)
<1>1. /\ Len(q) \in Nat /\ DOMAIN q = 1..Len(q) /\ DOMAIN a = 1..(Len(q) + 1)
      /\ \A i \in 1..Len(q) : a[i] = q[i]
      /\ a[Len(q) + 1] = x
  BY Appended
<1> HIDE DEF a
<1>2. /\ \A i \in DOMAIN a : (i \in DOMAIN q /\ a[i] = q[i]) \/ (i = Len(q) + 1 /\ a[i] = x)
      /\ DOMAIN q \subseteq DOMAIN a /\ Len(q) + 1 \in DOMAIN a
      /\ Len(q) + 1 \notin DOMAIN q
  BY <1>1
<1>3. \A s : Waits(a, s) <=> Waits(q, s) \/ x.session = s
  BY <1>1, <1>2 DEF Waits
<1>4. ASSUME q # <<>>, NEW s PROVE Behind(a, s) <=> Behind(q, s) \/ x.session = s
  <2>1. Len(q) + 1 # 1
    BY <1>1, <1>4, EmptySeq
  <2>2. QED
    BY <1>1, <1>2, <2>1 DEF Behind
<1>5. QED
  BY <1>3, <1>4 DEF a

\* The session of an awaited cleanup stands still from then on.
LEMMA JoinChain ==
    ASSUME NEW q \in Seq(Cleanup), NEW x \in Cleanup, NEW w, NEW v,
           x.release => x.awaited,
           x.awaited => v[x.session] \in Stopped /\ w[x.session] \notin Stopped,
           \A s \in Sessions : w[s] \in Stopped => v[s] = w[s]
    PROVE  AwaitOK(q, w) => AwaitOK(Append(q, x), v)
<1> DEFINE a == Append(q, x)
<1>1. /\ Len(q) \in Nat /\ DOMAIN q = 1..Len(q) /\ DOMAIN a = 1..(Len(q) + 1)
      /\ \A i \in 1..Len(q) : a[i] = q[i]
      /\ a[Len(q) + 1] = x
  BY Appended
<1>2. \A i \in DOMAIN q : q[i] \in Cleanup /\ q[i].session \in Sessions
  <2>1. \A i \in DOMAIN q : q[i] \in Cleanup
    BY <1>1, ElementOfSeq
  <2>2. QED
    BY <2>1 DEF Cleanup
<1> HIDE DEF a
<1>3. /\ \A i \in DOMAIN a : (i \in DOMAIN q /\ a[i] = q[i]) \/ (i = Len(q) + 1 /\ a[i] = x)
      /\ DOMAIN q \subseteq DOMAIN a /\ Len(q) + 1 \in DOMAIN a
      /\ Len(q) + 1 \notin DOMAIN q
  BY <1>1
<1>4. SUFFICES ASSUME AwaitOK(q, w) PROVE AwaitOK(a, v)
  BY DEF a
<1>5. \A i \in DOMAIN a : /\ a[i].release => a[i].awaited
                          /\ a[i].awaited => v[a[i].session] \in Stopped
  BY <1>2, <1>3, <1>4 DEF AwaitOK
<1>6. ASSUME NEW i \in DOMAIN a, NEW j \in DOMAIN a,
             a[i].awaited, a[j].awaited, a[i].session = a[j].session
      PROVE  i = j
  BY <1>3, <1>4, <1>6 DEF AwaitOK
<1>7. QED
  BY <1>5, <1>6 DEF AwaitOK

\* The first cleanup leaves the chain.
LEMMA LeaveChain ==
    ASSUME NEW q \in Seq(Cleanup), q # <<>>, NEW w, NEW v,
           \A s \in Sessions : w[s] \in Stopped =>
               v[s] = w[s] \/ (s = Head(q).session /\ Head(q).awaited)
    PROVE  /\ AwaitOK(q, w) => AwaitOK(Tail(q), v)
           /\ \A s : Waits(q, s) <=> Head(q).session = s \/ Behind(q, s)
           /\ \A s : Behind(q, s) <=> Waits(Tail(q), s)
<1> DEFINE t == Tail(q)
<1>1. /\ Len(q) \in Nat \ {0} /\ DOMAIN q = 1..Len(q) /\ DOMAIN t = 1..(Len(q) - 1)
      /\ Head(q) = q[1] /\ 1 \in DOMAIN q
      /\ \A i \in 1..(Len(q) - 1) : i + 1 \in DOMAIN q /\ t[i] = q[i + 1]
      /\ \A i \in DOMAIN q : i = 1 \/ (i - 1 \in DOMAIN t /\ t[i - 1] = q[i])
  BY Tailed
<1>2. \A i \in DOMAIN q : q[i] \in Cleanup /\ q[i].session \in Sessions
  <2>1. \A i \in DOMAIN q : q[i] \in Cleanup
    BY <1>1, ElementOfSeq
  <2>2. QED
    BY <2>1 DEF Cleanup
<1> HIDE DEF t
<1>3. /\ \A i \in DOMAIN t : i + 1 \in DOMAIN q /\ i + 1 # 1 /\ t[i] = q[i + 1]
      /\ \A i, j \in DOMAIN t : i + 1 = j + 1 => i = j
  BY <1>1
<1>4. AwaitOK(q, w) => AwaitOK(t, v)
  <2>1. SUFFICES ASSUME AwaitOK(q, w) PROVE AwaitOK(t, v)
    OBVIOUS
  <2>2. \A i \in DOMAIN t : t[i].awaited => ~(t[i].session = Head(q).session /\ Head(q).awaited)
    BY <1>1, <1>3, <2>1 DEF AwaitOK
  <2>3. \A i \in DOMAIN t : /\ t[i].release => t[i].awaited
                            /\ t[i].awaited => w[t[i].session] \in Stopped
                            /\ t[i].session \in Sessions
    BY <1>2, <1>3, <2>1 DEF AwaitOK
  <2>4. \A i, j \in DOMAIN t :
           t[i].awaited /\ t[j].awaited /\ t[i].session = t[j].session => i = j
    BY <1>3, <2>1 DEF AwaitOK
  <2>5. QED
    BY <2>2, <2>3, <2>4 DEF AwaitOK
<1>5. \A s : Waits(q, s) <=> Head(q).session = s \/ Behind(q, s)
  BY <1>1 DEF Waits, Behind
<1>6. \A s : Behind(q, s) <=> Waits(t, s)
  <2>1. \A i \in DOMAIN q : i = 1 \/ \E k \in DOMAIN t : t[k] = q[i]
    BY <1>1
  <2>2. \A k \in DOMAIN t : \E i \in DOMAIN q : i # 1 /\ t[k] = q[i]
    BY <1>3
  <2>3. ASSUME NEW s, Behind(q, s) PROVE Waits(t, s)
    <3>1. PICK i \in DOMAIN q : i # 1 /\ q[i].session = s
      BY <2>3 DEF Behind
    <3>2. PICK k \in DOMAIN t : t[k] = q[i]
      BY <2>1, <3>1
    <3>3. QED
      BY <3>1, <3>2 DEF Waits
  <2>4. ASSUME NEW s, Waits(t, s) PROVE Behind(q, s)
    <3>1. PICK k \in DOMAIN t : t[k].session = s
      BY <2>4 DEF Waits
    <3>2. PICK i \in DOMAIN q : i # 1 /\ t[k] = q[i]
      BY <2>2
    <3>3. QED
      BY <3>1, <3>2 DEF Behind
  <2>5. QED
    BY <2>3, <2>4
<1>7. QED
  BY <1>4, <1>5, <1>6 DEF t

\* The chain does not care what sessions do that are not waiting for it.
LEMMA KeepChain ==
    ASSUME NEW q \in Seq(Cleanup), NEW w, NEW v, AwaitOK(q, w),
           \A s \in Sessions : w[s] \in Stopped => v[s] = w[s]
    PROVE  AwaitOK(q, v)
<1>1. \A i \in DOMAIN q : q[i].session \in Sessions
  <2>1. \A i \in DOMAIN q : q[i] \in Cleanup
    BY ElementOfSeq, LenProperties
  <2>2. QED
    BY <2>1 DEF Cleanup
<1>2. QED
  BY <1>1 DEF AwaitOK

\* The chain after an expiry may have been noticed.
LEMMA NotingChain ==
    ASSUME NEW q \in Seq(Cleanup), NEW l, LeaseOK(l), NEW w, NEW v,
           \A s \in Sessions : w[s] \in Stopped => v[s] = w[s]
    PROVE  /\ AwaitOK(q, w) => AwaitOK(Noting(q, l), v)
           /\ \A s : Waits(Noting(q, l), s) <=> Waits(q, s) \/ (Expires(l) /\ s = l.owner)
           /\ q # <<>> => \A s : Behind(Noting(q, l), s) <=>
                                    Behind(q, s) \/ (Expires(l) /\ s = l.owner)
           /\ q # <<>> => Head(Noting(q, l)) = Head(q)
<1>1. CASE Expires(l)
  <2> DEFINE x == Expiry(l.owner)
  <2>1. x \in Cleanup /\ x.session = l.owner /\ ~x.release /\ ~x.awaited
    BY <1>1, NoticedStep DEF Expiry
  <2> HIDE DEF x
  <2>2. Noting(q, l) = Append(q, x)
    BY <1>1 DEF Noting, x
  <2>3. /\ AwaitOK(q, w) => AwaitOK(Append(q, x), v)
        /\ \A s : Waits(Append(q, x), s) <=> Waits(q, s) \/ x.session = s
        /\ q # <<>> => \A s : Behind(Append(q, x), s) <=> Behind(q, s) \/ x.session = s
    BY <2>1, JoinChain, JoinWaits
  <2>4. q # <<>> => Head(Append(q, x)) = Head(q)
    BY <2>1, Appended
  <2>5. QED
    BY <1>1, <2>1, <2>2, <2>3, <2>4
<1>2. CASE ~Expires(l)
  BY <1>2, KeepChain DEF Noting
<1>3. QED
  BY <1>1, <1>2

\* The end of a cleanup resumes only the session that waits for it.
LEMMA EndChain ==
    ASSUME Inv, Awaits, cleanups # <<>>, NEW c, NEW l, LeaseOK(l), EndCleanup(c, l)
    PROVE  Awaits'
<1> DEFINE job == Head(cleanups)
           answers == job.reply \/ Returned(c) # {}
           t == Tail(cleanups)
<1>1. /\ cleanups' = IF answers THEN Noting(t, l) ELSE t
      /\ t \in Seq(Cleanup)
      /\ \A s \in Sessions :
            work'[s] = IF (s = job.session /\ job.awaited) \/ s \in Returned(c)
                       THEN "idle" ELSE work[s]
  BY EndCleanupStep
<1>2. \A s \in Returned(c) : work[s] = "op"
  BY DEF Returned
<1>3. \A s \in Sessions : work[s] \in Stopped =>
         work'[s] = work[s] \/ (s = job.session /\ job.awaited)
  BY <1>1, <1>2 DEF Stopped
<1>4. cleanups \in Seq(Cleanup)
  BY DEF Inv, Rest
<1>5. AwaitOK(t, work')
  BY <1>3, <1>4, LeaveChain DEF Awaits
<1>6. AwaitOK(Noting(t, l), work')
  <2> HIDE DEF t
  <2>1. QED
    BY <1>1, <1>5, NotingChain
<1>7. QED
  BY <1>1, <1>5, <1>6 DEF Awaits

\* A step that answers calls, or none, keeps the chain.
LEMMA CallChain ==
    ASSUME Inv, Awaits, NEW l, LeaseOK(l),
           cleanups' = cleanups \/ cleanups' = Noting(cleanups, l),
           \A s \in Sessions : work[s] \in Stopped => work'[s] = work[s]
    PROVE  Awaits'
<1>1. cleanups \in Seq(Cleanup)
  BY DEF Inv, Rest
<1>2. AwaitOK(cleanups, work') /\ AwaitOK(Noting(cleanups, l), work')
  BY <1>1, KeepChain, NotingChain DEF Awaits
<1>3. QED
  BY <1>2 DEF Awaits

\* Every step keeps the cleanup chain in order.
LEMMA NextAwaits ==
    ASSUME Inv, Awaits, [Next]_vars
    PROVE  Awaits'
<1>1. /\ LeaseOK(lease) /\ locking \in BOOLEAN /\ work \in [Sessions -> Works]
      /\ cleanups \in Seq(Cleanup)
  BY BrokerAssumption DEF Inv, Rest
<1>2. ASSUME NEW l, LeaseOK(l), Answer(l),
             \A s \in Sessions : work[s] \in Stopped => work'[s] = work[s]
      PROVE  Awaits'
  BY <1>1, <1>2, AnswerStep, CallChain
<1>3. ASSUME NEW s \in Sessions, Session(s) PROVE Awaits'
  <2>1. CASE Connect(s) \/ Disconnected(s)
    BY <2>1 DEF Connect, Disconnected, Awaits
  <2>2. CASE VmLock(s) \/ \E ticketMatches \in BOOLEAN : VmWait(s, ticketMatches)
    <3>1. cleanups' = cleanups \o Noticed(lease) /\ UNCHANGED work
      BY <2>2 DEF VmLock, VmWait
    <3>2. cleanups' = Noting(cleanups, lease)
      BY <1>1, <3>1, NoticedStep
    <3>3. QED
      BY <1>1, <3>1, <3>2, CallChain
  <2>3. ASSUME NEW force \in BOOLEAN, VmUnlock(s, force) PROVE Awaits'
    <3>1. CASE Answer(Disconnect(lease, s)) /\ UNCHANGED work
      BY <1>1, <1>2, <3>1, DisconnectOK
    <3>2. CASE Answer(lease) /\ UNCHANGED work
      BY <1>1, <1>2, <3>2
    <3>3. CASE /\ cleanups' = Append(cleanups, [session |-> s, release |-> locking,
                                                awaited |-> TRUE, reply |-> TRUE])
               /\ work' = [work EXCEPT ![s] = "unlock"]
      <4> DEFINE x == [session |-> s, release |-> locking, awaited |-> TRUE, reply |-> TRUE]
      <4>1. x \in Cleanup /\ x.awaited /\ x.session = s
        BY <1>1 DEF Cleanup
      <4> HIDE DEF x
      <4>2. work[s] = "idle"
        BY <2>3 DEF VmUnlock, Ready, Idle
      <4>3. /\ work'[s] \in Stopped /\ work[s] \notin Stopped
            /\ \A t \in Sessions : work[t] \in Stopped => work'[t] = work[t]
        BY <1>1, <3>3, <4>2 DEF Stopped
      <4>4. cleanups' = Append(cleanups, x)
        BY <3>3 DEF x
      <4>5. QED
        BY <1>1, <4>1, <4>3, <4>4, JoinChain DEF Awaits
    <3>4. QED
      BY <2>3, <3>1, <3>2, <3>3 DEF VmUnlock
  <2>4. CASE CallOperation(s)
    <3>1. CASE Answer(lease) /\ UNCHANGED work
      BY <1>1, <1>2, <3>1
    <3>2. CASE work' = [work EXCEPT ![s] = "polling"] /\ UNCHANGED <<lease, cleanups>>
      <4>1. work[s] = "idle"
        BY <2>4 DEF CallOperation, Ready, Idle
      <4>2. \A t \in Sessions : work[t] \in Stopped => work'[t] = work[t]
        BY <1>1, <3>2, <4>1 DEF Stopped
      <4>3. QED
        BY <1>1, <3>2, <4>2, CallChain
    <3>3. QED
      BY <2>4, <3>1, <3>2 DEF CallOperation
  <2>5. ASSUME NEW kind \in Kinds, StartOperation(s, kind) PROVE Awaits'
    <3>1. work[s] \in {"idle", "polling"}
      BY <2>5 DEF StartOperation, Ready, Idle
    <3>2. \A t \in Sessions : t # s => work'[t] = work[t]
      BY <1>1, <2>5 DEF StartOperation
    <3>3. cleanups' = cleanups \o (IF locking THEN Noticed(lease) ELSE <<>>)
      BY <2>5 DEF StartOperation
    <3>4. cleanups' = cleanups \/ cleanups' = Noting(cleanups, lease)
      BY <1>1, <3>3, NoticedStep, ConcatEmptySeq
    <3>5. \A t \in Sessions : work[t] \in Stopped => work'[t] = work[t]
      BY <3>1, <3>2 DEF Stopped
    <3>6. QED
      BY <1>1, <3>4, <3>5, CallChain
  <2>6. CASE PollTimeout(s)
    <3>1. \A t \in Sessions : work[t] \in Stopped => work'[t] = work[t]
      BY <1>1, <2>6 DEF PollTimeout, Stopped
    <3>2. QED
      BY <1>1, <1>2, <2>6, <3>1 DEF PollTimeout
  <2>7. CASE StartFinal(s)
    <3> DEFINE x == [session |-> s, release |-> final[s] = "release", awaited |-> TRUE,
                     reply |-> FALSE]
    <3>1. x \in Cleanup /\ x.awaited /\ x.session = s /\ cleanups' = Append(cleanups, x)
      BY <2>7 DEF Cleanup, StartFinal
    <3> HIDE DEF x
    <3>2. work[s] = "idle" /\ work' = [work EXCEPT ![s] = "cleaning"]
      BY <2>7 DEF StartFinal, Idle
    <3>3. /\ work'[s] \in Stopped /\ work[s] \notin Stopped
          /\ \A t \in Sessions : work[t] \in Stopped => work'[t] = work[t]
      BY <1>1, <3>2 DEF Stopped
    <3>4. QED
      BY <1>1, <3>1, <3>3, JoinChain DEF Awaits
  <2>8. CASE TicketTimer(s)
    <3>1. LeaseOK(ExpireTicket(lease, s))
      BY <1>1, <2>8, DropWaiterOK DEF TicketTimer, ExpireTicket
    <3>2. QED
      BY <1>2, <2>8, <3>1 DEF TicketTimer
  <2>9. CASE WaitTimer(s)
    <3>1. Queued(lease, s)
      BY <1>1, <2>9 DEF WaitTimer, LeaseOK, Pending, Queued
    <3>2. LeaseOK(WaitTimedOut(lease, s))
      BY <1>1, <3>1, WaitTimedOutOK
    <3>3. QED
      BY <1>2, <2>9, <3>2 DEF WaitTimer
  <2>10. QED
    BY <1>3, <2>1, <2>2, <2>3, <2>4, <2>5, <2>6, <2>7, <2>8, <2>9 DEF Session
<1>4. ASSUME NEW enabled \in Modes, SetLocking(enabled) PROVE Awaits'
  BY <1>1, <1>2, <1>4, ClearWaitersOK DEF SetLocking
<1>5. ASSUME NEW l, LeaseOK(l), NEW c, cleanups # <<>>, EndCleanup(c, l) PROVE Awaits'
  BY <1>5, EndChain
<1>6. ASSUME NEW l, LeaseOK(l), NEW c, NEW ok \in BOOLEAN, cleanups # <<>>,
             EndExclusive(c, l, ok)
      PROVE  Awaits'
  BY <1>5, <1>6, FreedOK
<1>7. ASSUME NEW c, AnswerReturned(c) PROVE Awaits'
  <2>1. Answers(c) /\ work' = WorkAfter(c)
    BY <1>7, AnswerReturnedStep
  <2>2. \A s \in Sessions : work[s] \in Stopped => work'[s] = work[s]
    BY <1>1, <2>1, WorkAfterStep DEF Stopped
  <2>3. LeaseOK(LeaseAfter(c))
    BY <1>1, LeaseAfterStep
  <2>4. QED
    BY <2>1, <2>2, <2>3, CallChain DEF Answers
<1>8. ASSUME NEW c, Resume(c) PROVE Awaits'
  <2>1. CASE phase = "closing" /\ EndParallel(c, LeaseAfter(c))
    <3>1. cleanups # <<>>
      BY <2>1 DEF Inv, Rest
    <3>2. LeaseOK(LeaseAfter(c))
      BY <1>1, LeaseAfterStep
    <3>3. QED
      BY <1>5, <2>1, <3>1, <3>2 DEF EndParallel
  <2>2. CASE AnswerReturned(c)
    BY <1>7, <2>2
  <2>3. QED
    BY <1>8, <2>1, <2>2 DEF Resume
<1>9. ASSUME NEW l, LeaseOK(l), cleanups # <<>>, AbortInGuest(l) PROVE Awaits'
  <2>1. CASE UNCHANGED <<work, cleanups>>
    BY <2>1 DEF Awaits
  <2>2. CASE EndExclusive(conn, l, FALSE)
    BY <1>6, <1>9, <2>2
  <2>3. QED
    BY <1>9, <2>1, <2>2 DEF AbortInGuest
<1>10. ASSUME cleanups # <<>>, CloseInGuest PROVE Awaits'
  <2>1. CASE UNCHANGED <<work, cleanups>>
    BY <2>1 DEF Awaits
  <2>2. CASE EndParallel(conn, lease)
    BY <1>1, <1>5, <1>10, <2>2 DEF EndParallel
  <2>3. QED
    BY <1>10, <2>1, <2>2 DEF CloseInGuest
<1>11. ASSUME NEW partials \in BOOLEAN, StartCleanup(partials) PROVE Awaits'
  <2>1. LeaseOK(SetBlocked(lease, TRUE)) /\ cleanups # <<>>
    BY <1>1, <1>11, SetBlockedOK DEF StartCleanup
  <2>2. CASE UNCHANGED <<work, cleanups>>
    BY <2>2 DEF Awaits
  <2>3. QED
    BY <1>9, <1>10, <1>11, <2>1, <2>2 DEF StartCleanup
<1>12. CASE TransfersAborted
  <2>1. cleanups # <<>>
    BY <1>12 DEF TransfersAborted, Inv, Rest
  <2>2. QED
    BY <1>1, <1>9, <1>10, <1>12, <2>1 DEF TransfersAborted
<1>13. ASSUME NEW r \in Sent(conn), Settles(r) PROVE Awaits'
  <2>1. ASSUME NEW ok \in BOOLEAN, OperationReturns(r, ok) PROVE Awaits'
    BY <1>7, <1>8, <2>1 DEF OperationReturns
  <2>2. ASSUME NEW ok \in BOOLEAN, CloseReturns(r, ok) PROVE Awaits'
    BY <1>8, <2>2 DEF CloseReturns
  <2>3. ASSUME NEW ok \in BOOLEAN, StartReturns(r, ok) PROVE Awaits'
    BY <2>3 DEF StartReturns, Awaits
  <2>4. ASSUME NEW ok \in BOOLEAN, AbortReturns(r, ok) PROVE Awaits'
    <3>1. r \in Known(conn) /\ r.live /\ r.job = "cleanup" /\ r.kind = "abort"
      BY <2>4 DEF AbortReturns, Known
    <3>2. cleanups # <<>>
      BY <3>1 DEF Inv, Net, Cleaners, Rest
    <3>3. \E c : EndExclusive(c, lease, ok)
      BY <2>4 DEF AbortReturns
    <3>4. QED
      BY <1>1, <1>6, <3>2, <3>3
  <2>5. QED
    BY <1>13, <2>1, <2>2, <2>3, <2>4 DEF Settles
<1>14. CASE GuestCloses
  <2>1. CASE phase = "abort" /\ EndExclusive(NoGuest, LeaseAfter(NoGuest), FALSE)
    <3>1. cleanups # <<>> /\ LeaseOK(LeaseAfter(NoGuest))
      BY <1>1, <2>1, LeaseAfterStep DEF Inv, Rest
    <3>2. QED
      BY <1>6, <2>1, <3>1
  <2>2. CASE Resume(NoGuest)
    BY <1>8, <2>2
  <2>3. QED
    BY <1>14, <2>1, <2>2 DEF GuestCloses
<1>15. CASE ExpirationTimer
  BY <1>1, <1>2, <1>15 DEF ExpirationTimer
<1>16. CASE UNCHANGED <<work, cleanups>>
  BY <1>16 DEF Awaits
<1>17. QED
  BY <1>3, <1>4, <1>11, <1>12, <1>13, <1>14, <1>15, <1>16
  DEF Next, vars, StaleAnswer, AcceptGuest, GuestHello, GuestFails, GuestExecutes,
      GuestInterrupted, OwnerDue

-----------------------------------------------------------------------------
(* Exclusive mode *)

\* What exclusive mode leaves out, and what a new connection starts with.
Exclusively(c, res) ==
    /\ c.advisory = <<>>
    /\ \A r \in Sent(c) : r.kind = "abort" <=> r.job # "op"
    /\ c.link = "hello" => res = NoResidue
    /\ (\E r \in Sent(c) : r \in Starting) => res = NoResidue

Settings ==
    /\ locking
    /\ phase \in {"idle", "transfers", "abort"}
    /\ \A s \in Sessions : final[s] \in {"none", "release"}

\* An operation under way is the owner's, whose lease is then not due.
OpOwned ==
    /\ lease.due => lease.owner # None
    /\ \A r \in Sent(conn) : r.live /\ r.job = "op" =>
          lease.owner = r.by /\ ~lease.due /\ work[r.by] = "op"

\* What a session opens while its cleanup waits for the guest is its own or will
\* be cleaned up by another cleanup.
Retracked ==
    phase = "abort" /\ Head(cleanups).session \in tracked =>
        \/ lease.owner = Head(cleanups).session /\ ~Head(cleanups).release
        \/ final[Head(cleanups).session] # "none"
        \/ Behind(cleanups, Head(cleanups).session)

Owned ==
    /\ Exclusively(conn, residue)
    /\ Settings
    /\ OpOwned
    /\ TrackedByOwner
    /\ Retracked

\* The lease does not run out during a cleanup other than the owner's own.
DueIsCleaned ==
    lease.due =>
       /\ cleanups # <<>> => Head(cleanups).session = lease.owner /\ Head(cleanups).release
       /\ \A s \in Sessions : final[s] # "none" /\ Idle(s) => s = lease.owner

\* Nothing is sent behind the abort of a cleanup, and nothing is left after it.
Clear(c, res) ==
    /\ \A i, j \in DOMAIN c.wire : i < j /\ c.wire[i] \in Aborting => c.wire[j].job # "op"
    /\ \A i \in DOMAIN c.answers : c.answers[i].req \in Aborting =>
          res = NoResidue /\ \A j \in DOMAIN c.wire : c.wire[j].job # "op"

\* The cleanup under way ends with a VM that may be handed over.
MayFree == lease.owner = None \/ (lease.owner = Head(cleanups).session /\ Head(cleanups).release)

AbortClears == phase = "abort" /\ MayFree => Clear(conn, residue)

Isolated == DueIsCleaned /\ AbortClears /\ Isolation

\* Sessions with an operation on the wire.
OpsOn(c) == {r.by : r \in {x \in Elements(c.wire) : x.job = "op"}}

\* c has nothing that conn does not have.
Lessens(c) ==
    /\ c.link \in {conn.link, "destroyed", "none"}
    /\ c.advisory = <<>>
    /\ \A x \in Sent(c) : x.live => x \in Sent(conn)
    /\ \A x \in Sent(c) : x.kind = "abort" <=> x.job # "op"
    /\ OpsOn(c) \subseteq OpsOn(conn)
    /\ \A res : Clear(conn, res) => Clear(c, res)

\* A call is answered: the lease stays, or has run out, or was free and is taken.
Turn ==
    /\ ~lease'.due
    /\ \/ lease'.owner = lease.owner /\ lease'.blocked = lease.blocked /\ cleanups' = cleanups
       \/ /\ Expires(lease) /\ lease'.owner = None /\ lease'.blocked
          /\ cleanups' = Noting(cleanups, lease)
       \/ /\ Free(lease) /\ lease'.owner \in Sessions /\ ~lease'.blocked
          /\ cleanups' = cleanups

\* The first cleanup stays the first, and none is lost.
LEMMA TurnChain ==
    ASSUME Inv, Turn
    PROVE  /\ \A s : Waits(cleanups, s) => Waits(cleanups', s)
           /\ cleanups # <<>> => /\ Head(cleanups') = Head(cleanups)
                                 /\ \A s : Behind(cleanups, s) => Behind(cleanups', s)
           /\ \/ lease'.owner = lease.owner
              \/ /\ Expires(lease) /\ lease'.owner = None /\ lease'.blocked
                 /\ Waits(cleanups', lease.owner)
                 /\ cleanups # <<>> => Behind(cleanups', lease.owner)
              \/ lease.owner = None
<1>1. cleanups \in Seq(Cleanup) /\ LeaseOK(lease)
  BY DEF Inv, Rest
<1>2. /\ \A s : Waits(Noting(cleanups, lease), s) <=>
                   Waits(cleanups, s) \/ (Expires(lease) /\ s = lease.owner)
      /\ cleanups # <<>> => \A s : Behind(Noting(cleanups, lease), s) <=>
                                      Behind(cleanups, s) \/ (Expires(lease) /\ s = lease.owner)
      /\ cleanups # <<>> => Head(Noting(cleanups, lease)) = Head(cleanups)
  BY <1>1, NotingChain
<1>3. QED
  BY <1>2 DEF Turn, Free

\* What sessions have in the guest or on the wire names sessions.
LEMMA OpsOfSessions ==
    ASSUME Inv
    PROVE  residue.held \cup residue.terms \cup OpsOn(conn) \subseteq Sessions
<1>1. residue.held \subseteq Sessions /\ residue.terms \subseteq Sessions
  BY DEF Inv, Rest
<1>2. OpsOn(conn) \subseteq Sessions
  <2>1. SUFFICES ASSUME NEW x \in Elements(conn.wire), x.job = "op" PROVE x.by \in Sessions
    BY DEF OpsOn
  <2>2. x \in SoundRequest
    BY <2>1, ConnectionParts DEF Inv, Net, Sent
  <2>3. QED
    BY <2>1, <2>2 DEF SoundRequest
<1>3. QED
  BY <1>1, <1>2

\* A turn keeps what the broker believes open with the owner.
LEMMA TurnTracks ==
    ASSUME Inv, Awaits, Owned, Inv', Turn, UNCHANGED <<locking, phase, final>>,
           tracked' \subseteq tracked
              \/ /\ tracked' \subseteq tracked \cup {lease.owner} /\ ~lease.due
                 /\ lease.owner # None /\ work[lease.owner] \notin Stopped
    PROVE  TrackedByOwner' /\ Retracked' /\ Settings'
<1>1. /\ \A s : Waits(cleanups, s) => Waits(cleanups', s)
      /\ cleanups # <<>> => /\ Head(cleanups') = Head(cleanups)
                            /\ \A s : Behind(cleanups, s) => Behind(cleanups', s)
      /\ \/ lease'.owner = lease.owner
         \/ /\ Expires(lease) /\ lease'.owner = None /\ lease'.blocked
            /\ Waits(cleanups', lease.owner)
            /\ cleanups # <<>> => Behind(cleanups', lease.owner)
         \/ lease.owner = None
  BY TurnChain
<1>2. TrackedByOwner'
  <2>1. SUFFICES ASSUME NEW s \in tracked'
                 PROVE  lease'.owner = s \/ final'[s] # "none" \/ Waits(cleanups', s)
    BY DEF TrackedByOwner, CleanupPending, Waits
  <2>2. s \in Sessions
    BY <2>1 DEF Inv, Rest
  <2>3. CASE s \in tracked
    <3>1. lease.owner = s \/ final[s] # "none" \/ Waits(cleanups, s)
      BY <2>3 DEF Owned, Settings, TrackedByOwner, CleanupPending, Waits
    <3>2. QED
      BY <1>1, <2>2, <3>1, NoneAssumption
  <2>4. CASE s \notin tracked
    BY <1>1, <2>1, <2>2, <2>4 DEF Expires
  <2>5. QED
    BY <2>3, <2>4
<1>3. Retracked'
  <2> DEFINE s == Head(cleanups).session
  <2>1. SUFFICES ASSUME phase = "abort", s \in tracked', cleanups # <<>>
                 PROVE  \/ lease'.owner = s /\ ~Head(cleanups).release
                        \/ final[s] # "none"
                        \/ Behind(cleanups', s)
    BY <1>1 DEF Retracked, Inv, Rest
  <2>2. Head(cleanups) \in Cleanup /\ s \in Sessions /\ 1 \in DOMAIN cleanups
        /\ Head(cleanups) = cleanups[1]
    BY <2>1, FirstCleanup, Tailed DEF Inv, Rest
  <2> HIDE DEF s
  <2>3. CASE s \in tracked
    <3>1. \/ lease.owner = s /\ ~Head(cleanups).release
          \/ final[s] # "none"
          \/ Behind(cleanups, s)
      BY <2>1, <2>3 DEF Owned, Retracked, s
    <3>2. QED
      BY <1>1, <2>1, <2>2, <3>1, NoneAssumption
  <2>4. CASE s \notin tracked
    <3>1. s = lease.owner /\ ~lease.due /\ work[s] \notin Stopped
      BY <2>1, <2>4
    <3>2. ~Head(cleanups).release
      BY <2>2, <3>1 DEF Awaits, AwaitOK, s
    <3>3. QED
      BY <1>1, <2>2, <3>1, <3>2, NoneAssumption DEF Expires
  <2>5. QED
    BY <2>3, <2>4
<1>4. Settings'
  BY DEF Owned, Settings
<1>5. QED
  BY <1>2, <1>3, <1>4

\* Calls are answered and requests settle.
LEMMA TurnExclusive ==
    ASSUME Inv, Awaits, Owned, Inv',
           Turn \/ (UNCHANGED <<lease, cleanups>> /\ \A s \in Sessions : Idle(s)' => Idle(s)),
           Lessens(conn'), UNCHANGED <<locking, residue, phase, final>>,
           tracked' \subseteq tracked
              \/ /\ tracked' \subseteq tracked \cup {lease.owner} /\ ~lease.due
                 /\ lease.owner # None /\ work[lease.owner] \notin Stopped,
           \A r \in Sent(conn') : r.live /\ r.job = "op" => work'[r.by] = work[r.by]
    PROVE  Owned' /\ (Isolated => Isolated')
<1>1. CASE Turn
  <2>1. /\ \A s : Waits(cleanups, s) => Waits(cleanups', s)
        /\ cleanups # <<>> => /\ Head(cleanups') = Head(cleanups)
                              /\ \A s : Behind(cleanups, s) => Behind(cleanups', s)
        /\ \/ lease'.owner = lease.owner
           \/ /\ Expires(lease) /\ lease'.owner = None /\ lease'.blocked
              /\ Waits(cleanups', lease.owner)
              /\ cleanups # <<>> => Behind(cleanups', lease.owner)
           \/ lease.owner = None
    BY <1>1, TurnChain
  <2>2. OpOwned'
    <3>1. SUFFICES ASSUME NEW r \in Sent(conn'), r.live, r.job = "op"
                   PROVE  lease'.owner = r.by /\ ~lease'.due /\ work'[r.by] = "op"
      BY <1>1 DEF OpOwned, Turn
    <3>2. lease.owner = r.by /\ ~lease.due /\ work[r.by] = "op" /\ r \in Sent(conn)
      BY <3>1 DEF Lessens, Owned, OpOwned
    <3>3. r.by # None
      <4>1. r \in SoundRequest
        BY <3>2, ConnectionParts DEF Inv, Net
      <4>2. QED
        BY <3>1, <4>1, NoneAssumption DEF SoundRequest
    <3>4. QED
      BY <1>1, <2>1, <3>1, <3>2, <3>3 DEF Turn, Expires
  <2>3. TrackedByOwner' /\ Retracked' /\ Settings'
    BY <1>1, TurnTracks
  <2>4. Exclusively(conn, residue)'
    BY RequestSets DEF Owned, Exclusively, Lessens, Starting
  <2>5. ASSUME Isolated PROVE Isolated'
    <3>1. DueIsCleaned'
      BY <1>1 DEF DueIsCleaned, Turn
    <3>2. AbortClears'
      <4>1. SUFFICES ASSUME phase = "abort", MayFree' PROVE Clear(conn', residue)
        BY DEF AbortClears
      <4>2. cleanups # <<>> /\ Head(cleanups') = Head(cleanups)
        BY <2>1, <4>1 DEF Inv, Rest
      <4>3. MayFree
        BY <2>1, <2>5, <4>1, <4>2 DEF MayFree, Isolated, DueIsCleaned, Expires
      <4>4. QED
        BY <2>5, <4>1, <4>3 DEF Isolated, AbortClears, Lessens
    <3>3. Isolation'
      <4>1. SUFFICES ASSUME conn'.link = "ready",
                            NEW s \in residue.held \cup residue.terms \cup OpsOn(conn')
                     PROVE  lease'.owner = s \/ (lease'.owner = None /\ lease'.blocked)
        BY DEF Isolation, OpsOn
      <4>2. s \in residue.held \cup residue.terms \cup OpsOn(conn) /\ conn.link = "ready"
        BY <4>1 DEF Lessens
      <4>3. s \in Sessions
        BY <4>2, OpsOfSessions
      <4>4. lease.owner = s \/ (lease.owner = None /\ lease.blocked)
        BY <2>5, <4>2 DEF Isolated, Isolation, OpsOn, Owned, Settings
      <4>5. QED
        BY <1>1, <4>3, <4>4, NoneAssumption DEF Turn, Free, Expires
    <3>4. QED
      BY <3>1, <3>2, <3>3 DEF Isolated
  <2>6. QED
    BY <2>2, <2>3, <2>4, <2>5 DEF Owned
<1>2. CASE UNCHANGED <<lease, cleanups>> /\ \A s \in Sessions : Idle(s)' => Idle(s)
  <2>1. OpOwned'
    BY <1>2 DEF Owned, OpOwned, Lessens
  <2>2. TrackedByOwner'
    BY <1>2 DEF Owned, TrackedByOwner, CleanupPending
  <2>3. Retracked'
    <3>1. SUFFICES ASSUME phase = "abort", Head(cleanups).session \in tracked'
                   PROVE  \/ lease.owner = Head(cleanups).session /\ ~Head(cleanups).release
                          \/ final[Head(cleanups).session] # "none"
                          \/ Behind(cleanups, Head(cleanups).session)
      BY <1>2 DEF Retracked, Behind
    <3>2. CASE Head(cleanups).session \in tracked
      BY <3>1, <3>2 DEF Owned, Retracked
    <3>3. CASE Head(cleanups).session \notin tracked
      <4>1. cleanups # <<>>
        BY <3>1 DEF Inv, Rest
      <4>2. Head(cleanups) = cleanups[1] /\ 1 \in DOMAIN cleanups
        BY <4>1, Tailed DEF Inv, Rest
      <4>3. Head(cleanups).session = lease.owner /\ work[lease.owner] \notin Stopped
        BY <3>1, <3>3
      <4>4. QED
        BY <4>2, <4>3 DEF Awaits, AwaitOK
    <3>4. QED
      BY <3>2, <3>3
  <2>4. Exclusively(conn, residue)' /\ Settings'
    BY RequestSets DEF Owned, Exclusively, Lessens, Starting, Settings
  <2>5. ASSUME Isolated PROVE Isolated'
    <3>1. DueIsCleaned'
      BY <1>2, <2>5 DEF Isolated, DueIsCleaned
    <3>2. AbortClears'
      BY <1>2, <2>5 DEF Isolated, AbortClears, MayFree, Lessens
    <3>3. Isolation'
      BY <1>2, <2>5 DEF Isolated, Isolation, Lessens, OpsOn
    <3>4. QED
      BY <3>1, <3>2, <3>3 DEF Isolated
  <2>6. QED
    BY <2>1, <2>2, <2>3, <2>4, <2>5 DEF Owned
<1>3. QED
  BY <1>1, <1>2

\* The connection itself, a connection without requests and a destroyed one.
LEMMA LessensTrivially ==
    ASSUME Inv, Owned
    PROVE  /\ Lessens(conn) /\ Lessens(NoGuest)
           /\ \A c \in SoundConnection : Lessens(c) => Lessens(Destroyed(c))
<1>1. Lessens(conn)
  BY DEF Lessens, Owned, Exclusively
<1>2. Lessens(NoGuest)
  <2>1. NoGuest.link = "none" /\ NoGuest.advisory = <<>> /\ Sent(NoGuest) = {}
        /\ NoGuest.wire = <<>> /\ NoGuest.answers = <<>>
    BY EmptyConnection
  <2>2. DOMAIN NoGuest.wire = {} /\ DOMAIN NoGuest.answers = {}
    BY <2>1
  <2>3. QED
    BY <2>1, <2>2 DEF Lessens, OpsOn, Elements, Clear
<1>3. ASSUME NEW c \in SoundConnection, Lessens(c) PROVE Lessens(Destroyed(c))
  <2> DEFINE d == Destroyed(c)
  <2>1. /\ d.wire = c.wire /\ d.answers = c.answers /\ d.advisory = c.advisory
        /\ d.link \in {"none", "destroyed"} /\ Sent(d) = Sent(c)
    BY DestroyedStep
  <2> HIDE DEF d
  <2>2. OpsOn(d) = OpsOn(c) /\ \A res : Clear(c, res) => Clear(d, res)
    BY <2>1 DEF OpsOn, Clear
  <2>3. Lessens(d)
    BY <1>3, <2>1, <2>2 DEF Lessens
  <2>4. QED
    BY <2>3 DEF d
<1>4. QED
  BY <1>1, <1>2, <1>3

\* An answer arrives.
LEMMA LessensAnswered ==
    ASSUME Inv, Owned, conn.answers # <<>>
    PROVE  Lessens(Answered(conn))
<1> DEFINE d == Answered(conn)
<1>1. conn \in SoundConnection
  BY DEF Inv, Net
<1>2. /\ d.link = conn.link /\ d.wire = conn.wire /\ d.advisory = conn.advisory
      /\ Sent(d) \subseteq Sent(conn)
      /\ \A i \in DOMAIN d.answers : i + 1 \in DOMAIN conn.answers /\ d.answers[i] = conn.answers[i + 1]
  BY <1>1, AnsweredStep
<1> HIDE DEF d
<1>3. OpsOn(d) = OpsOn(conn) /\ \A res : Clear(conn, res) => Clear(d, res)
  BY <1>2 DEF OpsOn, Clear
<1>4. Lessens(d)
  BY <1>2, <1>3 DEF Lessens, Owned, Exclusively
<1>5. QED
  BY <1>4 DEF d

\* A request settles.
LEMMA LessensSettled ==
    ASSUME Inv, Owned, NEW r \in Sent(conn), NEW ok \in BOOLEAN, NEW c \in Settled(r, ok)
    PROVE  Lessens(c)
<1>1. conn \in SoundConnection /\ conn.advisory = <<>>
  BY DEF Inv, Net, Owned, Exclusively
<1>2. CASE conn.answers # <<>> /\ c = NextAdvisory([conn EXCEPT !.answers = Tail(@)])
  <2>1. Answered(conn).advisory = <<>>
    BY <1>1, <1>2, AnsweredStep
  <2>2. c = Answered(conn)
    BY <1>2, <2>1 DEF Answered, NextAdvisory
  <2>3. QED
    BY <1>2, <2>2, LessensAnswered
<1>3. CASE c = NextAdvisory(Abandon(conn, r))
  <2> DEFINE d == Abandon(conn, r)
  <2>1. /\ d \in SoundConnection /\ d.link = conn.link /\ d.advisory = conn.advisory
        /\ DOMAIN d.wire = DOMAIN conn.wire /\ DOMAIN d.answers = DOMAIN conn.answers
        /\ \A i \in DOMAIN conn.wire :
              d.wire[i] = IF conn.wire[i] = r THEN Dead(r) ELSE conn.wire[i]
        /\ \A i \in DOMAIN conn.answers :
              d.answers[i].req = IF conn.answers[i].req = r THEN Dead(r) ELSE conn.answers[i].req
    BY <1>1, AbandonStep
  <2>2. /\ Sent(d) \subseteq Sent(conn) \cup {Dead(r)}
        /\ ~Dead(r).live /\ Dead(r).job = r.job /\ Dead(r).by = r.by /\ Dead(r).kind = r.kind
    BY <1>1, AbandonKeeps
  <2> HIDE DEF d
  <2>3. c = d
    BY <1>1, <1>3, <2>1 DEF NextAdvisory, d
  <2>4. Dead(r) \notin Aborting
    BY <2>2 DEF Aborting
  <2>5. \A i \in DOMAIN d.wire : /\ d.wire[i].job = conn.wire[i].job
                                 /\ d.wire[i].by = conn.wire[i].by
                                 /\ d.wire[i] \in Aborting => conn.wire[i] \in Aborting
    BY <2>1, <2>2, <2>4
  <2>6. \A i \in DOMAIN d.answers :
           d.answers[i].req \in Aborting => conn.answers[i].req \in Aborting
    BY <2>1, <2>4
  <2>7. \A res : Clear(conn, res) => Clear(d, res)
    BY <2>1, <2>5, <2>6 DEF Clear
  <2>8. OpsOn(d) \subseteq OpsOn(conn)
    BY <2>1, <2>5 DEF OpsOn, Elements
  <2>9. QED
    BY <1>1, <2>1, <2>2, <2>3, <2>7, <2>8 DEF Lessens, Owned, Exclusively
<1>4. QED
  BY <1>2, <1>3 DEF Settled

\* Answers are turns.
LEMMA AnswerTurn ==
    ASSUME Inv, Owned, NEW l, LeaseOK(l), Answer(l),
           l.owner = lease.owner, l.blocked = lease.blocked, l.due => lease.due
    PROVE  Turn
<1>1. LeaseOK(lease) /\ cleanups \in Seq(Cleanup) /\ (lease.due => lease.owner # None)
  BY DEF Inv, Rest, Owned, OpOwned
<1>2. Consumed(ExpireIfDue(l), lease') /\ cleanups' = Noting(cleanups, l)
  BY <1>1, AnswerStep
<1>3. CASE Expires(l)
  <2>1. ExpireIfDue(l).owner = None /\ ~ExpireIfDue(l).due /\ ExpireIfDue(l).blocked
    BY <1>3 DEF ExpireIfDue, LeaseOK, LeaseState
  <2>2. Expires(lease) /\ Noting(cleanups, l) = Noting(cleanups, lease)
    BY <1>3 DEF Expires, Noting
  <2>3. QED
    BY <1>2, <2>1, <2>2 DEF Turn, Consumed
<1>4. CASE ~Expires(l)
  <2>1. ExpireIfDue(l) = l /\ ~l.due /\ Noting(cleanups, l) = cleanups
    BY <1>1, <1>4 DEF ExpireIfDue, Expires, Noting
  <2>2. QED
    BY <1>2, <2>1 DEF Turn, Consumed
<1>5. QED
  BY <1>3, <1>4

\* So are calls that ask for the lease.
LEMMA AcquireTurn ==
    ASSUME Inv, Owned, NEW s \in Sessions, NEW l, LeaseOK(l), Acquired(lease, l, s), SetLease(l),
           cleanups' = cleanups \o Noticed(lease)
    PROVE  Turn /\ lease'.owner = l.owner
<1>1. Consumed(l, lease') /\ cleanups' = Noting(cleanups, lease)
  BY CallStep
<1>2. QED
  BY <1>1 DEF Turn, Consumed, Acquired, Noting

\* Calls and timers that send nothing to the guest.
LEMMA CallExclusive ==
    ASSUME Inv, Awaits, Owned, Inv', UNCHANGED <<locking, conn, residue, tracked, phase, final>>,
           Turn \/ (UNCHANGED <<lease, cleanups>> /\ \A s \in Sessions : Idle(s)' => Idle(s)),
           \A s \in Sessions : work[s] = "op" => work'[s] = "op"
    PROVE  Owned' /\ (Isolated => Isolated')
<1>1. Lessens(conn')
  BY LessensTrivially
<1>2. \A r \in Sent(conn') : r.live /\ r.job = "op" => work'[r.by] = work[r.by]
  <2>1. SUFFICES ASSUME NEW r \in Sent(conn), r.live, r.job = "op" PROVE work'[r.by] = work[r.by]
    OBVIOUS
  <2>2. r \in SoundRequest
    BY <2>1, ConnectionParts DEF Inv, Net
  <2>3. r.by \in Sessions /\ work[r.by] = "op"
    BY <2>1, <2>2 DEF SoundRequest, Owned, OpOwned
  <2>4. QED
    BY <2>3
<1>3. QED
  BY <1>1, <1>2, TurnExclusive

\* Facts every step starts from.
LEMMA Given ==
    ASSUME Inv, Owned
    PROVE  /\ LeaseOK(lease) /\ locking /\ work \in [Sessions -> Works]
           /\ cleanups \in Seq(Cleanup) /\ conn \in SoundConnection
           /\ conn.advisory = <<>>
           /\ lease.due => lease.owner # None
  BY DEF Inv, Rest, Net, Owned, Settings, OpOwned, Exclusively

\* A call or a timer is answered and nothing else happens.
LEMMA AnswerExclusive ==
    ASSUME Inv, Awaits, Owned, Inv', NEW l, LeaseOK(l), Same(lease, l), Answer(l),
           UNCHANGED <<locking, conn, residue, tracked, phase, final>>,
           \A s \in Sessions : work[s] = "op" => work'[s] = "op"
    PROVE  Owned' /\ (Isolated => Isolated')
<1>1. Turn
  BY AnswerTurn DEF Same
<1>2. QED
  BY <1>1, CallExclusive

\* Calls and timers of sessions that send nothing to the guest.
LEMMA SessionExclusive ==
    ASSUME Inv, Awaits, Owned, Inv', NEW s \in Sessions,
           \/ Connect(s) \/ VmLock(s) \/ \E ticketMatches \in BOOLEAN : VmWait(s, ticketMatches)
           \/ CallOperation(s) \/ PollTimeout(s) \/ TicketTimer(s) \/ WaitTimer(s)
    PROVE  Owned' /\ (Isolated => Isolated')
<1>1. /\ LeaseOK(lease) /\ locking /\ work \in [Sessions -> Works]
      /\ lease.due => lease.owner # None
  BY Given
<1>2. Same(lease, lease)
  BY DEF Same
<1>3. CASE Connect(s)
  <2>1. /\ UNCHANGED <<locking, conn, residue, tracked, phase, final, lease, cleanups, work>>
        /\ \A t \in Sessions : Idle(t)' => Idle(t)
    BY <1>3 DEF Connect, Idle
  <2>2. QED
    BY <2>1, CallExclusive
<1>4. ASSUME NEW l, LeaseOK(l), Acquired(lease, l, s), SetLease(l),
             cleanups' = cleanups \o Noticed(lease),
             UNCHANGED <<locking, conn, residue, tracked, phase, final, work>>
      PROVE  Owned' /\ (Isolated => Isolated')
  <2>1. Turn
    BY <1>4, AcquireTurn
  <2>2. QED
    BY <1>4, <2>1, CallExclusive
<1>5. CASE VmLock(s)
  <2>1. LeaseOK(Acquire(lease, s, TRUE)) /\ Acquired(lease, Acquire(lease, s, TRUE), s)
    BY <1>1, AcquireOK, AcquireFate
  <2>2. QED
    BY <1>4, <1>5, <2>1 DEF VmLock
<1>6. ASSUME NEW tm \in BOOLEAN, VmWait(s, tm) PROVE Owned' /\ (Isolated => Isolated')
  <2>1. lease.call[s] # "waiting"
    BY <1>6 DEF VmWait, Ready, Idle
  <2>2. LeaseOK(Wait(lease, s, tm)) /\ Acquired(lease, Wait(lease, s, tm), s)
    BY <1>1, <2>1, WaitOK, WaitFate
  <2>3. QED
    BY <1>4, <1>6, <2>2 DEF VmWait
<1>7. CASE CallOperation(s)
  <2>1. UNCHANGED <<locking, conn, residue, tracked, phase, final>> /\ work[s] = "idle"
    BY <1>7 DEF CallOperation, Ready, Idle
  <2>2. CASE Answer(lease) /\ UNCHANGED work
    BY <1>1, <1>2, <2>1, <2>2, AnswerExclusive
  <2>3. CASE work' = [work EXCEPT ![s] = "polling"] /\ UNCHANGED <<lease, cleanups>>
    <3>1. /\ \A t \in Sessions : Idle(t)' => Idle(t)
          /\ \A t \in Sessions : work[t] = "op" => work'[t] = "op"
      BY <1>1, <2>1, <2>3 DEF Idle
    <3>2. QED
      BY <2>1, <2>3, <3>1, CallExclusive
  <2>4. QED
    BY <1>7, <2>2, <2>3 DEF CallOperation
<1>8. CASE PollTimeout(s)
  <2>1. \A t \in Sessions : work[t] = "op" => work'[t] = "op"
    BY <1>1, <1>8 DEF PollTimeout
  <2>2. Answer(lease) /\ UNCHANGED <<locking, conn, residue, tracked, phase, final>>
    BY <1>8 DEF PollTimeout
  <2>3. QED
    BY <1>1, <1>2, <2>1, <2>2, AnswerExclusive
<1>9. CASE TicketTimer(s)
  <2>1. LeaseOK(ExpireTicket(lease, s)) /\ Same(lease, ExpireTicket(lease, s))
    BY <1>1, <1>9, DropWaiterOK, QueueTimersSame DEF TicketTimer, ExpireTicket
  <2>2. /\ Answer(ExpireTicket(lease, s))
        /\ UNCHANGED <<locking, conn, residue, tracked, phase, final, work>>
    BY <1>9 DEF TicketTimer
  <2>3. QED
    BY <2>1, <2>2, AnswerExclusive
<1>10. CASE WaitTimer(s)
  <2>1. Queued(lease, s)
    BY <1>1, <1>10 DEF WaitTimer, LeaseOK, Pending, Queued
  <2>2. LeaseOK(WaitTimedOut(lease, s)) /\ Same(lease, WaitTimedOut(lease, s))
    BY <1>1, <2>1, WaitTimedOutOK, QueueTimersSame
  <2>3. /\ Answer(WaitTimedOut(lease, s))
        /\ UNCHANGED <<locking, conn, residue, tracked, phase, final, work>>
    BY <1>10 DEF WaitTimer
  <2>4. QED
    BY <2>2, <2>3, AnswerExclusive
<1>11. QED
  BY <1>3, <1>5, <1>6, <1>7, <1>8, <1>9, <1>10

\* The administrator changes nothing where there is one mode only.
LEMMA SetLockingExclusive ==
    ASSUME Modes = {TRUE}, Inv, Awaits, Owned, Inv', NEW enabled \in Modes, SetLocking(enabled)
    PROVE  Owned' /\ (Isolated => Isolated')
<1>1. LeaseOK(lease) /\ locking = TRUE /\ Same(lease, lease)
  BY Given DEF Same, Inv, Rest
<1>2. Answer(lease) /\ UNCHANGED <<locking, conn, residue, tracked, phase, final, work>>
  BY <1>1 DEF SetLocking
<1>3. QED
  BY <1>1, <1>2, AnswerExclusive

\* The timer notices that the lease has run out.
LEMMA ExpirationExclusive ==
    ASSUME Inv, Awaits, Owned, Inv', ExpirationTimer
    PROVE  Owned' /\ (Isolated => Isolated')
<1>1. LeaseOK(lease) /\ Same(lease, lease)
  BY Given DEF Same
<1>2. Answer(lease) /\ UNCHANGED <<locking, conn, residue, tracked, phase, final, work>>
  BY DEF ExpirationTimer
<1>3. QED
  BY <1>1, <1>2, AnswerExclusive

\* An operation is sent for the owner of the lease.
LEMMA StartOperationExclusive ==
    ASSUME Inv, Awaits, Owned, Inv', NEW s \in Sessions, NEW kind \in Kinds,
           StartOperation(s, kind)
    PROVE  Owned' /\ (Isolated => Isolated')
<1> DEFINE l == Acquire(lease, s, TRUE)
           r == NewRequest(kind, s, "op")
           c == GuestRequest(conn, kind, s, "op")
<1>1. /\ LeaseOK(lease) /\ locking = TRUE /\ work \in [Sessions -> Works]
      /\ conn \in SoundConnection /\ cleanups \in Seq(Cleanup) /\ conn.advisory = <<>>
      /\ lease.due => lease.owner # None
  BY Given, BrokerAssumption DEF Inv, Rest
<1>2. LeaseOK(l) /\ Acquired(lease, l, s)
  BY <1>1, AcquireOK, AcquireFate
<1>3. /\ SetLease(l) /\ cleanups' = cleanups \o Noticed(lease)
      /\ conn' = IF l.owner # s THEN conn ELSE c
      /\ work' = [work EXCEPT ![s] = IF conn' = conn THEN "idle" ELSE "op"]
      /\ UNCHANGED <<locking, residue, tracked, final, phase>>
      /\ work[s] \in {"idle", "polling"}
  BY <1>1 DEF StartOperation, Ready, Idle
<1> HIDE DEF l, c
<1>4. Turn /\ lease'.owner = l.owner
  BY <1>2, <1>3, AcquireTurn
<1>5. CASE conn' = conn
  <2>1. \A t \in Sessions : work[t] = "op" => work'[t] = "op"
    BY <1>1, <1>3
  <2>2. QED
    BY <1>3, <1>4, <1>5, <2>1, CallExclusive
<1>6. CASE conn' # conn
  <2>1. lease'.owner = s /\ conn' = c /\ work'[s] = "op" /\ ~lease'.due
    BY <1>1, <1>3, <1>4, <1>6 DEF Turn
  <2>2. /\ r \in SoundRequest /\ r.by = s /\ r.job = "op" /\ r.kind # "abort"
        /\ r \notin Aborting /\ r \notin Starting
    <3>1. kind \in OpKinds /\ kind # "abort"
      BY BrokerAssumption DEF OpKinds
    <3>2. QED
      BY <1>1, <3>1 DEF NewRequest, SoundRequest, Request, Aborting, Starting
  <2>3. conn' = Send(conn, r, conn.advisory)
    <3>1. ~r.queued /\ c = RequestNow(conn, r)
      BY <1>1 DEF c, GuestRequest, NewRequest
    <3>2. conn' = [conn EXCEPT !.wire = Append(@, r)]
      BY <1>6, <2>1, <3>1 DEF RequestNow
    <3>3. QED
      BY <1>1, <3>2 DEF Send, SoundConnection
  <2> HIDE DEF r
  <2>4. conn.advisory \in Seq(InChain)
    BY <1>1, ConnectionParts
  <2>5. /\ conn'.link = conn.link /\ conn'.advisory = <<>>
        /\ conn'.wire = Append(conn.wire, r) /\ Sent(conn') = Sent(conn) \cup {r}
    <3>1. ASSUME NEW d, d = Send(conn, r, conn.advisory)
          PROVE  /\ d.link = conn.link /\ d.advisory = conn.advisory
                 /\ d.wire = Append(conn.wire, r) /\ Sent(d) = Sent(conn) \cup {r}
      <4>1. conn \in SoundConnection /\ r \in SoundRequest
        BY <1>1, <2>2
      <4>2. QED
        BY <2>4, <3>1, <4>1, SendStep
    <3>2. QED
      BY <1>1, <2>3, <3>1
  <2>6. OpsOn(conn') \subseteq OpsOn(conn) \cup {s}
    <3>1. Elements(conn'.wire) = Elements(conn.wire) \cup {r}
      BY <1>1, <2>2, <2>5, ConnectionParts, Appended
    <3>2. QED
      BY <2>2, <3>1 DEF OpsOn
  <2>7. Exclusively(conn, residue)'
    BY <1>3, <2>2, <2>5 DEF Owned, Exclusively
  <2>8. OpOwned'
    <3>1. SUFFICES ASSUME NEW x \in Sent(conn'), x.live, x.job = "op"
                   PROVE  lease'.owner = x.by /\ ~lease'.due /\ work'[x.by] = "op"
      BY <2>1, NoneAssumption DEF OpOwned
    <3>2. CASE x = r
      BY <2>1, <2>2, <3>2
    <3>3. CASE x # r
      <4>1. lease.owner = x.by /\ ~lease.due /\ work[x.by] = "op" /\ x \in Sent(conn)
        BY <2>5, <3>1, <3>3 DEF Owned, OpOwned
      <4>2. x.by # None
        <5>1. x \in SoundRequest
          BY <1>1, <4>1, ConnectionParts
        <5>2. QED
          BY <3>1, <5>1, NoneAssumption DEF SoundRequest
      <4>3. lease'.owner = x.by
        BY <1>4, <4>1, <4>2 DEF Turn, Expires, Free
      <4>4. QED
        BY <1>3, <2>1, <4>1, <4>3
    <3>4. QED
      BY <3>2, <3>3
  <2>9. TrackedByOwner' /\ Retracked' /\ Settings'
    BY <1>3, <1>4, TurnTracks
  <2>10. ASSUME Isolated PROVE Isolated'
    <3>1. DueIsCleaned'
      BY <2>1 DEF DueIsCleaned
    <3>2. AbortClears'
      <4>1. SUFFICES ASSUME phase = "abort", MayFree' PROVE FALSE
        BY <1>3 DEF AbortClears
      <4>2. cleanups # <<>>
        BY <4>1 DEF Inv, Rest
      <4>3. Head(cleanups') = Head(cleanups) /\ Head(cleanups) = cleanups[1] /\ 1 \in DOMAIN cleanups
        BY <1>1, <1>4, <4>2, TurnChain, Tailed
      <4>4. Head(cleanups).session = s /\ Head(cleanups).release
        BY <2>1, <4>1, <4>3, NoneAssumption DEF MayFree
      <4>5. QED
        BY <1>3, <4>3, <4>4 DEF Awaits, AwaitOK, Stopped
    <3>3. Isolation'
      <4>1. SUFFICES ASSUME conn'.link = "ready",
                            NEW t \in residue.held \cup residue.terms \cup OpsOn(conn'), t # s
                     PROVE  FALSE
        BY <1>3, <2>1 DEF Isolation, OpsOn
      <4>2. t \in residue.held \cup residue.terms \cup OpsOn(conn)
        BY <2>6, <4>1
      <4>3. lease.owner = t \/ (lease.owner = None /\ lease.blocked)
        BY <1>1, <2>5, <2>10, <4>1, <4>2 DEF Isolated, Isolation, OpsOn
      <4>4. t \in Sessions
        BY <4>2, OpsOfSessions
      <4>5. QED
        BY <1>4, <2>1, <4>1, <4>3, <4>4, NoneAssumption DEF Turn, Free
    <3>4. QED
      BY <3>1, <3>2, <3>3 DEF Isolated
  <2>11. QED
    BY <2>7, <2>8, <2>9, <2>10 DEF Owned
<1>7. QED
  BY <1>5, <1>6

\* The operations that settled are answered.
LEMMA ReturnedExclusive ==
    ASSUME Inv, Awaits, Owned, Inv', NEW c, conn' = c, Lessens(c), AnswerReturned(c),
           UNCHANGED <<locking, residue, phase, final>>,
           tracked' \subseteq tracked
              \/ /\ tracked' \subseteq tracked \cup {lease.owner} /\ ~lease.due
                 /\ lease.owner # None /\ work[lease.owner] \notin Stopped
    PROVE  Owned' /\ (Isolated => Isolated')
<1>1. LeaseOK(lease) /\ locking /\ work \in [Sessions -> Works] /\ conn \in SoundConnection
  BY Given
<1>2. /\ work' = WorkAfter(c)
      /\ \A s \in Sessions : work'[s] = IF s \in Returned(c) THEN "idle" ELSE work[s]
  BY <1>1, WorkAfterStep DEF AnswerReturned
<1>3. \A r \in Sent(conn') : r.live /\ r.job = "op" => work'[r.by] = work[r.by]
  <2>1. SUFFICES ASSUME NEW r \in Sent(c), r.live, r.job = "op" PROVE work'[r.by] = work[r.by]
    OBVIOUS
  <2>2. r \in Sent(conn)
    BY <2>1 DEF Lessens
  <2>3. r \in SoundRequest
    BY <1>1, <2>2, ConnectionParts
  <2>4. r.by \in Sessions
    BY <2>1, <2>3 DEF SoundRequest
  <2>5. r.by \notin Returned(c)
    BY <2>1 DEF Returned
  <2>6. QED
    BY <1>2, <2>4, <2>5
<1>4. Turn \/ (UNCHANGED <<lease, cleanups>> /\ \A s \in Sessions : Idle(s)' => Idle(s))
  <2>1. CASE Returned(c) = {}
    <3>1. UNCHANGED <<lease, cleanups>>
      BY <2>1 DEF AnswerReturned
    <3>2. \A s \in Sessions : work'[s] = work[s]
      BY <1>2, <2>1
    <3>3. QED
      BY <3>1, <3>2 DEF Idle
  <2>2. CASE Returned(c) # {}
    <3> DEFINE l == LeaseAfter(c)
    <3>1. Answer(l)
      BY <2>2 DEF AnswerReturned
    <3>2. LeaseOK(l) /\ l.owner = lease.owner /\ l.blocked = lease.blocked /\ (l.due => lease.due)
      BY <1>1, LeaseAfterStep
    <3> HIDE DEF l
    <3>3. QED
      BY <3>1, <3>2, AnswerTurn
  <2>3. QED
    BY <2>1, <2>2
<1>5. QED
  BY <1>3, <1>4, TurnExclusive

\* An operation succeeds, fails or times out.
LEMMA OperationReturnsExclusive ==
    ASSUME Inv, Awaits, Owned, Inv', NEW r \in Sent(conn), NEW ok \in BOOLEAN,
           OperationReturns(r, ok)
    PROVE  Owned' /\ (Isolated => Isolated')
<1>1. PICK c \in Settled(r, ok) :
         /\ conn' = c
         /\ IF ok THEN AnswerReturned(c) /\ tracked' = TrackResources(r) /\ UNCHANGED phase
            ELSE Resume(c)
  BY DEF OperationReturns
<1>2. Lessens(c)
  BY LessensSettled
<1>3. UNCHANGED <<locking, residue, final>> /\ r.job = "op" /\ r.live
  BY DEF OperationReturns
<1>4. CASE ok
  <2>1. lease.owner = r.by /\ ~lease.due /\ work[r.by] = "op"
    BY <1>3 DEF Owned, OpOwned
  <2>2. r \in SoundRequest
    BY ConnectionParts, Given
  <2>3. r.by # None
    BY <1>3, <2>2, NoneAssumption DEF SoundRequest
  <2>4. tracked' \subseteq tracked \cup {lease.owner}
    BY <1>1, <1>4, <2>1 DEF TrackResources
  <2>5. QED
    BY <1>1, <1>2, <1>3, <1>4, <2>1, <2>3, <2>4, ReturnedExclusive DEF Stopped
<1>5. CASE ~ok
  <2>1. phase # "closing"
    BY DEF Owned, Settings
  <2>2. AnswerReturned(c) /\ UNCHANGED <<phase, tracked>>
    BY <1>1, <1>5, <2>1 DEF Resume
  <2>3. QED
    BY <1>1, <1>2, <1>3, <2>2, ReturnedExclusive
<1>6. QED
  BY <1>4, <1>5

\* The connection loses requests, nobody is answered.
LEMMA LossExclusive ==
    ASSUME Inv, Awaits, Owned, Inv', Lessens(conn'),
           UNCHANGED <<lease, locking, residue, tracked, work, final, cleanups, phase>>
    PROVE  Owned' /\ (Isolated => Isolated')
<1>1. \A s \in Sessions : Idle(s)' => Idle(s)
  BY DEF Idle
<1>2. QED
  BY <1>1, TurnExclusive

\* An answer nobody waits for, a failing connection, a sanitize without an answer.
LEMMA LinkExclusive ==
    ASSUME Inv, Awaits, Owned, Inv',
           StaleAnswer \/ GuestFails \/ \E r \in Sent(conn) : StartReturns(r, FALSE)
    PROVE  Owned' /\ (Isolated => Isolated')
<1>1. conn \in SoundConnection
  BY Given
<1>2. CASE StaleAnswer
  <2>1. conn.answers # <<>> /\ conn' = Answered(conn)
    BY <1>2 DEF StaleAnswer, Answered
  <2>2. Lessens(conn')
    BY <2>1, LessensAnswered
  <2>3. QED
    BY <1>2, <2>2, LossExclusive DEF StaleAnswer
<1>3. CASE GuestFails
  <2>1. Lessens(conn')
    BY <1>1, <1>3, LessensTrivially DEF GuestFails
  <2>2. QED
    BY <1>3, <2>1, LossExclusive DEF GuestFails
<1>4. ASSUME NEW r \in Sent(conn), StartReturns(r, FALSE)
      PROVE  Owned' /\ (Isolated => Isolated')
  <2>1. PICK c \in Settled(r, FALSE) : conn' = Destroyed(c)
    BY <1>4 DEF StartReturns
  <2>2. c \in SoundConnection
    BY <1>1, SettledStep DEF Settlement, Inv, Net
  <2>3. Lessens(c)
    BY LessensSettled
  <2>4. Lessens(conn')
    BY <2>1, <2>2, <2>3, LessensTrivially
  <2>5. QED
    BY <1>4, <2>4, LossExclusive DEF StartReturns
<1>5. QED
  BY <1>2, <1>3, <1>4

\* The connection closes while no cleanup waits for the guest.
LEMMA GuestClosesExclusive ==
    ASSUME Inv, Awaits, Owned, Inv', GuestCloses, phase # "abort"
    PROVE  Owned' /\ (Isolated => Isolated')
<1>1. phase # "closing"
  BY DEF Owned, Settings
<1>2. /\ conn' = NoGuest /\ AnswerReturned(NoGuest) /\ UNCHANGED <<phase, tracked>>
      /\ UNCHANGED <<locking, residue, final>>
  BY <1>1 DEF GuestCloses, Resume
<1>3. Lessens(NoGuest)
  BY LessensTrivially
<1>4. QED
  BY <1>2, <1>3, ReturnedExclusive

\* An awaited cleanup of s joins the chain.
LEMMA JoinExclusive ==
    ASSUME Inv, Awaits, Owned, Inv', NEW s \in Sessions, NEW x \in Cleanup,
           x.session = s, x.release, x.awaited, cleanups' = Append(cleanups, x),
           work[s] = "idle", NEW v \in Stopped, work' = [work EXCEPT ![s] = v],
           final' = final \/ final' = [final EXCEPT ![s] = "none"],
           UNCHANGED <<lease, locking, conn, residue, tracked, phase>>,
           Isolated /\ lease.due => lease.owner = s
    PROVE  Owned' /\ (Isolated => Isolated')
<1>1. /\ work \in [Sessions -> Works] /\ cleanups \in Seq(Cleanup)
      /\ final \in [Sessions -> {"none", "release", "keep"}] /\ conn \in SoundConnection
      /\ phase # "idle" => cleanups # <<>>
  BY Given DEF Inv, Rest
<1>2. /\ \A t : Waits(cleanups', t) <=> Waits(cleanups, t) \/ s = t
      /\ cleanups # <<>> => \A t : Behind(cleanups', t) <=> Behind(cleanups, t) \/ s = t
      /\ cleanups # <<>> => Head(cleanups') = Head(cleanups)
      /\ cleanups = <<>> => Head(cleanups') = x
  BY <1>1, JoinWaits, Appended
<1>3. \A t \in Sessions : t # s => final'[t] = final[t] /\ work'[t] = work[t]
  BY <1>1
<1>4. Settings'
  BY <1>1 DEF Owned, Settings
<1>5. OpOwned'
  <2>1. SUFFICES ASSUME NEW r \in Sent(conn), r.live, r.job = "op"
                 PROVE  lease.owner = r.by /\ ~lease.due /\ work'[r.by] = "op"
    BY DEF Owned, OpOwned
  <2>2. r \in SoundRequest
    BY <1>1, ConnectionParts
  <2>3. r.by \in Sessions /\ lease.owner = r.by /\ ~lease.due /\ work[r.by] = "op"
    BY <2>1, <2>2 DEF SoundRequest, Owned, OpOwned
  <2>4. QED
    BY <1>3, <2>3
<1>6. TrackedByOwner'
  <2>1. SUFFICES ASSUME NEW t \in tracked
                 PROVE  lease.owner = t \/ final'[t] # "none" \/ Waits(cleanups', t)
    BY DEF TrackedByOwner, CleanupPending, Waits
  <2>2. t \in Sessions /\ (lease.owner = t \/ final[t] # "none" \/ Waits(cleanups, t))
    BY <2>1 DEF Inv, Rest, Owned, Settings, TrackedByOwner, CleanupPending, Waits
  <2>3. QED
    BY <1>2, <1>3, <2>2
<1>7. Retracked'
  <2>1. SUFFICES ASSUME phase = "abort", Head(cleanups).session \in tracked
                 PROVE  \/ lease.owner = Head(cleanups).session /\ ~Head(cleanups).release
                        \/ final'[Head(cleanups).session] # "none"
                        \/ Behind(cleanups', Head(cleanups).session)
    BY <1>1, <1>2 DEF Retracked
  <2>2. Head(cleanups).session \in Sessions
    BY <2>1 DEF Inv, Rest
  <2>3. \/ lease.owner = Head(cleanups).session /\ ~Head(cleanups).release
        \/ final[Head(cleanups).session] # "none"
        \/ Behind(cleanups, Head(cleanups).session)
    BY <2>1 DEF Owned, Retracked
  <2>4. QED
    BY <1>1, <1>2, <1>3, <2>1, <2>2, <2>3
<1>8. Exclusively(conn, residue)'
  BY DEF Owned
<1>9. ASSUME Isolated PROVE Isolated'
  <2>1. DueIsCleaned'
    <3>1. SUFFICES ASSUME lease.due
                   PROVE  /\ Head(cleanups').session = lease.owner /\ Head(cleanups').release
                          /\ \A t \in Sessions : final'[t] # "none" /\ Idle(t)' => t = lease.owner
      BY DEF DueIsCleaned
    <3>2. lease.owner = s
      BY <1>9, <3>1
    <3>3. Head(cleanups').session = lease.owner /\ Head(cleanups').release
      BY <1>2, <1>9, <3>1, <3>2 DEF Isolated, DueIsCleaned
    <3>4. \A t \in Sessions : final'[t] # "none" /\ Idle(t)' => t = lease.owner
      BY <1>3, <1>9, <3>1, <3>2 DEF Isolated, DueIsCleaned, Idle
    <3>5. QED
      BY <3>3, <3>4
  <2>2. AbortClears'
    BY <1>1, <1>2, <1>9 DEF Isolated, AbortClears, MayFree
  <2>3. Isolation'
    BY <1>9 DEF Isolated, Isolation
  <2>4. QED
    BY <2>1, <2>2, <2>3 DEF Isolated
<1>10. QED
  BY <1>4, <1>5, <1>6, <1>7, <1>8, <1>9 DEF Owned

\* vm_unlock is refused, leaves the queue or queues the cleanup of the owner.
LEMMA UnlockExclusive ==
    ASSUME Inv, Awaits, Owned, Inv', NEW s \in Sessions, NEW force \in BOOLEAN,
           VmUnlock(s, force)
    PROVE  Owned' /\ (Isolated => Isolated')
<1>1. LeaseOK(lease) /\ locking = TRUE /\ Same(lease, lease)
  BY Given, BrokerAssumption DEF Same, Inv, Rest
<1>2. UNCHANGED <<locking, conn, residue, tracked, phase, final>> /\ work[s] = "idle"
  BY DEF VmUnlock, Ready, Idle
<1>3. CASE Answer(Disconnect(lease, s)) /\ UNCHANGED work
  BY <1>1, <1>2, <1>3, DisconnectOK, DisconnectSame, AnswerExclusive
<1>4. CASE Answer(lease) /\ UNCHANGED work
  BY <1>1, <1>2, <1>4, AnswerExclusive
<1>5. CASE /\ lease.owner = s
           /\ cleanups' = Append(cleanups, [session |-> s, release |-> locking,
                                            awaited |-> TRUE, reply |-> TRUE])
           /\ work' = [work EXCEPT ![s] = "unlock"]
           /\ UNCHANGED lease
  <2> DEFINE x == [session |-> s, release |-> locking, awaited |-> TRUE, reply |-> TRUE]
  <2>1. x \in Cleanup /\ x.session = s /\ x.release /\ x.awaited
    BY <1>1 DEF Cleanup
  <2>2. cleanups' = Append(cleanups, x)
    BY <1>5
  <2> HIDE DEF x
  <2>3. "unlock" \in Stopped
    BY DEF Stopped
  <2>4. QED
    BY <1>2, <1>5, <2>1, <2>2, <2>3, JoinExclusive
<1>6. QED
  BY <1>1, <1>3, <1>4, <1>5 DEF VmUnlock

\* The final cleanup of an owner that is gone joins the chain.
LEMMA FinalExclusive ==
    ASSUME Inv, Awaits, Owned, Inv', NEW s \in Sessions, StartFinal(s)
    PROVE  Owned' /\ (Isolated => Isolated')
<1> DEFINE x == [session |-> s, release |-> final[s] = "release", awaited |-> TRUE,
                 reply |-> FALSE]
<1>1. final[s] = "release" /\ Idle(s) /\ work[s] = "idle"
  BY DEF StartFinal, Owned, Settings, Idle
<1>2. x \in Cleanup /\ x.session = s /\ x.release /\ x.awaited /\ cleanups' = Append(cleanups, x)
  BY <1>1 DEF Cleanup, StartFinal
<1> HIDE DEF x
<1>3. /\ work' = [work EXCEPT ![s] = "cleaning"] /\ final' = [final EXCEPT ![s] = "none"]
      /\ UNCHANGED <<lease, locking, conn, residue, tracked, phase>>
  BY DEF StartFinal
<1>4. Isolated /\ lease.due => lease.owner = s
  BY <1>1 DEF Isolated, DueIsCleaned
<1>5. "cleaning" \in Stopped
  BY DEF Stopped
<1>6. QED
  BY <1>1, <1>2, <1>3, <1>4, <1>5, JoinExclusive

\* Nobody loses the lease and the chain of cleanups stays as it is.
LEMMA StillExclusive ==
    ASSUME Inv, Owned, Inv', lease'.owner = lease.owner \/ lease.owner = None,
           UNCHANGED <<locking, cleanups>>,
           tracked' \subseteq tracked,
           \A t \in Sessions : final'[t] = "none" => final[t] = "none",
           phase' = "abort" => phase = "abort" \/ Head(cleanups).session \notin tracked'
    PROVE  TrackedByOwner' /\ Retracked'
<1>1. TrackedByOwner'
  <2>1. SUFFICES ASSUME NEW t \in tracked'
                 PROVE  lease'.owner = t \/ final'[t] # "none" \/ Waits(cleanups, t)
    BY DEF TrackedByOwner, CleanupPending, Waits
  <2>2. t \in Sessions /\ (lease.owner = t \/ final[t] # "none" \/ Waits(cleanups, t))
    BY <2>1 DEF Inv, Rest, Owned, Settings, TrackedByOwner, CleanupPending, Waits
  <2>3. QED
    BY <2>2, NoneAssumption
<1>2. Retracked'
  <2> DEFINE s == Head(cleanups).session
  <2>1. SUFFICES ASSUME phase = "abort", s \in tracked'
                 PROVE  \/ lease'.owner = s /\ ~Head(cleanups).release
                        \/ final'[s] # "none" \/ Behind(cleanups, s)
    BY DEF Retracked, Behind
  <2>2. /\ s \in Sessions
        /\ \/ lease.owner = s /\ ~Head(cleanups).release
           \/ final[s] # "none" \/ Behind(cleanups, s)
    BY <2>1 DEF Owned, Retracked, Inv, Rest
  <2>3. QED
    BY <2>2, NoneAssumption
<1>3. QED
  BY <1>1, <1>2

\* A session is removed: an owner is left to its final cleanup.
LEMMA DisconnectedExclusive ==
    ASSUME Inv, Awaits, Owned, Inv', NEW s \in Sessions, Disconnected(s)
    PROVE  Owned' /\ (Isolated => Isolated')
<1> DEFINE l == Disconnect(lease, s)
<1>1. /\ LeaseOK(lease) /\ locking = TRUE
      /\ final \in [Sessions -> {"none", "release", "keep"}]
  BY Given, BrokerAssumption DEF Inv, Rest
<1>2. /\ LeaseOK(l) /\ l.owner = lease.owner /\ l.due = lease.due /\ l.blocked = lease.blocked
      /\ \A t \in Sessions : t # s => l.call[t] = lease.call[t]
  BY <1>1, DisconnectOK, DisconnectSame DEF Same
<1>3. /\ SetLease(l) /\ final[s] = "none"
      /\ final' = [final EXCEPT ![s] = IF lease.owner = s THEN "release" ELSE "none"]
      /\ UNCHANGED <<locking, conn, residue, tracked, work, cleanups, phase>>
  BY <1>1 DEF Disconnected
<1> HIDE DEF l
<1>4. /\ lease'.owner = lease.owner /\ lease'.due = lease.due /\ lease'.blocked = lease.blocked
      /\ \A t \in Sessions : t # s => (lease'.call[t] = "waiting" <=> lease.call[t] = "waiting")
  BY <1>2, <1>3, SetLeaseStep DEF Consumed
<1>5. TrackedByOwner' /\ Retracked'
  <2>1. \A t \in Sessions : final'[t] = "none" => final[t] = "none"
    BY <1>1, <1>3
  <2>2. QED
    BY <1>3, <1>4, <2>1, StillExclusive
<1>6. Exclusively(conn, residue)' /\ OpOwned'
  BY <1>3, <1>4 DEF Owned, OpOwned
<1>7. Settings'
  BY <1>1, <1>3 DEF Owned, Settings
<1>8. ASSUME Isolated PROVE Isolated'
  <2>1. DueIsCleaned'
    <3>1. SUFFICES ASSUME lease.due, NEW t \in Sessions, final'[t] # "none", Idle(t)'
                   PROVE  t = lease.owner
      BY <1>3, <1>4, <1>8 DEF Isolated, DueIsCleaned
    <3>2. CASE t = s
      BY <1>1, <1>3, <3>1, <3>2
    <3>3. CASE t # s
      <4>1. final[t] # "none" /\ Idle(t)
        BY <1>1, <1>3, <1>4, <3>1, <3>3 DEF Idle
      <4>2. QED
        BY <1>8, <3>1, <4>1 DEF Isolated, DueIsCleaned
    <3>4. QED
      BY <3>2, <3>3
  <2>2. AbortClears' /\ Isolation'
    BY <1>3, <1>4, <1>8 DEF Isolated, AbortClears, MayFree, Isolation
  <2>3. QED
    BY <2>1, <2>2 DEF Isolated
<1>9. QED
  BY <1>5, <1>6, <1>7, <1>8 DEF Owned

\* The lease runs out.
LEMMA DueExclusive ==
    ASSUME Inv, Awaits, Owned, Inv', OwnerDue
    PROVE  Owned' /\ (LongLease /\ Isolated => Isolated')
<1>1. LeaseOK(lease) /\ conn \in SoundConnection
  BY Given
<1>2. /\ ~Settling /\ lease.owner # None /\ ~lease.due /\ work[lease.owner] # "op"
      /\ LongLease /\ phase # "idle" =>
            Head(cleanups).session = lease.owner /\ Head(cleanups).release
      /\ lease' = [lease EXCEPT !.due = TRUE]
      /\ UNCHANGED <<locking, conn, residue, tracked, work, final, cleanups, phase>>
  BY DEF OwnerDue
<1>3. /\ lease'.owner = lease.owner /\ lease'.blocked = lease.blocked
      /\ lease'.call = lease.call
  BY <1>1, <1>2 DEF LeaseOK, LeaseState
<1>4. TrackedByOwner' /\ Retracked'
  BY <1>2, <1>3, StillExclusive
<1>5. Exclusively(conn, residue)' /\ Settings'
  BY <1>2 DEF Owned, Settings
<1>6. OpOwned'
  BY <1>2, <1>3 DEF Owned, OpOwned
<1>7. ASSUME LongLease, Isolated PROVE Isolated'
  <2>1. DueIsCleaned'
    BY <1>2, <1>3, <1>7 DEF DueIsCleaned, Settling, Idle
  <2>2. AbortClears' /\ Isolation'
    BY <1>2, <1>3, <1>7 DEF Isolated, AbortClears, MayFree, Isolation
  <2>3. QED
    BY <2>1, <2>2 DEF Isolated
<1>8. QED
  BY <1>4, <1>5, <1>6, <1>7 DEF Owned

\* A connection with nothing of any session on it.
LEMMA BareExclusive ==
    ASSUME Inv, Owned, Inv',
           \/ lease'.owner = lease.owner /\ lease'.due = lease.due
           \/ lease.owner = None /\ ~lease'.due,
           UNCHANGED <<locking, tracked, work, final, cleanups, phase>>,
           lease'.due => \A t \in Sessions : Idle(t)' => Idle(t),
           residue' = NoResidue, conn'.advisory = <<>>,
           \A r \in Sent(conn') : r.kind = "abort" /\ r.job # "op"
    PROVE  Owned' /\ (Isolated => Isolated')
<1>1. TrackedByOwner' /\ Retracked'
  BY StillExclusive
<1>2. Exclusively(conn, residue)' /\ Settings' /\ OpOwned'
  BY DEF Owned, Exclusively, Settings, OpOwned
<1>3. conn' \in SoundConnection
  BY DEF Inv, Net
<1>4. \A i \in DOMAIN conn'.wire : conn'.wire[i].job # "op"
  BY <1>3, ConnectionParts
<1>5. OpsOn(conn') = {} /\ NoResidue.held = {} /\ NoResidue.terms = {}
  BY <1>4 DEF OpsOn, Elements, NoResidue
<1>6. ASSUME Isolated PROVE Isolated'
  <2>1. DueIsCleaned'
    BY <1>6 DEF Isolated, DueIsCleaned
  <2>2. AbortClears'
    BY <1>4 DEF AbortClears, Clear
  <2>3. Isolation'
    BY <1>5 DEF Isolation, OpsOn
  <2>4. QED
    BY <2>1, <2>2, <2>3 DEF Isolated
<1>7. QED
  BY <1>1, <1>2, <1>6 DEF Owned

\* The guest connects, says hello and is sanitized before anything else.
LEMMA HelloExclusive ==
    ASSUME Inv, Awaits, Owned, Inv', AcceptGuest \/ GuestHello
    PROVE  Owned' /\ (Isolated => Isolated')
<1>1. LeaseOK(lease) /\ conn \in SoundConnection /\ locking = TRUE /\ conn.advisory = <<>>
  BY Given, BrokerAssumption DEF Inv, Rest
<1>2. CASE AcceptGuest
  <2>1. conn'.advisory = <<>> /\ Sent(conn') = {}
    BY <1>2, EmptyConnection DEF AcceptGuest
  <2>2. \A t \in Sessions : Idle(t)' => Idle(t)
    BY <1>2 DEF AcceptGuest, Idle
  <2>3. QED
    BY <1>2, <2>1, <2>2, BareExclusive DEF AcceptGuest
<1>3. CASE GuestHello
  <2> DEFINE l == SetBlocked(lease, TRUE)
             e == [conn EXCEPT !.link = "ready"]
             r == NewRequest("abort", None, "start")
  <2>1. /\ LeaseOK(l) /\ l.owner = lease.owner /\ l.due = lease.due /\ l.call = lease.call
    <3>1. LeaseOK(l) /\ l.owner = lease.owner /\ l.due = lease.due
      BY <1>1, SetBlockedOK, SetBlockedFate
    <3>2. l.call = lease.call
      BY <1>1 DEF SetBlocked, LeaseOK, LeaseState
    <3>3. QED
      BY <3>1, <3>2
  <2>2. /\ conn.link = "hello" /\ conn' = GuestRequest(e, "abort", None, "start") /\ SetLease(l)
        /\ UNCHANGED <<locking, residue, tracked, work, final, cleanups, phase>>
    BY <1>3 DEF GuestHello
  <2>3. /\ e \in SoundConnection /\ e.advisory = <<>> /\ Sent(e) = Sent(conn)
        /\ e.wire = conn.wire /\ e.answers = conn.answers
    BY <1>1 DEF SoundConnection, Sent
  <2>4. Sent(conn) = {}
    <3>1. conn.wire = <<>> /\ conn.answers = <<>>
      BY <2>2 DEF Inv, Net, Quiet
    <3>2. DOMAIN conn.wire = {} /\ DOMAIN conn.answers = {}
      BY <3>1
    <3>3. QED
      BY <3>2 DEF Sent, Elements
  <2>5. conn'.advisory = <<>> /\ Sent(conn') \subseteq {r}
    <3>1. Chain(e)
      BY <1>1, <2>3 DEF Inv, Net, Chain, AtMostOne
    <3>2. Requested(e, conn', r)
      <4> HIDE DEF e
      <4>1. QED
        BY <1>1, <2>2, <2>3, <3>1, RequestStep
    <3>3. r \notin InChain
      BY DEF NewRequest, InChain
    <3> HIDE DEF r, e
    <3>4. QED
      BY <2>3, <2>4, <3>2, <3>3 DEF Requested
  <2>6. r.kind = "abort" /\ r.job # "op"
    BY NewRequestFields
  <2>7. residue' = NoResidue
    BY <2>2 DEF Owned, Exclusively
  <2> HIDE DEF l, r, e
  <2>8. /\ lease'.owner = lease.owner /\ lease'.due = lease.due
        /\ \A t \in Sessions : Idle(t)' => Idle(t)
    BY <2>1, <2>2, SetLeaseStep DEF Consumed, Idle
  <2>9. QED
    BY <2>2, <2>5, <2>6, <2>7, <2>8, BareExclusive
<1>4. QED
  BY <1>2, <1>3

\* The guest answers the sanitize of its connection: hand-over is possible again.
LEMMA SanitizedExclusive ==
    ASSUME Inv, Awaits, Owned, Inv', NEW r \in Sent(conn), StartReturns(r, TRUE)
    PROVE  Owned' /\ (Isolated => Isolated')
<1> DEFINE l == SetBlocked(lease, FALSE)
<1>1. LeaseOK(lease) /\ conn \in SoundConnection /\ conn.advisory = <<>> /\ (lease.due => lease.owner # None)
  BY Given
<1>2. /\ r.job = "start" /\ r.live /\ SetLease(l)
      /\ UNCHANGED <<locking, residue, tracked, work, final, cleanups, phase>>
  BY DEF StartReturns
<1>3. PICK c \in Settled(r, TRUE) : conn' = c
  BY DEF StartReturns
<1>4. r \in SoundRequest
  BY <1>1, ConnectionParts
<1>5. r \in Starting
  BY <1>2, <1>4 DEF Starting
<1>6. residue' = NoResidue
  BY <1>2, <1>5 DEF Owned, Exclusively
<1>7. conn'.advisory = <<>> /\ \A x \in Sent(conn') : x.kind = "abort" /\ x.job # "op"
  <2>1. Settlement(c, r)
    BY <1>1, SettledStep DEF Inv, Net
  <2>2. c.advisory = <<>> /\ Sent(c) \subseteq Sent(conn) \cup {Dead(r)}
    <3>1. Elements(conn.advisory) = {}
      BY <1>1 DEF Elements
    <3>2. QED
      BY <1>1, <2>1, <3>1 DEF Settlement
  <2>3. \A x \in Sent(conn) : x.kind = "abort" /\ x.job # "op"
    BY <1>5 DEF Inv, Net, StartAlone, Owned, Exclusively
  <2>4. Dead(r).kind = r.kind /\ Dead(r).job = r.job
    BY <1>1, AbandonKeeps
  <2>5. QED
    BY <1>3, <2>2, <2>3, <2>4
<1>8. /\ LeaseOK(l)
      /\ \/ l.owner = lease.owner /\ l.due = lease.due
         \/ lease.owner = None /\ l.owner \in Sessions /\ ~l.due
      /\ l.due => l.call = lease.call
  <2>1. /\ LeaseOK(l)
        /\ \/ l.owner = lease.owner /\ l.due = lease.due
           \/ lease.owner = None /\ l.owner \in Sessions /\ ~l.due
    BY <1>1, SetBlockedOK, SetBlockedFate
  <2>2. lease.owner # None => l.call = lease.call
    BY <1>1 DEF SetBlocked, GrantNext, Free, LeaseOK, LeaseState
  <2> HIDE DEF l
  <2>3. QED
    BY <1>1, <2>1, <2>2
<1> HIDE DEF l
<1>9. /\ \/ lease'.owner = lease.owner /\ lease'.due = lease.due
         \/ lease.owner = None /\ ~lease'.due
      /\ lease'.due => \A t \in Sessions : Idle(t)' => Idle(t)
  BY <1>2, <1>8, SetLeaseStep DEF Consumed, Idle
<1>10. QED
  BY <1>2, <1>6, <1>7, <1>9, BareExclusive

\* What the guest does with the requests of the owner leaves traces of the owner only.
LEMMA GuestExclusive ==
    ASSUME Inv, Awaits, Owned, Inv', NEW f, NEW g, Moved(conn, conn', f, g),
           UNCHANGED <<lease, locking, tracked, work, final, cleanups, phase>>,
           conn.link = "ready",
           residue'.held \cup residue'.terms \subseteq residue.held \cup residue.terms \cup OpsOn(conn),
           (\E x \in Sent(conn) : x \in Starting) => residue' = NoResidue,
           Clear(conn, residue) => Clear(conn', residue')
    PROVE  Owned' /\ (Isolated => Isolated')
<1>1. Sent(conn') = Sent(conn) /\ conn'.advisory = conn.advisory /\ conn'.link = conn.link
  <2>1. Sent(conn') = Sent(conn)
    BY Zenon, MovedKeeps
  <2>2. conn'.advisory = conn.advisory /\ conn'.link = conn.link
    BY DEF Moved
  <2>3. QED
    BY <2>1, <2>2
<1>2. OpsOn(conn') \subseteq OpsOn(conn)
  <2>1. \A i \in DOMAIN conn'.wire : \E k \in DOMAIN conn.wire : conn'.wire[i] = conn.wire[k]
    BY DEF Moved
  <2>2. QED
    BY <2>1 DEF OpsOn, Elements
<1>3. Exclusively(conn, residue)' /\ OpOwned'
  BY <1>1 DEF Owned, Exclusively, OpOwned
<1>4. TrackedByOwner' /\ Retracked' /\ Settings'
  BY StillExclusive DEF Owned, Settings
<1>5. ASSUME Isolated PROVE Isolated'
  <2>1. DueIsCleaned'
    BY <1>5 DEF Isolated, DueIsCleaned, Idle
  <2>2. AbortClears'
    BY <1>5 DEF Isolated, AbortClears, MayFree
  <2>3. Isolation'
    <3>1. SUFFICES ASSUME locking, NEW s \in residue'.held \cup residue'.terms \cup OpsOn(conn')
                   PROVE  lease.owner = s \/ (lease.owner = None /\ lease.blocked)
      BY DEF Isolation, OpsOn
    <3>2. s \in residue.held \cup residue.terms \cup OpsOn(conn)
      BY <1>2, <3>1
    <3>3. QED
      BY <1>5, <3>1, <3>2 DEF Isolated, Isolation, OpsOn
  <2>4. QED
    BY <2>1, <2>2, <2>3 DEF Isolated
<1>6. QED
  BY <1>3, <1>4, <1>5 DEF Owned

\* The guest executes the first request.
LEMMA ExecutesExclusive ==
    ASSUME Inv, Awaits, Owned, Inv', NEW ok \in BOOLEAN, GuestExecutes(ok)
    PROVE  Owned' /\ (Isolated => Isolated')
<1> DEFINE r == Head(conn.wire)
<1>1. conn \in SoundConnection
  BY Given
<1>2. /\ conn.link = "ready" /\ conn.wire # <<>> /\ conn' = Execute(conn, ok)
      /\ residue' = Executed(r, ok)
      /\ UNCHANGED <<lease, locking, tracked, work, final, cleanups, phase>>
  BY DEF GuestExecutes, Execute
<1>3. /\ conn' \in SoundConnection /\ r = conn.wire[1] /\ 1 \in DOMAIN conn.wire
      /\ \E f, g :
           /\ Moved(conn, conn', f, g)
           /\ \A i \in DOMAIN conn'.wire : f[i] # 1
           /\ \A i \in DOMAIN conn'.answers \ DOMAIN conn.answers : g[i] = 1
  BY <1>1, <1>2, ExecuteStep
<1>4. PICK f, g :
           /\ Moved(conn, conn', f, g)
           /\ \A i \in DOMAIN conn'.wire : f[i] # 1
           /\ \A i \in DOMAIN conn'.answers \ DOMAIN conn.answers : g[i] = 1
  BY <1>3
<1>5. r \in SoundRequest /\ r \in Sent(conn) /\ r \in Elements(conn.wire)
  BY <1>1, <1>3, ConnectionParts DEF Elements
<1>6. r.kind = "abort" <=> r.job # "op"
  BY <1>5 DEF Owned, Exclusively
<1> HIDE DEF r
<1>7. residue \in [held : SUBSET Sessions, terms : SUBSET Sessions]
  BY DEF Inv, Rest
<1>8. residue'.held \cup residue'.terms \subseteq residue.held \cup residue.terms \cup OpsOn(conn)
  <2>1. CASE r.kind = "abort"
    BY <1>2, <2>1 DEF Executed, NoResidue
  <2>2. CASE r.kind # "abort"
    <3>1. r.by \in OpsOn(conn) /\ r.kind \in OpKinds
      BY <1>5, <1>6, <2>2 DEF OpsOn, SoundRequest, Request
    <3>2. QED
      BY <1>2, <1>7, <2>2, <3>1 DEF Executed, OpKinds
  <2>3. QED
    BY <2>1, <2>2
<1>9. (\E x \in Sent(conn) : x \in Starting) => residue' = NoResidue
  <2>1. SUFFICES ASSUME \E x \in Sent(conn) : x \in Starting PROVE r.kind = "abort"
    BY <1>2 DEF Executed
  <2>2. QED
    BY <1>5, <1>6, <2>1 DEF Inv, Net, StartAlone
<1>10. ASSUME Clear(conn, residue) PROVE Clear(conn', residue')
  <2>1. \A i \in DOMAIN conn'.wire : f[i] \in DOMAIN conn.wire /\ conn'.wire[i] = conn.wire[f[i]] /\ f[i] # 1
    BY <1>4 DEF Moved
  <2>2. \A i, j \in DOMAIN conn'.wire : i < j => f[i] < f[j]
    BY <1>4 DEF Moved
  <2>3. \A i, j \in DOMAIN conn'.wire : i < j /\ conn'.wire[i] \in Aborting => conn'.wire[j].job # "op"
    BY <1>10, <2>1, <2>2 DEF Clear
  <2>4. ASSUME NEW i \in DOMAIN conn'.answers, conn'.answers[i].req \in Aborting
        PROVE  residue' = NoResidue /\ \A j \in DOMAIN conn'.wire : conn'.wire[j].job # "op"
    <3>1. CASE i \in DOMAIN conn.answers
      <4>1. conn'.answers[i] = conn.answers[i]
        BY <1>4, <3>1 DEF Moved
      <4>2. residue = NoResidue /\ \A j \in DOMAIN conn.wire : conn.wire[j].job # "op"
        BY <1>10, <2>4, <3>1, <4>1 DEF Clear
      <4>3. r.kind = "abort"
        BY <1>3, <1>6, <4>2
      <4>4. QED
        BY <1>2, <2>1, <4>2, <4>3 DEF Executed
    <3>2. CASE i \notin DOMAIN conn.answers
      <4>1. conn'.answers[i].req = r
        <5>1. i \in DOMAIN conn'.answers \ DOMAIN conn.answers
          BY <2>4, <3>2
        <5>2. g[i] = 1
          BY <1>4, <5>1
        <5>3. conn'.answers[i].req = conn.wire[g[i]]
          BY <1>4, <5>1 DEF Moved
        <5>4. QED
          BY <1>3, <5>2, <5>3
      <4>2. r.kind = "abort" /\ r \in Aborting
        BY <2>4, <4>1 DEF Aborting
      <4>3. DOMAIN conn.wire \subseteq Nat /\ \A j \in DOMAIN conn.wire : j # 1 => 1 < j
        BY <1>1, ConnectionParts, LenProperties
      <4>4. \A j \in DOMAIN conn.wire : j # 1 => conn.wire[j].job # "op"
        BY <1>3, <1>10, <4>2, <4>3 DEF Clear
      <4>5. QED
        BY <1>2, <2>1, <4>2, <4>4 DEF Executed
    <3>3. QED
      BY <3>1, <3>2
  <2>5. QED
    BY <2>3, <2>4 DEF Clear
<1>11. QED
  BY <1>2, <1>4, <1>8, <1>9, <1>10, GuestExclusive

\* A request arrives while the guest runs another one.
LEMMA InterruptedExclusive ==
    ASSUME Inv, Awaits, Owned, Inv', GuestInterrupted
    PROVE  Owned' /\ (Isolated => Isolated')
<1> DEFINE r == conn.wire[2]
<1>1. conn \in SoundConnection
  BY Given
<1>2. /\ conn.link = "ready" /\ Len(conn.wire) > 1 /\ conn.wire[1].kind # "abort"
      /\ UNCHANGED <<lease, locking, tracked, work, final, cleanups, phase>>
      /\ residue' = IF r.kind = "abort" THEN NoResidue ELSE residue
      /\ r.kind = "abort" => conn' = Overtake(conn)
      /\ r.kind # "abort" => conn' = TurnAway(conn)
  BY DEF GuestInterrupted, Overtake, TurnAway
<1>3. /\ 1 \in DOMAIN conn.wire /\ 2 \in DOMAIN conn.wire
      /\ DOMAIN conn.wire \subseteq Nat
  BY <1>1, <1>2, ConnectionParts, LenProperties
<1>4. conn.wire[1].job = "op"
  <2>1. conn.wire[1] \in Sent(conn)
    BY <1>1, <1>3, ConnectionParts
  <2>2. QED
    BY <1>2, <2>1 DEF Owned, Exclusively
<1>5. NoResidue.held = {} /\ NoResidue.terms = {}
  BY DEF NoResidue
<1>6. ~ \E x \in Sent(conn) : x \in Starting
  <2>1. conn.wire[1] \in Sent(conn)
    BY <1>1, <1>3, ConnectionParts
  <2>2. QED
    BY <1>4, <2>1 DEF Inv, Net, StartAlone
<1>7. residue'.held \cup residue'.terms \subseteq residue.held \cup residue.terms \cup OpsOn(conn)
  BY <1>2, <1>5
\* An answer to the abort is never behind a running operation.
<1>8. ASSUME Clear(conn, residue), NEW i \in DOMAIN conn.answers PROVE conn.answers[i].req \notin Aborting
  BY <1>3, <1>4, <1>8 DEF Clear
<1>9. ASSUME NEW f, NEW g, Moved(conn, conn', f, g), Clear(conn, residue),
             \A i \in DOMAIN conn'.answers \ DOMAIN conn.answers : conn.wire[g[i]] \in Aborting =>
                residue' = NoResidue /\ \A j \in DOMAIN conn'.wire : conn'.wire[j].job # "op"
      PROVE  Clear(conn', residue')
  <2>1. /\ \A i \in DOMAIN conn'.wire : f[i] \in DOMAIN conn.wire /\ conn'.wire[i] = conn.wire[f[i]]
        /\ \A i, j \in DOMAIN conn'.wire : i < j => f[i] < f[j]
    BY <1>9 DEF Moved
  <2>2. \A i, j \in DOMAIN conn'.wire : i < j /\ conn'.wire[i] \in Aborting => conn'.wire[j].job # "op"
    BY <1>9, <2>1 DEF Clear
  <2>3. ASSUME NEW i \in DOMAIN conn'.answers, conn'.answers[i].req \in Aborting
        PROVE  residue' = NoResidue /\ \A j \in DOMAIN conn'.wire : conn'.wire[j].job # "op"
    <3>1. i \notin DOMAIN conn.answers
      BY <1>8, <1>9, <2>3 DEF Moved
    <3>2. conn'.answers[i].req = conn.wire[g[i]]
      BY <1>9, <2>3, <3>1 DEF Moved
    <3>3. QED
      BY <1>9, <2>3, <3>1, <3>2
  <2>4. QED
    BY <2>2, <2>3 DEF Clear
<1>10. CASE r.kind = "abort"
  <2>1. PICK f, g :
           /\ Moved(conn, conn', f, g)
           /\ \A i \in DOMAIN conn'.wire : f[i] > 2
           /\ \A i \in DOMAIN conn'.answers \ DOMAIN conn.answers : g[i] \in {1, 2}
    BY <1>1, <1>2, <1>10, OvertakeStep
  <2>2. ASSUME Clear(conn, residue) PROVE Clear(conn', residue')
    <3>1. ASSUME NEW i \in DOMAIN conn'.answers \ DOMAIN conn.answers, conn.wire[g[i]] \in Aborting
          PROVE  \A j \in DOMAIN conn'.wire : conn'.wire[j].job # "op"
      <4>1. g[i] = 2
        BY <1>2, <2>1, <3>1 DEF Aborting
      <4>2. SUFFICES ASSUME NEW j \in DOMAIN conn'.wire PROVE conn'.wire[j].job # "op"
        OBVIOUS
      <4>3. f[j] \in DOMAIN conn.wire /\ conn'.wire[j] = conn.wire[f[j]] /\ 2 < f[j]
        BY <1>3, <2>1 DEF Moved
      <4>4. QED
        BY <1>3, <2>2, <3>1, <4>1, <4>3 DEF Clear
    <3>2. QED
      BY <1>2, <1>9, <1>10, <2>1, <2>2, <3>1
  <2>3. QED
    BY <1>2, <1>6, <1>7, <2>1, <2>2, GuestExclusive
<1>11. CASE r.kind # "abort"
  <2>1. PICK f, g :
           /\ Moved(conn, conn', f, g)
           /\ \A i \in DOMAIN conn'.answers \ DOMAIN conn.answers : g[i] = 2
    BY <1>1, <1>2, <1>11, TurnAwayStep
  <2>2. r \notin Aborting
    BY <1>11 DEF Aborting
  <2>3. ASSUME Clear(conn, residue) PROVE Clear(conn', residue')
    BY <1>9, <2>1, <2>2, <2>3
  <2>4. QED
    BY <1>2, <1>6, <1>7, <2>1, <2>3, GuestExclusive
<1>12. QED
  BY <1>10, <1>11

\* The lease at the end of a cleanup.
LEMMA FreedFate ==
    ASSUME Inv, cleanups # <<>>, NEW l, LeaseOK(l), NEW sanitized \in BOOLEAN
    PROVE  LET n == Freed(l, sanitized)
               mine == l.owner = Head(cleanups).session /\ Head(cleanups).release
           IN  /\ mine => ~n.due
               /\ l.owner # None /\ ~mine => n.owner = l.owner /\ n.due = l.due
               /\ l.owner = None /\ n.due => l.due /\ n.owner = None
<1> DEFINE s == Head(cleanups).session
           m == IF Head(cleanups).release THEN Release(l, s) ELSE l
           n == Freed(l, sanitized)
<1>1. s \in Sessions
  BY FirstCleanup
<1>2. LeaseOK(m)
  BY <1>1, ReleaseOK
<1>3. /\ l.owner = s /\ Head(cleanups).release => ~m.due
      /\ ~(l.owner = s /\ Head(cleanups).release) => m.owner = l.owner /\ m.due = l.due
  BY <1>1, ReleaseFate DEF Same
<1>4. n = IF sanitized THEN SetBlocked(m, FALSE) ELSE m
  BY DEF Freed
<1> HIDE DEF m, n
<1>5. \/ n.owner = m.owner /\ n.due = m.due
      \/ m.owner = None /\ n.owner \in Sessions /\ ~n.due
  BY <1>2, <1>4, SetBlockedFate
<1>6. QED
  BY <1>3, <1>5, NoneAssumption DEF n

\* The end of a cleanup in exclusive mode: what becomes of the owner and of the chain.
LEMMA EndFate ==
    ASSUME Inv, Owned, cleanups # <<>>, NEW c, NEW l, LeaseOK(l), NEW sanitized \in BOOLEAN,
           EndExclusive(c, l, sanitized), l.owner = lease.owner, l.due => lease.due
    PROVE  LET job == Head(cleanups)
               mine == lease.owner = job.session /\ job.release
           IN  /\ phase' = "idle"
               /\ \A s \in Sessions :
                     work'[s] = IF (s = job.session /\ job.awaited) \/ s \in Returned(c)
                                THEN "idle" ELSE work[s]
               /\ \A t : Behind(cleanups, t) => Waits(cleanups', t)
               /\ lease'.due => lease'.owner # None /\ lease.due /\ ~mine
               /\ lease.owner # None /\ ~mine =>
                     \/ lease'.owner = lease.owner
                     \/ /\ lease.due /\ lease'.owner = None /\ lease'.blocked
                        /\ Waits(cleanups', lease.owner)
<1> DEFINE job == Head(cleanups)
           mine == lease.owner = job.session /\ job.release
           n == Freed(l, sanitized)
           answers == job.reply \/ Returned(c) # {}
           t == Tail(cleanups)
<1>1. lease.due => lease.owner # None
  BY Given
<1>2. LeaseOK(n) /\ EndCleanup(c, n)
  BY FreedOK
<1>3. /\ mine => ~n.due
      /\ lease.owner # None /\ ~mine => n.owner = lease.owner /\ n.due = l.due
      /\ lease.owner = None /\ n.due => l.due /\ n.owner = None
  BY FreedFate
<1> HIDE DEF n
<1>4. /\ Consumed(IF answers THEN ExpireIfDue(n) ELSE n, lease')
      /\ cleanups' = IF answers THEN Noting(t, n) ELSE t
      /\ t \in Seq(Cleanup)
      /\ phase' = "idle"
      /\ \A s \in Sessions :
            work'[s] = IF (s = job.session /\ job.awaited) \/ s \in Returned(c)
                       THEN "idle" ELSE work[s]
  BY <1>2, EndCleanupStep
<1>5. \A x : Behind(cleanups, x) <=> Waits(t, x)
  <2>1. \A x \in Sessions : work[x] \in Stopped => work[x] = work[x]
    OBVIOUS
  <2>2. QED
    BY <2>1, LeaveChain DEF Inv, Rest
<1>6. \A x : Waits(Noting(t, n), x) <=> Waits(t, x) \/ (Expires(n) /\ x = n.owner)
  BY <1>2, <1>4, NotingChain
<1>7. \A x : Behind(cleanups, x) => Waits(cleanups', x)
  BY <1>4, <1>5, <1>6
<1>8. lease'.due => lease'.owner # None /\ lease.due /\ ~mine
  <2>1. n.due => n.owner # None /\ lease.due /\ ~mine
    BY <1>1, <1>3
  <2>2. QED
    BY <1>2, <1>4, <2>1 DEF Consumed, ExpireIfDue, Expires, LeaseOK, LeaseState
<1>9. lease.owner # None /\ ~mine =>
         \/ lease'.owner = lease.owner
         \/ /\ lease.due /\ lease'.owner = None /\ lease'.blocked
            /\ Waits(cleanups', lease.owner)
  <2>1. SUFFICES ASSUME lease.owner # None, ~mine
                 PROVE  \/ lease'.owner = lease.owner
                        \/ /\ lease.due /\ lease'.owner = None /\ lease'.blocked
                           /\ Waits(cleanups', lease.owner)
    OBVIOUS
  <2>2. n.owner = lease.owner /\ n.due = l.due
    BY <1>3, <2>1
  <2>3. CASE answers /\ Expires(n)
    <3>1. ExpireIfDue(n).owner = None /\ ExpireIfDue(n).blocked
      BY <1>2, <2>3 DEF ExpireIfDue, LeaseOK, LeaseState
    <3>2. QED
      BY <1>4, <1>6, <2>2, <2>3, <3>1 DEF Consumed, Expires
  <2>4. CASE ~(answers /\ Expires(n))
    <3>1. (IF answers THEN ExpireIfDue(n) ELSE n) = n
      BY <2>4 DEF ExpireIfDue
    <3>2. QED
      BY <1>4, <2>2, <3>1 DEF Consumed
  <2>5. QED
    BY <2>3, <2>4
<1>10. QED
  BY <1>4, <1>7, <1>8, <1>9

\* A cleanup ends: its owner's lease is free, and handed over only with a clean guest.
LEMMA EndKeepsOwned ==
    ASSUME Inv, Awaits, Owned, Inv', cleanups # <<>>, NEW c \in SoundConnection, Lessens(c),
           conn' = c \/ conn' = Destroyed(c),
           NEW l, LeaseOK(l), NEW sanitized \in BOOLEAN, EndExclusive(c, l, sanitized),
           l.owner = lease.owner, l.due => lease.due,
           UNCHANGED <<locking, residue, final>>,
           (phase = "abort" /\ tracked' = tracked) \/ tracked' = tracked \ {Head(cleanups).session},
           \/ conn'.link # "ready"
           \/ Isolated /\ MayFree => residue = NoResidue /\ OpsOn(c) = {}
    PROVE  Owned' /\ (Isolated => Isolated')
<1> DEFINE job == Head(cleanups)
           mine == lease.owner = job.session /\ job.release
<1>1. conn \in SoundConnection /\ work \in [Sessions -> Works] /\ locking
  BY Given
<1>2. /\ Sent(conn') = Sent(c) /\ OpsOn(conn') = OpsOn(c) /\ conn'.advisory = c.advisory
      /\ conn'.link = "ready" => conn' = c
  BY DestroyedStep DEF OpsOn
<1>3. /\ phase' = "idle"
      /\ \A s \in Sessions :
            work'[s] = IF (s = job.session /\ job.awaited) \/ s \in Returned(c)
                       THEN "idle" ELSE work[s]
      /\ \A t : Behind(cleanups, t) => Waits(cleanups', t)
      /\ lease'.due => lease'.owner # None /\ lease.due /\ ~mine
      /\ lease.owner # None /\ ~mine =>
            \/ lease'.owner = lease.owner
            \/ /\ lease.due /\ lease'.owner = None /\ lease'.blocked
               /\ Waits(cleanups', lease.owner)
  BY EndFate
<1>4. /\ job = cleanups[1] /\ 1 \in DOMAIN cleanups /\ job.session \in Sessions
      /\ \A t : Waits(cleanups, t) <=> job.session = t \/ Behind(cleanups, t)
  <2>1. cleanups \in Seq(Cleanup)
    BY DEF Inv, Rest
  <2>2. \A x \in Sessions : work[x] \in Stopped => work[x] = work[x]
    OBVIOUS
  <2>3. QED
    BY <2>1, <2>2, FirstCleanup, Tailed, LeaveChain
<1> HIDE DEF job
<1>5. /\ job.release => job.awaited
      /\ job.awaited => work[job.session] \in Stopped
  BY <1>4 DEF Awaits, AwaitOK
<1>6. Exclusively(conn, residue)'
  <2>1. \A x \in Sent(c) : x \in Starting => x \in Sent(conn)
    BY DEF Lessens, Starting
  <2>2. c.link \in {conn.link, "destroyed", "none"} /\ c.advisory = <<>>
    BY DEF Lessens
  <2>3. conn'.link = "hello" => conn.link = "hello"
    BY <2>2, DestroyedStep
  <2>4. \A x \in Sent(c) : x.kind = "abort" <=> x.job # "op"
    BY DEF Lessens
  <2>5. QED
    BY <1>2, <2>1, <2>2, <2>3, <2>4 DEF Owned, Exclusively
<1>7. Settings'
  BY <1>3 DEF Owned, Settings
<1>8. OpOwned'
  <2>1. SUFFICES ASSUME NEW r \in Sent(c), r.live, r.job = "op"
                 PROVE  lease'.owner = r.by /\ ~lease'.due /\ work'[r.by] = "op"
    BY <1>2, <1>3 DEF OpOwned
  <2>2. r \in Sent(conn)
    BY <2>1 DEF Lessens
  <2>3. r \in SoundRequest
    BY <1>1, <2>2, ConnectionParts
  <2>4. /\ r.by \in Sessions /\ lease.owner = r.by /\ ~lease.due /\ work[r.by] = "op"
        /\ r.by \notin Returned(c)
    BY <2>1, <2>2, <2>3 DEF SoundRequest, Owned, OpOwned, Returned
  <2>5. ~(r.by = job.session /\ job.awaited)
    BY <1>5, <2>4 DEF Stopped
  <2>6. QED
    BY <1>3, <1>5, <2>4, <2>5, NoneAssumption
<1>9. TrackedByOwner'
  <2>1. SUFFICES ASSUME NEW t \in tracked'
                 PROVE  lease'.owner = t \/ final[t] # "none" \/ Waits(cleanups', t)
    BY DEF TrackedByOwner, CleanupPending, Waits
  <2>2. t \in tracked /\ t \in Sessions
    BY <2>1 DEF Inv, Rest
  <2>3. \/ lease.owner = t /\ ~mine
        \/ final[t] # "none"
        \/ Behind(cleanups, t)
    <3>1. CASE t = job.session
      BY <2>1, <2>2, <3>1 DEF Owned, Retracked, job
    <3>2. CASE t # job.session
      BY <1>1, <1>4, <2>2, <3>2 DEF Owned, TrackedByOwner, CleanupPending, Waits
    <3>3. QED
      BY <3>1, <3>2
  <2>4. QED
    BY <1>3, <2>2, <2>3, NoneAssumption
<1>10. Retracked'
  BY <1>3 DEF Retracked
<1>11. ASSUME Isolated PROVE Isolated'
  <2>1. DueIsCleaned'
    <3>1. lease.due => mine
      BY <1>11 DEF Isolated, DueIsCleaned, job
    <3>2. QED
      BY <1>3, <3>1 DEF DueIsCleaned
  <2>2. AbortClears'
    BY <1>3 DEF AbortClears
  <2>3. Isolation'
    <3>1. SUFFICES ASSUME conn'.link = "ready",
                          NEW s \in residue.held \cup residue.terms \cup OpsOn(c)
                   PROVE  lease'.owner = s \/ (lease'.owner = None /\ lease'.blocked)
      BY <1>2 DEF Isolation, OpsOn
    <3>2. ~MayFree
      BY <1>11, <3>1 DEF NoResidue
    <3>3. lease.owner # None /\ ~mine
      BY <3>2 DEF MayFree, job
    <3>4. s \in residue.held \cup residue.terms \cup OpsOn(conn) /\ conn.link = "ready"
      BY <1>2, <3>1 DEF Lessens
    <3>5. lease.owner = s
      BY <1>1, <1>11, <3>3, <3>4 DEF Isolated, Isolation, OpsOn
    <3>6. QED
      BY <1>3, <3>3, <3>5
  <2>4. QED
    BY <2>1, <2>2, <2>3 DEF Isolated
<1>12. QED
  BY <1>6, <1>7, <1>8, <1>9, <1>10, <1>11 DEF Owned

\* The guest answers the abort of a cleanup, or does not in time.
LEMMA AbortReturnsExclusive ==
    ASSUME Inv, Awaits, Owned, Inv', NEW r \in Sent(conn), NEW ok \in BOOLEAN, AbortReturns(r, ok)
    PROVE  Owned' /\ (Isolated => Isolated')
<1>1. LeaseOK(lease) /\ conn \in SoundConnection /\ conn.advisory = <<>>
  BY Given
<1>2. PICK c \in Settled(r, ok) :
         conn' = (IF ok THEN c ELSE Destroyed(c)) /\ EndExclusive(c, lease, ok)
  BY DEF AbortReturns
<1>3. /\ r.job = "cleanup" /\ r.kind = "abort" /\ r.live
      /\ UNCHANGED <<locking, residue, tracked, final>>
  BY DEF AbortReturns
<1>4. r \in Aborting /\ r \in Known(conn)
  <2>1. r \in SoundRequest
    BY <1>1, ConnectionParts
  <2>2. QED
    BY <1>3, <2>1 DEF Aborting, Known
<1>5. phase = "abort" /\ cleanups # <<>>
  BY <1>3, <1>4 DEF Inv, Net, Cleaners, Rest
<1>6. c \in SoundConnection /\ Lessens(c)
  BY <1>1, SettledStep, LessensSettled DEF Settlement, Inv, Net
<1>7. CASE ok
  <2>1. /\ conn.answers # <<>> /\ Head(conn.answers) = [req |-> r, ok |-> ok]
        /\ c = NextAdvisory([conn EXCEPT !.answers = Tail(@)])
    BY <1>7 DEF Settled
  <2>2. /\ Answered(conn).advisory = <<>> /\ Answered(conn).wire = conn.wire
        /\ Head(conn.answers) = conn.answers[1] /\ 1 \in DOMAIN conn.answers
    BY <1>1, <2>1, AnsweredStep, ConnectionParts, Tailed
  <2>3. c = Answered(conn)
    BY <2>1, <2>2 DEF NextAdvisory, Answered
  <2>4. Isolated /\ MayFree => residue = NoResidue /\ OpsOn(c) = {}
    <3>1. SUFFICES ASSUME Clear(conn, residue) PROVE residue = NoResidue /\ OpsOn(c) = {}
      BY <1>5 DEF Isolated, AbortClears
    <3>2. conn.answers[1].req \in Aborting
      BY <1>4, <2>1, <2>2
    <3>3. residue = NoResidue /\ \A j \in DOMAIN conn.wire : conn.wire[j].job # "op"
      BY <2>2, <3>1, <3>2 DEF Clear
    <3>4. QED
      BY <2>2, <2>3, <3>3 DEF OpsOn, Elements
  <2>5. QED
    BY <1>1, <1>2, <1>3, <1>5, <1>6, <1>7, <2>4, EndKeepsOwned
<1>8. CASE ~ok
  <2>1. conn' = Destroyed(c) /\ conn'.link # "ready"
    BY <1>2, <1>6, <1>8, DestroyedStep
  <2>2. QED
    BY <1>1, <1>2, <1>3, <1>5, <1>6, <2>1, EndKeepsOwned
<1>9. QED
  BY <1>7, <1>8

\* The connection closes while a cleanup waits for the guest.
LEMMA ClosesInAbortExclusive ==
    ASSUME Inv, Awaits, Owned, Inv', GuestCloses, phase = "abort"
    PROVE  Owned' /\ (Isolated => Isolated')
<1> DEFINE l == LeaseAfter(NoGuest)
<1>1. /\ conn' = NoGuest /\ EndExclusive(NoGuest, l, FALSE)
      /\ UNCHANGED <<locking, residue, final, tracked>>
  BY DEF GuestCloses
<1>2. LeaseOK(l) /\ l.owner = lease.owner /\ (l.due => lease.due) /\ cleanups # <<>>
  BY Given, LeaseAfterStep DEF Inv, Rest
<1> HIDE DEF l
<1>3. NoGuest \in SoundConnection /\ NoGuest.link = "none" /\ Lessens(NoGuest)
  BY EmptyConnection, LessensTrivially
<1>4. QED
  BY <1>1, <1>2, <1>3, EndKeepsOwned

\* A cleanup goes on to the guest, or ends without one.
LEMMA AbortInGuestExclusive ==
    ASSUME Inv, Awaits, Owned, Inv', cleanups # <<>>, phase \in {"idle", "transfers"},
           NEW l, LeaseOK(l), l.owner = lease.owner, l.due = lease.due, l.call = lease.call,
           lease.blocked => l.blocked,
           AbortInGuest(l), UNCHANGED <<locking, residue, final>>
    PROVE  Owned' /\ (Isolated => Isolated')
<1> DEFINE s == Head(cleanups).session
           r == NewRequest("abort", s, "cleanup")
<1>1. conn \in SoundConnection /\ locking = TRUE /\ s \in Sessions
  BY Given, FirstCleanup, BrokerAssumption DEF Inv, Rest
<1>2. tracked' = tracked \ {s} /\ conn' = GuestRequest(conn, "abort", s, "cleanup")
  BY DEF AbortInGuest
<1>3. conn' = RequestNow(conn, r) /\ r \in SoundRequest
  BY <1>1, <1>2 DEF GuestRequest, NewRequest, SoundRequest, Request
<1>4. r.kind = "abort" /\ r.job = "cleanup" /\ r \notin Starting
  BY NewRequestFields DEF Starting
<1> HIDE DEF r
<1>5. CASE conn.link # "ready"
  <2>1. conn' = conn
    BY <1>3, <1>5 DEF RequestNow
  <2>2. EndExclusive(conn, l, FALSE)
    BY <1>5 DEF AbortInGuest
  <2>3. Lessens(conn)
    BY LessensTrivially
  <2>4. QED
    BY <1>1, <1>2, <1>5, <2>1, <2>2, <2>3, EndKeepsOwned
<1>6. CASE conn.link = "ready"
  <2>1. SetLease(l) /\ phase' = "abort" /\ UNCHANGED <<work, cleanups>>
    BY <1>6 DEF AbortInGuest
  <2>2. /\ lease'.owner = lease.owner /\ lease'.due = lease.due
        /\ lease.blocked => lease'.blocked
        /\ \A t \in Sessions : Idle(t)' => Idle(t)
    BY <2>1, SetLeaseStep DEF Consumed, Idle
  <2>3. /\ conn'.link = conn.link /\ conn'.advisory = conn.advisory
        /\ conn'.answers = conn.answers
        /\ conn'.wire = Append(conn.wire, r) /\ Sent(conn') = Sent(conn) \cup {r}
    <3>1. conn.advisory \in Seq(InChain)
      BY <1>1, ConnectionParts
    <3>2. conn' = Send(conn, r, conn.advisory)
      <4>1. conn' = [conn EXCEPT !.wire = Append(@, r)]
        BY <1>3, <1>6 DEF RequestNow
      <4>2. QED
        BY <1>1, <4>1 DEF Send, SoundConnection
    <3>3. QED
      BY <1>1, <1>3, <3>1, <3>2, SendStep
  <2>4. /\ Len(conn.wire) \in Nat /\ DOMAIN conn.wire = 1..Len(conn.wire)
        /\ DOMAIN conn'.wire = 1..(Len(conn.wire) + 1)
        /\ \A i \in 1..Len(conn.wire) : conn'.wire[i] = conn.wire[i]
        /\ Elements(conn'.wire) = Elements(conn.wire) \cup {r}
    <3>1. conn.wire \in Seq(SoundRequest)
      BY <1>1, ConnectionParts
    <3>2. QED
      BY <1>3, <2>3, <3>1, Appended
  <2>5. OpsOn(conn') = OpsOn(conn)
    BY <1>4, <2>4 DEF OpsOn
  <2>6. Exclusively(conn, residue)' /\ OpOwned'
    BY <1>4, <2>1, <2>2, <2>3 DEF Owned, Exclusively, OpOwned
  <2>7. TrackedByOwner' /\ Retracked'
    BY <1>2, <2>1, <2>2, StillExclusive
  <2>8. Settings'
    BY <2>1 DEF Owned, Settings
  <2>9. ASSUME Isolated PROVE Isolated'
    <3>1. DueIsCleaned'
      BY <2>1, <2>2, <2>9 DEF Isolated, DueIsCleaned
    <3>2. Clear(conn', residue)
      <4>1. \A x \in Sent(conn) : x \notin Aborting
        BY NothingAwaited DEF NoneOf
      <4>2. \A i \in DOMAIN conn.wire : conn.wire[i] \notin Aborting
        BY <1>1, <4>1, ConnectionParts
      <4>3. \A i \in DOMAIN conn.answers : conn.answers[i].req \notin Aborting
        BY <1>1, <4>1, ConnectionParts
      <4>4. \A i, j \in DOMAIN conn'.wire : i < j => conn'.wire[i] \notin Aborting
        BY <2>4, <4>2
      <4>5. QED
        BY <2>3, <4>3, <4>4 DEF Clear
    <3>3. AbortClears'
      BY <3>2 DEF AbortClears
    <3>4. Isolation'
      BY <2>2, <2>3, <2>5, <2>9 DEF Isolated, Isolation, OpsOn
    <3>5. QED
      BY <3>1, <3>3, <3>4 DEF Isolated
  <2>10. QED
    BY <2>6, <2>7, <2>8, <2>9 DEF Owned
<1>7. QED
  BY <1>5, <1>6

\* The next cleanup starts, or has removed the partial files.
LEMMA CleanupExclusive ==
    ASSUME Inv, Awaits, Owned, Inv',
           TransfersAborted \/ \E partials \in BOOLEAN : StartCleanup(partials)
    PROVE  Owned' /\ (Isolated => Isolated')
<1> DEFINE l == SetBlocked(lease, TRUE)
<1>1. LeaseOK(lease) /\ locking = TRUE
  BY Given, BrokerAssumption DEF Inv, Rest
<1>2. /\ LeaseOK(l) /\ l.owner = lease.owner /\ l.due = lease.due /\ l.blocked
      /\ l.call = lease.call
  <2>1. LeaseOK(l) /\ l.owner = lease.owner /\ l.due = lease.due /\ l.blocked
    BY <1>1, SetBlockedOK, SetBlockedFate
  <2>2. l.call = lease.call
    BY <1>1 DEF SetBlocked, LeaseOK, LeaseState
  <2>3. QED
    BY <2>1, <2>2
<1>3. CASE TransfersAborted
  <2>1. phase = "transfers" /\ AbortInGuest(lease) /\ UNCHANGED <<locking, residue, final>>
    BY <1>3 DEF TransfersAborted, Owned, Settings
  <2>2. cleanups # <<>>
    BY <2>1 DEF Inv, Rest
  <2>3. QED
    BY <1>1, <2>1, <2>2, AbortInGuestExclusive
<1> HIDE DEF l
<1>4. ASSUME NEW partials \in BOOLEAN, StartCleanup(partials)
      PROVE  Owned' /\ (Isolated => Isolated')
  <2>1. cleanups # <<>> /\ phase = "idle" /\ UNCHANGED <<locking, residue, final>>
    BY <1>4 DEF StartCleanup
  <2>2. CASE partials
    <3>1. /\ phase' = "transfers" /\ SetLease(l)
          /\ UNCHANGED <<conn, tracked, work, cleanups>>
      BY <1>1, <1>4, <2>2 DEF StartCleanup, l
    <3>2. /\ lease'.owner = lease.owner /\ lease'.due = lease.due /\ lease'.blocked
          /\ \A t \in Sessions : Idle(t)' => Idle(t)
      BY <1>2, <3>1, SetLeaseStep DEF Consumed, Idle
    <3>3. TrackedByOwner' /\ Retracked'
      BY <2>1, <3>1, <3>2, StillExclusive
    <3>4. Exclusively(conn, residue)' /\ OpOwned' /\ Settings'
      BY <2>1, <3>1, <3>2 DEF Owned, OpOwned, Settings
    <3>5. ASSUME Isolated PROVE Isolated'
      <4>1. DueIsCleaned'
        BY <2>1, <3>1, <3>2, <3>5 DEF Isolated, DueIsCleaned
      <4>2. AbortClears'
        BY <3>1 DEF AbortClears
      <4>3. Isolation'
        BY <2>1, <3>1, <3>2, <3>5 DEF Isolated, Isolation
      <4>4. QED
        BY <4>1, <4>2, <4>3 DEF Isolated
    <3>6. QED
      BY <3>3, <3>4, <3>5 DEF Owned
  <2>3. CASE ~partials
    <3>1. AbortInGuest(l)
      BY <1>1, <1>4, <2>3 DEF StartCleanup, l
    <3>2. QED
      BY <1>2, <2>1, <3>1, AbortInGuestExclusive
  <2>4. QED
    BY <2>2, <2>3
<1>5. QED
  BY <1>3, <1>4

\* Nothing is left from the start.
LEMMA InitExclusive ==
    ASSUME Modes = {TRUE}, Init
    PROVE  Awaits /\ Owned /\ Isolated
<1>1. /\ lease = InitLease /\ locking = TRUE /\ conn = NoGuest /\ residue = NoResidue
      /\ tracked = {} /\ final = [s \in Sessions |-> "none"] /\ cleanups = <<>> /\ phase = "idle"
  BY DEF Init
<1>2. Sent(conn) = {} /\ conn.advisory = <<>> /\ conn.link = "none"
  BY <1>1, EmptyConnection
<1>3. ~lease.due
  BY <1>1 DEF InitLease
<1>4. Awaits
  <2>1. DOMAIN cleanups = {}
    BY <1>1
  <2>2. QED
    BY <2>1 DEF Awaits, AwaitOK
<1>5. Owned
  BY <1>1, <1>2, <1>3 DEF Owned, Exclusively, Settings, OpOwned, TrackedByOwner, Retracked
<1>6. Isolated
  BY <1>1, <1>2, <1>3 DEF Isolated, DueIsCleaned, AbortClears, Isolation
<1>7. QED
  BY <1>4, <1>5, <1>6

\* Every step keeps the invariant of exclusive mode; only the passing of time needs a
\* lease that outlasts cleanups, and only for the isolation of sessions.
LEMMA NextExclusive ==
    ASSUME Modes = {TRUE}, Inv, Awaits, Owned, Inv', [Next]_vars
    PROVE  Owned' /\ (LongLease /\ Isolated => Isolated')
<1>1. locking = TRUE /\ LeaseOK(lease)
  BY Given DEF Inv, Rest
<1>2. ASSUME NEW s \in Sessions, Session(s) PROVE Owned' /\ (Isolated => Isolated')
  BY <1>2, SessionExclusive, DisconnectedExclusive, UnlockExclusive, StartOperationExclusive,
     FinalExclusive DEF Session
<1>3. ASSUME NEW r \in Sent(conn), Settles(r) PROVE Owned' /\ (Isolated => Isolated')
  <2>1. ASSUME NEW ok \in BOOLEAN, CloseReturns(r, ok) PROVE FALSE
    BY <2>1 DEF CloseReturns, Owned, Exclusively
  <2>2. ASSUME NEW ok \in BOOLEAN, StartReturns(r, ok) PROVE Owned' /\ (Isolated => Isolated')
    <3>1. CASE ok = TRUE
      BY <2>2, <3>1, SanitizedExclusive
    <3>2. CASE ok = FALSE
      BY <2>2, <3>2, LinkExclusive
    <3>3. QED
      BY <3>1, <3>2
  <2>3. QED
    BY <1>3, <2>1, <2>2, OperationReturnsExclusive, AbortReturnsExclusive DEF Settles
<1>4. CASE GuestCloses
  BY <1>4, GuestClosesExclusive, ClosesInAbortExclusive
<1>5. CASE OwnerDue
  BY <1>5, DueExclusive
<1>6. CASE UNCHANGED vars
  <2>1. /\ UNCHANGED <<locking, conn, residue, tracked, phase, final, lease, cleanups, work>>
        /\ \A t \in Sessions : Idle(t)' => Idle(t)
    BY <1>6 DEF vars, Idle
  <2>2. QED
    BY <2>1, CallExclusive
<1>7. QED
  BY <1>2, <1>3, <1>4, <1>5, <1>6, SetLockingExclusive, CleanupExclusive, LinkExclusive,
     HelloExclusive, ExecutesExclusive, InterruptedExclusive, ExpirationExclusive
  DEF Next

\* The resources the broker believes open are the owner's, or a cleanup that will
\* forget them is on its way, in a broker that stays in exclusive mode.
THEOREM TrackedIsOwned ==
    ASSUME Modes = {TRUE}
    PROVE  Spec => []TrackedByOwner
<1>1. Init => Inv /\ Awaits /\ Owned
  BY InitInv, InitExclusive
<1>2. Inv /\ Awaits /\ Owned /\ [Next]_vars => (Inv /\ Awaits /\ Owned)'
  BY NextInv, NextAwaits, NextExclusive
<1>3. Owned => TrackedByOwner
  BY DEF Owned
<1>4. QED
  BY <1>1, <1>2, <1>3, PTL DEF Spec

\* What is in a connected guest, or on its way there, is the lease owner's, in a
\* broker that stays in exclusive mode and whose leases outlast cleanups.
THEOREM SessionsAreIsolated ==
    ASSUME Modes = {TRUE}, LongLease
    PROVE  Spec => []Isolation
<1>1. Init => Inv /\ Awaits /\ Owned /\ Isolated
  BY InitInv, InitExclusive
<1>2. Inv /\ Awaits /\ Owned /\ Isolated /\ [Next]_vars => (Inv /\ Awaits /\ Owned /\ Isolated)'
  BY NextInv, NextAwaits, NextExclusive
<1>3. Isolated => Isolation
  BY DEF Isolated
<1>4. QED
  BY <1>1, <1>2, <1>3, PTL DEF Spec

-----------------------------------------------------------------------------
(* Parallel mode *)

\* A session that waits for the guest is present or will be cleaned up.
Calling ==
    \A s \in Sessions : work[s] \in {"op", "polling"} => present[s] \/ final[s] # "none"

\* An operation that has not settled has a caller.
Called == \A r \in Known(conn) : r.live /\ r.job = "op" => work[r.by] = "op"

Parallel ==
    /\ ~locking
    /\ phase \in {"idle", "partials", "closing"}
    /\ Calling
    /\ Called
    /\ NoResourceOutlivesSession

\* What a step has to keep.
LEMMA ParallelFrame ==
    ASSUME Inv, Parallel, Inv', UNCHANGED locking, phase' \in {"idle", "partials", "closing"},
           \A t : Waits(cleanups, t) => Waits(cleanups', t) \/ t \notin tracked',
           \A t \in tracked' : t \in tracked \/ work[t] = "op",
           \A t \in Sessions : present[t] \/ final[t] # "none" =>
               \/ present'[t] \/ final'[t] # "none"
               \/ Waits(cleanups', t) /\ work'[t] \notin {"op", "polling"},
           \A t \in Sessions :
               work'[t] \in {"op", "polling"} => work[t] \in {"op", "polling"} \/ present[t],
           Called'
    PROVE  Parallel'
<1>1. Calling'
  BY DEF Parallel, Calling
<1>2. NoResourceOutlivesSession'
  <2>1. SUFFICES ASSUME NEW t \in tracked'
                 PROVE  present'[t] \/ final'[t] # "none" \/ Waits(cleanups', t)
    BY DEF NoResourceOutlivesSession, CleanupPending, Waits
  <2>2. t \in Sessions
    BY <2>1 DEF Inv, Rest
  <2>3. present[t] \/ final[t] # "none" \/ Waits(cleanups, t)
    BY <2>1, <2>2 DEF Parallel, NoResourceOutlivesSession, CleanupPending, Waits, Calling
  <2>4. QED
    BY <2>1, <2>2, <2>3
<1>3. QED
  BY <1>1, <1>2 DEF Parallel

\* Facts every step starts from.
LEMMA GivenParallel ==
    ASSUME Inv, Parallel
    PROVE  /\ LeaseOK(lease) /\ locking = FALSE /\ work \in [Sessions -> Works]
           /\ cleanups \in Seq(Cleanup) /\ conn \in SoundConnection
           /\ present \in [Sessions -> BOOLEAN]
           /\ final \in [Sessions -> {"none", "release", "keep"}]
           /\ \A r \in Known(conn) : r.live /\ r.job = "op" => r.by \in Sessions
<1>1. /\ LeaseOK(lease) /\ locking = FALSE /\ work \in [Sessions -> Works]
      /\ cleanups \in Seq(Cleanup) /\ conn \in SoundConnection
      /\ present \in [Sessions -> BOOLEAN]
      /\ final \in [Sessions -> {"none", "release", "keep"}]
  BY BrokerAssumption DEF Inv, Rest, Net, Parallel
<1>2. Known(conn) \subseteq SoundRequest
  BY <1>1, ConnectionParts, RequestSets DEF Known
<1>3. QED
  BY <1>1, <1>2 DEF SoundRequest

\* An expiry that is noticed adds a cleanup.
LEMMA AnswerWaits ==
    ASSUME Inv, Parallel, NEW l, LeaseOK(l),
           cleanups' = cleanups \/ cleanups' = Noting(cleanups, l)
    PROVE  \A t : Waits(cleanups, t) => Waits(cleanups', t)
<1>1. cleanups \in Seq(Cleanup) /\ \A s \in Sessions : work[s] \in Stopped => work[s] = work[s]
  BY GivenParallel
<1>2. \A t : Waits(Noting(cleanups, l), t) <=> Waits(cleanups, t) \/ (Expires(l) /\ t = l.owner)
  BY <1>1, NotingChain
<1>3. QED
  BY <1>2

\* Calls and timers that send nothing to the guest.
LEMMA CallParallel ==
    ASSUME Inv, Parallel, Inv', NEW l, LeaseOK(l),
           cleanups' = cleanups \/ cleanups' = Noting(cleanups, l),
           UNCHANGED <<locking, conn, tracked, final, phase>>,
           \A t \in Sessions : present[t] => present'[t],
           \A t \in Sessions : work[t] = "op" => work'[t] = "op",
           \A t \in Sessions :
               work'[t] \in {"op", "polling"} => work[t] \in {"op", "polling"} \/ present[t]
    PROVE  Parallel'
<1>1. \A t : Waits(cleanups, t) => Waits(cleanups', t)
  BY AnswerWaits
<1>2. Called'
  BY GivenParallel DEF Parallel, Called
<1>3. phase' \in {"idle", "partials", "closing"}
  BY DEF Parallel
<1>4. QED
  BY <1>1, <1>2, <1>3, ParallelFrame

\* What a session does or what happens to it.
LEMMA SessionParallel ==
    ASSUME Inv, Awaits, Parallel, Inv', NEW s \in Sessions, Session(s)
    PROVE  Parallel'
<1>1. /\ LeaseOK(lease) /\ locking = FALSE /\ work \in [Sessions -> Works]
      /\ cleanups \in Seq(Cleanup) /\ conn \in SoundConnection
      /\ present \in [Sessions -> BOOLEAN]
      /\ final \in [Sessions -> {"none", "release", "keep"}]
  BY GivenParallel
<1>2. ASSUME NEW l, LeaseOK(l), Answer(l),
             UNCHANGED <<locking, conn, tracked, final, phase, present>>,
             \A t \in Sessions : work'[t] = work[t] \/ (t = s /\ work[t] # "op" /\ work'[t] = "idle")
      PROVE  Parallel'
  <2>1. cleanups' = Noting(cleanups, l)
    BY <1>1, <1>2, AnswerStep
  <2>2. /\ \A t \in Sessions : work[t] = "op" => work'[t] = "op"
        /\ \A t \in Sessions : work'[t] \in {"op", "polling"} => work[t] \in {"op", "polling"}
    BY <1>2
  <2>3. QED
    BY <1>2, <2>1, <2>2, CallParallel
<1>3. CASE Connect(s)
  BY <1>1, <1>3, CallParallel DEF Connect
<1>4. CASE Disconnected(s)
  <2>1. /\ UNCHANGED <<locking, conn, tracked, work, cleanups, phase>>
        /\ final' = [final EXCEPT ![s] = IF lease.owner = s THEN "release" ELSE "keep"]
        /\ present' = [present EXCEPT ![s] = FALSE]
    BY <1>1, <1>4 DEF Disconnected
  <2>2. \A t \in Sessions : present[t] \/ final[t] # "none" => present'[t] \/ final'[t] # "none"
    BY <1>1, <2>1
  <2>3. Called' /\ phase' \in {"idle", "partials", "closing"}
    BY <2>1 DEF Parallel, Called
  <2>4. QED
    BY <2>1, <2>2, <2>3, ParallelFrame
<1>5. ASSUME NEW tm \in BOOLEAN, VmLock(s) \/ VmWait(s, tm) PROVE FALSE
  BY <1>1, <1>5 DEF VmLock, VmWait
<1>6. ASSUME NEW x \in Cleanup, x.session = s, cleanups' = Append(cleanups, x),
             work[s] = "idle", NEW v \in Stopped, work' = [work EXCEPT ![s] = v],
             UNCHANGED <<locking, conn, tracked, present, phase>>,
             final' = final \/ final' = [final EXCEPT ![s] = "none"]
      PROVE  Parallel'
  <2>1. \A t : Waits(cleanups', t) <=> Waits(cleanups, t) \/ s = t
    BY <1>1, <1>6, JoinWaits
  <2>2. /\ \A t \in Sessions : work[t] = "op" => work'[t] = "op"
        /\ \A t \in Sessions : work'[t] \in {"op", "polling"} => work[t] \in {"op", "polling"}
        /\ work'[s] \notin {"op", "polling"}
        /\ \A t \in Sessions : t # s => final'[t] = final[t]
    BY <1>1, <1>6 DEF Stopped
  <2>3. Called' /\ phase' \in {"idle", "partials", "closing"}
    BY <1>6, <2>2, GivenParallel DEF Parallel, Called
  <2>4. QED
    BY <1>6, <2>1, <2>2, <2>3, ParallelFrame
<1>7. ASSUME NEW force \in BOOLEAN, VmUnlock(s, force) PROVE Parallel'
  <2>1. work[s] = "idle" /\ UNCHANGED <<locking, conn, tracked, present, final, phase>>
    BY <1>7 DEF VmUnlock, Ready, Idle
  <2>2. CASE Answer(lease) /\ UNCHANGED work
    BY <1>1, <1>2, <2>1, <2>2
  <2>3. CASE /\ cleanups' = Append(cleanups, [session |-> s, release |-> locking,
                                              awaited |-> TRUE, reply |-> TRUE])
             /\ work' = [work EXCEPT ![s] = "unlock"]
    <3> DEFINE x == [session |-> s, release |-> locking, awaited |-> TRUE, reply |-> TRUE]
    <3>1. x \in Cleanup /\ x.session = s
      BY <1>1 DEF Cleanup
    <3>2. cleanups' = Append(cleanups, x) /\ "unlock" \in Stopped
      BY <2>3 DEF Stopped
    <3> HIDE DEF x
    <3>3. QED
      BY <1>6, <2>1, <2>3, <3>1, <3>2
  <2>4. QED
    BY <1>1, <1>7, <2>2, <2>3 DEF VmUnlock
<1>8. CASE StartFinal(s)
  <2> DEFINE x == [session |-> s, release |-> final[s] = "release", awaited |-> TRUE,
                   reply |-> FALSE]
  <2>1. x \in Cleanup /\ x.session = s /\ cleanups' = Append(cleanups, x)
    BY <1>8 DEF Cleanup, StartFinal
  <2> HIDE DEF x
  <2>2. /\ work[s] = "idle" /\ "cleaning" \in Stopped /\ work' = [work EXCEPT ![s] = "cleaning"]
        /\ final' = [final EXCEPT ![s] = "none"]
        /\ UNCHANGED <<locking, conn, tracked, present, phase>>
    BY <1>8 DEF StartFinal, Idle, Stopped
  <2>3. QED
    BY <1>6, <2>1, <2>2
<1>9. CASE CallOperation(s)
  <2>1. /\ UNCHANGED <<locking, conn, tracked, present, final, phase>>
        /\ work[s] = "idle" /\ present[s]
    BY <1>9 DEF CallOperation, Ready, Idle
  <2>2. CASE Answer(lease) /\ UNCHANGED work
    BY <1>1, <1>2, <2>1, <2>2
  <2>3. CASE work' = [work EXCEPT ![s] = "polling"] /\ UNCHANGED <<lease, cleanups>>
    <3>1. /\ \A t \in Sessions : work[t] = "op" => work'[t] = "op"
          /\ \A t \in Sessions :
                work'[t] \in {"op", "polling"} => work[t] \in {"op", "polling"} \/ present[t]
      BY <1>1, <2>1, <2>3
    <3>2. QED
      BY <1>1, <2>1, <2>3, <3>1, CallParallel
  <2>4. QED
    BY <1>9, <2>2, <2>3 DEF CallOperation
<1>10. CASE PollTimeout(s)
  <2>1. /\ Answer(lease) /\ UNCHANGED <<locking, conn, tracked, present, final, phase>>
        /\ work[s] = "polling" /\ work' = [work EXCEPT ![s] = "idle"]
    BY <1>10 DEF PollTimeout
  <2>2. \A t \in Sessions : work'[t] = work[t] \/ (t = s /\ work[t] # "op" /\ work'[t] = "idle")
    BY <1>1, <2>1
  <2>3. QED
    BY <1>1, <1>2, <2>1, <2>2
<1>11. CASE TicketTimer(s)
  <2>1. LeaseOK(ExpireTicket(lease, s))
    BY <1>1, <1>11, DropWaiterOK DEF TicketTimer, ExpireTicket
  <2>2. QED
    BY <1>2, <1>11, <2>1 DEF TicketTimer
<1>12. CASE WaitTimer(s)
  <2>1. Queued(lease, s)
    BY <1>1, <1>12 DEF WaitTimer, LeaseOK, Pending, Queued
  <2>2. LeaseOK(WaitTimedOut(lease, s))
    BY <1>1, <2>1, WaitTimedOutOK
  <2>3. QED
    BY <1>2, <1>12, <2>2 DEF WaitTimer
<1>13. ASSUME NEW kind \in Kinds, StartOperation(s, kind) PROVE Parallel'
  <2> DEFINE c == GuestRequest(conn, kind, s, "op")
             r == NewRequest(kind, s, "op")
  <2>1. /\ conn' = c /\ work' = [work EXCEPT ![s] = IF c = conn THEN "idle" ELSE "op"]
        /\ UNCHANGED <<locking, tracked, present, final, phase>>
        /\ cleanups' = cleanups \o <<>>
        /\ (work[s] = "idle" /\ present[s]) \/ work[s] = "polling"
    BY <1>1, <1>13 DEF StartOperation, Ready, Idle
  <2>2. kind \in OpKinds \cup {"abort"} /\ kind # "abort"
    BY BrokerAssumption DEF OpKinds
  <2>3. Requested(conn, c, r)
    BY <1>1, <2>2, RequestStep DEF Inv, Net
  <2>4. r.by = s /\ r.job = "op"
    BY NewRequestFields
  <2> HIDE DEF c, r
  <2>5. cleanups' = cleanups
    BY <1>1, <2>1, ConcatEmptySeq
  <2>6. Called'
    <3>1. SUFFICES ASSUME NEW x \in Known(conn'), x.live, x.job = "op" PROVE work'[x.by] = "op"
      BY DEF Called
    <3>2. CASE x \in Known(conn)
      <4>1. x.by \in Sessions /\ work[x.by] = "op"
        BY <3>1, <3>2, GivenParallel DEF Parallel, Called
      <4>2. QED
        BY <1>1, <2>1, <4>1
    <3>3. CASE x \notin Known(conn)
      <4>1. x = r /\ c # conn
        BY <2>1, <2>3, <3>1, <3>3 DEF Requested
      <4>2. QED
        BY <1>1, <2>1, <2>4, <4>1
    <3>4. QED
      BY <3>2, <3>3
  <2>7. \A t \in Sessions :
           work'[t] \in {"op", "polling"} => work[t] \in {"op", "polling"} \/ present[t]
    BY <1>1, <2>1
  <2>8. phase' \in {"idle", "partials", "closing"}
    BY <2>1 DEF Parallel
  <2>9. QED
    BY <2>1, <2>5, <2>6, <2>7, <2>8, ParallelFrame
<1>14. QED
  BY <1>3, <1>4, <1>5, <1>7, <1>8, <1>9, <1>10, <1>11, <1>12, <1>13 DEF Session

\* Connection c has no operation that has not settled and that is new.
NoNewOperation(c) == \A r \in Known(c) : r.live /\ r.job = "op" => r \in Known(conn)

\* Calls that have returned are no longer in the guest connection.
LEMMA CalledAfter ==
    ASSUME Inv, Parallel, NEW c, NoNewOperation(c), conn' = c,
           \A s \in Sessions : work[s] = "op" /\ s \notin Returned(c) => work'[s] = "op"
    PROVE  Called'
<1>1. SUFFICES ASSUME NEW r \in Known(c), r.live, r.job = "op" PROVE work'[r.by] = "op"
  BY DEF Called
<1>2. r.by \in Sessions /\ work[r.by] = "op"
  BY <1>1, GivenParallel DEF NoNewOperation, Parallel, Called
<1>3. r.by \notin Returned(c)
  BY <1>1 DEF Returned, Known
<1>4. QED
  BY <1>2, <1>3

\* The operations that settled are answered.
LEMMA ReturnedParallel ==
    ASSUME Inv, Parallel, Inv', NEW c, NoNewOperation(c), conn' = c, AnswerReturned(c),
           UNCHANGED <<locking, present, final, phase>>,
           \A t \in tracked' : t \in tracked \/ work[t] = "op"
    PROVE  Parallel'
<1>1. LeaseOK(lease) /\ work \in [Sessions -> Works]
  BY GivenParallel
<1>2. \A s \in Sessions : work'[s] = IF s \in Returned(c) THEN "idle" ELSE work[s]
  BY <1>1, WorkAfterStep DEF AnswerReturned
<1>3. LeaseOK(LeaseAfter(c)) /\ (cleanups' = cleanups \/ cleanups' = Noting(cleanups, LeaseAfter(c)))
  BY <1>1, LeaseAfterStep, AnswerReturnedStep DEF Answers
<1>4. \A t : Waits(cleanups, t) => Waits(cleanups', t)
  BY <1>3, AnswerWaits
<1>5. Called'
  BY <1>2, CalledAfter
<1>6. phase' \in {"idle", "partials", "closing"}
  BY DEF Parallel
<1>7. \A t \in Sessions : work'[t] \in {"op", "polling"} => work[t] \in {"op", "polling"}
  BY <1>2
<1>8. QED
  BY <1>4, <1>5, <1>6, <1>7, ParallelFrame

\* A cleanup ends: what it looked after is forgotten, and only its own caller goes on.
LEMMA EndsParallel ==
    ASSUME Inv, Awaits, Parallel, Inv', cleanups # <<>>, NEW c, NoNewOperation(c), conn' = c,
           NEW l, LeaseOK(l), EndParallel(c, l), UNCHANGED <<locking, present, final>>
    PROVE  Parallel'
<1> DEFINE job == Head(cleanups)
           q == Tail(cleanups)
<1>1. /\ job \in Cleanup /\ job = cleanups[1]
      /\ cleanups' = Noting(q, l) \/ cleanups' = q
      /\ q \in Seq(Cleanup) /\ phase' = "idle"
      /\ \A s \in Sessions :
            work'[s] = IF (s = job.session /\ job.awaited) \/ s \in Returned(c)
                       THEN "idle" ELSE work[s]
  BY EndCleanupStep DEF EndParallel
<1>2. tracked' = tracked \ {job.session}
  BY DEF EndParallel
<1>3. cleanups \in Seq(Cleanup) /\ \A s \in Sessions : work[s] \in Stopped =>
          work[s] = work[s] \/ (s = Head(cleanups).session /\ Head(cleanups).awaited)
  BY GivenParallel
<1>4. \A t : Waits(cleanups, t) => job.session = t \/ Waits(q, t)
  BY <1>3, LeaveChain
<1>5. job.awaited => work[job.session] \in Stopped
  <2>1. 1 \in DOMAIN cleanups
    BY <1>3, Tailed
  <2>2. QED
    BY <1>1, <2>1 DEF Awaits, AwaitOK
<1> HIDE DEF job, q
<1>6. \A t : Waits(q, t) => Waits(Noting(q, l), t)
  <2>1. \A s \in Sessions : work[s] \in Stopped => work[s] = work[s]
    OBVIOUS
  <2>2. \A t : Waits(Noting(q, l), t) <=> Waits(q, t) \/ (Expires(l) /\ t = l.owner)
    BY <1>1, <2>1, NotingChain
  <2>3. QED
    BY <2>2
<1>7. \A t : Waits(cleanups, t) => Waits(cleanups', t) \/ t \notin tracked'
  BY <1>1, <1>2, <1>4, <1>6
<1>8. Called'
  <2>1. \A s \in Sessions : work[s] = "op" /\ s \notin Returned(c) => work'[s] = "op"
    BY <1>1, <1>5 DEF Stopped
  <2>2. QED
    BY <2>1, CalledAfter
<1>9. \A t \in Sessions : work'[t] \in {"op", "polling"} => work[t] \in {"op", "polling"}
  BY <1>1
<1>10. \A t \in tracked' : t \in tracked
  BY <1>2
<1>11. phase' \in {"idle", "partials", "closing"}
  BY <1>1
<1>12. QED
  BY <1>7, <1>8, <1>9, <1>10, <1>11, ParallelFrame

\* Requests have settled.
LEMMA ResumeParallel ==
    ASSUME Inv, Awaits, Parallel, Inv', NEW c, NoNewOperation(c), conn' = c, Resume(c),
           UNCHANGED <<locking, present, final>>
    PROVE  Parallel'
<1>1. CASE /\ phase = "closing"
           /\ ~ \E r \in Sent(c) \cup Elements(c.advisory) : r.job = "cleanup" /\ r.live
  <2>1. cleanups # <<>> /\ LeaseOK(LeaseAfter(c)) /\ EndParallel(c, LeaseAfter(c))
    BY <1>1, LeaseAfterStep DEF Inv, Rest, Resume
  <2>2. QED
    BY <2>1, EndsParallel
<1>2. CASE ~ (/\ phase = "closing"
              /\ ~ \E r \in Sent(c) \cup Elements(c.advisory) : r.job = "cleanup" /\ r.live)
  <2>1. AnswerReturned(c) /\ UNCHANGED <<phase, tracked>>
    BY <1>2 DEF Resume
  <2>2. QED
    BY <2>1, ReturnedParallel
<1>3. QED
  BY <1>1, <1>2

\* A request that settles leaves no new operation behind.
LEMMA SettledOperations ==
    ASSUME Inv, NEW r \in Sent(conn), NEW ok \in BOOLEAN, NEW c \in Settled(r, ok)
    PROVE  NoNewOperation(c) /\ NoNewOperation(Destroyed(c))
<1>1. Net(conn, phase, state) /\ conn \in SoundConnection /\ Chain(conn)
  BY DEF Inv, Net
<1>2. Settlement(c, r)
  BY <1>1, SettledStep
<1>3. \A x \in Known(c) : x.live => x \in Known(conn)
  BY <1>1, <1>2, SettlementNet
<1>4. Known(Destroyed(c)) = Known(c)
  BY <1>2, DestroyedStep DEF Settlement
<1>5. QED
  BY <1>3, <1>4 DEF NoNewOperation

\* The connection changes, the sessions and the cleanups do not.
LEMMA LinkParallel ==
    ASSUME Inv, Parallel, Inv', NoNewOperation(conn'),
           UNCHANGED <<locking, tracked, present, work, final, cleanups, phase>>
    PROVE  Parallel'
<1>1. Called'
  BY DEF NoNewOperation, Parallel, Called
<1>2. phase' \in {"idle", "partials", "closing"}
  BY DEF Parallel
<1>3. QED
  BY <1>1, <1>2, ParallelFrame

\* A request settles.
LEMMA SettlesParallel ==
    ASSUME Inv, Awaits, Parallel, Inv', NEW r \in Sent(conn), Settles(r)
    PROVE  Parallel'
<1>1. PICK ok \in BOOLEAN : \/ OperationReturns(r, ok) \/ AbortReturns(r, ok)
                            \/ CloseReturns(r, ok) \/ StartReturns(r, ok)
  BY DEF Settles
<1>2. CASE OperationReturns(r, ok)
  <2>1. PICK c \in Settled(r, ok) :
           /\ conn' = c
           /\ IF ok THEN AnswerReturned(c) /\ tracked' = TrackResources(r) /\ UNCHANGED phase
              ELSE Resume(c)
    BY <1>2 DEF OperationReturns
  <2>2. UNCHANGED <<locking, present, final>> /\ r.job = "op" /\ r.live
    BY <1>2 DEF OperationReturns
  <2>3. NoNewOperation(c)
    BY SettledOperations
  <2>4. CASE ok
    <3>1. work[r.by] = "op"
      BY <2>2 DEF Parallel, Called, Known
    <3>2. \A t \in tracked' : t \in tracked \/ work[t] = "op"
      BY <2>1, <2>4, <3>1 DEF TrackResources
    <3>3. QED
      BY <2>1, <2>2, <2>3, <2>4, <3>2, ReturnedParallel
  <2>5. CASE ~ok
    BY <2>1, <2>2, <2>3, <2>5, ResumeParallel
  <2>6. QED
    BY <2>4, <2>5
<1>3. CASE AbortReturns(r, ok)
  <2>1. r \in Known(conn) /\ r.live /\ r.job = "cleanup" /\ r.kind = "abort"
    BY <1>3 DEF AbortReturns, Known
  <2>2. phase = "abort"
    BY <2>1 DEF Inv, Net, Cleaners
  <2>3. QED
    BY <2>2 DEF Parallel
<1>4. CASE CloseReturns(r, ok)
  <2>1. PICK c \in Settled(r, ok) : conn' = c /\ Resume(c)
    BY <1>4 DEF CloseReturns
  <2>2. NoNewOperation(c) /\ UNCHANGED <<locking, present, final>>
    BY <1>4, SettledOperations DEF CloseReturns
  <2>3. QED
    BY <2>1, <2>2, ResumeParallel
<1>5. CASE StartReturns(r, ok)
  <2>1. PICK c \in Settled(r, ok) : conn' = IF ok THEN c ELSE Destroyed(c)
    BY <1>5 DEF StartReturns
  <2>2. NoNewOperation(conn')
    BY <2>1, SettledOperations
  <2>3. QED
    BY <1>5, <2>2, LinkParallel DEF StartReturns
<1>6. QED
  BY <1>1, <1>2, <1>3, <1>4, <1>5

\* What happens to the connection, and what the guest does.
LEMMA GuestParallel ==
    ASSUME Inv, Awaits, Parallel, Inv',
           \/ StaleAnswer \/ AcceptGuest \/ GuestHello \/ GuestFails \/ GuestCloses
           \/ (\E ok \in BOOLEAN : GuestExecutes(ok)) \/ GuestInterrupted
    PROVE  Parallel'
<1>1. conn \in SoundConnection /\ locking = FALSE
  BY GivenParallel
<1>2. CASE StaleAnswer
  <2>1. conn.answers # <<>> /\ conn' = Answered(conn)
    BY <1>2 DEF StaleAnswer, Answered
  <2>2. Sent(conn') \subseteq Sent(conn) /\ conn'.advisory = conn.advisory
    BY <1>1, <2>1, AnsweredStep
  <2>3. NoNewOperation(conn')
    BY <2>2 DEF NoNewOperation, Known
  <2>4. QED
    BY <1>2, <2>3, LinkParallel DEF StaleAnswer
<1>3. CASE AcceptGuest
  <2>1. Known(conn') = {}
    BY <1>3, EmptyConnection DEF AcceptGuest
  <2>2. QED
    BY <1>3, <2>1, LinkParallel DEF AcceptGuest, NoNewOperation
<1>4. CASE GuestHello
  <2> DEFINE d == [conn EXCEPT !.link = "ready"]
             r == NewRequest("abort", None, "start")
  <2>1. /\ d \in SoundConnection /\ d.wire = conn.wire /\ d.answers = conn.answers
        /\ d.advisory = conn.advisory
    BY <1>1 DEF SoundConnection
  <2>2. Known(d) = Known(conn)
    BY <2>1 DEF Known, Sent
  <2>3. conn' = GuestRequest(d, "abort", None, "start")
    BY <1>4 DEF GuestHello
  <2> HIDE DEF d
  <2>4. Known(conn') \subseteq Known(d) \cup {r}
    <3>1. Chain(d)
      BY <2>1 DEF Inv, Net, Chain, AtMostOne, Sent
    <3>2. Requested(d, conn', r)
      BY <1>1, <2>1, <2>3, <3>1, RequestStep
    <3>3. QED
      BY <3>2 DEF Requested
  <2>5. r.job = "start"
    BY NewRequestFields
  <2> HIDE DEF r
  <2>6. NoNewOperation(conn')
    BY <2>2, <2>4, <2>5 DEF NoNewOperation
  <2>7. QED
    BY <1>4, <2>6, LinkParallel DEF GuestHello
<1>5. CASE GuestFails
  <2>1. Known(conn') = Known(conn)
    BY <1>1, <1>5, DestroyedStep DEF GuestFails
  <2>2. QED
    BY <1>5, <2>1, LinkParallel DEF GuestFails, NoNewOperation
<1>6. CASE GuestCloses
  <2>1. phase # "abort"
    BY DEF Parallel
  <2>2. conn' = NoGuest /\ Resume(NoGuest) /\ UNCHANGED <<locking, present, final>>
    BY <1>6, <2>1 DEF GuestCloses
  <2>3. NoNewOperation(NoGuest)
    BY EmptyConnection DEF NoNewOperation
  <2>4. QED
    BY <2>2, <2>3, ResumeParallel
<1>7. ASSUME NEW f, NEW g, Moved(conn, conn', f, g),
             UNCHANGED <<locking, tracked, present, work, final, cleanups, phase>>
      PROVE  Parallel'
  <2>1. Sent(conn') = Sent(conn)
    BY <1>7, MovedKeeps
  <2>2. conn'.advisory = conn.advisory
    BY <1>7 DEF Moved
  <2>3. Known(conn') = Known(conn)
    BY <2>1, <2>2 DEF Known
  <2>4. QED
    BY <1>7, <2>3, LinkParallel DEF NoNewOperation
<1>8. ASSUME NEW ok \in BOOLEAN, GuestExecutes(ok) PROVE Parallel'
  <2>1. conn.wire # <<>> /\ conn' = Execute(conn, ok)
    BY <1>8 DEF GuestExecutes, Execute
  <2>2. \E f, g : Moved(conn, conn', f, g)
    BY <1>1, <2>1, ExecuteStep
  <2>3. QED
    BY <1>7, <1>8, <2>2 DEF GuestExecutes
<1>9. CASE GuestInterrupted
  <2>1. Len(conn.wire) > 1 /\ (conn' = Overtake(conn) \/ conn' = TurnAway(conn))
    <3>1. CASE conn.wire[2].kind = "abort"
      BY <1>9, <3>1 DEF GuestInterrupted, Overtake
    <3>2. CASE conn.wire[2].kind # "abort"
      BY <1>9, <3>2 DEF GuestInterrupted, TurnAway
    <3>3. QED
      BY <1>9, <3>1, <3>2 DEF GuestInterrupted
  <2>2. \E f, g : Moved(conn, conn', f, g)
    BY <1>1, <2>1, OvertakeStep, TurnAwayStep
  <2>3. QED
    BY <1>7, <1>9, <2>2 DEF GuestInterrupted
<1>10. QED
  BY <1>2, <1>3, <1>4, <1>5, <1>6, <1>8, <1>9

\* A cleanup starts, or goes on when the transfers of its session are aborted.
LEMMA CleanupParallel ==
    ASSUME Inv, Awaits, Parallel, Inv',
           (\E partials \in BOOLEAN : StartCleanup(partials)) \/ TransfersAborted
    PROVE  Parallel'
<1>1. /\ LeaseOK(lease) /\ locking = FALSE /\ conn \in SoundConnection
      /\ UNCHANGED <<locking, present, final>>
  BY GivenParallel DEF StartCleanup, TransfersAborted
<1>2. cleanups # <<>>
  BY DEF StartCleanup, TransfersAborted, Inv, Rest
<1>3. CASE phase' = "partials" /\ UNCHANGED <<conn, tracked, work, cleanups>>
  <2>1. Called'
    BY <1>3 DEF Parallel, Called
  <2>2. phase' \in {"idle", "partials", "closing"}
    BY <1>3
  <2>3. QED
    BY <1>1, <1>3, <2>1, <2>2, ParallelFrame
<1>4. CASE CloseInGuest
  <2> DEFINE s == Head(cleanups).session
             r == NewRequest("close", s, "cleanup")
  <2>1. s \in Sessions
    BY <1>2, FirstCleanup
  <2>2. CASE s \in tracked /\ conn.link = "ready"
    <3>1. /\ phase' = "closing" /\ conn' = GuestRequest(conn, "close", s, "cleanup")
          /\ UNCHANGED <<lease, cleanups, work, tracked>>
      BY <1>4, <2>2 DEF CloseInGuest
    <3> HIDE DEF s
    <3>2. "close" \in OpKinds \cup {"abort"} /\ "close" # "abort"
      BY DEF OpKinds
    <3>3. Requested(conn, conn', r)
      BY <1>1, <2>1, <3>1, <3>2, RequestStep DEF Inv, Net
    <3>4. r.job = "cleanup"
      BY NewRequestFields
    <3> HIDE DEF r
    <3>5. Called'
      BY <3>1, <3>3, <3>4 DEF Requested, Parallel, Called
    <3>6. phase' \in {"idle", "partials", "closing"}
      BY <3>1
    <3>7. QED
      BY <1>1, <3>1, <3>5, <3>6, ParallelFrame
  <2>3. CASE ~(s \in tracked /\ conn.link = "ready")
    <3>1. EndParallel(conn, lease) /\ conn' = conn
      BY <1>4, <2>3 DEF CloseInGuest
    <3>2. NoNewOperation(conn)
      BY DEF NoNewOperation
    <3>3. QED
      BY <1>1, <1>2, <3>1, <3>2, EndsParallel
  <2>4. QED
    BY <2>2, <2>3
<1>5. phase # "transfers"
  BY DEF Parallel
<1>6. QED
  BY <1>1, <1>3, <1>4, <1>5 DEF StartCleanup, TransfersAborted

\* A broker in parallel mode starts without resources.
LEMMA InitParallel ==
    ASSUME Modes = {FALSE}, Init
    PROVE  Awaits /\ Parallel
<1>1. /\ locking = FALSE /\ conn = NoGuest /\ tracked = {} /\ cleanups = <<>> /\ phase = "idle"
      /\ work = [s \in Sessions |-> "idle"]
  BY DEF Init
<1>2. Known(conn) = {}
  BY <1>1, EmptyConnection
<1>3. DOMAIN cleanups = {}
  BY <1>1
<1>4. Awaits
  BY <1>3 DEF Awaits, AwaitOK
<1>5. QED
  BY <1>1, <1>2, <1>4 DEF Parallel, Calling, Called, NoResourceOutlivesSession

\* Every step keeps the invariant of parallel mode.
LEMMA NextParallel ==
    ASSUME Modes = {FALSE}, Inv, Awaits, Parallel, Inv', [Next]_vars
    PROVE  Parallel'
<1>1. LeaseOK(lease) /\ locking = FALSE
  BY GivenParallel
<1>2. ASSUME Answer(lease), UNCHANGED <<locking, conn, tracked, present, work, final, phase>>
      PROVE  Parallel'
  <2>1. cleanups' = Noting(cleanups, lease)
    BY <1>1, <1>2, AnswerStep DEF Inv, Rest
  <2>2. QED
    BY <1>1, <1>2, <2>1, CallParallel
<1>3. ASSUME NEW enabled \in Modes, SetLocking(enabled) PROVE Parallel'
  BY <1>1, <1>2, <1>3 DEF SetLocking
<1>4. CASE ExpirationTimer
  BY <1>2, <1>4 DEF ExpirationTimer
<1>5. CASE OwnerDue \/ UNCHANGED vars
  <2>1. UNCHANGED <<locking, conn, tracked, present, work, final, cleanups, phase>>
    BY <1>5 DEF OwnerDue, vars
  <2>2. QED
    BY <2>1, LinkParallel DEF NoNewOperation
<1>6. QED
  BY <1>3, <1>4, <1>5, SessionParallel, SettlesParallel, GuestParallel, CleanupParallel DEF Next

\* A session that is gone leaves no open resources behind, except while its last
\* call or its final cleanup is under way, in a broker that stays in parallel mode.
THEOREM ResourcesAreReleased ==
    ASSUME Modes = {FALSE}
    PROVE  Spec => []NoResourceOutlivesSession
<1>1. Init => Inv /\ Awaits /\ Parallel
  BY InitInv, InitParallel
<1>2. Inv /\ Awaits /\ Parallel /\ [Next]_vars => (Inv /\ Awaits /\ Parallel)'
  BY NextInv, NextAwaits, NextParallel
<1>3. Parallel => NoResourceOutlivesSession
  BY DEF Parallel
<1>4. QED
  BY <1>1, <1>2, <1>3, PTL DEF Spec

-----------------------------------------------------------------------------
(* The queue *)

\* The lease m hands over past expired tickets only, or past the ticket of the
\* session whose release is part of the hand-over.
HandsOver(m) ==
    \A i \in DOMAIN lease.waiters :
        (\A j \in 1..i : lease.waiters[j].session # m.owner) =>
            \/ lease.waiters[i].due
            \/ /\ cleanups # <<>> /\ Head(cleanups).release
               /\ Head(cleanups).session = lease.waiters[i].session
               /\ ~Queued(m, lease.waiters[i].session)

\* The lease m is fair to the queue: nobody loses a place or is passed, and nobody
\* joins but the caller of a lease call or of an operation in exclusive mode.
FairTo(m) ==
    /\ KeepsOrder(lease, m)
    /\ m.owner \notin {None, lease.owner} => HandsOver(m)
    /\ \A t \in Sessions : Queued(m, t) /\ ~Queued(lease, t) =>
          locking /\ work[t] \in {"idle", "polling"}

\* Losing the owner, with the queue as it is, is fair.
LEMMA FairFrame ==
    ASSUME NEW l, FairTo(l), NEW m, m.waiters = l.waiters, m.owner \in {None, l.owner}
    PROVE  FairTo(m)
<1>1. KeepsOrder(lease, m)
  BY DEF FairTo, KeepsOrder
<1>2. \A t : Queued(m, t) <=> Queued(l, t)
  BY DEF Queued
<1>3. m.owner \notin {None, lease.owner} => HandsOver(m)
  BY <1>2 DEF FairTo, HandsOver
<1>4. QED
  BY <1>1, <1>2, <1>3 DEF FairTo

\* The answers of vm_wait calls, and the notice of an expiry, move nobody.
LEMMA FairConsumed ==
    ASSUME NEW l, LeaseOK(l), FairTo(l),
           Consumed(l, lease') \/ Consumed(ExpireIfDue(l), lease')
    PROVE  FairTo(lease')
<1>1. l \in LeaseState
  BY DEF LeaseOK
<1>2. ExpireIfDue(l).waiters = l.waiters /\ ExpireIfDue(l).owner \in {None, l.owner}
  BY <1>1 DEF ExpireIfDue, LeaseState
<1>3. lease'.waiters = l.waiters /\ lease'.owner \in {None, l.owner}
  BY <1>2 DEF Consumed
<1>4. QED
  BY <1>3, FairFrame

\* A queue that lost tickets is fair if nobody was passed.
LEMMA FairLess ==
    ASSUME LeaseOK(lease), NEW m, LeaseOK(m), Embeds(m.waiters, lease.waiters),
           \/ m.owner \in {None, lease.owner}
           \/ OnlyExpiredBefore(lease.waiters, m.owner)
    PROVE  FairTo(m)
<1>1. m.waiters \in Seq(Waiter)
  BY DEF LeaseOK, LeaseState
<1>2. KeepsOrder(lease, m)
  BY <1>1, EmbeddedKeepsOrder
<1>3. \A t : Queued(m, t) => Queued(lease, t)
  BY EmbeddedQueued
<1>4. m.owner \notin {None, lease.owner} => HandsOver(m)
  BY DEF OnlyExpiredBefore, HandsOver
<1>5. QED
  BY <1>2, <1>3, <1>4 DEF FairTo

\* What acquire and vm_wait of a session that may call do is fair.
LEMMA FairCall ==
    ASSUME LeaseOK(lease), locking, NEW s \in Sessions, work[s] \in {"idle", "polling"}
    PROVE  /\ LeaseOK(Acquire(lease, s, TRUE)) /\ FairTo(Acquire(lease, s, TRUE))
           /\ \A matches \in BOOLEAN :
                 LeaseOK(Wait(lease, s, matches)) /\ FairTo(Wait(lease, s, matches))
<1>1. ASSUME NEW m, KeepsOrder(lease, m),
             m.owner \in {None, lease.owner} \/ OnlyExpiredBefore(lease.waiters, m.owner),
             \A t : Queued(m, t) => Queued(lease, t) \/ t = s
      PROVE  FairTo(m)
  <2>1. m.owner \notin {None, lease.owner} => HandsOver(m)
    BY <1>1 DEF OnlyExpiredBefore, HandsOver
  <2>2. QED
    BY <1>1, <2>1 DEF FairTo
<1>2. LeaseOK(Acquire(lease, s, TRUE)) /\ FairTo(Acquire(lease, s, TRUE))
  <2> DEFINE m == Acquire(lease, s, TRUE)
  <2>1. LeaseOK(m) /\ KeepsOrder(lease, m)
    BY AcquireOK, AcquireKeepsOrder
  <2>2. m.owner \in {None, lease.owner} \/ OnlyExpiredBefore(lease.waiters, m.owner)
    BY AcquireOwner
  <2>3. \A t : Queued(m, t) => Queued(lease, t) \/ t = s
    BY AcquireQueues
  <2> HIDE DEF m
  <2>4. LeaseOK(m) /\ FairTo(m)
    BY <1>1, <2>1, <2>2, <2>3
  <2>5. QED
    BY <2>4 DEF m
<1>3. ASSUME NEW matches \in BOOLEAN
      PROVE  LeaseOK(Wait(lease, s, matches)) /\ FairTo(Wait(lease, s, matches))
  <2> DEFINE m == Wait(lease, s, matches)
  <2>1. LeaseOK(m) /\ KeepsOrder(lease, m)
    BY WaitOK, WaitKeepsOrder
  <2>2. m.owner \in {None, lease.owner} \/ OnlyExpiredBefore(lease.waiters, m.owner)
    BY WaitOwner
  <2>3. \A t : Queued(m, t) => Queued(lease, t) \/ t = s
    BY WaitQueues
  <2> HIDE DEF m
  <2>4. LeaseOK(m) /\ FairTo(m)
    BY <1>1, <2>1, <2>2, <2>3
  <2>5. QED
    BY <2>4 DEF m
<1>4. QED
  BY <1>2, <1>3

\* The end of a cleanup, which may release one session and unblock the VM for
\* another, is fair.
LEMMA FairFreed ==
    ASSUME Inv, cleanups # <<>>, NEW l, LeaseOK(l), l.waiters = lease.waiters,
           l.owner = lease.owner, NEW sanitized \in BOOLEAN
    PROVE  FairTo(Freed(l, sanitized))
<1> DEFINE job == Head(cleanups)
           x == job.session
           r == IF job.release THEN Release(l, x) ELSE l
           f == Freed(l, sanitized)
<1>1. job \in Cleanup
  BY Tailed DEF Inv, Rest
<1>2. x \in Sessions
  BY <1>1 DEF Cleanup
<1>3. LeaseOK(lease) /\ LeaseOK(f) /\ f = IF sanitized THEN SetBlocked(r, FALSE) ELSE r
  BY FreedOK DEF Freed, Inv
<1>4. LeaseOK(r) /\ Embeds(r.waiters, l.waiters)
  BY <1>2, ReleaseOK, ReleaseEmbeds, SameSessionsEmbed
<1> HIDE DEF f
<1>5. Embeds(f.waiters, r.waiters)
  <2> HIDE DEF r
  <2>1. QED
    BY <1>3, <1>4, SetBlockedEmbeds, SameSessionsEmbed
<1>6. Embeds(f.waiters, lease.waiters)
  <2> HIDE DEF r
  <2>1. QED
    BY <1>4, <1>5, EmbedsTransitive
<1>7. CASE r.owner = f.owner
  <2>1. \/ f.owner \in {None, lease.owner}
        \/ OnlyExpiredBefore(lease.waiters, f.owner)
    BY <1>2, <1>7, ReleaseOwner
  <2>2. QED
    BY <1>3, <1>6, <2>1, FairLess DEF f
<1>8. CASE r.owner # f.owner
  <2>1. r.owner = None /\ OnlyExpiredBefore(r.waiters, f.owner)
    <3> HIDE DEF r
    <3>1. QED
      BY <1>3, <1>4, <1>8, SetBlockedOwner
  <2>2. CASE ~job.release
    BY <1>3, <1>6, <2>1, <2>2, FairLess DEF f
  <2>3. CASE job.release
    <3>1. ~Queued(r, x) /\ Kept(r.waiters, lease.waiters, x)
      BY <1>2, <2>1, <2>3, ReleaseKept
    <3> HIDE DEF r, x
    <3>2. ~Queued(f, x)
      BY <1>5, <3>1, EmbeddedQueued
    <3>3. /\ r.waiters \in Seq(Waiter) /\ lease.waiters \in Seq(Waiter)
          /\ DistinctTickets(lease.waiters)
      BY <1>3, <1>4 DEF LeaseOK, LeaseState
    <3>4. ASSUME NEW i \in DOMAIN lease.waiters,
                 \A j \in 1..i : lease.waiters[j].session # f.owner
          PROVE  lease.waiters[i].due \/ lease.waiters[i].session = x
      BY <1>4, <2>1, <3>1, <3>3, <3>4, KeptTurn
    <3>5. HandsOver(f)
      BY <2>3, <3>2, <3>4 DEF HandsOver, x
    <3>6. KeepsOrder(lease, f)
      <4>1. f.waiters \in Seq(Waiter)
        BY <1>3 DEF LeaseOK, LeaseState
      <4>2. QED
        BY <1>3, <1>6, <4>1, EmbeddedKeepsOrder
    <3>7. \A t : Queued(f, t) => Queued(lease, t)
      BY <1>6, EmbeddedQueued
    <3>8. FairTo(f)
      BY <3>5, <3>6, <3>7 DEF FairTo
    <3>9. QED
      BY <3>8 DEF f
  <2>4. QED
    BY <2>2, <2>3
<1>9. QED
  BY <1>7, <1>8

\* Every step of the broker is fair to the queue.
LEMMA NextFair ==
    ASSUME Inv, [Next]_vars
    PROVE  FairTo(lease')
<1>1. /\ LeaseOK(lease) /\ LeaseOK(lease') /\ locking \in BOOLEAN
      /\ cleanups \in Seq(Cleanup)
  BY NextInv, BrokerAssumption DEF Inv, Rest
<1>2. ASSUME NEW m, LeaseOK(m), m.waiters = lease.waiters, m.owner \in {None, lease.owner}
      PROVE  FairTo(m)
  BY <1>1, <1>2, SameSessionsEmbed, FairLess
<1>3. ASSUME NEW l, LeaseOK(l), FairTo(l), SetLease(l) \/ Answer(l) PROVE FairTo(lease')
  BY <1>1, <1>3, SetLeaseStep, AnswerStep, FairConsumed
<1>4. ASSUME NEW l, LeaseOK(l), Embeds(l.waiters, lease.waiters), l.owner = lease.owner
      PROVE  FairTo(l)
  BY <1>1, <1>4, FairLess
<1>5. CASE lease' = lease
  BY <1>1, <1>2, <1>5
<1>6. CASE Answer(lease)
  BY <1>1, <1>2, <1>3, <1>6
<1>7. ASSUME NEW s \in Sessions, Session(s) PROVE FairTo(lease')
  <2>1. LeaseOK(Disconnect(lease, s)) /\ FairTo(Disconnect(lease, s))
    <3> DEFINE m == Disconnect(lease, s)
    <3>1. LeaseOK(m) /\ m.owner = lease.owner
      BY <1>1, DisconnectOK, DisconnectSame DEF Same
    <3>2. Embeds(m.waiters, lease.waiters)
      BY <1>1, RemoveWaitersForSessionEmbeds, SameSessionsEmbed DEF Disconnect
    <3> HIDE DEF m
    <3>3. LeaseOK(m) /\ FairTo(m)
      BY <1>4, <3>1, <3>2
    <3>4. QED
      BY <3>3 DEF m
  <2>2. CASE Disconnected(s)
    BY <1>3, <2>1, <2>2 DEF Disconnected
  <2>3. CASE VmLock(s)
    BY <1>1, <1>3, <2>3, FairCall DEF VmLock, Ready, Idle
  <2>4. ASSUME NEW matches \in BOOLEAN, VmWait(s, matches) PROVE FairTo(lease')
    BY <1>1, <1>3, <2>4, FairCall DEF VmWait, Ready, Idle
  <2>5. ASSUME NEW force \in BOOLEAN, VmUnlock(s, force) PROVE FairTo(lease')
    BY <1>3, <1>5, <1>6, <2>1, <2>5 DEF VmUnlock
  <2>6. CASE CallOperation(s) \/ PollTimeout(s)
    BY <1>5, <1>6, <2>6 DEF CallOperation, PollTimeout
  <2>7. ASSUME NEW kind \in Kinds, StartOperation(s, kind) PROVE FairTo(lease')
    <3>1. /\ SetLease(IF locking THEN Acquire(lease, s, TRUE) ELSE lease)
          /\ work[s] \in {"idle", "polling"}
      BY <2>7 DEF StartOperation, Ready, Idle
    <3>2. CASE locking
      <4>1. LeaseOK(Acquire(lease, s, TRUE)) /\ FairTo(Acquire(lease, s, TRUE))
        BY <1>1, <3>1, <3>2, FairCall
      <4>2. QED
        BY <1>3, <3>1, <3>2, <4>1
    <3>3. CASE ~locking
      BY <1>1, <1>2, <1>3, <3>1, <3>3
    <3>4. QED
      BY <3>2, <3>3
  <2>8. CASE TicketTimer(s)
    <3> DEFINE m == ExpireTicket(lease, s)
    <3>1. m = RemoveWaitersForSession(lease, s) /\ Answer(m)
      BY <2>8 DEF TicketTimer, ExpireTicket, RemoveWaitersForSession
    <3> HIDE DEF m
    <3>2. LeaseOK(m) /\ m.owner = lease.owner /\ Embeds(m.waiters, lease.waiters)
      BY <1>1, <3>1, RemoveWaitersForSessionOK, RemoveWaitersForSessionEmbeds
    <3>3. QED
      BY <1>3, <1>4, <3>1, <3>2
  <2>9. CASE WaitTimer(s)
    <3> DEFINE m == WaitTimedOut(lease, s)
    <3>1. Queued(lease, s)
      BY <1>1, <2>9 DEF WaitTimer, LeaseOK, Pending, Queued
    <3>2. LeaseOK(m) /\ m.owner = lease.owner /\ Embeds(m.waiters, lease.waiters)
      BY <1>1, <3>1, WaitTimedOutOK, QueueTimersSame, WaitTimedOutEmbeds DEF Same
    <3>3. Answer(m)
      BY <2>9 DEF WaitTimer
    <3> HIDE DEF m
    <3>4. QED
      BY <1>3, <1>4, <3>2, <3>3
  <2>10. CASE Connect(s) \/ StartFinal(s)
    BY <1>5, <2>10 DEF Connect, StartFinal
  <2>11. QED
    BY <1>7, <2>2, <2>3, <2>4, <2>5, <2>6, <2>7, <2>8, <2>9, <2>10 DEF Session
<1>8. ASSUME NEW enabled \in Modes, SetLocking(enabled) PROVE FairTo(lease')
  <2> DEFINE m == ClearWaiters(lease)
  <2>1. LeaseOK(m)
    BY <1>1, ClearWaitersOK
  <2>2. m.waiters = <<>> /\ m.owner = lease.owner
    BY <1>1 DEF ClearWaiters, LeaseOK, LeaseState
  <2>3. Answer(lease) \/ Answer(m)
    BY <1>8 DEF SetLocking
  <2> HIDE DEF m
  <2>4. FairTo(m)
    BY <2>2 DEF FairTo, KeepsOrder, Queued
  <2>5. QED
    BY <1>3, <1>6, <2>1, <2>3, <2>4
<1>9. ASSUME NEW l, LeaseOK(l), FairTo(l), NEW c, cleanups # <<>>, EndCleanup(c, l)
      PROVE  FairTo(lease')
  <2>1. Consumed(l, lease') \/ Consumed(ExpireIfDue(l), lease')
    BY <1>9, EndCleanupStep
  <2>2. QED
    BY <1>9, <2>1, FairConsumed
<1>10. ASSUME NEW l, LeaseOK(l), l.waiters = lease.waiters, l.owner = lease.owner,
              NEW c, NEW ok \in BOOLEAN, cleanups # <<>>, EndExclusive(c, l, ok)
       PROVE  FairTo(lease')
  <2>1. LeaseOK(Freed(l, ok)) /\ EndCleanup(c, Freed(l, ok))
    BY <1>10, FreedOK
  <2>2. FairTo(Freed(l, ok))
    BY <1>10, FairFreed
  <2>3. QED
    BY <1>9, <1>10, <2>1, <2>2
<1>11. ASSUME NEW c PROVE LET l == LeaseAfter(c)
                          IN  /\ LeaseOK(l) /\ FairTo(l)
                              /\ l.waiters = lease.waiters /\ l.owner = lease.owner
  <2> DEFINE l == LeaseAfter(c)
  <2>1. LeaseOK(l) /\ l.waiters = lease.waiters /\ l.owner = lease.owner
    BY <1>1, LeaseAfterStep
  <2> HIDE DEF l
  <2>2. FairTo(l)
    BY <1>2, <2>1
  <2>3. QED
    BY <2>1, <2>2 DEF l
<1>12. ASSUME NEW c, AnswerReturned(c) PROVE FairTo(lease')
  BY <1>3, <1>5, <1>11, <1>12 DEF AnswerReturned
<1>13. ASSUME NEW c, Resume(c) PROVE FairTo(lease')
  <2>1. CASE phase = "closing" /\ EndParallel(c, LeaseAfter(c))
    <3>1. cleanups # <<>>
      BY <2>1 DEF Inv, Rest
    <3>2. QED
      BY <1>9, <1>11, <2>1, <3>1 DEF EndParallel
  <2>2. CASE AnswerReturned(c)
    BY <1>12, <2>2
  <2>3. QED
    BY <1>13, <2>1, <2>2 DEF Resume
<1>14. ASSUME NEW l, LeaseOK(l), l.waiters = lease.waiters, l.owner = lease.owner,
              cleanups # <<>>, AbortInGuest(l)
       PROVE  FairTo(lease')
  <2>1. CASE SetLease(l)
    BY <1>2, <1>3, <1>14, <2>1
  <2>2. CASE EndExclusive(conn, l, FALSE)
    BY <1>10, <1>14, <2>2
  <2>3. QED
    BY <1>14, <2>1, <2>2 DEF AbortInGuest
<1>15. ASSUME cleanups # <<>>, CloseInGuest PROVE FairTo(lease')
  <2>1. FairTo(lease)
    BY <1>1, <1>2
  <2>2. QED
    BY <1>1, <1>5, <1>9, <1>15, <2>1 DEF CloseInGuest, EndParallel
<1>16. /\ LeaseOK(SetBlocked(lease, TRUE)) /\ FairTo(SetBlocked(lease, TRUE))
       /\ SetBlocked(lease, TRUE).waiters = lease.waiters
       /\ SetBlocked(lease, TRUE).owner = lease.owner
  <2> DEFINE m == SetBlocked(lease, TRUE)
  <2>1. LeaseOK(m)
    BY <1>1, SetBlockedOK
  <2>2. m.waiters = lease.waiters /\ m.owner = lease.owner
    BY <1>1 DEF SetBlocked, LeaseOK, LeaseState
  <2> HIDE DEF m
  <2>3. FairTo(m)
    BY <1>2, <2>1, <2>2
  <2>4. QED
    BY <2>1, <2>2, <2>3 DEF m
<1>17. ASSUME NEW partials \in BOOLEAN, StartCleanup(partials) PROVE FairTo(lease')
  BY <1>3, <1>5, <1>14, <1>15, <1>16, <1>17 DEF StartCleanup
<1>18. CASE TransfersAborted
  <2>1. cleanups # <<>>
    BY <1>18 DEF TransfersAborted, Inv, Rest
  <2>2. QED
    BY <1>1, <1>14, <1>15, <1>18, <2>1 DEF TransfersAborted
<1>19. ASSUME NEW r \in Sent(conn), Settles(r) PROVE FairTo(lease')
  <2>1. ASSUME NEW ok \in BOOLEAN, OperationReturns(r, ok) PROVE FairTo(lease')
    BY <1>12, <1>13, <2>1 DEF OperationReturns
  <2>2. ASSUME NEW ok \in BOOLEAN, CloseReturns(r, ok) PROVE FairTo(lease')
    BY <1>13, <2>2 DEF CloseReturns
  <2>3. ASSUME NEW ok \in BOOLEAN, StartReturns(r, ok) PROVE FairTo(lease')
    <3> DEFINE m == SetBlocked(lease, FALSE)
    <3>1. LeaseOK(m) /\ Embeds(m.waiters, lease.waiters)
      BY <1>1, SetBlockedOK, SetBlockedEmbeds
    <3>2. m.owner = lease.owner \/ OnlyExpiredBefore(lease.waiters, m.owner)
      BY <1>1, SetBlockedOwner
    <3>3. lease' = lease \/ SetLease(m)
      BY <2>3 DEF StartReturns
    <3> HIDE DEF m
    <3>4. FairTo(m)
      BY <1>1, <3>1, <3>2, FairLess
    <3>5. QED
      BY <1>3, <1>5, <3>1, <3>3, <3>4
  <2>4. ASSUME NEW ok \in BOOLEAN, AbortReturns(r, ok) PROVE FairTo(lease')
    <3>1. r \in Known(conn) /\ r.live /\ r.job = "cleanup" /\ r.kind = "abort"
      BY <2>4 DEF AbortReturns, Known
    <3>2. cleanups # <<>>
      BY <3>1 DEF Inv, Net, Cleaners, Rest
    <3>3. \E c : EndExclusive(c, lease, ok)
      BY <2>4 DEF AbortReturns
    <3>4. QED
      BY <1>1, <1>10, <3>2, <3>3
  <2>5. QED
    BY <1>19, <2>1, <2>2, <2>3, <2>4 DEF Settles
<1>20. CASE GuestCloses
  <2>1. CASE phase = "abort" /\ EndExclusive(NoGuest, LeaseAfter(NoGuest), FALSE)
    <3>1. cleanups # <<>>
      BY <2>1 DEF Inv, Rest
    <3>2. QED
      BY <1>10, <1>11, <2>1, <3>1
  <2>2. CASE Resume(NoGuest)
    BY <1>13, <2>2
  <2>3. QED
    BY <1>20, <2>1, <2>2 DEF GuestCloses
<1>21. CASE GuestHello
  BY <1>3, <1>16, <1>21 DEF GuestHello
<1>22. CASE ExpirationTimer
  BY <1>6, <1>22 DEF ExpirationTimer
<1>23. CASE OwnerDue
  <2>1. lease'.waiters = lease.waiters /\ lease'.owner = lease.owner
    BY <1>1, <1>23 DEF OwnerDue, LeaseOK, LeaseState
  <2>2. QED
    BY <1>1, <1>2, <2>1
<1>24. QED
  BY <1>5, <1>7, <1>8, <1>17, <1>18, <1>19, <1>20, <1>21, <1>22, <1>23
  DEF Next, vars, StaleAnswer, AcceptGuest, GuestFails, GuestExecutes, GuestInterrupted

\* A session waits for its vm_unlock only after its own call, which found it the
\* owner or the broker in parallel mode; only a switch of mode changes the mode,
\* and it empties the queue.
LEMMA NextUnlock ==
    ASSUME Inv, [Next]_vars
    PROVE  /\ \A t \in Sessions : work'[t] = "unlock" =>
                 work[t] = "unlock" \/ (lease' = lease /\ (locking => lease.owner = t))
           /\ locking' = locking \/ lease'.waiters = <<>>
<1> DEFINE Calm == \A t \in Sessions : work'[t] = "unlock" => work[t] = "unlock"
           Goal == \A t \in Sessions : work'[t] = "unlock" =>
                      work[t] = "unlock" \/ (lease' = lease /\ (locking => lease.owner = t))
<1>1. LeaseOK(lease) /\ work \in [Sessions -> Works] /\ cleanups \in Seq(Cleanup)
  BY DEF Inv, Rest
<1>2. ASSUME UNCHANGED work PROVE Goal
  BY <1>2
<1>3. ASSUME NEW s \in Sessions, Session(s) PROVE Goal
  <2>1. ASSUME NEW force \in BOOLEAN, VmUnlock(s, force) PROVE Goal
    <3>1. CASE work' = [work EXCEPT ![s] = "unlock"] /\ lease' = lease /\ ~(locking /\ lease.owner # s)
      BY <1>1, <3>1
    <3>2. QED
      BY <1>2, <2>1, <3>1 DEF VmUnlock
  <2>2. CASE CallOperation(s) \/ PollTimeout(s) \/ StartFinal(s)
    BY <1>1, <2>2 DEF CallOperation, PollTimeout, StartFinal
  <2>3. ASSUME NEW kind \in Kinds, StartOperation(s, kind) PROVE Goal
    BY <1>1, <2>3 DEF StartOperation
  <2>4. QED
    BY <1>2, <1>3, <2>1, <2>2, <2>3
    DEF Session, Connect, Disconnected, VmLock, VmWait, TicketTimer, WaitTimer
<1>4. ASSUME NEW c, AnswerReturned(c) PROVE Calm
  BY <1>1, <1>4, WorkAfterStep DEF AnswerReturned
<1>5. ASSUME NEW c, NEW l, EndCleanup(c, l), cleanups # <<>> PROVE Calm
  <2>1. Head(cleanups).session \in Sessions
    BY <1>1, <1>5, Tailed DEF Cleanup
  <2>2. work' = [WorkAfter(c) EXCEPT ![Head(cleanups).session] =
                     IF Head(cleanups).awaited THEN "idle" ELSE @]
    BY <1>5 DEF EndCleanup
  <2>3. QED
    BY <1>1, <2>1, <2>2, WorkAfterStep
<1>6. ASSUME NEW c, Resume(c) PROVE Calm
  BY <1>4, <1>5, <1>6 DEF Resume, EndParallel, Inv, Rest
<1>7. ASSUME NEW l, cleanups # <<>>, AbortInGuest(l) \/ CloseInGuest PROVE Goal
  BY <1>2, <1>5, <1>7 DEF AbortInGuest, CloseInGuest, EndParallel, EndExclusive
<1>8. ASSUME NEW partials \in BOOLEAN, StartCleanup(partials) PROVE Goal
  BY <1>2, <1>7, <1>8 DEF StartCleanup
<1>9. ASSUME TransfersAborted PROVE Goal
  BY <1>7, <1>9 DEF TransfersAborted, Inv, Rest
<1>10. ASSUME NEW r \in Sent(conn), Settles(r) PROVE Goal
  <2>1. ASSUME NEW ok \in BOOLEAN, OperationReturns(r, ok) \/ CloseReturns(r, ok) PROVE Goal
    BY <1>4, <1>6, <2>1 DEF OperationReturns, CloseReturns
  <2>2. ASSUME NEW ok \in BOOLEAN, StartReturns(r, ok) PROVE Goal
    BY <1>2, <2>2 DEF StartReturns
  <2>3. ASSUME NEW ok \in BOOLEAN, AbortReturns(r, ok) PROVE Goal
    <3>1. r \in Known(conn) /\ r.live /\ r.job = "cleanup" /\ r.kind = "abort"
      BY <2>3 DEF AbortReturns, Known
    <3>2. cleanups # <<>>
      BY <3>1 DEF Inv, Net, Cleaners, Rest
    <3>3. \E c : EndExclusive(c, lease, ok)
      BY <2>3 DEF AbortReturns
    <3>4. QED
      BY <1>5, <3>2, <3>3 DEF EndExclusive
  <2>4. QED
    BY <1>10, <2>1, <2>2, <2>3 DEF Settles
<1>11. ASSUME GuestCloses PROVE Goal
  BY <1>5, <1>6, <1>11 DEF GuestCloses, EndExclusive, Inv, Rest
<1>12. Goal
  BY <1>2, <1>3, <1>8, <1>9, <1>10, <1>11
  DEF Next, vars, SetLocking, StaleAnswer, AcceptGuest, GuestHello, GuestFails,
      GuestExecutes, GuestInterrupted, OwnerDue, ExpirationTimer
<1>13. ASSUME NEW enabled \in Modes, SetLocking(enabled)
       PROVE  locking' = locking \/ lease'.waiters = <<>>
  <2>1. CASE Answer(ClearWaiters(lease))
    <3> DEFINE m == ClearWaiters(lease)
    <3>1. LeaseOK(m)
      BY <1>1, ClearWaitersOK
    <3>2. m.waiters = <<>> /\ ExpireIfDue(m).waiters = m.waiters
      BY <1>1, <3>1 DEF ClearWaiters, ExpireIfDue, LeaseOK, LeaseState
    <3> HIDE DEF m
    <3>3. Consumed(ExpireIfDue(m), lease')
      BY <1>1, <2>1, <3>1, AnswerStep DEF m
    <3>4. QED
      BY <3>2, <3>3 DEF Consumed
  <2>2. QED
    BY <1>13, <2>1 DEF SetLocking
<1>14. locking' = locking \/ lease'.waiters = <<>>
  BY <1>13
  DEF Next, vars, Session, Connect, Disconnected, VmLock, VmWait, VmUnlock, CallOperation,
      StartOperation, PollTimeout, StartFinal, TicketTimer, WaitTimer, StartCleanup,
      TransfersAborted, Settles, OperationReturns, AbortReturns, CloseReturns, StartReturns,
      StaleAnswer, AcceptGuest, GuestHello, GuestFails, GuestCloses, GuestExecutes,
      GuestInterrupted, OwnerDue, ExpirationTimer
<1>15. QED
  BY <1>12, <1>14

\* A session that waits for its vm_unlock has no ticket, and there is no queue in
\* parallel mode.
Unqueued ==
    /\ \A s \in Sessions : work[s] = "unlock" => ~Queued(lease, s)
    /\ ~locking => lease.waiters = <<>>

\* Every step keeps it.
LEMMA NextUnqueued ==
    ASSUME Inv, Unqueued, [Next]_vars
    PROVE  Unqueued'
<1>1. LeaseOK(lease) /\ LeaseOK(lease') /\ FairTo(lease') /\ locking \in BOOLEAN
  BY NextInv, NextFair, BrokerAssumption DEF Inv, Rest
<1>2. /\ \A t \in Sessions : work'[t] = "unlock" =>
            work[t] = "unlock" \/ (lease' = lease /\ (locking => lease.owner = t))
      /\ locking' = locking \/ lease'.waiters = <<>>
  BY NextUnlock
<1>3. \A t \in Sessions : Queued(lease', t) /\ ~Queued(lease, t) =>
         locking /\ work[t] \in {"idle", "polling"}
  BY <1>1 DEF FairTo
<1>4. ASSUME NEW s \in Sessions, work'[s] = "unlock" PROVE ~Queued(lease', s)
  <2>1. CASE work[s] = "unlock"
    BY <1>3, <2>1 DEF Unqueued
  <2>2. CASE lease' = lease /\ (locking => lease.owner = s)
    BY <1>1, <2>2 DEF Unqueued, Queued, LeaseOK
  <2>3. QED
    BY <1>2, <1>4, <2>1, <2>2
<1>5. ASSUME ~locking' PROVE lease'.waiters = <<>>
  <2>1. SUFFICES ASSUME ~locking PROVE lease'.waiters = <<>>
    BY <1>2, <1>5
  <2>2. \A t \in Sessions : ~Queued(lease', t)
    BY <1>3, <2>1 DEF Unqueued, Queued
  <2>3. lease'.waiters \in Seq(Waiter)
    BY <1>1 DEF LeaseOK, LeaseState
  <2>4. /\ DOMAIN lease'.waiters = 1..Len(lease'.waiters) /\ Len(lease'.waiters) \in Nat
        /\ \A i \in DOMAIN lease'.waiters : lease'.waiters[i].session \in Sessions
    BY <2>3, QueueProperties
  <2>5. 1 \notin DOMAIN lease'.waiters
    BY <2>2, <2>4 DEF Queued
  <2>6. QED
    BY <2>3, <2>4, <2>5, EmptySeq
<1>6. QED
  BY <1>4, <1>5 DEF Unqueued, Queued

\* The queue is kept in every mode.
LEMMA QueueKept == Spec => [](Inv /\ Awaits /\ Unqueued)
<1>1. Init => Inv /\ Awaits /\ Unqueued
  <2>1. Init => Inv
    BY InitInv
  <2>2. Init => Awaits /\ Unqueued
    BY DEF Init, InitLease, Awaits, AwaitOK, Unqueued, Queued
  <2>3. QED
    BY <2>1, <2>2
<1>2. Inv /\ Awaits /\ Unqueued /\ [Next]_vars => (Inv /\ Awaits /\ Unqueued)'
  BY NextInv, NextAwaits, NextUnqueued
<1>3. QED
  BY <1>1, <1>2, PTL DEF Spec

\* Nobody with a valid ticket is passed, except a removed session by its own final
\* cleanup.
LEMMA NextPassesNobody ==
    ASSUME Inv, Awaits, Unqueued, [Next]_vars
    PROVE  PassesNobody
<1> SUFFICES ASSUME NewOwner, NEW i \in DOMAIN lease.waiters,
                    \A j \in 1..i : lease.waiters[j].session # lease'.owner,
                    ~lease.waiters[i].due
             PROVE  /\ cleanups # <<>> /\ Head(cleanups).session = lease.waiters[i].session
                    /\ work[lease.waiters[i].session] = "cleaning"
                    /\ ~Queued(lease', lease.waiters[i].session)
  BY DEF PassesNobody
<1> DEFINE s == lease.waiters[i].session
<1>1. FairTo(lease')
  BY NextFair
<1>2. /\ cleanups # <<>> /\ Head(cleanups).release
      /\ Head(cleanups).session = s /\ ~Queued(lease', s)
  BY <1>1 DEF FairTo, HandsOver, NewOwner
<1>3. 1 \in DOMAIN cleanups /\ Head(cleanups) = cleanups[1]
  BY <1>2, Tailed DEF Inv, Rest
<1>4. work[s] \in Stopped
  BY <1>2, <1>3 DEF Awaits, AwaitOK
<1>5. s \in Sessions /\ Queued(lease, s)
  BY QueueProperties DEF Inv, LeaseOK, LeaseState, Queued
<1>6. work[s] # "unlock"
  BY <1>5 DEF Unqueued
<1>7. QED
  BY <1>2, <1>4, <1>6 DEF Stopped

\* Two valid tickets that stay queued keep their order.
LEMMA NextKeepsPlaces ==
    ASSUME Inv, [Next]_vars
    PROVE  PlacesKept
<1> SUFFICES ASSUME NEW i \in DOMAIN lease.waiters, NEW j \in DOMAIN lease.waiters,
                    i < j, ~lease.waiters[i].due, ~lease.waiters[j].due,
                    Queued(lease', lease.waiters[i].session),
                    Queued(lease', lease.waiters[j].session)
             PROVE  PositionOf(lease'.waiters, lease.waiters[i].session)
                        < PositionOf(lease'.waiters, lease.waiters[j].session)
  BY DEF PlacesKept
<1>1. KeepsOrder(lease, lease')
  BY NextFair DEF FairTo
<1>2. QED
  BY <1>1, PositionOfQueued DEF KeepsOrder

\* FIFO through the whole broker: whatever methods of the LeaseManager a step calls
\* and in which mode, a hand-over passes no valid ticket, except that of a removed
\* session whose final cleanup it ends, and nobody swaps places.
THEOREM QueueStaysFair == Spec => QueueIsFair
<1>1. Inv /\ Awaits /\ Unqueued /\ [Next]_vars => [PassesNobody /\ PlacesKept]_vars
  BY NextPassesNobody, NextKeepsPlaces
<1>2. QED
  BY <1>1, QueueKept, PTL DEF Spec, QueueIsFair

=============================================================================
