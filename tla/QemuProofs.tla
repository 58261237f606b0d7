------------------------------ MODULE QemuProofs ------------------------------
(***************************************************************************)
(* Proofs about the managed machines, for any number of machines,          *)
(* processes and deletions: the broker puts no two processes it counts on  *)
(* on one disk, nor moves such a process to the trash, and the index of    *)
(* the trash lists what is there.                                          *)
(***************************************************************************)
EXTENDS Qemu, SequenceTheorems, WellFoundedInduction, TLAPS

-----------------------------------------------------------------------------
(* The inductive invariant *)

\* deleteVm is about to move the directory.
Renaming(o) == o.await = "rename" \/ (o.await = "exit" /\ o.then = "rename")

\* The broker knows every process it has not abandoned: a qemu-img as the child of
\* the call in the chain of its machine, QEMU as the process in "running", or in
\* the state file of a machine that has none there and is not about to move.
KnownQemu(p, v) ==
    \/ running[v] = p /\ op[v].await # "rename"
    \/ /\ running[v] = None /\ Exists(v) /\ dir[v].runtime = p
       /\ ~closing[v] /\ ~Renaming(op[v])

KnownProcess(p) ==
    ~procs[p].abandoned =>
       \E v \in Ids :
          /\ procs[p].in = v
          /\ procs[p].kind = "qemu" => KnownQemu(p, v)
          /\ procs[p].kind # "qemu" => op[v].await = "qemu-img" /\ op[v].child = p

KnownProcesses == \A p \in Alive : KnownProcess(p)

\* A process belongs to one machine.
OneMachine == \A v, w \in Ids : running[v] = running[w] /\ running[v] # None => v = w

\* deleteVm is in inventoryChain.
InDelete(v) ==
    \/ op[v].await \in {"rename", "index", "trim", "unindex"}
    \/ op[v].await = "exit" /\ op[v].then = "rename"

\* What the call in the chain of a machine may rely on.
ChainOK(v) ==
    /\ op[v].await = "recording" =>
          /\ Exists(v) /\ running[v] # None
          /\ running[v] \in Alive => ~procs[running[v]].heard
    /\ op[v].await = "qemu-img" =>
          Exists(v) /\ running[v] = None /\ dir[v].runtime \notin Alive
    /\ InDelete(v) => inv = [kind |-> "delete", id |-> v]

ChainsOK == \A v \in Ids : ChainOK(v)

\* The entries of the index and the directories in the trash.
Listed == {index[i].deletedAt : i \in DOMAIN index}
Trashed == {t \in Stamps : Exists(t)}

\* The index is in the order of the deletions.
Sorted == \A i, j \in DOMAIN index : i < j => index[i].deletedAt < index[j].deletedAt

Synced == Listed = Trashed /\ Len(index) <= MaxTrash

\* How the index and the trash differ in the middle of a change.
TrashOK ==
    /\ inv.kind \in {"none", "create"} => Synced
    /\ \A v \in Ids :
          /\ op[v].await = "rename" \/ (op[v].await = "exit" /\ op[v].then = "rename") => Synced
          /\ op[v].await = "index" =>
                Trashed = Listed \cup {op[v].deletedAt} /\ Len(index) <= MaxTrash
          /\ op[v].await = "trim" => Listed = Trashed /\ Len(index) <= MaxTrash + 1
          /\ op[v].await = "unindex" =>
                /\ Trashed = {index[i].deletedAt : i \in Excess + 1 .. Len(index)}
                /\ Len(index) <= MaxTrash + 1
    /\ inv.kind = "restore" =>
          /\ Trashed = Listed \ {index[EntryOf(inv.id)].deletedAt}
          /\ Len(index) <= MaxTrash
    /\ inv.kind = "empty" => Trashed = {}

IndexOK ==
    /\ Sorted
    /\ \A v \in Ids : op[v].await = "index" =>
          op[v].deletedAt \in Stamps /\ \A t \in Listed : t < op[v].deletedAt
    /\ inv.kind = "restore" => inv.id \in Ids /\ EntryOf(inv.id) # 0
    /\ ~broken => TrashOK

Inv == TypeOK /\ KnownProcesses /\ OneMachine /\ ChainsOK /\ IndexOK

Ops == [await : Awaits, then : Awaits \cup {"start"}, force : BOOLEAN,
        deletedAt : {0} \cup Stamps, child : Pids \cup {None}]

-----------------------------------------------------------------------------
(* What a step leaves alone *)

\* A call that begins to await something is a call.
LEMMA OpTypes ==
    /\ NoOp \in Ops
    /\ \A a \in Awaits : [NoOp EXCEPT !.await = a] \in Ops
    /\ \A a \in Awaits, th \in Awaits \cup {"start"} :
          [NoOp EXCEPT !.await = a, !.then = th] \in Ops
    /\ \A a \in Awaits, b \in BOOLEAN : [NoOp EXCEPT !.await = a, !.force = b] \in Ops
    /\ \A a \in Awaits, t \in Stamps : [NoOp EXCEPT !.await = a, !.deletedAt = t] \in Ops
    /\ \A a \in Awaits, p \in Pids : [NoOp EXCEPT !.await = a, !.child = p] \in Ops
  BY DEF NoOp, Ops, Awaits

\* One call changes.
LEMMA OneCall ==
    ASSUME TypeOK, NEW v \in Ids, NEW o \in Ops, op' = [op EXCEPT ![v] = o]
    PROVE  /\ op' \in [Ids -> Ops] /\ op'[v] = o
           /\ \A w \in Ids \ {v} : op'[w] = op[w]
  BY DEF TypeOK, Ops

\* A process that is known stays so when neither it nor what the broker knows of
\* its machine changes; it may be abandoned.
LEMMA KnownFrame ==
    ASSUME NEW p \in Pids, KnownProcess(p),
           procs'[p].in = procs[p].in, procs'[p].kind = procs[p].kind,
           procs[p].abandoned => procs'[p].abandoned,
           \A v \in Ids : procs[p].in = v =>
              /\ running'[v] = running[v]
              /\ running[v] = None /\ Exists(v) /\ dir[v].runtime = p /\ ~closing[v] =>
                    dir'[v] # None /\ dir'[v].runtime = p /\ ~closing'[v]
              /\ \/ op'[v] = op[v]
                 \/ ~Renaming(op'[v]) /\ ~(op[v].await = "qemu-img" /\ op[v].child = p)
    PROVE  KnownProcess(p)'
  <1> SUFFICES ASSUME ~procs'[p].abandoned PROVE KnownProcess(p)'
    BY DEF KnownProcess
  <1>1. PICK v \in Ids :
           /\ procs[p].in = v
           /\ procs[p].kind = "qemu" => KnownQemu(p, v)
           /\ procs[p].kind # "qemu" => op[v].await = "qemu-img" /\ op[v].child = p
    BY DEF KnownProcess
  <1>2. procs[p].kind = "qemu" => KnownQemu(p, v)'
    BY <1>1 DEF KnownQemu, Exists, Renaming
  <1>3. procs[p].kind # "qemu" => op'[v].await = "qemu-img" /\ op'[v].child = p
    BY <1>1
  <1> QED
    BY <1>1, <1>2, <1>3 DEF KnownProcess

\* What a call relies on still holds when its machine keeps its process, its
\* directory and its place in inventoryChain, and no new process has its pid.
LEMMA ChainFrame ==
    ASSUME NEW v \in Ids, ChainOK(v),
           op'[v] = op[v], running'[v] = running[v],
           Exists(v) => dir'[v] # None /\ dir'[v].runtime \in {dir[v].runtime, None},
           None \notin Pids,
           \A p \in Alive' :
              \/ /\ p \in Alive
                 /\ p = running[v] /\ op[v].await = "recording" =>
                       procs'[p].heard = procs[p].heard
              \/ p # running[v] /\ (Exists(v) => p # dir[v].runtime),
           InDelete(v) => inv' = inv
    PROVE  ChainOK(v)'
  <1>1. Alive' \subseteq Pids
    BY DEF Alive
  <1>2. InDelete(v)' <=> InDelete(v)
    BY DEF InDelete
  <1>3. running'[v] \in Alive' => running[v] \in Alive
    OBVIOUS
  <1>4. op[v].await = "recording" /\ running'[v] \in Alive' =>
           procs'[running'[v]].heard = procs[running[v]].heard
    OBVIOUS
  <1>5. Exists(v) /\ dir[v].runtime \notin Alive => dir'[v].runtime \notin Alive'
    BY <1>1
  <1> QED
    BY <1>2, <1>3, <1>4, <1>5 DEF ChainOK, Exists

\* The call does not change the inventory.
Plain(o) ==
    /\ o.await \notin {"rename", "index", "trim", "unindex"}
    /\ ~(o.await = "exit" /\ o.then = "rename")

\* What is in the trash does not change, and neither does the index; a change of
\* the inventory may begin, or end before it has done anything.
LEMMA IndexFrame ==
    ASSUME IndexOK, index' = index, broken' = broken,
           \A t \in Stamps : (dir'[t] # None) <=> Exists(t),
           \A v \in Ids : \/ op'[v] = op[v]
                          \/ Plain(op'[v])
                          \/ Renaming(op'[v]) /\ (~broken => Synced),
           \/ inv' = inv
           \/ inv'.kind \in {"none", "create", "delete"} /\ (~broken => Synced)
    PROVE  IndexOK'
  <1>1. /\ Listed' = Listed /\ Trashed' = Trashed /\ Excess' = Excess /\ Sorted' = Sorted
    BY DEF Listed, Trashed, Excess, Sorted, Exists
  <1>2. \A v : EntryOf(v)' = EntryOf(v)
    BY DEF EntryOf, SelectInSeq
  <1>3. Synced' = Synced
    BY <1>1 DEF Synced
  <1>4. ASSUME NEW v \in Ids, op'[v].await = "index"
        PROVE  op'[v] = op[v]
    BY <1>4 DEF Plain, Renaming
  <1>5. ASSUME ~broken PROVE TrashOK'
    <2>1. TrashOK
      BY <1>5 DEF IndexOK
    <2>2. inv'.kind \in {"none", "create"} => Synced'
      BY <2>1, <1>3, <1>5 DEF TrashOK
    <2>3. ASSUME NEW v \in Ids
          PROVE  /\ Renaming(op'[v]) => Synced'
                 /\ op'[v].await = "index" =>
                       Trashed' = Listed' \cup {op'[v].deletedAt} /\ Len(index') <= MaxTrash
                 /\ op'[v].await = "trim" => Listed' = Trashed' /\ Len(index') <= MaxTrash + 1
                 /\ op'[v].await = "unindex" =>
                       /\ Trashed' = {index'[i].deletedAt : i \in Excess' + 1 .. Len(index')}
                       /\ Len(index') <= MaxTrash + 1
      <3>1. CASE op'[v] = op[v]
        BY <3>1, <2>1, <1>1, <1>3 DEF TrashOK, Renaming
      <3>2. CASE op'[v] # op[v]
        BY <3>2, <1>3, <1>5 DEF Plain, Renaming
      <3> QED
        BY <3>1, <3>2
    <2>4. inv'.kind = "restore" =>
             /\ Trashed' = Listed' \ {index'[EntryOf(inv.id)'].deletedAt}
             /\ Len(index') <= MaxTrash
      BY <2>1, <1>1, <1>2 DEF TrashOK
    <2>5. inv'.kind = "empty" => Trashed' = {}
      BY <2>1, <1>1 DEF TrashOK
    <2> QED
      BY <2>2, <2>3, <2>4, <2>5 DEF TrashOK, Renaming
  <1>6. \A v \in Ids : op'[v].await = "index" =>
           op'[v].deletedAt \in Stamps /\ \A t \in Listed' : t < op'[v].deletedAt
    BY <1>1, <1>4 DEF IndexOK
  <1>7. inv'.kind = "restore" => inv'.id \in Ids /\ EntryOf(inv.id)' # 0
    BY <1>2 DEF IndexOK
  <1>8. Sorted'
    BY <1>1 DEF IndexOK
  <1> QED
    BY <1>5, <1>6, <1>7, <1>8 DEF IndexOK

\* Some processes may have been abandoned, and nothing else has happened to any.
Aged ==
    /\ procs' \in [Pids -> Process \cup {None}]
    /\ Alive' = Alive
    /\ \A p \in Alive : /\ procs'[p].in = procs[p].in /\ procs'[p].kind = procs[p].kind
                        /\ procs'[p].heard = procs[p].heard
                        /\ procs[p].abandoned => procs'[p].abandoned

\* A call goes on only when its qemu-img has ended or is abandoned, and to the
\* rename only when that is true of every process but one it waits for.
GoesOn(v, o) ==
    /\ op[v].await = "qemu-img" /\ op[v].child \in Alive => procs'[op[v].child].abandoned
    /\ Renaming(o) =>
          \A p \in Alive : procs[p].in = v /\ ~procs'[p].abandoned =>
              o.await = "exit" /\ running[v] = p

LEMMA AbandonAges ==
    ASSUME TypeOK, NEW q, Abandon(q)
    PROVE  /\ Aged
           /\ q \in Alive => procs'[q].abandoned
           /\ \A p \in Pids \ {q} : procs'[p] = procs[p]
  <1>1. CASE q \in Alive
    <2> DEFINE n == [procs[q] EXCEPT !.abandoned = TRUE]
    <2>1. q \in Pids /\ procs[q] \in Process /\ procs[q] # None
      BY <1>1 DEF TypeOK, Alive
    <2>2. /\ n \in Process /\ n.in = procs[q].in /\ n.kind = procs[q].kind
          /\ n.heard = procs[q].heard /\ n.abandoned
      BY <2>1 DEF Process
    <2>3. procs' = [procs EXCEPT ![q] = n]
      BY <1>1 DEF Abandon
    <2>4. n # None
      BY <2>2, NoneIsNoRecord
    <2> HIDE DEF n
    <2>5. /\ procs' \in [Pids -> Process \cup {None}] /\ procs'[q] = n
          /\ \A p \in Pids \ {q} : procs'[p] = procs[p]
      BY <2>1, <2>2, <2>3 DEF TypeOK
    <2>6. Alive' = Alive
      BY <2>1, <2>4, <2>5 DEF Alive
    <2>7. Alive \subseteq Pids
      BY DEF Alive
    <2> QED
      BY <2>2, <2>5, <2>6, <2>7 DEF Aged
  <1>2. CASE q \notin Alive
    BY <1>2 DEF Abandon, Aged, TypeOK, Alive
  <1> QED
    BY <1>1, <1>2

\* The processes are known wherever the call has gone on to.
LEMMA KnownCall ==
    ASSUME Inv, Aged, NEW v \in Ids, NEW o \in Ops, op' = [op EXCEPT ![v] = o], GoesOn(v, o),
           UNCHANGED <<running, closing>>, \A w \in Ids : dir'[w] = dir[w]
    PROVE  KnownProcesses'
  <1>1. /\ op' \in [Ids -> Ops] /\ op'[v] = o
        /\ \A w \in Ids \ {v} : op'[w] = op[w]
    BY OneCall DEF Inv
  <1>2. ASSUME NEW p \in Alive', ~procs'[p].abandoned PROVE KnownProcess(p)'
    <2>1. /\ KnownProcess(p) /\ p \in Pids /\ p \in Alive
          /\ procs'[p].in = procs[p].in /\ procs'[p].kind = procs[p].kind
          /\ procs[p].abandoned => procs'[p].abandoned
      BY <1>2 DEF Inv, KnownProcesses, Alive, Aged
    <2>2. CASE procs[p].in # v \/ ~Renaming(o)
      <3>1. ~(op[v].await = "qemu-img" /\ op[v].child = p)
        BY <1>2, <2>1 DEF GoesOn
      <3>2. \A w \in Ids : procs[p].in = w =>
               op'[w] = op[w] \/ (~Renaming(op'[w]) /\ ~(op[w].await = "qemu-img" /\ op[w].child = p))
        BY <1>1, <2>2, <3>1
      <3> QED
        BY <2>1, <3>2, KnownFrame DEF Exists
    <2>3. CASE procs[p].in = v /\ Renaming(o)
      <3>1. o.await = "exit" /\ running[v] = p
        BY <1>2, <2>1, <2>3 DEF GoesOn
      <3>2. p # None
        BY <2>1, QemuAssumption
      <3>3. procs[p].kind = "qemu"
        BY <1>2, <2>1, <2>3, <3>1, <3>2 DEF KnownProcess, Inv, ChainsOK, ChainOK
      <3>4. KnownQemu(p, v)'
        BY <1>1, <3>1 DEF KnownQemu
      <3> QED
        BY <2>1, <2>3, <3>3, <3>4 DEF KnownProcess
    <2> QED
      BY <2>2, <2>3
  <1>3. ASSUME NEW p \in Alive', procs'[p].abandoned PROVE KnownProcess(p)'
    BY <1>3 DEF KnownProcess
  <1> QED
    BY <1>2, <1>3 DEF KnownProcesses

\* A step of a call that changes nothing but where the call is, and may leave a
\* process behind.
LEMMA CallGoesOn ==
    ASSUME Inv, NEW v \in Ids, NEW o \in Ops, op' = [op EXCEPT ![v] = o],
           UNCHANGED <<files, memory, inv>>, Aged, GoesOn(v, o),
           o.await \notin {"recording", "qemu-img"},
           \/ Plain(o)
           \/ /\ Renaming(o) /\ inv = [kind |-> "delete", id |-> v]
              /\ ~broken => Synced
    PROVE  Inv'
  <1>1. /\ op' \in [Ids -> Ops] /\ op'[v] = o
        /\ \A w \in Ids \ {v} : op'[w] = op[w]
    BY OneCall DEF Inv
  <1>2. TypeOK'
    BY <1>1 DEF Inv, TypeOK, Ops, files, memory, Aged
  <1>3. KnownProcesses' /\ OneMachine'
    BY KnownCall DEF files, memory, Inv, OneMachine
  <1>4. /\ Alive' = Alive /\ dir' = dir /\ running' = running /\ inv' = inv
        /\ \A p \in Alive : procs'[p].heard = procs[p].heard
    BY DEF Aged, files, memory
  <1>5. ChainOK(v)'
    BY <1>1, <1>4 DEF ChainOK, Exists, InDelete, Plain, Renaming
  <1>6. ASSUME NEW w \in Ids \ {v} PROVE ChainOK(w)'
    <2>1. ChainOK(w) /\ op'[w] = op[w]
      BY <1>1 DEF Inv, ChainsOK
    <2> QED
      BY <1>4, <2>1, ChainFrame, QemuAssumption DEF Exists
  <1>7. IndexOK'
    <2>1. \A t \in Stamps : (dir'[t] # None) <=> Exists(t)
      BY <1>4 DEF Exists
    <2> QED
      BY <1>1, <2>1, IndexFrame DEF Inv, files
  <1> QED
    BY <1>2, <1>3, <1>5, <1>6, <1>7 DEF Inv, ChainsOK

\* The same, leaving nothing behind and without a change of the inventory.
LEMMA CallStep ==
    ASSUME Inv, NEW v \in Ids, NEW o \in Ops, op' = [op EXCEPT ![v] = o],
           UNCHANGED <<files, procs, memory, inv>>,
           op[v].await = "qemu-img" => op[v].child \notin Alive,
           o.await \notin {"recording", "qemu-img"}, Plain(o)
    PROVE  Inv'
  <1>1. Aged
    BY DEF Aged, Inv, TypeOK, Alive
  <1>2. GoesOn(v, o)
    BY DEF GoesOn, Plain, Renaming
  <1> QED
    BY <1>1, <1>2, CallGoesOn

-----------------------------------------------------------------------------
(* Starting a machine *)

\* A pid that is free is not one the broker has in memory or in a state file.
LEMMA FreePid ==
    ASSUME NEW p \in FreePids
    PROVE  /\ p \in Pids \ Alive
           /\ \A v \in Ids : p # running[v]
           /\ \A l \in Ids \cup Stamps : Exists(l) => p # dir[l].runtime
  BY DEF FreePids

\* Every process of a machine without one in "running" and in its state file, and
\* without a qemu-img the broker waits for, is abandoned.
LEMMA NoProcess ==
    ASSUME Inv, NEW v \in Ids, ~RunningOrRecovered(v), op[v].await # "qemu-img",
           NEW p \in Alive, procs[p].in = v
    PROVE  procs[p].abandoned
  <1>1. KnownProcess(p) /\ p \in Pids
    BY DEF Inv, KnownProcesses, Alive
  <1> QED
    BY <1>1, QemuAssumption DEF KnownProcess, KnownQemu, RunningOrRecovered, Recovered

\* A process is started on the disk of a machine.
LEMMA NewProcess ==
    ASSUME TypeOK, NEW p \in FreePids, NEW kind \in {"qemu", "qemu-img"}, NEW v \in Ids,
           procs' = [procs EXCEPT ![p] = Started(kind, v)]
    PROVE  /\ procs' \in [Pids -> Process \cup {None}]
           /\ Alive' = Alive \cup {p}
           /\ procs'[p].in = v /\ procs'[p].kind = kind /\ ~procs'[p].heard
           /\ \A q \in Alive : q # p /\ procs'[q] = procs[q]
  <1>1. p \in Pids \ Alive
    BY FreePid
  <1>2. /\ Started(kind, v) \in Process /\ Started(kind, v).in = v
        /\ Started(kind, v).kind = kind /\ ~Started(kind, v).heard
    BY DEF Started, Process
  <1>3. Started(kind, v) # None
    BY <1>2, NoneIsNoRecord
  <1>4. /\ procs' \in [Pids -> Process \cup {None}] /\ procs'[p] = Started(kind, v)
        /\ \A q \in Pids \ {p} : procs'[q] = procs[q]
    BY <1>1, <1>2 DEF TypeOK
  <1>5. Alive' = Alive \cup {p} /\ Alive \subseteq Pids
    BY <1>1, <1>3, <1>4 DEF Alive
  <1> QED
    BY <1>1, <1>2, <1>4, <1>5

\* A process is started for a registered machine.
LEMMA SpawnStep ==
    ASSUME Inv, NEW v \in Ids, Spawn(v), UNCHANGED <<files, closing, inv>>,
           op[v].await # "qemu-img"
    PROVE  Inv'
  <1>1. CASE running[v] # None \/ Recovered(v) \/ ~Readable(v)
    <2>1. op' = [op EXCEPT ![v] = NoOp] /\ UNCHANGED <<files, procs, memory, inv>>
      BY <1>1 DEF Spawn, EndOp, memory
    <2>2. NoOp \in Ops /\ NoOp.await = "nothing" /\ Plain(NoOp)
      BY OpTypes DEF NoOp, Plain
    <2> QED
      BY <2>1, <2>2, CallStep
  <1>2. CASE ~(running[v] # None \/ Recovered(v) \/ ~Readable(v))
    <2> DEFINE o == [NoOp EXCEPT !.await = "recording"]
    <2>1. PICK p \in FreePids :
             /\ procs' = [procs EXCEPT ![p] = Started("qemu", v)]
             /\ running' = [running EXCEPT ![v] = p]
             /\ generation' = [generation EXCEPT ![v] = p]
             /\ op' = [op EXCEPT ![v] = o]
      BY <1>2 DEF Spawn, Await
    <2>2. /\ p \in Pids \ Alive
          /\ \A w \in Ids : p # running[w]
          /\ \A l \in Ids \cup Stamps : Exists(l) => p # dir[l].runtime
      BY FreePid
    <2>3. o \in Ops /\ o.await = "recording" /\ Plain(o) /\ ~Renaming(o)
      BY OpTypes DEF NoOp, Awaits, Plain, Renaming
    <2> HIDE DEF o
    <2>4. /\ op' \in [Ids -> Ops] /\ op'[v] = o
          /\ \A w \in Ids \ {v} : op'[w] = op[w]
      BY <2>1, <2>3, OneCall DEF Inv
    <2>5. /\ procs' \in [Pids -> Process \cup {None}]
          /\ Alive' = Alive \cup {p}
          /\ procs'[p].in = v /\ procs'[p].kind = "qemu" /\ ~procs'[p].heard
          /\ \A q \in Alive : q # p /\ procs'[q] = procs[q]
      BY <2>1, NewProcess DEF Inv
    <2>6. /\ running' \in [Ids -> Pids \cup {None}] /\ running'[v] = p
          /\ \A w \in Ids \ {v} : running'[w] = running[w]
      BY <2>1, <2>2 DEF Inv, TypeOK
    <2>7. dir' = dir /\ closing' = closing /\ inv' = inv /\ index' = index
           /\ staging' = staging /\ broken' = broken
      BY DEF files
    <2>8. TypeOK'
      BY <2>1, <2>2, <2>4, <2>5, <2>6, <2>7 DEF Inv, TypeOK, Ops
    <2>9. ASSUME NEW q \in Alive' PROVE KnownProcess(q)'
      <3>1. CASE q = p
        BY <3>1, <2>3, <2>4, <2>5, <2>6 DEF KnownProcess, KnownQemu
      <3>2. CASE q \in Alive /\ q # p
        <4>1. KnownProcess(q) /\ q \in Pids /\ procs'[q] = procs[q]
          BY <3>2, <2>5 DEF Inv, KnownProcesses, Alive
        <4>2. procs[q].in = v => procs[q].abandoned
          BY <1>2, <3>2, NoProcess DEF RunningOrRecovered
        <4>3. CASE procs[q].in = v
          BY <4>1, <4>2, <4>3 DEF KnownProcess
        <4>4. CASE procs[q].in # v
          <5>1. \A w \in Ids : procs[q].in = w => running'[w] = running[w] /\ op'[w] = op[w]
            BY <4>4, <2>4, <2>6
          <5> QED
            BY <4>1, <5>1, <2>7, KnownFrame DEF Exists
        <4> QED
          BY <4>3, <4>4
      <3> QED
        BY <3>1, <3>2, <2>5
    <2>10. OneMachine'
      BY <2>2, <2>6 DEF Inv, OneMachine
    <2>11. ChainOK(v)'
      <3>1. Exists(v)'
        BY <1>2, <2>7 DEF Readable, Exists
      <3>2. p # None
        BY <2>2, QemuAssumption
      <3> QED
        BY <3>1, <3>2, <2>3, <2>4, <2>5, <2>6 DEF ChainOK, InDelete, Plain
    <2>12. ASSUME NEW w \in Ids \ {v} PROVE ChainOK(w)'
      <3>1. \A q \in Alive' :
               \/ q \in Alive /\ procs'[q].heard = procs[q].heard
               \/ q # running[w] /\ (Exists(w) => q # dir[w].runtime)
        BY <2>2, <2>5
      <3> QED
        BY <3>1, <2>4, <2>6, <2>7, ChainFrame, QemuAssumption DEF Inv, ChainsOK, Exists
    <2>13. IndexOK'
      <3>1. \A w \in Ids : op'[w] = op[w] \/ Plain(op'[w])
        BY <2>3, <2>4
      <3> QED
        BY <3>1, <2>7, IndexFrame DEF Inv, Exists
    <2> QED
      BY <2>8, <2>9, <2>10, <2>11, <2>12, <2>13 DEF Inv, KnownProcesses, ChainsOK
  <1> QED
    BY <1>1, <1>2

\* qemu-img is started on the disk of a machine nothing else is known to use.
LEMMA SnapshotStep ==
    ASSUME Inv, NEW v \in Ids, Snapshot(v)
    PROVE  Inv'
  <1>1. PICK p \in FreePids :
           /\ procs' = [procs EXCEPT ![p] = Started("qemu-img", v)]
           /\ op' = [op EXCEPT ![v] = [NoOp EXCEPT !.await = "qemu-img", !.child = p]]
    BY DEF Snapshot
  <1> DEFINE o == [NoOp EXCEPT !.await = "qemu-img", !.child = p]
  <1>2. /\ p \in Pids \ Alive
        /\ \A w \in Ids : p # running[w]
        /\ \A l \in Ids \cup Stamps : Exists(l) => p # dir[l].runtime
    BY FreePid
  <1>3. /\ o \in Ops /\ o.await = "qemu-img" /\ o.child = p /\ Plain(o)
    BY <1>2, OpTypes DEF NoOp, Awaits, Plain
  <1>4. /\ op[v].await = "nothing" /\ Exists(v) /\ ~RunningOrRecovered(v)
        /\ running[v] = None /\ dir[v].runtime \notin Alive
    BY DEF Snapshot, Idle, Readable, RunningOrRecovered, Recovered
  <1>5. UNCHANGED <<dir, index, staging, broken, running, generation, closing, inv>>
    BY DEF Snapshot, files, memory
  <1>6. op' = [op EXCEPT ![v] = o]
    BY <1>1
  <1> HIDE DEF o
  <1>7. /\ op' \in [Ids -> Ops] /\ op'[v] = o /\ \A w \in Ids \ {v} : op'[w] = op[w]
    BY <1>3, <1>6, OneCall DEF Inv
  <1>8. /\ procs' \in [Pids -> Process \cup {None}]
        /\ Alive' = Alive \cup {p}
        /\ procs'[p].in = v /\ procs'[p].kind = "qemu-img" /\ ~procs'[p].heard
        /\ \A q \in Alive : q # p /\ procs'[q] = procs[q]
    BY <1>1, NewProcess DEF Inv
  <1>9. TypeOK'
    BY <1>5, <1>7, <1>8 DEF Inv, TypeOK, Ops
  <1>10. ASSUME NEW q \in Alive' PROVE KnownProcess(q)'
    <2>1. CASE q = p
      BY <1>3, <1>7, <1>8, <2>1 DEF KnownProcess
    <2>2. CASE q \in Alive
      <3>1. KnownProcess(q) /\ q \in Pids /\ procs'[q] = procs[q]
        BY <1>8, <2>2 DEF Inv, KnownProcesses, Alive
      <3>2. CASE procs[q].in = v
        <4>1. procs[q].abandoned
          BY <1>4, <2>2, <3>2, NoProcess
        <4> QED
          BY <3>1, <4>1 DEF KnownProcess
      <3>3. CASE procs[q].in # v
        <4>1. \A w \in Ids : procs[q].in = w => op'[w] = op[w]
          BY <1>7, <3>3
        <4> QED
          BY <1>5, <3>1, <4>1, KnownFrame DEF Exists
      <3> QED
        BY <3>2, <3>3
    <2> QED
      BY <1>8, <2>1, <2>2
  <1>11. OneMachine'
    BY <1>5 DEF Inv, OneMachine
  <1>12. ChainOK(v)'
    <2>1. Exists(v)' /\ running'[v] = None /\ dir'[v].runtime \notin Alive'
      BY <1>2, <1>4, <1>5, <1>8 DEF Exists
    <2> QED
      BY <1>3, <1>7, <2>1 DEF ChainOK, InDelete
  <1>13. ASSUME NEW w \in Ids \ {v} PROVE ChainOK(w)'
    <2>1. \A q \in Alive' :
             \/ q \in Alive /\ procs'[q].heard = procs[q].heard
             \/ q # running[w] /\ (Exists(w) => q # dir[w].runtime)
      BY <1>2, <1>8
    <2> QED
      BY <1>5, <1>7, <2>1, ChainFrame, QemuAssumption DEF Inv, ChainsOK, Exists
  <1>14. IndexOK'
    <2>1. \A w \in Ids : op'[w] = op[w] \/ Plain(op'[w])
      BY <1>3, <1>7
    <2> QED
      BY <1>5, <2>1, IndexFrame DEF Inv, Exists
  <1> QED
    BY <1>9, <1>10, <1>11, <1>12, <1>13, <1>14 DEF Inv, KnownProcesses, ChainsOK

\* The state file is written and the exit listeners are set.
LEMMA RecordedStep ==
    ASSUME Inv, NEW v \in Ids, Recorded(v)
    PROVE  Inv'
  <1> DEFINE o == [NoOp EXCEPT !.await = "qmp"]
             d == [dir[v] EXCEPT !.runtime = running[v]]
  <1>1. /\ dir[v] # None /\ running[v] # None
        /\ running[v] \in Alive => ~procs[running[v]].heard
        /\ op[v].await = "recording"
    BY DEF Inv, ChainsOK, ChainOK, Recorded, Exists
  <1>2. running[v] \in Pids /\ dir[v] \in Directory
    BY <1>1 DEF Inv, TypeOK
  <1>3. /\ dir' = [dir EXCEPT ![v] = d] /\ op' = [op EXCEPT ![v] = o]
        /\ procs' = (IF running[v] \in Alive THEN [procs EXCEPT ![running[v]].heard = TRUE] ELSE procs)
        /\ UNCHANGED <<index, staging, broken, running, generation, closing, inv>>
    BY DEF Recorded, Await, memory
  <1>4. d \in Directory /\ d.runtime = running[v]
    BY <1>2 DEF Directory
  <1>5. d # None
    BY <1>4, NoneIsNoRecord
  <1>6. o \in Ops /\ o.await = "qmp" /\ Plain(o)
    BY OpTypes DEF NoOp, Awaits, Plain
  <1> HIDE DEF o, d
  <1>7. /\ op' \in [Ids -> Ops] /\ op'[v] = o /\ \A w \in Ids \ {v} : op'[w] = op[w]
    BY <1>3, <1>6, OneCall DEF Inv
  <1>8. /\ dir' \in [Ids \cup Stamps -> Directory \cup {None}] /\ dir'[v] = d
        /\ \A l \in (Ids \cup Stamps) \ {v} : dir'[l] = dir[l]
    BY <1>3, <1>4 DEF Inv, TypeOK
  <1>9. /\ procs' \in [Pids -> Process \cup {None}]
        /\ \A p \in Pids : (procs'[p] = None) <=> (procs[p] = None)
        /\ \A p \in Alive : /\ procs'[p].in = procs[p].in /\ procs'[p].abandoned = procs[p].abandoned
                            /\ procs'[p].kind = procs[p].kind
                            /\ p # running[v] => procs'[p].heard = procs[p].heard
    <2>1. CASE running[v] \in Alive
      <3> DEFINE n == [procs[running[v]] EXCEPT !.heard = TRUE]
      <3>1. procs[running[v]] \in Process
        BY <2>1 DEF Inv, TypeOK, Alive
      <3>2. /\ n \in Process /\ n.in = procs[running[v]].in /\ n.kind = procs[running[v]].kind
            /\ n.abandoned = procs[running[v]].abandoned
        BY <3>1 DEF Process
      <3>3. procs' = [procs EXCEPT ![running[v]] = n]
        BY <1>3, <2>1 DEF Inv, TypeOK
      <3>4. n # None
        BY <3>2, NoneIsNoRecord
      <3> HIDE DEF n
      <3> QED
        BY <1>2, <2>1, <3>2, <3>3, <3>4 DEF Inv, TypeOK, Alive
    <2>2. CASE running[v] \notin Alive
      BY <2>2, <1>3 DEF Inv, TypeOK
    <2> QED
      BY <2>1, <2>2
  <1>10. Alive' = Alive
    BY <1>9 DEF Alive
  <1>11. TypeOK'
    BY <1>3, <1>7, <1>8, <1>9 DEF Inv, TypeOK, Ops
  <1>12. ASSUME NEW p \in Alive' PROVE KnownProcess(p)'
    <2>1. KnownProcess(p) /\ p \in Pids /\ p \in Alive
      BY <1>10, <1>12 DEF Inv, KnownProcesses, Alive
    <2>2. \A w \in Ids \ {v} : dir'[w] = dir[w] /\ op'[w] = op[w]
      BY <1>7, <1>8
    <2>3. op[v].await # "qemu-img" /\ ~Renaming(op'[v])
      BY <1>1, <1>6, <1>7 DEF Renaming
    <2>4. \A w \in Ids : procs[p].in = w =>
             /\ running'[w] = running[w]
             /\ running[w] = None /\ Exists(w) /\ dir[w].runtime = p /\ ~closing[w] =>
                   dir'[w] # None /\ dir'[w].runtime = p /\ ~closing'[w]
             /\ op'[w] = op[w] \/ (~Renaming(op'[w]) /\ op[w].await # "qemu-img")
      BY <1>1, <1>3, <2>2, <2>3 DEF Exists
    <2> QED
      BY <1>9, <2>1, <2>4, KnownFrame
  <1>13. OneMachine'
    BY <1>3 DEF Inv, OneMachine
  <1>14. ChainOK(v)'
    BY <1>6, <1>7 DEF ChainOK, InDelete, Plain
  <1>15. ASSUME NEW w \in Ids \ {v} PROVE ChainOK(w)'
    <2>1. \A p \in Alive' : p \in Alive /\ (p = running[w] /\ op[w].await = "recording" =>
                                              procs'[p].heard = procs[p].heard)
      BY <1>1, <1>9, <1>10 DEF Inv, OneMachine
    <2>2. ChainOK(w) /\ op'[w] = op[w] /\ running'[w] = running[w] /\ inv' = inv
          /\ dir'[w] = dir[w]
      BY <1>3, <1>7, <1>8 DEF Inv, ChainsOK
    <2> QED
      BY <2>1, <2>2, ChainFrame, QemuAssumption DEF Exists
  <1>16. IndexOK'
    <2>1. \A w \in Ids : op'[w] = op[w] \/ Plain(op'[w])
      BY <1>6, <1>7
    <2>2. \A t \in Stamps : (dir'[t] # None) <=> Exists(t)
      BY <1>1, <1>5, <1>8 DEF Exists
    <2> QED
      BY <2>1, <2>2, <1>3, IndexFrame DEF Inv
  <1> QED
    BY <1>11, <1>12, <1>13, <1>14, <1>15, <1>16 DEF Inv, KnownProcesses, ChainsOK

-----------------------------------------------------------------------------
(* Processes that end *)

\* The directory of a machine changes, and neither a call nor the index does.
LEMMA DirectoryStep ==
    ASSUME Inv, NEW v \in Ids, NEW d \in Directory, dir' = [dir EXCEPT ![v] = d]
    PROVE  /\ dir' \in [Ids \cup Stamps -> Directory \cup {None}] /\ dir'[v] = d /\ d # None
           /\ \A l \in (Ids \cup Stamps) \ {v} : dir'[l] = dir[l]
           /\ \A t \in Stamps : (dir'[t] # None) <=> Exists(t)
  <1>1. v \notin Stamps /\ d # None
    BY QemuAssumption, NoneIsNoRecord DEF Stamps
  <1> QED
    BY <1>1 DEF Inv, TypeOK, Exists

\* A process of an earlier broker is gone and its state file is cleared.
LEMMA QuitStep ==
    ASSUME Inv, NEW v \in Ids, Recovered(v), QuitRecovered(v)
    PROVE  /\ dir' \in [Ids \cup Stamps -> Directory \cup {None}]
           /\ procs' \in [Pids -> Process \cup {None}]
           /\ \A t \in Stamps : (dir'[t] # None) <=> Exists(t)
           /\ Alive' = Alive \ {dir[v].runtime}
           /\ \A p \in Alive' : procs'[p] = procs[p]
           /\ dir'[v] # None /\ dir'[v].runtime = None
           /\ \A w \in Ids \ {v} : dir'[w] = dir[w]
  <1> DEFINE d == [dir[v] EXCEPT !.runtime = None]
  <1>1. dir[v] \in Directory /\ dir[v].runtime \in Alive /\ Alive \subseteq Pids
    BY DEF Recovered, Exists, Inv, TypeOK, Alive
  <1>2. d \in Directory /\ d.runtime = None
    BY <1>1 DEF Directory
  <1>3. dir' = [dir EXCEPT ![v] = d]
    BY DEF QuitRecovered
  <1> HIDE DEF d
  <1>4. /\ dir' \in [Ids \cup Stamps -> Directory \cup {None}] /\ dir'[v] = d /\ d # None
        /\ \A l \in (Ids \cup Stamps) \ {v} : dir'[l] = dir[l]
        /\ \A t \in Stamps : (dir'[t] # None) <=> Exists(t)
    BY <1>2, <1>3, DirectoryStep
  <1>5. procs' = [procs EXCEPT ![dir[v].runtime] = None]
    BY DEF QuitRecovered
  <1>6. /\ procs' \in [Pids -> Process \cup {None}]
        /\ \A p \in Pids : procs'[p] = IF p = dir[v].runtime THEN None ELSE procs[p]
    BY <1>1, <1>5 DEF Inv, TypeOK
  <1> QED
    BY <1>1, <1>2, <1>4, <1>6 DEF Alive

\* The same, with what the call does next, also in deleteVm.
LEMMA QuitKeepsInv ==
    ASSUME Inv, NEW v \in Ids, Recovered(v), QuitRecovered(v),
           UNCHANGED <<index, staging, broken, memory>>,
           NEW o \in Ops, op' = [op EXCEPT ![v] = o],
           o.await \notin {"recording", "qemu-img"}, op[v].await # "qemu-img",
           \/ Plain(o) /\ inv' = inv
           \/ o.await = "rename" /\ inv = NoInv /\ inv' = [kind |-> "delete", id |-> v]
    PROVE  Inv'
  <1>1. /\ dir' \in [Ids \cup Stamps -> Directory \cup {None}]
        /\ procs' \in [Pids -> Process \cup {None}]
        /\ \A t \in Stamps : (dir'[t] # None) <=> Exists(t)
        /\ Alive' = Alive \ {dir[v].runtime}
        /\ \A p \in Alive' : procs'[p] = procs[p]
        /\ dir'[v] # None /\ dir'[v].runtime = None
        /\ \A w \in Ids \ {v} : dir'[w] = dir[w]
    BY QuitStep
  <1>2. /\ op' \in [Ids -> Ops] /\ op'[v] = o /\ \A w \in Ids \ {v} : op'[w] = op[w]
    BY OneCall DEF Inv
  <1>3. UNCHANGED <<index, staging, broken, running, generation, closing>>
    BY DEF memory
  <1>4. TypeOK'
    <2>1. inv' \in [kind : {"none", "delete", "create", "restore", "empty"}, id : Ids \cup {None}]
      BY DEF Inv, TypeOK
    <2> QED
      BY <1>1, <1>2, <1>3, <2>1 DEF Inv, TypeOK, Ops
  <1>5. ASSUME NEW p \in Alive' PROVE KnownProcess(p)'
    <2>1. KnownProcess(p) /\ p \in Pids /\ p # dir[v].runtime /\ procs'[p] = procs[p]
      BY <1>1, <1>5 DEF Inv, KnownProcesses, Alive
    <2>2. CASE procs[p].in = v
      <3>1. running[v] = None /\ p # None
        BY <2>1, QemuAssumption DEF Recovered
      <3>2. procs[p].abandoned
        BY <2>1, <2>2, <3>1 DEF KnownProcess, KnownQemu
      <3> QED
        BY <2>1, <3>2 DEF KnownProcess
    <2>3. CASE procs[p].in # v
      <3>1. \A w \in Ids : procs[p].in = w =>
               running'[w] = running[w] /\ op'[w] = op[w] /\ dir'[w] = dir[w] /\ closing'[w] = closing[w]
        BY <1>1, <1>2, <1>3, <2>3
      <3> QED
        BY <2>1, <3>1, KnownFrame DEF Exists
    <2> QED
      BY <2>2, <2>3
  <1>6. OneMachine'
    BY <1>3 DEF Inv, OneMachine
  <1>7. running[v] = None /\ None \notin Pids /\ Alive' \subseteq Pids
    BY QemuAssumption DEF Recovered, Alive
  <1>8. ChainOK(v)'
    BY <1>2, <1>3, <1>7 DEF ChainOK, InDelete, Plain
  <1>9. ASSUME NEW w \in Ids \ {v} PROVE ChainOK(w)'
    <2>1. InDelete(w) => inv' = inv
      BY DEF NoInv, Inv, ChainsOK, ChainOK
    <2>2. /\ ChainOK(w) /\ op'[w] = op[w] /\ running'[w] = running[w] /\ dir'[w] = dir[w]
          /\ \A p \in Alive' : p \in Alive /\ procs'[p].heard = procs[p].heard
      BY <1>1, <1>2, <1>3 DEF Inv, ChainsOK
    <2> QED
      BY <2>1, <2>2, <1>7, ChainFrame DEF Exists
  <1>10. IndexOK'
    <2>1. inv = NoInv => (~broken => Synced)
      BY DEF Inv, IndexOK, TrashOK, NoInv
    <2>2. o.await = "rename" => Renaming(o)
      BY DEF Renaming
    <2> QED
      BY <1>1, <1>2, <1>3, <2>1, <2>2, IndexFrame DEF Inv
  <1> QED
    BY <1>4, <1>5, <1>6, <1>8, <1>9, <1>10 DEF Inv, KnownProcesses, ChainsOK

\* A process ends, and the broker hears of it or not.
LEMMA ExitsStep ==
    ASSUME Inv, NEW p \in Pids, Exits(p)
    PROVE  Inv'
  <1>1. /\ procs' \in [Pids -> Process \cup {None}] /\ procs'[p] = None
        /\ \A q \in Pids \ {p} : procs'[q] = procs[q]
        /\ p \in Alive
    BY DEF Exits, Inv, TypeOK
  <1>2. Alive' = Alive \ {p}
    BY <1>1 DEF Alive
  <1>3. UNCHANGED <<dir, index, staging, broken, generation, op, inv>>
    BY DEF Exits, files
  <1>4. /\ running' \in [Ids -> Pids \cup {None}] /\ closing' \in [Ids -> BOOLEAN]
        /\ \A v \in Ids : running[v] # p => running'[v] = running[v] /\ closing'[v] = closing[v]
        /\ \A v \in Ids : running'[v] # running[v] => running'[v] = None /\ procs[p].heard
    <2>0. running \in [Ids -> Pids \cup {None}] /\ closing \in [Ids -> BOOLEAN]
      BY DEF Inv, TypeOK
    <2>1. CASE procs[p].heard
      <3>1. /\ running' = [v \in Ids |-> IF running[v] = p THEN None ELSE running[v]]
            /\ closing' = [v \in Ids |-> closing[v] \/ (running[v] = p /\ generation[v] = p)]
        BY <2>1 DEF Exits
      <3>2. running' \in [Ids -> Pids \cup {None}]
        BY <2>0, <3>1
      <3>3. closing' \in [Ids -> BOOLEAN]
        BY <3>1
      <3>4. ASSUME NEW v \in Ids, running[v] # p
            PROVE  running'[v] = running[v] /\ closing'[v] = closing[v]
        <4>1. running'[v] = running[v]
          BY <3>1, <3>4
        <4>2. closing'[v] = (closing[v] \/ (running[v] = p /\ generation[v] = p)) /\ closing[v] \in BOOLEAN
          BY <2>0, <3>1
        <4> QED
          BY <3>4, <4>1, <4>2
      <3>5. \A v \in Ids : running'[v] # running[v] => running'[v] = None
        BY <3>1
      <3> QED
        BY <2>1, <3>2, <3>3, <3>4, <3>5
    <2>2. CASE ~procs[p].heard
      <3>1. running' = running /\ closing' = closing
        BY <2>2 DEF Exits
      <3> QED
        BY <2>0, <3>1
    <2> QED
      BY <2>1, <2>2
  <1>5. TypeOK'
    BY <1>1, <1>3, <1>4 DEF Inv, TypeOK
  <1>6. p # None
    BY QemuAssumption
  <1>7. ASSUME NEW q \in Alive' PROVE KnownProcess(q)'
    <2>1. KnownProcess(q) /\ q \in Pids /\ q # p /\ procs'[q] = procs[q]
      BY <1>1, <1>2, <1>7 DEF Inv, KnownProcesses, Alive
    <2>2. ASSUME NEW v \in Ids, procs[q].in = v, running[v] = p
          PROVE  procs[q].abandoned \/ (procs[q].kind # "qemu" /\ op[v].await = "qemu-img")
      BY <2>1, <2>2, <1>6 DEF KnownProcess, KnownQemu
    <2>3. CASE \A v \in Ids : procs[q].in = v => running[v] # p
      BY <2>1, <2>3, <1>3, <1>4, KnownFrame DEF Exists
    <2>4. CASE \E v \in Ids : procs[q].in = v /\ running[v] = p
      BY <2>1, <2>2, <2>4, <1>6 DEF KnownProcess, Inv, ChainsOK, ChainOK
    <2> QED
      BY <2>3, <2>4
  <1>8. OneMachine'
    BY <1>4 DEF Inv, OneMachine
  <1>9. ASSUME NEW v \in Ids PROVE ChainOK(v)'
    <2>1. ChainOK(v)
      BY DEF Inv, ChainsOK
    <2>2. CASE running'[v] = running[v]
      <3>1. \A q \in Alive' : q \in Alive /\ procs'[q].heard = procs[q].heard
        BY <1>1, <1>2 DEF Alive
      <3> QED
        BY <2>1, <2>2, <3>1, <1>3, ChainFrame, QemuAssumption DEF Exists
    <2>3. CASE running'[v] # running[v]
      <3>1. running[v] = p /\ running'[v] = None /\ procs[p].heard
        BY <1>4, <2>3
      <3>2. op[v].await # "recording" /\ op[v].await # "qemu-img"
        BY <2>1, <3>1, <1>1, <1>6 DEF ChainOK
      <3> QED
        BY <2>1, <3>2, <1>3 DEF ChainOK, InDelete
    <2> QED
      BY <2>2, <2>3
  <1>10. IndexOK'
    BY <1>3, IndexFrame DEF Inv, Exists
  <1> QED
    BY <1>5, <1>7, <1>8, <1>9, <1>10 DEF Inv, KnownProcesses, ChainsOK

\* The directory of a machine appears, or its state file is cleared after an exit:
\* FinalizeExit, Created and PushMedia, and StopVm of a process without one.
LEMMA OneDirectoryKeepsInv ==
    ASSUME Inv, NEW v \in Ids, NEW d \in Directory, dir' = [dir EXCEPT ![v] = d],
           d.runtime = None,
           Exists(v) => closing[v],
           UNCHANGED <<index, staging, broken, procs, running>>,
           NEW o \in Ops, op' = [op EXCEPT ![v] = o],
           o = op[v] \/ (Idle(v) /\ inv' = inv /\ Plain(o) /\ o.await \notin {"recording", "qemu-img"}),
           generation' \in [Ids -> Pids \cup {None}],
           closing' \in [Ids -> BOOLEAN],
           \A w \in Ids \ {v} : closing'[w] = closing[w],
           inv' = inv \/ (inv' = NoInv /\ inv.kind = "create")
    PROVE  Inv'
  <1>1. /\ dir' \in [Ids \cup Stamps -> Directory \cup {None}] /\ dir'[v] = d /\ d # None
        /\ \A l \in (Ids \cup Stamps) \ {v} : dir'[l] = dir[l]
        /\ \A t \in Stamps : (dir'[t] # None) <=> Exists(t)
    BY DirectoryStep
  <1>2. /\ op' \in [Ids -> Ops] /\ op'[v] = o /\ \A w \in Ids \ {v} : op'[w] = op[w]
    BY OneCall DEF Inv
  <1>3. \A w \in Ids : \/ op'[w] = op[w]
                      \/ /\ Plain(op'[w]) /\ ~Renaming(op'[w]) /\ inv' = inv
                         /\ op'[w].await \notin {"recording", "qemu-img"}
                         /\ op[w].await # "qemu-img"
    BY <1>2 DEF Idle, Plain, Renaming
  <1>4. TypeOK'
    <2>1. inv' \in [kind : {"none", "delete", "create", "restore", "empty"}, id : Ids \cup {None}]
      BY DEF Inv, TypeOK, NoInv
    <2> QED
      BY <1>1, <1>2, <2>1 DEF Inv, TypeOK, Ops
  <1>5. Alive' = Alive
    BY DEF Alive
  <1>6. ASSUME NEW p \in Alive' PROVE KnownProcess(p)'
    <2>1. KnownProcess(p) /\ p \in Pids
      BY <1>5, <1>6 DEF Inv, KnownProcesses, Alive
    <2>2. \A w \in Ids : procs[p].in = w =>
             /\ running'[w] = running[w]
             /\ running[w] = None /\ Exists(w) /\ dir[w].runtime = p /\ ~closing[w] =>
                   dir'[w] # None /\ dir'[w].runtime = p /\ ~closing'[w]
             /\ op'[w] = op[w] \/ (~Renaming(op'[w]) /\ op[w].await # "qemu-img")
      BY <1>1, <1>3 DEF Exists
    <2> QED
      BY <2>1, <2>2, KnownFrame
  <1>7. OneMachine'
    BY DEF Inv, OneMachine
  <1>8. ASSUME NEW w \in Ids PROVE ChainOK(w)'
    <2>1. ChainOK(w) /\ (InDelete(w) => inv' = inv)
      BY DEF Inv, ChainsOK, ChainOK
    <2>2. Exists(w) => dir'[w] # None /\ dir'[w].runtime \in {dir[w].runtime, None}
      BY <1>1 DEF Exists
    <2>3. \A p \in Alive' : p \in Alive /\ procs'[p].heard = procs[p].heard
      BY <1>5
    <2>4. CASE op'[w] = op[w]
      BY <2>1, <2>2, <2>3, <2>4, ChainFrame, QemuAssumption
    <2>5. CASE op'[w] # op[w]
      BY <1>3, <2>5 DEF ChainOK, InDelete, Plain
    <2> QED
      BY <2>4, <2>5
  <1>9. IndexOK'
    <2>1. inv.kind = "create" => (~broken => Synced)
      BY DEF Inv, IndexOK, TrashOK
    <2> QED
      BY <1>1, <1>3, <2>1, IndexFrame DEF Inv, NoInv
  <1> QED
    BY <1>4, <1>6, <1>7, <1>8, <1>9 DEF Inv, KnownProcesses, ChainsOK

-----------------------------------------------------------------------------
(* The operators on the index *)

\* A set of natural numbers has a minimum.
LEMMA Smallest ==
    ASSUME NEW S \in SUBSET Nat, S # {}
    PROVE  \E m \in S : \A n \in S : m <= n
  <1> DEFINE R == OpToRel(<, Nat)
  <1>1. IsWellFoundedOn(R, Nat)
    BY NatLessThanWellFounded
  <1>2. \A x, y \in Nat : <<x, y>> \in R <=> x < y
    BY DEF OpToRel
  <1> HIDE DEF R
  <1>3. PICK m \in S : \A n \in S : ~ (<<n, m>> \in R)
    BY <1>1, WFMin
  <1>4. \A n \in S : ~ (n < m)
    BY <1>2, <1>3
  <1> QED
    BY <1>4

\* A bounded set of natural numbers has a maximum.
LEMMA Largest ==
    ASSUME NEW S \in SUBSET Nat, S # {}, NEW b \in Nat, \A s \in S : s <= b
    PROVE  Max(S) \in S /\ \A s \in S : s <= Max(S)
  <1> DEFINE B == {n \in Nat : \A s \in S : s <= n}
  <1>1. B \in SUBSET Nat /\ B # {}
    OBVIOUS
  <1>2. PICK m \in B : \A n \in B : m <= n
    BY <1>1, Smallest
  <1>3. m \in S
    <2>1. SUFFICES ASSUME m \notin S PROVE FALSE
      OBVIOUS
    <2>2. PICK s \in S : TRUE
      OBVIOUS
    <2>3. m - 1 \in Nat
      BY <1>2, <2>1, <2>2
    <2>4. \A x \in S : x <= m - 1
      BY <1>2, <2>1
    <2>5. m - 1 \in B
      BY <2>3, <2>4
    <2> QED
      BY <1>2, <2>5
  <1>4. \E x \in S : \A y \in S : x >= y
    BY <1>2, <1>3
  <1>5. Max(S) \in S /\ \A y \in S : Max(S) >= y
    BY <1>4 DEF Max
  <1> QED
    BY <1>5

\* An entry of the index is one.
LEMMA EntryType ==
    ASSUME TypeOK
    PROVE  /\ Len(index) \in Nat /\ DOMAIN index = 1 .. Len(index)
           /\ \A i \in 1 .. Len(index) :
                 /\ index[i] \in [id : Ids, deletedAt : Stamps]
                 /\ index[i].id \in Ids /\ index[i].deletedAt \in Stamps
                 /\ index[i].deletedAt \in Nat
           /\ Listed \subseteq Stamps
  <1> DEFINE E == [id : Ids, deletedAt : Stamps]
  <1>1. index \in Seq(E)
    BY DEF TypeOK
  <1> HIDE DEF E
  <1>2. /\ Len(index) \in Nat /\ DOMAIN index = 1 .. Len(index)
        /\ \A i \in 1 .. Len(index) : index[i] \in E
    BY <1>1, ElementOfSeq, LenProperties
  <1>3. \A e \in E : e.id \in Ids /\ e.deletedAt \in Stamps /\ e.deletedAt \in Nat
    BY QemuAssumption DEF E, Stamps
  <1> QED
    BY <1>2, <1>3 DEF E, Listed

\* EntryOf finds an entry of the index.
LEMMA EntryFound ==
    ASSUME TypeOK, NEW v, EntryOf(v) # 0
    PROVE  EntryOf(v) \in 1 .. Len(index) /\ index[EntryOf(v)].deletedAt \in Stamps
  <1> DEFINE I == {i \in 1 .. Len(index) : index[i].id = v}
  <1>1. EntryOf(v) = IF I # {} THEN Min(I) ELSE 0
    BY DEF EntryOf, SelectInSeq
  <1>2. I # {} /\ EntryOf(v) = Min(I) /\ I \in SUBSET Nat
    BY <1>1
  <1>3. \E x \in I : \A y \in I : x <= y
    BY <1>2, Smallest
  <1>4. Min(I) \in I
    BY <1>3 DEF Min
  <1>5. EntryOf(v) \in 1 .. Len(index)
    BY <1>2, <1>4
  <1> QED
    BY <1>5, EntryType

\* A new entry is later than all there are, in the index and in the trash.
LEMMA NowIsLater ==
    ASSUME TypeOK
    PROVE  Now \in Nat /\ \A t \in Listed \cup Trashed : t < Now
  <1> DEFINE S == {0} \cup Listed \cup Trashed
  <1>1. Listed \subseteq Stamps
    BY EntryType
  <1>2. S \in SUBSET Nat /\ S # {} /\ \A s \in S : s <= MaxDeletes
    <2>1. /\ \A s \in Stamps : s \in Nat /\ s <= MaxDeletes
          /\ Trashed \subseteq Stamps /\ MaxDeletes \in Nat
      BY QemuAssumption DEF Stamps, Trashed
    <2> QED
      BY <1>1, <2>1
  <1>3. Max(S) \in S /\ \A s \in S : s <= Max(S)
    BY <1>2, Largest, QemuAssumption
  <1>4. Now = Max(S) + 1
    BY DEF Now, Listed, Trashed
  <1> HIDE DEF S
  <1>5. Listed \cup Trashed \subseteq S /\ S \subseteq Nat
    BY <1>2 DEF S
  <1>6. \A m \in Nat : m < m + 1 /\ m + 1 \in Nat /\ \A t \in Nat : t <= m => t < m + 1
    OBVIOUS
  <1>7. Max(S) \in Nat /\ \A t \in Listed \cup Trashed : t \in Nat /\ t <= Max(S)
    BY <1>3, <1>5
  <1> QED
    BY <1>4, <1>6, <1>7

\* The entries trimTrash removes are the ones above the limit.
LEMMA ExcessIsOverLimit ==
    ASSUME TypeOK
    PROVE  /\ Excess \in 0 .. Len(index)
           /\ Excess = IF Len(index) > MaxTrash THEN Len(index) - MaxTrash ELSE 0
  <1> DEFINE n == Len(index) - MaxTrash
  <1>1. Len(index) \in Nat /\ MaxTrash \in Nat \ {0} /\ n \in Int
    BY LenProperties, QemuAssumption DEF TypeOK
  <1>2. \E x \in {0, n} : \A y \in {0, n} : x >= y
    BY <1>1
  <1>3. Max({0, n}) \in {0, n} /\ \A y \in {0, n} : Max({0, n}) >= y
    BY <1>2 DEF Max
  <1>4. Excess \in {0, n} /\ Excess >= 0 /\ Excess >= n
    BY <1>3 DEF Excess
  <1> QED
    BY <1>1, <1>4

\* An entry at the end of the index.
LEMMA AppendEntry ==
    ASSUME TypeOK, Sorted, NEW e \in [id : Ids, deletedAt : Stamps],
           \A t \in Listed : t < e.deletedAt, index' = Append(index, e)
    PROVE  /\ index' \in Seq([id : Ids, deletedAt : Stamps])
           /\ Sorted' /\ Listed' = Listed \cup {e.deletedAt}
           /\ Len(index') = Len(index) + 1
  <1>1. /\ index' \in Seq([id : Ids, deletedAt : Stamps])
        /\ Len(index') = Len(index) + 1 /\ Len(index) \in Nat
        /\ \A i \in 1 .. Len(index) : index'[i] = index[i]
        /\ index'[Len(index) + 1] = e
    BY AppendProperties, LenProperties DEF TypeOK
  <1>2. DOMAIN index = 1 .. Len(index) /\ DOMAIN index' = 1 .. Len(index) + 1
    BY <1>1, LenProperties DEF TypeOK
  <1>3. \A i \in 1 .. Len(index) : index[i].deletedAt \in Listed
    BY <1>2 DEF Listed
  <1>4. \A i, j \in DOMAIN index' : i < j => index'[i].deletedAt < index'[j].deletedAt
    <2> TAKE i, j \in DOMAIN index'
    <2>1. CASE j = Len(index) + 1
      BY <1>1, <1>2, <1>3, <2>1
    <2>2. CASE j # Len(index) + 1
      BY <1>1, <1>2, <2>2 DEF Sorted
    <2> QED
      BY <2>1, <2>2
  <1>5. Listed' = Listed \cup {e.deletedAt}
    <2>1. \A t \in Listed : t \in Listed'
      BY <1>1, <1>2 DEF Listed
    <2>2. e.deletedAt \in Listed'
      BY <1>1, <1>2 DEF Listed
    <2>3. \A t \in Listed' : t \in Listed \/ t = e.deletedAt
      BY <1>1, <1>2 DEF Listed
    <2> QED
      BY <2>1, <2>2, <2>3
  <1> QED
    BY <1>1, <1>4, <1>5 DEF Sorted

\* The index without its first entries.
LEMMA TrimEntries ==
    ASSUME TypeOK, Sorted, index' = SubSeq(index, Excess + 1, Len(index))
    PROVE  /\ index' \in Seq([id : Ids, deletedAt : Stamps])
           /\ Sorted' /\ Listed' = {index[i].deletedAt : i \in Excess + 1 .. Len(index)}
           /\ Len(index') = Len(index) - Excess
  <1> DEFINE n == Len(index)
             k == Excess
             E == [id : Ids, deletedAt : Stamps]
  <1>1. n \in Nat /\ k \in 0 .. n /\ DOMAIN index = 1 .. n /\ index \in Seq(E)
    BY EntryType, ExcessIsOverLimit DEF TypeOK
  <1>2. index' = SubSeq(index, k + 1, n)
    OBVIOUS
  <1>3. \A i \in k + 1 .. n : index[i] \in E
    BY <1>1, EntryType
  <1> HIDE DEF k, n, E
  <1>4. /\ index' \in Seq(E) /\ Len(index') = n - k
        /\ \A i \in 1 .. n - k : index'[i] = index[k + i]
    <2>1. /\ SubSeq(index, k + 1, n) \in Seq(E)
          /\ Len(SubSeq(index, k + 1, n)) = IF k + 1 <= n THEN n - (k + 1) + 1 ELSE 0
          /\ \A i \in 1 .. n - (k + 1) + 1 : SubSeq(index, k + 1, n)[i] = index[(k + 1) + i - 1]
      BY <1>1, <1>3, SubSeqProperties
    <2>2. /\ n - (k + 1) + 1 = n - k /\ (k + 1 <= n \/ n - k = 0)
          /\ \A i \in 1 .. n - k : (k + 1) + i - 1 = k + i
      BY <1>1
    <2> QED
      BY <1>2, <2>1, <2>2
  <1>5. DOMAIN index' = 1 .. n - k
    BY <1>4, LenProperties
  <1>6. \A i, j \in DOMAIN index' : i < j => index'[i].deletedAt < index'[j].deletedAt
    <2> TAKE i, j \in DOMAIN index'
    <2>1. i \in 1 .. n - k /\ j \in 1 .. n - k
      BY <1>5
    <2>2. k + i \in 1 .. n /\ k + j \in 1 .. n /\ (i < j => k + i < k + j)
      BY <1>1, <2>1
    <2>3. index'[i] = index[k + i] /\ index'[j] = index[k + j]
      BY <1>4, <2>1
    <2> QED
      BY <1>1, <2>2, <2>3 DEF Sorted
  <1>7. Listed' = {index[i].deletedAt : i \in k + 1 .. n}
    <2>1. ASSUME NEW i \in k + 1 .. n PROVE index[i].deletedAt \in Listed'
      <3>1. i - k \in 1 .. n - k /\ k + (i - k) = i
        BY <1>1
      <3>2. index'[i - k] = index[i]
        BY <1>4, <3>1
      <3> QED
        BY <1>5, <3>1, <3>2 DEF Listed
    <2>2. ASSUME NEW i \in 1 .. n - k
          PROVE  index'[i].deletedAt \in {index[j].deletedAt : j \in k + 1 .. n}
      <3>1. k + i \in k + 1 .. n
        BY <1>1
      <3> QED
        BY <1>4, <3>1
    <2> QED
      BY <1>5, <2>1, <2>2 DEF Listed
  <1> QED
    BY <1>4, <1>6, <1>7 DEF Sorted, k, n, E

\* The index without one entry.
LEMMA RemoveEntry ==
    ASSUME TypeOK, Sorted, NEW k \in 1 .. Len(index), index' = RemoveAt(index, k)
    PROVE  /\ index' \in Seq([id : Ids, deletedAt : Stamps])
           /\ Sorted' /\ Listed' = Listed \ {index[k].deletedAt}
           /\ Len(index') = Len(index) - 1
  <1> DEFINE n == Len(index)
             E == [id : Ids, deletedAt : Stamps]
             a == SubSeq(index, 1, k - 1)
             b == SubSeq(index, k + 1, n)
  <1>1. n \in Nat /\ k \in 1 .. n /\ DOMAIN index = 1 .. n /\ index \in Seq(E)
    BY LenProperties DEF TypeOK
  <1>2. index' = a \o b
    BY DEF RemoveAt
  <1>3. a \in Seq(E) /\ Len(a) = k - 1 /\ \A i \in 1 .. k - 1 : a[i] = index[i]
    <2>1. /\ SubSeq(index, 1, k - 1) \in Seq(E)
          /\ Len(SubSeq(index, 1, k - 1)) = IF 1 <= k - 1 THEN (k - 1) - 1 + 1 ELSE 0
          /\ \A i \in 1 .. (k - 1) - 1 + 1 : SubSeq(index, 1, k - 1)[i] = index[1 + i - 1]
      <3>1. \A i \in 1 .. k - 1 : index[i] \in E
        BY <1>1, EntryType
      <3> HIDE DEF E, n
      <3> QED
        BY <1>1, <3>1, SubSeqProperties
    <2> HIDE DEF n
    <2> QED
      BY <1>1, <2>1
  <1>4. b \in Seq(E) /\ Len(b) = n - k /\ \A i \in 1 .. n - k : b[i] = index[k + i]
    <2>1. /\ SubSeq(index, k + 1, n) \in Seq(E)
          /\ Len(SubSeq(index, k + 1, n)) = IF k + 1 <= n THEN n - (k + 1) + 1 ELSE 0
          /\ \A i \in 1 .. n - (k + 1) + 1 : SubSeq(index, k + 1, n)[i] = index[(k + 1) + i - 1]
      <3>1. \A i \in k + 1 .. n : index[i] \in E
        BY <1>1, EntryType
      <3> HIDE DEF E
      <3> QED
        BY <1>1, <3>1, SubSeqProperties
    <2> HIDE DEF n
    <2> QED
      BY <1>1, <2>1
  <1> HIDE DEF a, b
  <1>5. /\ index' \in Seq(E) /\ Len(index') = n - 1
        /\ \A i \in 1 .. n - 1 : index'[i] = IF i <= k - 1 THEN index[i] ELSE index[i + 1]
    <2>1. /\ a \o b \in Seq(E) /\ Len(a \o b) = Len(a) + Len(b)
          /\ \A i \in 1 .. Len(a) + Len(b) :
                (a \o b)[i] = IF i <= Len(a) THEN a[i] ELSE b[i - Len(a)]
      BY <1>3, <1>4, ConcatProperties
    <2> HIDE DEF n
    <2>2. ASSUME NEW i \in 1 .. n - 1
          PROVE  (a \o b)[i] = IF i <= k - 1 THEN index[i] ELSE index[i + 1]
      <3>1. CASE i <= k - 1
        BY <1>1, <1>3, <1>4, <2>1, <3>1
      <3>2. CASE ~(i <= k - 1)
        <4>1. i - (k - 1) \in 1 .. n - k /\ k + (i - (k - 1)) = i + 1
          BY <1>1, <3>2
        <4> QED
          BY <1>1, <1>3, <1>4, <2>1, <3>2, <4>1
      <3> QED
        BY <3>1, <3>2
    <2>3. Len(a) + Len(b) = n - 1
      BY <1>1, <1>3, <1>4
    <2> HIDE DEF E
    <2> QED
      BY <1>2, <2>1, <2>2, <2>3
  <1>6. DOMAIN index' = 1 .. n - 1
    BY <1>5, LenProperties
  <1> HIDE DEF n
  <1>7. \A i, j \in DOMAIN index' : i < j => index'[i].deletedAt < index'[j].deletedAt
    <2> TAKE i, j \in DOMAIN index'
    <2> DEFINE x == IF i <= k - 1 THEN i ELSE i + 1
               y == IF j <= k - 1 THEN j ELSE j + 1
    <2>1. x \in DOMAIN index /\ y \in DOMAIN index /\ (i < j => x < y)
      BY <1>1, <1>6
    <2>2. index'[i] = index[x] /\ index'[j] = index[y]
      BY <1>5, <1>6
    <2> HIDE DEF x, y
    <2> QED
      BY <2>1, <2>2 DEF Sorted
  <1>8. \A i \in 1 .. n : i # k => index[i].deletedAt # index[k].deletedAt
    <2>1. \A i \in 1 .. n : index[i].deletedAt \in Nat
      BY EntryType DEF n
    <2> QED
      BY <1>1, <2>1 DEF Sorted
  <1>9. Listed' = Listed \ {index[k].deletedAt}
    <2>1. ASSUME NEW i \in 1 .. n, i # k PROVE index[i].deletedAt \in Listed'
      <3> DEFINE j == IF i <= k - 1 THEN i ELSE i - 1
      <3>1. j \in 1 .. n - 1 /\ index'[j] = index[i]
        BY <1>1, <1>5, <2>1
      <3> HIDE DEF j
      <3> QED
        BY <1>6, <3>1 DEF Listed
    <2>2. ASSUME NEW i \in 1 .. n - 1
          PROVE  \E j \in 1 .. n : j # k /\ index'[i].deletedAt = index[j].deletedAt
      <3> DEFINE j == IF i <= k - 1 THEN i ELSE i + 1
      <3>1. j \in 1 .. n /\ j # k /\ index'[i] = index[j]
        BY <1>1, <1>5
      <3> HIDE DEF j
      <3> QED
        BY <3>1
    <2>3. ASSUME NEW s \in Listed' PROVE s \in Listed \ {index[k].deletedAt}
      <3>1. PICK i \in 1 .. n - 1 : s = index'[i].deletedAt
        BY <1>6, <2>3 DEF Listed
      <3>2. PICK j \in 1 .. n : j # k /\ s = index[j].deletedAt
        BY <2>2, <3>1
      <3> QED
        BY <1>1, <1>8, <3>2 DEF Listed
    <2>4. ASSUME NEW s \in Listed \ {index[k].deletedAt} PROVE s \in Listed'
      <3>1. PICK i \in 1 .. n : s = index[i].deletedAt
        BY <1>1, <2>4 DEF Listed
      <3> QED
        BY <2>1, <2>4, <3>1
    <2> QED
      BY <2>3, <2>4
  <1> QED
    BY <1>5, <1>7, <1>9 DEF Sorted, n

-----------------------------------------------------------------------------
(* Directories that move or are removed *)

\* What moving the directory l to k leaves behind.
Relocated(l, k) ==
    /\ dir' \in [Ids \cup Stamps -> Directory \cup {None}]
    /\ dir'[k] = dir[l] /\ dir'[l] = None
    /\ \A m \in (Ids \cup Stamps) \ {l, k} : dir'[m] = dir[m]
    /\ procs' \in [Pids -> Process \cup {None}]
    /\ Alive' = Alive
    /\ \A p \in Alive : /\ procs'[p].heard = procs[p].heard /\ procs'[p].kind = procs[p].kind
                        /\ IF procs[p].in = l
                           THEN procs'[p].in = k /\ procs'[p].abandoned = procs[p].abandoned
                           ELSE procs'[p] = procs[p]

\* A directory moves, with the processes in it.
LEMMA MoveStep ==
    ASSUME TypeOK, NEW l \in Ids \cup Stamps, NEW k \in Ids \cup Stamps, l # k, Move(l, k)
    PROVE  Relocated(l, k)
  <1>1. /\ dir' \in [Ids \cup Stamps -> Directory \cup {None}]
        /\ dir'[k] = dir[l] /\ dir'[l] = None
        /\ \A m \in (Ids \cup Stamps) \ {l, k} : dir'[m] = dir[m]
    <2>1. dir' = [dir EXCEPT ![k] = dir[l], ![l] = None]
      BY DEF Move
    <2> QED
      BY <2>1 DEF TypeOK
  <1> DEFINE moved(p) == [procs[p] EXCEPT !.in = k]
  <1>2. ASSUME NEW p \in Alive
        PROVE  /\ moved(p) \in Process /\ moved(p) # None /\ moved(p).in = k
               /\ moved(p).abandoned = procs[p].abandoned
               /\ moved(p).heard = procs[p].heard /\ moved(p).kind = procs[p].kind
    <2>1. procs[p] \in Process
      BY DEF Alive, TypeOK
    <2>2. moved(p) \in Process
      BY <2>1 DEF Process
    <2> QED
      BY <2>1, <2>2, NoneIsNoRecord DEF Process
  <1>3. procs' = [p \in Pids |-> IF p \in Alive /\ procs[p].in = l THEN moved(p) ELSE procs[p]]
    BY DEF Move
  <1> HIDE DEF moved
  <1>4. procs' \in [Pids -> Process \cup {None}]
    BY <1>2, <1>3 DEF TypeOK
  <1>5. \A p \in Pids : (procs'[p] # None) <=> (procs[p] # None)
    BY <1>2, <1>3 DEF Alive
  <1>6. Alive' = Alive
    BY <1>5 DEF Alive
  <1>7. ASSUME NEW p \in Alive
        PROVE  /\ procs'[p].heard = procs[p].heard /\ procs'[p].kind = procs[p].kind
               /\ IF procs[p].in = l
                  THEN procs'[p].in = k /\ procs'[p].abandoned = procs[p].abandoned
                  ELSE procs'[p] = procs[p]
    <2>1. procs'[p] = IF procs[p].in = l THEN moved(p) ELSE procs[p]
      BY <1>3, <1>7 DEF Alive
    <2> QED
      BY <1>2, <2>1
  <1> QED
    BY <1>1, <1>4, <1>6, <1>7 DEF Relocated

\* Directories in the trash are removed; the processes in them keep no directory.
LEMMA RemoveStep ==
    ASSUME TypeOK, NEW L, L \subseteq Stamps, RemoveDirs(L)
    PROVE  /\ dir' \in [Ids \cup Stamps -> Directory \cup {None}]
           /\ \A m \in Ids \cup Stamps : dir'[m] = IF m \in L THEN None ELSE dir[m]
           /\ procs' \in [Pids -> Process \cup {None}]
           /\ Alive' = Alive
           /\ \A p \in Alive : /\ procs'[p].heard = procs[p].heard /\ procs'[p].kind = procs[p].kind
                               /\ procs'[p].abandoned = procs[p].abandoned
                               /\ procs[p].in \notin L => procs'[p] = procs[p]
                               /\ procs[p].in \in L => procs'[p].in = None
  <1>1. /\ dir' \in [Ids \cup Stamps -> Directory \cup {None}]
        /\ \A m \in Ids \cup Stamps : dir'[m] = IF m \in L THEN None ELSE dir[m]
    BY DEF RemoveDirs, TypeOK
  <1> DEFINE gone(p) == [procs[p] EXCEPT !.in = None]
  <1>2. ASSUME NEW p \in Alive
        PROVE  /\ gone(p) \in Process /\ gone(p) # None /\ gone(p).in = None
               /\ gone(p).abandoned = procs[p].abandoned
               /\ gone(p).heard = procs[p].heard /\ gone(p).kind = procs[p].kind
    <2>1. procs[p] \in Process
      BY DEF Alive, TypeOK
    <2>2. gone(p) \in Process
      BY <2>1 DEF Process
    <2> QED
      BY <2>1, <2>2, NoneIsNoRecord DEF Process
  <1>3. procs' = [p \in Pids |-> IF p \in Alive /\ procs[p].in \in L THEN gone(p) ELSE procs[p]]
    BY DEF RemoveDirs
  <1> HIDE DEF gone
  <1>4. procs' \in [Pids -> Process \cup {None}]
    BY <1>2, <1>3 DEF TypeOK
  <1>5. \A p \in Pids : (procs'[p] # None) <=> (procs[p] # None)
    BY <1>2, <1>3 DEF Alive
  <1>6. Alive' = Alive /\ Alive \subseteq Pids
    BY <1>5 DEF Alive
  <1> QED
    BY <1>1, <1>2, <1>3, <1>4, <1>6

\* Every process in the trash, or without a directory, is abandoned.
LEMMA TrashedProcess ==
    ASSUME Inv, NEW p \in Alive, procs[p].in \notin Ids
    PROVE  procs[p].abandoned
  BY DEF Inv, KnownProcesses, KnownProcess

\* In the trash and in the directories of machines are different directories.
LEMMA StampsAreNoIds == \A v \in Ids : v \notin Stamps
  BY QemuAssumption DEF Stamps

\* The calls and what they rely on, when a directory appears at v or one in the
\* trash is removed.
LEMMA InventoryFrame ==
    ASSUME Inv, Alive' = Alive, UNCHANGED <<running, op>>,
           \A p \in Alive : procs'[p].heard = procs[p].heard,
           \A w \in Ids : Exists(w) => dir'[w] = dir[w],
           \A w \in Ids : ~InDelete(w) \/ inv' = inv
    PROVE  OneMachine' /\ ChainsOK'
  <1>1. OneMachine'
    BY DEF Inv, OneMachine
  <1>2. ASSUME NEW w \in Ids PROVE ChainOK(w)'
    <2>1. ChainOK(w) /\ (InDelete(w) => inv' = inv)
      BY DEF Inv, ChainsOK
    <2>2. Exists(w) => dir'[w] # None /\ dir'[w].runtime \in {dir[w].runtime, None}
      BY DEF Exists
    <2>3. \A p \in Alive' : p \in Alive /\ procs'[p].heard = procs[p].heard
      OBVIOUS
    <2> QED
      BY <2>1, <2>2, <2>3, ChainFrame, QemuAssumption
  <1> QED
    BY <1>1, <1>2 DEF ChainsOK

\* While no deletion is under way, no call is in one.
LEMMA NoDeletion ==
    ASSUME Inv, inv.kind # "delete", NEW v \in Ids
    PROVE  ~InDelete(v)
  BY DEF Inv, ChainsOK, ChainOK

\* Only one deletion is under way.
LEMMA OneDeletion ==
    ASSUME Inv, NEW v \in Ids, InDelete(v)
    PROVE  /\ inv = [kind |-> "delete", id |-> v] /\ inv.kind = "delete"
           /\ \A w \in Ids \ {v} : ~InDelete(w)
  BY DEF Inv, ChainsOK, ChainOK

\* The machine goes to the trash.
LEMMA MoveToTrashStep ==
    ASSUME Inv, NEW v \in Ids, MoveToTrash(v)
    PROVE  Inv'
  <1>1. /\ InDelete(v) /\ op[v].await = "rename"
        /\ inv = [kind |-> "delete", id |-> v] /\ inv.kind = "delete"
        /\ \A w \in Ids \ {v} : ~InDelete(w)
        /\ ~broken => Synced
    <2>1. InDelete(v) /\ op[v].await = "rename"
      BY DEF MoveToTrash, InDelete
    <2>2. ~broken => Synced
      BY <2>1 DEF Inv, IndexOK, TrashOK
    <2> QED
      BY <2>1, <2>2, OneDeletion
  <1>2. CASE ~Readable(v)
    <2>1. op' = [op EXCEPT ![v] = NoOp] /\ UNCHANGED <<files, procs, memory>> /\ inv' = NoInv
      BY <1>2 DEF MoveToTrash, EndOp, EndInventory, files
    <2>2. NoOp \in Ops /\ NoOp.await = "nothing" /\ Plain(NoOp)
      BY OpTypes DEF NoOp, Plain
    <2>3. /\ op' \in [Ids -> Ops] /\ op'[v] = NoOp /\ \A w \in Ids \ {v} : op'[w] = op[w]
      BY <2>1, <2>2, OneCall DEF Inv
    <2>4. /\ dir' = dir /\ index' = index /\ staging' = staging /\ broken' = broken
          /\ procs' = procs /\ running' = running /\ closing' = closing
          /\ generation' = generation /\ Alive' = Alive
      BY <2>1 DEF files, memory, Alive
    <2>5. TypeOK'
      BY <2>1, <2>3, <2>4 DEF Inv, TypeOK, Ops, NoInv
    <2>6. KnownProcesses' /\ OneMachine'
      <3>1. Aged
        BY <2>4 DEF Aged, Inv, TypeOK, Alive
      <3>2. GoesOn(v, NoOp)
        BY <1>1, <2>2 DEF GoesOn, Plain, Renaming
      <3>3. KnownProcesses'
        BY <2>1, <2>2, <2>4, <3>1, <3>2, KnownCall
      <3> QED
        BY <2>4, <3>3 DEF Inv, OneMachine
    <2>7. ASSUME NEW w \in Ids PROVE ChainOK(w)'
      <3>1. CASE w = v
        BY <2>2, <2>3, <3>1 DEF ChainOK, InDelete
      <3>2. CASE w # v
        <4>1. ~InDelete(w)' /\ ChainOK(w)
          BY <1>1, <2>3, <3>2 DEF InDelete, Inv, ChainsOK
        <4> QED
          BY <2>3, <2>4, <3>2, <4>1 DEF ChainOK, Exists
      <3> QED
        BY <3>1, <3>2
    <2>8. IndexOK'
      <3>1. inv'.kind = "none" /\ \A w \in Ids : op'[w] = op[w] \/ Plain(op'[w])
        BY <2>1, <2>2, <2>3 DEF NoInv
      <3> QED
        BY <1>1, <2>4, <3>1, IndexFrame DEF Inv, Exists
    <2> QED
      BY <2>5, <2>6, <2>7, <2>8 DEF Inv, ChainsOK
  <1>3. CASE Readable(v) /\ Now \in Stamps /\ Move(v, Now) /\ UNCHANGED inv
             /\ op' = [op EXCEPT ![v] = [NoOp EXCEPT !.await = "index", !.deletedAt = Now]]
    <2> DEFINE o == [NoOp EXCEPT !.await = "index", !.deletedAt = Now]
    <2>1. o \in Ops /\ o.await = "index" /\ o.deletedAt = Now
      BY <1>3, OpTypes DEF NoOp, Awaits
    <2> HIDE DEF o
    <2>2. /\ op' \in [Ids -> Ops] /\ op'[v] = o /\ \A w \in Ids \ {v} : op'[w] = op[w]
      BY <1>3, <2>1, OneCall DEF Inv, o
    <2>3. v \notin Stamps /\ Now \notin Ids /\ v # Now
      BY <1>3, StampsAreNoIds
    <2>4. /\ dir' \in [Ids \cup Stamps -> Directory \cup {None}]
          /\ dir'[Now] = dir[v] /\ dir'[v] = None
          /\ \A m \in (Ids \cup Stamps) \ {v, Now} : dir'[m] = dir[m]
          /\ procs' \in [Pids -> Process \cup {None}]
          /\ Alive' = Alive
          /\ \A p \in Alive : /\ procs'[p].heard = procs[p].heard /\ procs'[p].kind = procs[p].kind
                              /\ IF procs[p].in = v
                                 THEN procs'[p].in = Now /\ procs'[p].abandoned = procs[p].abandoned
                                 ELSE procs'[p] = procs[p]
      <3>1. TypeOK /\ v \in Ids \cup Stamps /\ Now \in Ids \cup Stamps /\ Move(v, Now) /\ v # Now
        BY <1>3, <2>3 DEF Inv
      <3>2. Relocated(v, Now)
        BY Zenon, <3>1, MoveStep
      <3> QED
        BY <3>2 DEF Relocated
    <2>5. UNCHANGED <<index, staging, broken, running, generation, closing, inv>>
      BY <1>3 DEF MoveToTrash, memory
    <2>6. TypeOK'
      BY <2>2, <2>4, <2>5 DEF Inv, TypeOK, Ops
    <2>7. ASSUME NEW p \in Alive' PROVE KnownProcess(p)'
      <3>1. KnownProcess(p) /\ p \in Pids /\ p \in Alive
        BY <2>4, <2>7 DEF Inv, KnownProcesses, Alive
      <3>2. CASE procs[p].in = v
        <4>1. procs[p].abandoned
          BY <1>1, <3>1, <3>2 DEF KnownProcess, KnownQemu, Renaming
        <4>2. procs'[p].abandoned
          BY <2>4, <3>1, <3>2, <4>1
        <4> QED
          BY <4>2 DEF KnownProcess
      <3>3. CASE procs[p].in # v
        <4>1. procs'[p] = procs[p]
          BY <2>4, <3>1, <3>3
        <4>2. \A w \in Ids : procs[p].in = w => running'[w] = running[w] /\ dir'[w] = dir[w]
                                                /\ closing'[w] = closing[w] /\ op'[w] = op[w]
          BY <2>2, <2>3, <2>4, <2>5, <3>3
        <4> QED
          BY <3>1, <4>1, <4>2, KnownFrame DEF Exists
      <3> QED
        BY <3>2, <3>3
    <2>8. OneMachine'
      BY <2>5 DEF Inv, OneMachine
    <2>9. ChainOK(v)'
      BY <1>1, <2>1, <2>2, <2>5 DEF ChainOK, InDelete
    <2>10. ASSUME NEW w \in Ids \ {v} PROVE ChainOK(w)'
      <3>1. /\ ChainOK(w) /\ op'[w] = op[w] /\ running'[w] = running[w] /\ dir'[w] = dir[w]
            /\ inv' = inv
            /\ \A p \in Alive' : p \in Alive /\ procs'[p].heard = procs[p].heard
        BY <2>2, <2>3, <2>4, <2>5 DEF Inv, ChainsOK
      <3> QED
        BY <3>1, ChainFrame, QemuAssumption DEF Exists
    <2>11. Listed' = Listed /\ Sorted' = Sorted
      BY <2>5 DEF Listed, Sorted
    <2>12. Trashed' = Trashed \cup {Now}
      <3>1. dir[v] # None
        BY <1>3 DEF Readable, Exists
      <3>2. \A t \in Stamps : dir'[t] # None <=> t = Now \/ dir[t] # None
        BY <2>3, <2>4, <3>1
      <3> QED
        BY <1>3, <3>2 DEF Trashed, Exists
    <2>13. \A w \in Ids : op'[w].await \in {"rename", "index", "trim", "unindex"}
                             \/ (op'[w].await = "exit" /\ op'[w].then = "rename") => w = v
      BY <1>1, <2>2 DEF InDelete
    <2>14. ASSUME ~broken PROVE TrashOK'
      <3>1. Trashed' = Listed' \cup {op'[v].deletedAt} /\ Len(index') <= MaxTrash
        BY <1>1, <2>1, <2>2, <2>5, <2>11, <2>12, <2>14 DEF Synced
      <3> QED
        BY <1>1, <2>1, <2>2, <2>5, <2>13, <3>1 DEF TrashOK
    <2>15. \A w \in Ids : op'[w].await = "index" =>
              op'[w].deletedAt \in Stamps /\ \A t \in Listed' : t < op'[w].deletedAt
      BY <1>3, <2>1, <2>2, <2>11, <2>13, NowIsLater DEF Inv
    <2>16. IndexOK'
      BY <1>1, <2>5, <2>11, <2>14, <2>15 DEF IndexOK, Inv
    <2> QED
      BY <2>6, <2>7, <2>8, <2>9, <2>10, <2>16 DEF Inv, KnownProcesses, ChainsOK
  <1> QED
    BY <1>2, <1>3 DEF MoveToTrash

\* Processes in directories of the trash that are removed are abandoned before.
LEMMA RemoveKeepsKnown ==
    ASSUME Inv, NEW L, L \subseteq Stamps, RemoveDirs(L), UNCHANGED memory,
           \A w \in Ids : op'[w] = op[w] \/ (~Renaming(op'[w]) /\ op[w].await # "qemu-img")
    PROVE  KnownProcesses' /\ OneMachine'
  <1>1. /\ \A m \in Ids \cup Stamps : dir'[m] = IF m \in L THEN None ELSE dir[m]
        /\ Alive' = Alive
        /\ \A p \in Alive : /\ procs'[p].abandoned = procs[p].abandoned
                            /\ procs[p].in \notin L => procs'[p] = procs[p]
    BY RemoveStep DEF Inv
  <1>2. running' = running /\ closing' = closing
    BY DEF memory
  <1>3. \A w \in Ids : dir'[w] = dir[w]
    BY <1>1, StampsAreNoIds
  <1>4. ASSUME NEW p \in Alive' PROVE KnownProcess(p)'
    <2>1. KnownProcess(p) /\ p \in Pids /\ p \in Alive
      BY <1>1, <1>4 DEF Inv, KnownProcesses, Alive
    <2>2. CASE procs[p].in \in L
      <3>1. procs[p].abandoned
        BY <2>1, <2>2, TrashedProcess, StampsAreNoIds
      <3>2. procs'[p].abandoned
        BY <1>1, <2>1, <3>1
      <3> QED
        BY <3>2 DEF KnownProcess
    <2>3. CASE procs[p].in \notin L
      <3>1. procs'[p] = procs[p]
        BY <1>1, <2>1, <2>3
      <3>2. \A w \in Ids : op'[w] = op[w] \/ (~Renaming(op'[w]) /\ op[w].await # "qemu-img")
        OBVIOUS
      <3> QED
        BY <1>2, <1>3, <2>1, <3>1, <3>2, KnownFrame DEF Exists
    <2> QED
      BY <2>2, <2>3
  <1>5. OneMachine'
    BY <1>2 DEF Inv, OneMachine
  <1> QED
    BY <1>4, <1>5 DEF KnownProcesses

\* A step of deleteVm after the directory has gone to the trash.
LEMMA DeletionFrame ==
    ASSUME Inv, NEW v \in Ids, InDelete(v), NEW o \in Ops, op' = [op EXCEPT ![v] = o],
           (o.await \in {"trim", "unindex"} /\ inv' = inv) \/ o.await = "nothing",
           running' = running, Alive' = Alive,
           \A p \in Alive : procs'[p].heard = procs[p].heard,
           \A w \in Ids : dir'[w] = dir[w]
    PROVE  ChainsOK'
  <1>1. /\ op' \in [Ids -> Ops] /\ op'[v] = o /\ \A w \in Ids \ {v} : op'[w] = op[w]
    BY OneCall DEF Inv
  <1>2. inv = [kind |-> "delete", id |-> v] /\ \A w \in Ids \ {v} : ~InDelete(w)
    BY OneDeletion
  <1>3. ChainOK(v)'
    BY <1>1, <1>2 DEF ChainOK, InDelete
  <1>4. ASSUME NEW w \in Ids \ {v} PROVE ChainOK(w)'
    <2>1. ChainOK(w) /\ ~InDelete(w) /\ op'[w] = op[w]
      BY <1>1, <1>2 DEF Inv, ChainsOK
    <2>2. Exists(w) => dir'[w] # None /\ dir'[w].runtime \in {dir[w].runtime, None}
      BY DEF Exists
    <2>3. \A p \in Alive' : p \in Alive /\ procs'[p].heard = procs[p].heard
      OBVIOUS
    <2> QED
      BY <2>1, <2>2, <2>3, ChainFrame, QemuAssumption
  <1> QED
    BY <1>3, <1>4 DEF ChainsOK

\* The index in the middle of a deletion depends on the call that deletes only.
LEMMA DeletionIndex ==
    ASSUME Inv, NEW v \in Ids, InDelete(v), NEW o \in Ops, op' = [op EXCEPT ![v] = o],
           inv' = inv, Sorted', broken' = broken,
           \/ /\ o.await = "trim"
              /\ ~broken => Listed' = Trashed' /\ Len(index') <= MaxTrash + 1
           \/ /\ o.await = "unindex"
              /\ ~broken => /\ Trashed' = {index'[i].deletedAt : i \in Excess' + 1 .. Len(index')}
                            /\ Len(index') <= MaxTrash + 1
    PROVE  IndexOK'
  <1>1. /\ op' \in [Ids -> Ops] /\ op'[v] = o /\ \A w \in Ids \ {v} : op'[w] = op[w]
    BY OneCall DEF Inv
  <1>2. inv.kind = "delete" /\ \A w \in Ids \ {v} : ~InDelete(w)
    BY OneDeletion
  <1>3. \A w \in Ids : op'[w].await \in {"rename", "index", "trim", "unindex"}
                          \/ (op'[w].await = "exit" /\ op'[w].then = "rename") => w = v
    BY <1>1, <1>2 DEF InDelete
  <1>4. ~broken => TrashOK'
    BY <1>1, <1>2, <1>3 DEF TrashOK
  <1> QED
    BY <1>1, <1>2, <1>3, <1>4 DEF IndexOK

\* After a change of the inventory the index lists what is in the trash.
LEMMA InventoryEnds ==
    ASSUME Inv, inv' = NoInv, Sorted', broken' = broken, ~broken => Synced',
           \A w \in Ids : Plain(op'[w])
    PROVE  IndexOK'
  <1>1. inv'.kind = "none"
    BY DEF NoInv
  <1>2. ~broken => TrashOK'
    BY <1>1 DEF TrashOK, Plain
  <1> QED
    BY <1>1, <1>2 DEF IndexOK, Plain

\* The entry of a deleted machine reaches the trash index.
LEMMA WriteEntryStep ==
    ASSUME Inv, NEW v \in Ids, WriteEntry(v)
    PROVE  Inv'
  <1> DEFINE e == [id |-> v, deletedAt |-> op[v].deletedAt]
             o == [NoOp EXCEPT !.await = "trim"]
  <1>1. InDelete(v) /\ op[v].await = "index"
    BY DEF WriteEntry, InDelete
  <1>2. op[v].deletedAt \in Stamps /\ \A t \in Listed : t < op[v].deletedAt
    BY <1>1 DEF Inv, IndexOK
  <1>3. e \in [id : Ids, deletedAt : Stamps] /\ e.deletedAt = op[v].deletedAt
    BY <1>2
  <1>4. o \in Ops /\ o.await = "trim"
    BY OpTypes DEF NoOp, Awaits
  <1>5. op' = [op EXCEPT ![v] = o] /\ index' = Append(index, e)
        /\ UNCHANGED <<dir, staging, broken, procs, running, generation, closing, inv>>
    BY DEF WriteEntry, Await, memory
  <1> HIDE DEF e, o
  <1>6. /\ index' \in Seq([id : Ids, deletedAt : Stamps])
        /\ Sorted' /\ Listed' = Listed \cup {e.deletedAt}
        /\ Len(index') = Len(index) + 1
    BY <1>2, <1>3, <1>5, AppendEntry DEF Inv, IndexOK
  <1>7. op' \in [Ids -> Ops]
    BY <1>4, <1>5, OneCall DEF Inv
  <1>8. TypeOK'
    BY <1>5, <1>6, <1>7 DEF Inv, TypeOK, Ops
  <1>9. KnownProcesses' /\ OneMachine' /\ Alive' = Alive
    <2>1. Aged
      BY <1>5 DEF Aged, Inv, TypeOK, Alive
    <2>2. GoesOn(v, o)
      BY <1>1, <1>4 DEF GoesOn, Renaming
    <2>3. KnownProcesses'
      BY <1>4, <1>5, <2>1, <2>2, KnownCall
    <2> QED
      BY <1>5, <2>1, <2>3 DEF Inv, OneMachine, Aged
  <1>10. ChainsOK'
    BY <1>1, <1>4, <1>5, <1>9, DeletionFrame
  <1>11. Trashed' = Trashed
    BY <1>5 DEF Trashed, Exists
  <1>12. ~broken => Listed' = Trashed' /\ Len(index') <= MaxTrash + 1
    <2>1. ~broken => Trashed = Listed \cup {op[v].deletedAt} /\ Len(index) <= MaxTrash
      BY <1>1 DEF Inv, IndexOK, TrashOK
    <2> QED
      BY <1>3, <1>6, <1>11, <2>1, EntryType, QemuAssumption DEF Inv
  <1>13. IndexOK'
    BY <1>1, <1>4, <1>5, <1>6, <1>12, DeletionIndex
  <1> QED
    BY <1>8, <1>9, <1>10, <1>13 DEF Inv

\* trimTrash removes the directories of the first entries.
LEMMA TrimTrashStep ==
    ASSUME Inv, NEW v \in Ids, TrimTrash(v)
    PROVE  Inv'
  <1> DEFINE L == {index[i].deletedAt : i \in 1 .. Excess}
             o == [NoOp EXCEPT !.await = "unindex"]
  <1>1. InDelete(v) /\ op[v].await = "trim"
    BY DEF TrimTrash, InDelete
  <1>2. o \in Ops /\ o.await = "unindex"
    BY OpTypes DEF NoOp, Awaits
  <1>3. op' = [op EXCEPT ![v] = o] /\ RemoveDirs(L) /\ UNCHANGED memory
        /\ UNCHANGED <<index, staging, broken, running, generation, closing, inv>>
    BY DEF TrimTrash, Await, memory
  <1>4. /\ Len(index) \in Nat /\ Excess \in 0 .. Len(index) /\ DOMAIN index = 1 .. Len(index)
        /\ L \subseteq Stamps
    BY EntryType, ExcessIsOverLimit DEF Inv
  <1> HIDE DEF L, o
  <1>5. /\ dir' \in [Ids \cup Stamps -> Directory \cup {None}]
        /\ \A m \in Ids \cup Stamps : dir'[m] = IF m \in L THEN None ELSE dir[m]
        /\ procs' \in [Pids -> Process \cup {None}]
        /\ Alive' = Alive
        /\ \A p \in Alive : procs'[p].heard = procs[p].heard
    BY <1>3, <1>4, RemoveStep DEF Inv
  <1>6. op' \in [Ids -> Ops]
    BY <1>2, <1>3, OneCall DEF Inv
  <1>7. TypeOK'
    BY <1>3, <1>5, <1>6 DEF Inv, TypeOK, Ops
  <1>8. KnownProcesses' /\ OneMachine'
    <2>1. /\ op'[v] = o /\ op[v].await # "qemu-img" /\ ~Renaming(o)
          /\ \A w \in Ids \ {v} : op'[w] = op[w]
      BY <1>1, <1>2, <1>3, OneCall DEF Inv, Renaming
    <2>2. \A w \in Ids : op'[w] = op[w] \/ (~Renaming(op'[w]) /\ op[w].await # "qemu-img")
      BY <2>1
    <2> QED
      BY <1>3, <1>4, <2>2, RemoveKeepsKnown
  <1>9. ChainsOK'
    <2>1. \A w \in Ids : dir'[w] = dir[w]
      BY <1>4, <1>5, StampsAreNoIds
    <2> QED
      BY <1>1, <1>2, <1>3, <1>5, <2>1, DeletionFrame
  <1>10. Sorted' /\ Excess' = Excess
    BY <1>3 DEF Inv, IndexOK, Sorted, Excess
  <1>11. ASSUME ~broken
         PROVE  /\ Trashed' = {index'[i].deletedAt : i \in Excess' + 1 .. Len(index')}
                /\ Len(index') <= MaxTrash + 1
    <2>1. Listed = Trashed /\ Len(index) <= MaxTrash + 1
      BY <1>1, <1>11 DEF Inv, IndexOK, TrashOK
    <2>2. Trashed' = Trashed \ L
      BY <1>5 DEF Trashed, Exists
    <2>3. ASSUME NEW i \in Excess + 1 .. Len(index)
          PROVE  index[i].deletedAt \in Listed \ L
      <3>1. i \in 1 .. Len(index)
        BY <1>4
      <3>2. \A j \in 1 .. Excess : j \in 1 .. Len(index) /\ j < i
        BY <1>4
      <3>3. \A j \in 1 .. Excess : index[j].deletedAt < index[i].deletedAt
        BY <1>4, <3>1, <3>2 DEF Inv, IndexOK, Sorted
      <3>4. \A j \in 1 .. Excess : index[j].deletedAt # index[i].deletedAt
        BY <3>1, <3>2, <3>3, EntryType DEF Inv
      <3> QED
        BY <1>4, <3>1, <3>4 DEF Listed, L
    <2>4. ASSUME NEW t \in Listed \ L
          PROVE  \E i \in Excess + 1 .. Len(index) : t = index[i].deletedAt
      <3>1. PICK i \in 1 .. Len(index) : t = index[i].deletedAt
        BY <1>4, <2>4 DEF Listed
      <3>2. i \notin 1 .. Excess
        BY <2>4, <3>1 DEF L
      <3>3. i \in Excess + 1 .. Len(index)
        BY <1>4, <3>1, <3>2
      <3> QED
        BY <3>1, <3>3
    <2>5. Listed \ L = {index[i].deletedAt : i \in Excess + 1 .. Len(index)}
      BY <2>3, <2>4
    <2> QED
      BY <1>3, <1>10, <2>1, <2>2, <2>5
  <1>12. IndexOK'
    BY <1>1, <1>2, <1>3, <1>10, <1>11, DeletionIndex
  <1> QED
    BY <1>7, <1>8, <1>9, <1>12 DEF Inv

\* The end of a deletion: the entries of the removed directories leave the index.
LEMMA WriteTrimmedStep ==
    ASSUME Inv, NEW v \in Ids, WriteTrimmed(v)
    PROVE  Inv'
  <1>1. InDelete(v) /\ op[v].await = "unindex"
    BY DEF WriteTrimmed, InDelete
  <1>2. NoOp \in Ops /\ NoOp.await = "nothing" /\ Plain(NoOp)
    BY OpTypes DEF NoOp, Plain
  <1>3. op' = [op EXCEPT ![v] = NoOp] /\ index' = SubSeq(index, Excess + 1, Len(index))
        /\ inv' = NoInv /\ UNCHANGED <<dir, staging, broken, procs, running, generation, closing>>
    BY DEF WriteTrimmed, EndOp, EndInventory, memory
  <1>4. /\ op' \in [Ids -> Ops] /\ op'[v] = NoOp /\ \A w \in Ids \ {v} : op'[w] = op[w]
    BY <1>2, <1>3, OneCall DEF Inv
  <1>5. /\ index' \in Seq([id : Ids, deletedAt : Stamps])
        /\ Sorted' /\ Listed' = {index[i].deletedAt : i \in Excess + 1 .. Len(index)}
        /\ Len(index') = Len(index) - Excess
    BY <1>3, TrimEntries DEF Inv, IndexOK
  <1>6. TypeOK'
    BY <1>3, <1>4, <1>5 DEF Inv, TypeOK, Ops, NoInv
  <1>7. KnownProcesses' /\ OneMachine' /\ Alive' = Alive
    <2>1. Aged
      BY <1>3 DEF Aged, Inv, TypeOK, Alive
    <2>2. GoesOn(v, NoOp)
      BY <1>1, <1>2 DEF GoesOn, Renaming
    <2>3. KnownProcesses'
      BY <1>2, <1>3, <2>1, <2>2, KnownCall
    <2> QED
      BY <1>3, <2>1, <2>3 DEF Inv, OneMachine, Aged
  <1>8. ChainsOK'
    BY <1>1, <1>2, <1>3, <1>7, DeletionFrame
  <1>9. \A w \in Ids : Plain(op'[w])
    BY <1>1, <1>2, <1>4, OneDeletion DEF Plain, InDelete
  <1>10. ASSUME ~broken PROVE Synced'
    <2>1. /\ Trashed = {index[i].deletedAt : i \in Excess + 1 .. Len(index)}
          /\ Len(index) <= MaxTrash + 1
      BY <1>1, <1>10 DEF Inv, IndexOK, TrashOK
    <2>2. Trashed' = Trashed
      BY <1>3 DEF Trashed, Exists
    <2>3. Len(index') <= MaxTrash
      BY <1>5, ExcessIsOverLimit, EntryType, QemuAssumption DEF Inv
    <2> QED
      BY <1>5, <2>1, <2>2, <2>3 DEF Synced
  <1>11. IndexOK'
    BY <1>3, <1>5, <1>9, <1>10, InventoryEnds
  <1> QED
    BY <1>6, <1>7, <1>8, <1>11 DEF Inv

-----------------------------------------------------------------------------
(* Creating, restoring and emptying *)

\* A new machine gets a directory of its own.
LEMMA CreateVmStep ==
    ASSUME Inv, NEW v \in Ids, CreateVm(v)
    PROVE  Inv'
  <1>1. /\ UNCHANGED <<dir, index, staging, broken, procs, running, generation, closing, op>>
        /\ inv = NoInv /\ inv' = [kind |-> "create", id |-> v]
    BY DEF CreateVm, InventoryFree, files, memory
  <1>2. inv.kind = "none" /\ inv'.kind = "create"
    BY <1>1 DEF NoInv
  <1>3. TypeOK'
    BY <1>1 DEF Inv, TypeOK
  <1>4. KnownProcesses' /\ Alive' = Alive
    BY <1>1 DEF Inv, KnownProcesses, KnownProcess, KnownQemu, Alive, Exists
  <1>5. OneMachine' /\ ChainsOK'
    BY <1>1, <1>2, <1>4, NoDeletion, InventoryFrame
  <1>6. ~broken => Synced
    BY <1>2 DEF Inv, IndexOK, TrashOK
  <1>7. IndexOK'
    BY <1>1, <1>2, <1>6, IndexFrame DEF Inv, Exists
  <1> QED
    BY <1>3, <1>4, <1>5, <1>7 DEF Inv

\* The first directory of that name comes back from the trash.
LEMMA RestoreStep ==
    ASSUME Inv, NEW v \in Ids, Restore(v)
    PROVE  Inv'
  <1> DEFINE at == index[EntryOf(v)].deletedAt
  <1>1. /\ inv = NoInv /\ inv' = [kind |-> "restore", id |-> v] /\ EntryOf(v) # 0
        /\ ~Exists(v) /\ Exists(at) /\ Move(at, v)
        /\ UNCHANGED <<index, staging, broken, running, generation, closing, op>>
    BY DEF Restore, InventoryFree, memory
  <1>2. EntryOf(v) \in 1 .. Len(index) /\ at \in Stamps
    BY <1>1, EntryFound DEF Inv
  <1> HIDE DEF at
  <1>3. at \notin Ids /\ v \notin Stamps /\ at # v
    BY <1>2, StampsAreNoIds
  <1>4. /\ dir' \in [Ids \cup Stamps -> Directory \cup {None}]
        /\ dir'[v] = dir[at] /\ dir'[at] = None
        /\ \A m \in (Ids \cup Stamps) \ {at, v} : dir'[m] = dir[m]
        /\ procs' \in [Pids -> Process \cup {None}]
        /\ Alive' = Alive
        /\ \A p \in Alive : /\ procs'[p].heard = procs[p].heard /\ procs'[p].kind = procs[p].kind
                            /\ IF procs[p].in = at
                               THEN procs'[p].in = v /\ procs'[p].abandoned = procs[p].abandoned
                               ELSE procs'[p] = procs[p]
    <2>1. TypeOK /\ at \in Ids \cup Stamps /\ v \in Ids \cup Stamps /\ Move(at, v) /\ at # v
      BY <1>1, <1>2, <1>3 DEF Inv
    <2>2. Relocated(at, v)
      BY Zenon, <2>1, MoveStep
    <2> QED
      BY <2>2 DEF Relocated
  <1>5. inv.kind = "none" /\ inv'.kind = "restore" /\ inv'.id = v
    BY <1>1 DEF NoInv
  <1>6. TypeOK'
    BY <1>1, <1>4 DEF Inv, TypeOK
  <1>7. ASSUME NEW p \in Alive' PROVE KnownProcess(p)'
    <2>1. KnownProcess(p) /\ p \in Pids /\ p \in Alive
      BY <1>4, <1>7 DEF Inv, KnownProcesses, Alive
    <2>2. CASE procs[p].in = at
      <3>1. procs[p].abandoned
        BY <1>3, <2>1, <2>2, TrashedProcess
      <3>2. procs'[p].abandoned
        BY <1>4, <2>1, <2>2, <3>1
      <3> QED
        BY <3>2 DEF KnownProcess
    <2>3. CASE procs[p].in # at
      <3>1. procs'[p] = procs[p]
        BY <1>4, <2>1, <2>3
      <3>2. \A w \in Ids : /\ running'[w] = running[w] /\ closing'[w] = closing[w]
                           /\ Exists(w) => dir'[w] = dir[w]
                           /\ op'[w] = op[w]
        BY <1>1, <1>3, <1>4
      <3> QED
        BY <2>1, <3>1, <3>2, KnownFrame DEF Exists
    <2> QED
      BY <2>2, <2>3
  <1>8. OneMachine' /\ ChainsOK'
    <2>1. \A w \in Ids : Exists(w) => dir'[w] = dir[w]
      BY <1>1, <1>3, <1>4
    <2>2. \A w \in Ids : ~InDelete(w)
      BY <1>5, NoDeletion
    <2> QED
      BY <1>1, <1>4, <2>1, <2>2, InventoryFrame
  <1>9. Sorted' /\ Listed' = Listed /\ EntryOf(v)' = EntryOf(v)
    BY <1>1 DEF Inv, IndexOK, Sorted, Listed, EntryOf, SelectInSeq
  <1>10. \A w \in Ids : ~InDelete(w)'
    BY <1>1, <1>5, NoDeletion DEF InDelete
  <1>11. ASSUME ~broken PROVE TrashOK'
    <2>1. Synced
      BY <1>5, <1>11 DEF Inv, IndexOK, TrashOK
    <2>2. \A t \in Stamps : dir'[t] # None <=> t # at /\ dir[t] # None
      BY <1>3, <1>4
    <2>3. Trashed' = Trashed \ {at}
      BY <2>2 DEF Trashed, Exists
    <2>4. /\ Trashed' = Listed' \ {index'[EntryOf(v)'].deletedAt}
          /\ Len(index') <= MaxTrash
      BY <1>1, <1>9, <2>1, <2>3 DEF Synced, at
    <2>5. EntryOf(inv.id)' = EntryOf(v)'
      BY <1>5
    <2> QED
      BY <1>5, <1>10, <2>4, <2>5 DEF TrashOK, InDelete
  <1>12. IndexOK'
    <2>1. EntryOf(inv.id)' = EntryOf(v)'
      BY <1>5
    <2> QED
      BY <1>1, <1>5, <1>9, <1>10, <1>11, <2>1 DEF IndexOK, InDelete
  <1> QED
    BY <1>6, <1>7, <1>8, <1>12 DEF Inv, KnownProcesses

\* The calls are not touched, and no deletion is under way.
LEMMA NoCallDeletes ==
    ASSUME Inv, inv.kind # "delete", op' = op
    PROVE  \A w \in Ids : Plain(op'[w]) /\ ~InDelete(w)
  <1>1. \A w \in Ids : ~InDelete(w)
    BY NoDeletion
  <1> QED
    BY <1>1 DEF Plain, InDelete

\* The trash index without the restored entry is written.
LEMMA WriteRestoredStep ==
    ASSUME Inv, NEW v \in Ids, WriteRestored(v)
    PROVE  Inv'
  <1>1. /\ inv = [kind |-> "restore", id |-> v] /\ inv' = NoInv
        /\ index' = RemoveAt(index, EntryOf(v))
        /\ UNCHANGED <<dir, staging, broken, procs, running, generation, closing, op>>
    BY DEF WriteRestored, EndInventory, memory
  <1>2. inv.kind = "restore" /\ inv.id = v
    BY <1>1
  <1>3. EntryOf(v) # 0
    BY <1>2 DEF Inv, IndexOK
  <1>4. EntryOf(v) \in 1 .. Len(index)
    BY <1>3, EntryFound DEF Inv
  <1>5. /\ index' \in Seq([id : Ids, deletedAt : Stamps])
        /\ Sorted' /\ Listed' = Listed \ {index[EntryOf(v)].deletedAt}
        /\ Len(index') = Len(index) - 1
    BY <1>1, <1>4, RemoveEntry DEF Inv, IndexOK
  <1>6. TypeOK'
    BY <1>1, <1>5 DEF Inv, TypeOK, NoInv
  <1>7. KnownProcesses' /\ Alive' = Alive
    BY <1>1 DEF Inv, KnownProcesses, KnownProcess, KnownQemu, Alive, Exists
  <1>8. \A w \in Ids : Plain(op'[w]) /\ ~InDelete(w)
    BY <1>1, <1>2, NoCallDeletes
  <1>9. OneMachine' /\ ChainsOK'
    BY <1>1, <1>7, <1>8, InventoryFrame
  <1>10. ASSUME ~broken PROVE Synced'
    <2>1. Trashed = Listed \ {index[EntryOf(v)].deletedAt} /\ Len(index) <= MaxTrash
      BY <1>2, <1>10 DEF Inv, IndexOK, TrashOK
    <2>2. Trashed' = Trashed
      BY <1>1 DEF Trashed, Exists
    <2>3. Len(index') <= MaxTrash
      BY <1>5, <2>1, EntryType, QemuAssumption DEF Inv
    <2> QED
      BY <1>5, <2>1, <2>2, <2>3 DEF Synced
  <1>11. IndexOK'
    BY <1>1, <1>5, <1>8, <1>10, InventoryEnds
  <1> QED
    BY <1>6, <1>7, <1>9, <1>11 DEF Inv

\* Emptying removes directories of the trash, never of a machine.
LEMMA EmptyTrashStep ==
    ASSUME Inv, EmptyTrash
    PROVE  Inv'
  <1>1. /\ inv = NoInv /\ inv' = [kind |-> "empty", id |-> None] /\ RemoveDirs(Listed)
        /\ UNCHANGED memory
        /\ UNCHANGED <<index, staging, broken, running, generation, closing, op>>
    BY DEF EmptyTrash, InventoryFree, memory, Listed
  <1>2. Listed \subseteq Stamps
    BY EntryType DEF Inv
  <1>3. /\ dir' \in [Ids \cup Stamps -> Directory \cup {None}]
        /\ \A m \in Ids \cup Stamps : dir'[m] = IF m \in Listed THEN None ELSE dir[m]
        /\ procs' \in [Pids -> Process \cup {None}]
        /\ Alive' = Alive
        /\ \A p \in Alive : procs'[p].heard = procs[p].heard
    BY <1>1, <1>2, RemoveStep DEF Inv
  <1>4. inv.kind = "none" /\ inv'.kind = "empty"
    BY <1>1 DEF NoInv
  <1>5. TypeOK'
    BY <1>1, <1>3 DEF Inv, TypeOK
  <1>6. KnownProcesses'
    BY <1>1, <1>2, RemoveKeepsKnown
  <1>7. \A w \in Ids : Plain(op'[w]) /\ ~InDelete(w)
    BY <1>1, <1>4, NoCallDeletes
  <1>8. OneMachine' /\ ChainsOK'
    <2>1. \A w \in Ids : dir'[w] = dir[w]
      BY <1>2, <1>3, StampsAreNoIds
    <2> QED
      BY <1>1, <1>3, <1>7, <2>1, InventoryFrame
  <1>9. Sorted'
    BY <1>1 DEF Inv, IndexOK, Sorted
  <1>10. ASSUME ~broken PROVE TrashOK'
    <2>1. Synced
      BY <1>4, <1>10 DEF Inv, IndexOK, TrashOK
    <2>2. Trashed' = {}
      BY <1>3, <2>1 DEF Trashed, Synced, Exists
    <2> QED
      BY <1>4, <1>7, <2>2 DEF TrashOK, Plain
  <1>11. IndexOK'
    BY <1>1, <1>4, <1>7, <1>9, <1>10 DEF IndexOK, Plain
  <1> QED
    BY <1>5, <1>6, <1>8, <1>11 DEF Inv

\* The trash index without the removed entries is written.
LEMMA WriteEmptiedStep ==
    ASSUME Inv, WriteEmptied
    PROVE  Inv'
  <1>1. /\ inv.kind = "empty" /\ inv' = NoInv /\ index' = <<>>
        /\ UNCHANGED <<dir, staging, broken, procs, running, generation, closing, op>>
    BY DEF WriteEmptied, EndInventory, memory
  <1>2. /\ index' \in Seq([id : Ids, deletedAt : Stamps]) /\ Len(index') = 0
        /\ DOMAIN index' = {}
    BY <1>1, EmptySeq
  <1>3. Sorted' /\ Listed' = {}
    BY <1>2 DEF Sorted, Listed
  <1>4. TypeOK'
    BY <1>1, <1>2 DEF Inv, TypeOK, NoInv
  <1>5. KnownProcesses' /\ Alive' = Alive
    BY <1>1 DEF Inv, KnownProcesses, KnownProcess, KnownQemu, Alive, Exists
  <1>6. \A w \in Ids : Plain(op'[w]) /\ ~InDelete(w)
    BY <1>1, NoCallDeletes
  <1>7. OneMachine' /\ ChainsOK'
    BY <1>1, <1>5, <1>6, InventoryFrame
  <1>8. ASSUME ~broken PROVE Synced'
    <2>1. Trashed = {}
      BY <1>1, <1>8 DEF Inv, IndexOK, TrashOK
    <2>2. Trashed' = Trashed
      BY <1>1 DEF Trashed, Exists
    <2> QED
      BY <1>2, <1>3, <2>1, <2>2, QemuAssumption DEF Synced
  <1>9. IndexOK'
    BY <1>1, <1>3, <1>6, <1>8, InventoryEnds
  <1> QED
    BY <1>4, <1>5, <1>7, <1>9 DEF Inv

-----------------------------------------------------------------------------
(* The broker dies *)

\* Only what is on disk, and the processes, survive the broker.
LEMMA BrokerDiesStep ==
    ASSUME Inv, BrokerDies
    PROVE  Inv'
  <1> DEFINE torn(l) == [dir[l] EXCEPT !.runtime = IF WritesRuntime(l) THEN None ELSE @,
                                       !.def = IF WritesDefinition(l) THEN "torn" ELSE @]
  <1>1. PICK T \in SUBSET Ids :
           dir' = [l \in DOMAIN dir |->
                     IF l \in Stamps \/ ~Exists(l) \/ l \notin T THEN dir[l] ELSE torn(l)]
    BY DEF BrokerDies
  <1>2. ASSUME NEW l \in Ids, Exists(l) PROVE torn(l) \in Directory /\ torn(l) # None
    <2>1. dir[l] \in Directory
      BY <1>2 DEF Inv, TypeOK, Exists
    <2>2. torn(l) \in Directory
      BY <2>1 DEF Directory
    <2> QED
      BY <2>2, NoneIsNoRecord
  <1> HIDE DEF torn
  <1>3. /\ dir' \in [Ids \cup Stamps -> Directory \cup {None}]
        /\ \A t \in Stamps : dir'[t] = dir[t]
    BY <1>1, <1>2 DEF Inv, TypeOK
  <1>4. \A w \in Ids : dir'[w] # None =>
            Exists(w) /\ dir'[w].runtime \in {dir[w].runtime, None}
    <2>1. \A w \in Ids : Exists(w) => torn(w).runtime \in {dir[w].runtime, None}
      BY DEF torn, Inv, TypeOK, Exists, Directory
    <2> QED
      BY <1>1, <2>1 DEF Inv, TypeOK, Exists
  <1> DEFINE unknown(p) == \/ procs[p].abandoned \/ procs[p].in = None
                        \/ dir'[procs[p].in] = None \/ dir'[procs[p].in].runtime # p
             left(p) == [procs[p] EXCEPT !.heard = FALSE, !.abandoned = unknown(p)]
  <1>5. PICK S \in SUBSET Alive : procs' = [p \in Pids |-> IF p \notin S THEN None ELSE left(p)]
    <2>1. PICK S \in SUBSET Alive : Survive(S)
      BY DEF BrokerDies
    <2>2. procs' = [p \in Pids |-> IF p \notin S THEN None ELSE left(p)]
      BY <2>1 DEF Survive
    <2> QED
      BY <2>2
  <1>6. ASSUME NEW p \in S
        PROVE  /\ left(p) \in Process /\ left(p) # None
               /\ left(p).abandoned = unknown(p) /\ left(p).in = procs[p].in
               /\ left(p).kind = procs[p].kind
    <2>1. procs[p] \in Process
      BY DEF Inv, TypeOK, Alive
    <2>2. unknown(p) \in BOOLEAN
      OBVIOUS
    <2> HIDE DEF unknown
    <2>3. left(p) \in Process
      BY <2>1, <2>2 DEF Process
    <2> QED
      BY <2>1, <2>3, NoneIsNoRecord DEF Process
  <1> HIDE DEF left
  <1>7. procs' \in [Pids -> Process \cup {None}] /\ Alive' = S /\ S \subseteq Pids
    BY <1>5, <1>6 DEF Alive
  <1>8. /\ running' = [v \in Ids |-> None] /\ generation' = [v \in Ids |-> None]
        /\ closing' = [v \in Ids |-> FALSE] /\ op' = [v \in Ids |-> NoOp] /\ inv' = NoInv
        /\ staging' = (staging \/ inv.kind = "create")
        /\ broken' = (broken \/ inv.kind \in {"delete", "restore", "empty"})
        /\ index' \in {index, IF WritesIndex THEN <<>> ELSE index}
    BY DEF BrokerDies
  <1>9. index' = index \/ (WritesIndex /\ index' = <<>>)
    BY <1>8
  <1>10. index' \in Seq([id : Ids, deletedAt : Stamps]) /\ Sorted'
    <2>1. CASE index' = index
      BY <2>1 DEF Inv, TypeOK, IndexOK, Sorted
    <2>2. CASE index' = <<>>
      BY <2>2, EmptySeq DEF Sorted
    <2> QED
      BY <1>9, <2>1, <2>2
  <1>11. NoOp \in Ops /\ Plain(NoOp) /\ NoOp.await = "nothing"
    BY OpTypes DEF Plain, NoOp
  <1>12. TypeOK'
    <2>1. op' \in [Ids -> Ops]
      BY <1>8, <1>11
    <2> QED
      BY <1>3, <1>7, <1>8, <1>10, <2>1 DEF Inv, TypeOK, Ops, NoInv
  <1>13. ASSUME NEW p \in Alive' PROVE KnownProcess(p)'
    <2>1. p \in S /\ p \in Alive /\ procs'[p] = left(p) /\ p \in Pids
      BY <1>5, <1>7, <1>13
    <2>2. procs'[p].in = procs[p].in /\ procs'[p].abandoned = unknown(p)
          /\ procs'[p].kind = procs[p].kind
      BY <1>6, <2>1
    <2>3. ASSUME ~unknown(p)
          PROVE  /\ procs[p].in \in Ids /\ dir'[procs[p].in] # None
                 /\ dir'[procs[p].in].runtime = p
      BY <2>1, <2>3 DEF Inv, KnownProcesses, KnownProcess
    <2>4. ASSUME ~unknown(p) PROVE procs[p].kind = "qemu"
      <3>1. PICK w \in Ids :
               /\ procs[p].in = w
               /\ procs[p].kind # "qemu" => op[w].await = "qemu-img"
        BY <2>1, <2>4 DEF Inv, KnownProcesses, KnownProcess
      <3>2. Exists(w) /\ dir[w].runtime = p
        BY <1>4, <2>1, <2>3, <2>4, <3>1, QemuAssumption
      <3> QED
        BY <2>1, <3>1, <3>2 DEF Inv, ChainsOK, ChainOK
    <2> HIDE DEF unknown
    <2>5. \A w \in Ids : ~Renaming(op'[w])
      BY <1>8, <1>11 DEF Plain, Renaming
    <2> QED
      BY <1>8, <2>2, <2>3, <2>4, <2>5 DEF KnownProcess, KnownQemu, Exists
  <1>14. OneMachine'
    BY <1>8 DEF OneMachine
  <1>15. ChainsOK'
    BY <1>8, <1>11 DEF ChainsOK, ChainOK, InDelete
  <1>16. \A w \in Ids : op'[w] = NoOp /\ Plain(op'[w]) /\ op'[w].await = "nothing"
    BY <1>8, <1>11
  <1>17. ASSUME ~broken' PROVE Synced'
    <2>1. inv.kind \in {"none", "create"} /\ ~broken
      BY <1>8, <1>17 DEF Inv, TypeOK
    <2>2. Synced
      BY <2>1 DEF Inv, IndexOK, TrashOK
    <2>3. ~WritesIndex
      BY <2>1, NoDeletion DEF WritesIndex, InDelete
    <2>4. index' = index
      BY <1>9, <2>3
    <2> QED
      BY <1>3, <2>2, <2>4 DEF Synced, Listed, Trashed, Exists
  <1>18. IndexOK'
    <2>1. inv'.kind = "none"
      BY <1>8 DEF NoInv
    <2>2. ~broken' => TrashOK'
      BY <1>16, <1>17, <2>1 DEF TrashOK
    <2> QED
      BY <1>10, <1>16, <2>1, <2>2 DEF IndexOK
  <1> QED
    BY <1>12, <1>13, <1>14, <1>15, <1>18 DEF Inv, KnownProcesses

-----------------------------------------------------------------------------
(* The theorems *)

\* Every action of a call in the chain of a machine that is not handled above.
LEMMA ChainStep ==
    ASSUME Inv, NEW v \in Ids
    PROVE  \/ StartVm(v) \/ QmpReady(v) \/ QmpFails(v) \/ AfterStop(v)
           \/ \E then \in {"nothing", "start"} : StopVm(v, then) \/ StopRecoveredVm(v, then)
           \/ \E force \in BOOLEAN : DeleteVm(v, force)
           \/ Update(v) \/ ChangeMedia(v) \/ WriteDefinition(v)
           \/ SnapshotDone(v) \/ SnapshotTimesOut(v)
           => Inv'
  <1> DEFINE waits(a) == [NoOp EXCEPT !.await = a]
             stops(th) == [NoOp EXCEPT !.await = "exit", !.then = th]
             deletes(force) == [NoOp EXCEPT !.await = "inventory", !.force = force]
  <1>1. /\ NoOp \in Ops /\ Plain(NoOp) /\ NoOp.await = "nothing"
        /\ waits("define") \in Ops /\ Plain(waits("define")) /\ waits("define").await = "define"
        /\ waits("rename") \in Ops /\ Renaming(waits("rename")) /\ waits("rename").await = "rename"
        /\ \A th \in {"nothing", "start"} :
              stops(th) \in Ops /\ Plain(stops(th)) /\ stops(th).await = "exit"
        /\ \A force \in BOOLEAN :
              /\ deletes(force) \in Ops /\ Plain(deletes(force))
              /\ deletes(force).await = "inventory"
    BY OpTypes DEF Plain, Renaming, NoOp, Awaits
  <1>2. ASSUME StartVm(v) PROVE Inv'
    BY <1>2, SpawnStep DEF StartVm, Idle
  <1>3. ASSUME QmpReady(v) \/ WriteDefinition(v) \/ SnapshotDone(v) PROVE Inv'
    <2>1. /\ op' = [op EXCEPT ![v] = NoOp] /\ UNCHANGED <<files, procs, memory, inv>>
          /\ op[v].await = "qemu-img" => op[v].child \notin Alive
      BY <1>3 DEF QmpReady, WriteDefinition, SnapshotDone, EndOp
    <2> QED
      BY <1>1, <2>1, CallStep
  <1>4. ASSUME QmpFails(v) PROVE Inv'
    <2>1. /\ op' = [op EXCEPT ![v] = NoOp] \/ op' = [op EXCEPT ![v] = stops("nothing")]
          /\ op[v].await = "qmp" /\ UNCHANGED <<files, procs, memory, inv>>
      BY <1>4 DEF QmpFails, EndOp, BeginStop
    <2> HIDE DEF stops
    <2> QED
      BY <1>1, <2>1, CallStep
  <1>5. ASSUME NEW th \in {"nothing", "start"}, StopVm(v, th) PROVE Inv'
    <2>1. /\ op' = [op EXCEPT ![v] = stops(th)] /\ op[v].await = "nothing" /\ Idle(v)
          /\ UNCHANGED <<index, staging, broken, procs, memory, inv>>
          /\ dir' = IF Exists(v) THEN dir ELSE [dir EXCEPT ![v] = Empty]
      BY <1>5 DEF StopVm, BeginStop, Idle
    <2> HIDE DEF stops
    <2>2. CASE Exists(v)
      <3>1. UNCHANGED files
        BY <2>1, <2>2 DEF files
      <3> QED
        BY <1>1, <2>1, <3>1, CallStep
    <2>3. CASE ~Exists(v)
      <3>1. Empty \in Directory /\ Empty.runtime = None
        BY DEF Empty, Directory
      <3>2. /\ generation' \in [Ids -> Pids \cup {None}] /\ closing' \in [Ids -> BOOLEAN]
            /\ closing' = closing /\ running' = running
        BY <2>1 DEF memory, Inv, TypeOK
      <3> QED
        BY <1>1, <2>1, <2>3, <3>1, <3>2, OneDirectoryKeepsInv
    <2> QED
      BY <2>2, <2>3
  <1>6. ASSUME NEW th \in {"nothing", "start"}, StopRecoveredVm(v, th) PROVE Inv'
    <2>1. /\ Recovered(v) /\ QuitRecovered(v) /\ Idle(v) /\ op[v].await = "nothing"
          /\ UNCHANGED <<index, staging, broken, memory, inv>>
          /\ op' = [op EXCEPT ![v] = stops("start")] \/ op' = op
      BY <1>6 DEF StopRecoveredVm, BeginStop, Idle
    <2>2. CASE op' = [op EXCEPT ![v] = stops("start")]
      <3> HIDE DEF stops
      <3> QED
        BY <1>1, <2>1, <2>2, QuitKeepsInv
    <2>3. CASE op' = op
      <3>1. op' = [op EXCEPT ![v] = op[v]] /\ op[v] \in Ops
        BY <2>3 DEF Inv, TypeOK, Ops
      <3>2. op[v].await = "nothing" /\ Plain(op[v])
        BY <2>1 DEF Idle, Plain
      <3> QED
        BY <2>1, <3>1, <3>2, QuitKeepsInv
    <2> QED
      BY <2>1, <2>2, <2>3
  <1>7. ASSUME AfterStop(v) PROVE Inv'
    <2>1. op[v].await = "exit" /\ UNCHANGED <<files, closing, inv>>
      BY <1>7 DEF AfterStop
    <2>2. CASE op[v].then = "start" /\ Spawn(v)
      BY <2>1, <2>2, SpawnStep
    <2>3. CASE /\ op[v].then = "rename" /\ Await(v, "rename") /\ Abandon(running[v])
               /\ UNCHANGED <<running, generation>>
      <3>1. op' = [op EXCEPT ![v] = waits("rename")] /\ UNCHANGED memory
        BY <2>1, <2>3 DEF Await, memory
      <3>2. inv = [kind |-> "delete", id |-> v] /\ (~broken => Synced)
        BY <2>1, <2>3 DEF Inv, ChainsOK, ChainOK, InDelete, IndexOK, TrashOK
      <3> HIDE DEF waits
      <3>3. Aged /\ (running[v] \in Alive => procs'[running[v]].abandoned)
        BY <2>3, AbandonAges DEF Inv
      <3>4. ASSUME NEW p \in Alive, procs[p].in = v, ~procs'[p].abandoned PROVE FALSE
        <4>1. KnownProcess(p) /\ ~procs[p].abandoned
          BY <3>3, <3>4 DEF Inv, KnownProcesses, Aged
        <4>2. p = running[v]
          BY <2>1, <2>3, <3>4, <4>1 DEF KnownProcess, KnownQemu, Renaming
        <4> QED
          BY <3>3, <3>4, <4>2
      <3>5. GoesOn(v, waits("rename"))
        BY <2>1, <3>4 DEF GoesOn
      <3> QED
        BY <1>1, <2>1, <3>1, <3>2, <3>3, <3>5, CallGoesOn
    <2>4. CASE op[v].then = "nothing" /\ EndOp(v) /\ UNCHANGED <<procs, running, generation>>
      <3>1. op' = [op EXCEPT ![v] = NoOp] /\ UNCHANGED <<files, procs, memory, inv>>
        BY <2>1, <2>4 DEF EndOp, memory
      <3> QED
        BY <1>1, <2>1, <3>1, CallStep
    <2> QED
      BY <1>7, <2>2, <2>3, <2>4 DEF AfterStop
  <1>8. ASSUME NEW force \in BOOLEAN, DeleteVm(v, force) PROVE Inv'
    <2>1. /\ op' = [op EXCEPT ![v] = deletes(force)] /\ op[v].await = "nothing"
          /\ UNCHANGED <<files, procs, memory, inv>>
      BY <1>8 DEF DeleteVm, Idle
    <2> HIDE DEF deletes
    <2> QED
      BY <1>1, <2>1, CallStep
  <1>9. ASSUME Update(v) \/ ChangeMedia(v) PROVE Inv'
    <2>1. /\ op' = [op EXCEPT ![v] = waits("define")] /\ op[v].await = "nothing"
          /\ UNCHANGED <<files, procs, memory, inv>>
      BY <1>9 DEF Update, ChangeMedia, Await, Idle
    <2> HIDE DEF waits
    <2> QED
      BY <1>1, <2>1, CallStep
  <1>10. ASSUME SnapshotTimesOut(v) PROVE Inv'
    <2>1. /\ op[v].await = "qemu-img" /\ Abandon(op[v].child)
          /\ op' = [op EXCEPT ![v] = NoOp] /\ UNCHANGED <<files, memory, inv>>
      BY <1>10 DEF SnapshotTimesOut, EndOp
    <2>2. Aged /\ (op[v].child \in Alive => procs'[op[v].child].abandoned)
      BY <2>1, AbandonAges DEF Inv
    <2>3. GoesOn(v, NoOp)
      BY <1>1, <2>2 DEF GoesOn, Plain, Renaming
    <2> QED
      BY <1>1, <2>1, <2>2, <2>3, CallGoesOn
  <1> QED
    BY <1>2, <1>3, <1>4, <1>5, <1>6, <1>7, <1>8, <1>9, <1>10

\* deleteVm gets its turn in inventoryChain.
LEMMA BeginDeleteStep ==
    ASSUME Inv, NEW v \in Ids, BeginDelete(v)
    PROVE  Inv'
  <1> DEFINE stops == [NoOp EXCEPT !.await = "exit", !.then = "rename"]
             renames == [NoOp EXCEPT !.await = "rename"]
  <1>1. /\ NoOp \in Ops /\ Plain(NoOp) /\ NoOp.await = "nothing"
        /\ stops \in Ops /\ Renaming(stops) /\ stops.await = "exit" /\ stops.then = "rename"
        /\ renames \in Ops /\ Renaming(renames) /\ renames.await = "rename"
    BY OpTypes DEF Plain, Renaming, NoOp, Awaits
  <1>2. /\ inv = NoInv /\ inv.kind = "none" /\ UNCHANGED <<index, staging, broken, memory>>
        /\ op[v].await = "inventory"
    BY DEF BeginDelete, InventoryFree, NoInv
  <1>3. ~broken => Synced
    BY <1>2 DEF Inv, IndexOK, TrashOK
  <1>4. \/ op' = [op EXCEPT ![v] = NoOp] /\ UNCHANGED <<inv, dir, procs>>
        \/ /\ inv' = [kind |-> "delete", id |-> v]
           /\ \/ /\ running[v] # None /\ op' = [op EXCEPT ![v] = stops]
                 /\ UNCHANGED <<dir, procs>>
              \/ /\ running[v] = None /\ op' = [op EXCEPT ![v] = renames]
                 /\ \/ Recovered(v) /\ QuitRecovered(v)
                    \/ Recovered(v) /\ Abandon(dir[v].runtime) /\ UNCHANGED dir
                    \/ ~Recovered(v) /\ UNCHANGED <<dir, procs>>
    BY DEF BeginDelete, EndOp, BeginStop, Await
  <1> HIDE DEF stops, renames
  <1>5. CASE op' = [op EXCEPT ![v] = NoOp] /\ UNCHANGED <<inv, dir, procs>>
    <2>1. UNCHANGED <<files, procs, memory, inv>>
      BY <1>2, <1>5 DEF files
    <2> QED
      BY <1>1, <1>2, <1>5, <2>1, CallStep
  <1>6. CASE /\ inv' = [kind |-> "delete", id |-> v] /\ op' = [op EXCEPT ![v] = renames]
             /\ Recovered(v) /\ QuitRecovered(v)
    BY <1>1, <1>2, <1>6, QuitKeepsInv
  <1>7. ASSUME NEW o \in Ops, Renaming(o), op' = [op EXCEPT ![v] = o], UNCHANGED dir,
               Aged, GoesOn(v, o), inv' = [kind |-> "delete", id |-> v]
        PROVE  Inv'
    <2>1. /\ op' \in [Ids -> Ops] /\ op'[v] = o /\ \A w \in Ids \ {v} : op'[w] = op[w]
      BY <1>7, OneCall DEF Inv
    <2>2. /\ UNCHANGED <<dir, index, staging, broken, running, generation, closing>>
          /\ inv'.kind = "delete"
      BY <1>2, <1>7 DEF memory
    <2>3. TypeOK'
      BY <1>7, <2>1, <2>2 DEF Inv, TypeOK, Ops, Aged
    <2>4. KnownProcesses' /\ OneMachine'
      BY <1>7, <2>2, KnownCall DEF Inv, OneMachine
    <2>5. ChainOK(v)'
      BY <1>7, <2>1, <2>2 DEF ChainOK, InDelete, Renaming
    <2>6. ASSUME NEW w \in Ids \ {v} PROVE ChainOK(w)'
      <3>1. ChainOK(w) /\ ~InDelete(w) /\ op'[w] = op[w]
        BY <1>2, <2>1, NoDeletion DEF Inv, ChainsOK
      <3>2. \A p \in Alive' : p \in Alive /\ procs'[p].heard = procs[p].heard
        BY <1>7 DEF Aged
      <3> QED
        BY <2>2, <3>1, <3>2, ChainFrame, QemuAssumption DEF Exists
    <2>7. IndexOK'
      BY <1>3, <1>7, <2>1, <2>2, IndexFrame DEF Inv, Exists
    <2> QED
      BY <2>3, <2>4, <2>5, <2>6, <2>7 DEF Inv, ChainsOK
  <1>8. ASSUME NEW p \in Alive, procs[p].in = v, ~procs[p].abandoned
        PROVE  running[v] = p \/ (running[v] = None /\ Recovered(v) /\ dir[v].runtime = p)
    <2>1. KnownProcess(p)
      BY DEF Inv, KnownProcesses
    <2> QED
      BY <1>2, <1>8, <2>1 DEF KnownProcess, KnownQemu, Recovered
  <1>9. CASE /\ inv' = [kind |-> "delete", id |-> v] /\ op' = [op EXCEPT ![v] = stops]
             /\ running[v] # None /\ UNCHANGED <<dir, procs>>
    <2>1. Aged
      BY <1>9 DEF Aged, Inv, TypeOK, Alive
    <2>2. GoesOn(v, stops)
      BY <1>1, <1>2, <1>8, <1>9 DEF GoesOn
    <2> QED
      BY <1>1, <1>7, <1>9, <2>1, <2>2
  <1>10. CASE /\ inv' = [kind |-> "delete", id |-> v] /\ op' = [op EXCEPT ![v] = renames]
              /\ running[v] = None
              /\ \/ Recovered(v) /\ Abandon(dir[v].runtime) /\ UNCHANGED dir
                 \/ ~Recovered(v) /\ UNCHANGED <<dir, procs>>
    <2>1. Aged /\ (Recovered(v) => procs'[dir[v].runtime].abandoned)
      <3>1. CASE Recovered(v)
        BY <1>10, <3>1, AbandonAges DEF Recovered, Inv
      <3>2. CASE ~Recovered(v)
        BY <1>10, <3>2 DEF Aged, Inv, TypeOK, Alive
      <3> QED
        BY <3>1, <3>2
    <2>2. \A p \in Alive : procs[p].in = v => procs'[p].abandoned
      <3>1. \A p \in Alive : p # None
        BY QemuAssumption DEF Alive
      <3> QED
        BY <1>8, <1>10, <2>1, <3>1 DEF Aged
    <2>3. GoesOn(v, renames)
      BY <1>2, <2>2 DEF GoesOn
    <2> QED
      BY <1>1, <1>7, <1>10, <2>1, <2>3
  <1> QED
    BY <1>4, <1>5, <1>6, <1>9, <1>10

\* A directory that appears, or whose state file is cleared.
LEMMA DirectoryAppears ==
    ASSUME Inv, NEW v \in Ids
    PROVE  FinalizeExit(v) \/ Created(v) \/ PushMedia(v) => Inv'
  <1>1. /\ Empty \in Directory /\ Empty.runtime = None
        /\ [Empty EXCEPT !.def = "ok"] \in Directory
        /\ [Empty EXCEPT !.def = "ok"].runtime = None
    BY DEF Empty, Directory
  <1>2. op[v] \in Ops /\ (op' = op => op' = [op EXCEPT ![v] = op[v]])
    BY DEF Inv, TypeOK, Ops
  <1>3. ASSUME FinalizeExit(v) PROVE Inv'
    <2> DEFINE d == [(IF Exists(v) THEN dir[v] ELSE Empty) EXCEPT !.runtime = None]
    <2>1. (IF Exists(v) THEN dir[v] ELSE Empty) \in Directory
      BY <1>1 DEF Inv, TypeOK, Exists
    <2>2. d \in Directory /\ d.runtime = None
      BY <2>1 DEF Directory
    <2>3. /\ dir' = [dir EXCEPT ![v] = d] /\ closing[v]
          /\ UNCHANGED <<index, staging, broken, procs, running, op>> /\ inv' = inv
          /\ op' = [op EXCEPT ![v] = op[v]]
          /\ generation' \in [Ids -> Pids \cup {None}] /\ closing' \in [Ids -> BOOLEAN]
          /\ \A w \in Ids \ {v} : closing'[w] = closing[w]
      BY <1>3, <1>2 DEF FinalizeExit, Inv, TypeOK
    <2> HIDE DEF d
    <2> QED
      BY <2>2, <2>3, <1>2, OneDirectoryKeepsInv
  <1>4. ASSUME Created(v) PROVE Inv'
    <2> DEFINE d == [Empty EXCEPT !.def = "ok"]
    <2>1. /\ inv.kind = "create" /\ inv' = NoInv
          /\ UNCHANGED <<index, staging, broken, procs, running, op, generation, closing>>
          /\ (~Exists(v) /\ dir' = [dir EXCEPT ![v] = d]) \/ dir' = dir
      BY <1>4 DEF Created, EndInventory, memory
    <2>2. generation' \in [Ids -> Pids \cup {None}] /\ closing' \in [Ids -> BOOLEAN]
      BY <2>1 DEF Inv, TypeOK
    <2>3. CASE ~Exists(v) /\ dir' = [dir EXCEPT ![v] = d]
      <3>1. d \in Directory /\ d.runtime = None
        BY <1>1
      <3> HIDE DEF d
      <3> QED
        BY <2>1, <2>2, <2>3, <3>1, <1>2, OneDirectoryKeepsInv
    <2>4. CASE dir' = dir
      <3>1. TypeOK'
        BY <2>1, <2>4 DEF Inv, TypeOK, NoInv
      <3>2. KnownProcesses' /\ Alive' = Alive
        BY <2>1, <2>4 DEF Inv, KnownProcesses, KnownProcess, KnownQemu, Alive, Exists
      <3>3. OneMachine' /\ ChainsOK'
        BY <2>1, <2>4, <3>2, NoDeletion, InventoryFrame
      <3>4. inv'.kind = "none" /\ (~broken => Synced)
        BY <2>1 DEF NoInv, Inv, IndexOK, TrashOK
      <3>5. IndexOK'
        BY <2>1, <2>4, <3>4, IndexFrame DEF Inv, Exists
      <3> QED
        BY <3>1, <3>2, <3>3, <3>5 DEF Inv
    <2> QED
      BY <2>1, <2>3, <2>4
  <1>5. ASSUME PushMedia(v) PROVE Inv'
    <2>1. /\ dir' = [dir EXCEPT ![v] = Empty] /\ ~Exists(v) /\ inv' = inv
          /\ UNCHANGED <<index, staging, broken, procs, running, op, generation, closing>>
      BY <1>5 DEF PushMedia, memory
    <2>2. generation' \in [Ids -> Pids \cup {None}] /\ closing' \in [Ids -> BOOLEAN]
      BY <2>1 DEF Inv, TypeOK
    <2> QED
      BY <1>1, <2>1, <2>2, <1>2, OneDirectoryKeepsInv
  <1> QED
    BY <1>3, <1>4, <1>5

\* No machine, no process and no call at the beginning.
LEMMA InitInv == Init => Inv
  <1> SUFFICES ASSUME Init PROVE Inv
    OBVIOUS
  <1>1. NoOp \in Ops /\ NoOp.await = "nothing"
    BY OpTypes DEF NoOp
  <1>2. index \in Seq([id : Ids, deletedAt : Stamps]) /\ Len(index) = 0 /\ DOMAIN index = {}
    BY EmptySeq DEF Init
  <1>3. TypeOK
    <2>1. op \in [Ids -> Ops]
      BY <1>1 DEF Init
    <2> QED
      BY <1>2, <2>1 DEF Init, TypeOK, Ops, NoInv
  <1>4. KnownProcesses /\ OneMachine /\ ChainsOK
    BY <1>1 DEF Init, KnownProcesses, OneMachine, ChainsOK, ChainOK, InDelete, Alive
  <1>5. Listed = {} /\ Trashed = {} /\ Sorted
    BY <1>2 DEF Init, Listed, Trashed, Sorted, Exists
  <1>6. Synced /\ inv.kind = "none"
    BY <1>2, <1>5, QemuAssumption DEF Synced, Init, NoInv
  <1>7. \A v \in Ids : op[v].await = "nothing"
    BY <1>1 DEF Init
  <1>8. IndexOK
    BY <1>5, <1>6, <1>7 DEF IndexOK, TrashOK
  <1> QED
    BY <1>3, <1>4, <1>8 DEF Inv

\* Every step keeps the invariant.
LEMMA NextInv == Inv /\ [Next]_vars => Inv'
  <1> SUFFICES ASSUME Inv, [Next]_vars PROVE Inv'
    OBVIOUS
  <1>1. CASE UNCHANGED vars
    <2>1. UNCHANGED <<dir, index, staging, procs, running, generation, closing, op, inv, broken>>
      BY <1>1 DEF vars
    <2>2. TypeOK' /\ KnownProcesses' /\ OneMachine'
      BY <2>1 DEF Inv, TypeOK, KnownProcesses, KnownProcess, KnownQemu, OneMachine, Alive, Exists
    <2>3. ChainsOK'
      BY <2>1 DEF Inv, ChainsOK, ChainOK, InDelete, Alive, Exists
    <2>4. IndexOK'
      BY <2>1, IndexFrame DEF Inv, Exists
    <2> QED
      BY <2>2, <2>3, <2>4 DEF Inv
  <1>2. CASE Next
    BY <1>2, ChainStep, SnapshotStep, BeginDeleteStep, DirectoryAppears, RecordedStep, MoveToTrashStep,
       WriteEntryStep, TrimTrashStep, WriteTrimmedStep, CreateVmStep, RestoreStep,
       WriteRestoredStep, ExitsStep, EmptyTrashStep, WriteEmptiedStep, BrokerDiesStep DEF Next
  <1> QED
    BY <1>1, <1>2

\* The invariant holds in every state, before and after the broker has died.
THEOREM QemuSound == Spec => []Inv
  BY InitInv, NextInv, PTL DEF Spec

\* Every variable keeps its type: no call reads or writes the state file of a
\* machine that is gone.
THEOREM QemuTypeCorrect == Spec => []TypeOK
  <1>1. Inv => TypeOK
    BY DEF Inv
  <1> QED
    BY <1>1, QemuSound, PTL

\* Of two processes on one disk the broker has abandoned one (startVm, stopVm, the
\* snapshots, deleteVm and restore, exits, timeouts and deaths of the broker in any
\* order).
THEOREM DisksAreExclusive == Spec => []OneUserPerDisk
  <1>1. Inv => OneUserPerDisk
    <2> SUFFICES ASSUME Inv, NEW p \in Alive, NEW q \in Alive, procs[p].in = procs[q].in,
                        ~procs[p].abandoned, ~procs[q].abandoned
                 PROVE  p = q
      BY DEF OneUserPerDisk
    <2>1. p # None /\ q # None
      BY QemuAssumption DEF Alive
    <2>2. PICK v \in Ids :
             /\ procs[p].in = v
             /\ procs[p].kind = "qemu" => KnownQemu(p, v)
             /\ procs[p].kind # "qemu" => op[v].await = "qemu-img" /\ op[v].child = p
      BY DEF Inv, KnownProcesses, KnownProcess
    <2>3. PICK w \in Ids :
             /\ procs[q].in = w
             /\ procs[q].kind = "qemu" => KnownQemu(q, w)
             /\ procs[q].kind # "qemu" => op[w].await = "qemu-img" /\ op[w].child = q
      BY DEF Inv, KnownProcesses, KnownProcess
    <2>4. w = v
      BY <2>2, <2>3
    <2>5. op[v].await = "qemu-img" => running[v] = None /\ dir[v].runtime \notin Alive
      BY DEF Inv, ChainsOK, ChainOK
    <2> QED
      BY <2>1, <2>2, <2>3, <2>4, <2>5 DEF KnownQemu
  <1> QED
    BY <1>1, QemuSound, PTL

\* A machine in the trash has no process but those the broker has abandoned: deleteVm
\* tells the one it knows of to end, and nothing else starts until the directory has
\* moved.
THEOREM TrashHasNoKnownUser == Spec => []TrashIsUnused
  <1>1. Inv => TrashIsUnused
    BY TrashedProcess, StampsAreNoIds DEF TrashIsUnused
  <1> QED
    BY <1>1, QemuSound, PTL

\* Between changes of the inventory the index is that of the trash, in order and
\* within its limit.
THEOREM TrashStaysIndexed == Spec => []TrashIsIndexed
  <1>1. Inv => TrashIsIndexed
    <2> SUFFICES ASSUME Inv, inv = NoInv, ~broken
                 PROVE  Listed = Trashed /\ Len(index) <= MaxTrash /\ Sorted
      BY DEF TrashIsIndexed, Listed, Trashed, Sorted
    <2>1. inv.kind = "none"
      BY DEF NoInv
    <2> QED
      BY <2>1 DEF Inv, IndexOK, TrashOK, Synced
  <1> QED
    BY <1>1, QemuSound, PTL

=============================================================================
