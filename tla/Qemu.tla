--------------------------------- MODULE Qemu ---------------------------------
(***************************************************************************)
(* The managed QEMU machines of the broker, src/host/qemu.ts: their        *)
(* directories, the trash and its index, and the processes that use a      *)
(* disk, QEMU and qemu-img.                                                *)
(*                                                                         *)
(* Calls about one machine go through its chain (serial), calls that       *)
(* change the inventory through inventoryChain.  A chain is a lock here:   *)
(* which call is next is open, as callers may come in any order.  The      *)
(* steps of a call are those after which another call, the exit of a       *)
(* process or the death of the broker makes a difference.                  *)
(***************************************************************************)
EXTENDS Naturals, Sequences, FiniteSetsExt, SequencesExt

CONSTANTS
    Ids,        \* names of machines (directories in vms/)
    Pids,       \* process ids
    MaxVms,     \* MAX_MANAGED_VMS
    MaxTrash,   \* entries trimTrash leaves in the index
    MaxDeletes, \* bound on the deletions; deletedAt is 1, 2, ...
    None        \* "undefined"

ASSUME QemuAssumption ==
    /\ MaxVms \in Nat \ {0} /\ MaxTrash \in Nat \ {0} /\ MaxDeletes \in Nat \ {0}
    /\ None \notin Ids \cup Pids
    /\ Ids \cap 1 .. MaxDeletes = {}

VARIABLES
    dir,        \* directories: of machines by id, in the trash by deletedAt
    index,      \* trash/index.json
    staging,    \* a crash has left a .creating-... directory in vms/
    procs,      \* processes that use the disk of a machine
    running,    \* running: the process of each machine
    generation, \* generations
    closing,    \* exitCleanups: finalizeExit has yet to write the state file
    op,         \* the call in the chain of each machine
    inv,        \* the call in inventoryChain
    broken      \* the broker has died in a change of the inventory

vars == <<dir, index, staging, procs, running, generation, closing, op, inv, broken>>
files == <<dir, index, staging, broken>>
memory == <<running, generation, closing>>

-----------------------------------------------------------------------------

Stamps == 1 .. MaxDeletes

(* def: vm.json is absent, complete or cut off by a crash.  runtime: the   *)
(* pid in runtime/state.json.                                              *)
Directory == [def : {"none", "ok", "torn"}, runtime : Pids \cup {None}]
Empty == [def |-> "none", runtime |-> None]

(* in: the directory with its disk, unless removed.  heard: the exit       *)
(* listener of startVm is set.  abandoned: the broker has gone on as if it *)
(* had ended, after a signal it may not have obeyed, or has died without a *)
(* record of it (written only here, for the properties).                   *)
Process == [kind : {"qemu", "qemu-img"}, in : Ids \cup Stamps \cup {None},
            heard : BOOLEAN, abandoned : BOOLEAN]

ASSUME NoneIsNoRecord == None \notin Directory /\ None \notin Process

(* The call in the chain of a machine: what it awaits, what comes next and *)
(* the qemu-img it has started.                                            *)
Awaits == {"nothing", "recording", "qmp", "exit", "inventory", "rename", "index",
           "trim", "unindex", "define", "qemu-img"}
NoOp == [await |-> "nothing", then |-> "nothing", force |-> FALSE, deletedAt |-> 0,
         child |-> None]

NoInv == [kind |-> "none", id |-> None]

Init ==
    /\ dir = [l \in Ids \cup Stamps |-> None]
    /\ index = <<>>
    /\ staging = FALSE
    /\ procs = [p \in Pids |-> None]
    /\ running = [v \in Ids |-> None]
    /\ generation = [v \in Ids |-> None]
    /\ closing = [v \in Ids |-> FALSE]
    /\ op = [v \in Ids |-> NoOp]
    /\ inv = NoInv
    /\ broken = FALSE

Alive == {p \in Pids : procs[p] # None}
Exists(l) == dir[l] # None
Readable(v) == Exists(v) /\ dir[v].def = "ok"   \* readDefinition

(* Mutant: no look at the state file. *)
RecoveredIgnored(v) == FALSE

(* hasRecoveredProcess and isRunningOrRecovered *)
Recovered(v) == running[v] = None /\ Exists(v) /\ dir[v].runtime \in Alive
RunningOrRecovered(v) == running[v] # None \/ Recovered(v)

(* A pid that is not in use. *)
FreePids ==
    Pids \ (Alive \cup {running[v] : v \in Ids} \cup {generation[v] : v \in Ids}
                 \cup {op[v].child : v \in Ids}
                 \cup {dir[l].runtime : l \in {k \in Ids \cup Stamps : Exists(k)}})

Await(v, await) == op' = [op EXCEPT ![v] = [NoOp EXCEPT !.await = await]]
EndOp(v) == op' = [op EXCEPT ![v] = NoOp]
Idle(v) == op[v].await = "nothing"

Started(kind, v) == [kind |-> kind, in |-> v, heard |-> FALSE, abandoned |-> FALSE]

(* The broker goes on while p may be alive. *)
Abandon(p) ==
    procs' = IF p \in Alive THEN [procs EXCEPT ![p].abandoned = TRUE] ELSE procs

(* The directories after one has moved, with the processes that use it. *)
Move(l, k) ==
    /\ dir' = [dir EXCEPT ![k] = dir[l], ![l] = None]
    /\ procs' = [p \in Pids |-> IF p \in Alive /\ procs[p].in = l
                               THEN [procs[p] EXCEPT !.in = k] ELSE procs[p]]

(* rm of directories in the trash. *)
RemoveDirs(L) ==
    /\ dir' = [l \in DOMAIN dir |-> IF l \in L THEN None ELSE dir[l]]
    /\ procs' = [p \in Pids |-> IF p \in Alive /\ procs[p].in \in L
                               THEN [procs[p] EXCEPT !.in = None] ELSE procs[p]]

-----------------------------------------------------------------------------
(* Start *)

(* startVmUnlocked up to the spawn, when a call gets there in a chain. *)
Spawn(v) ==
    IF running[v] # None \/ Recovered(v) \/ ~Readable(v)
    THEN EndOp(v) /\ UNCHANGED <<procs, running, generation>>
    ELSE \E p \in FreePids :
            /\ procs' = [procs EXCEPT ![p] = Started("qemu", v)]
            /\ running' = [running EXCEPT ![v] = p]
            /\ generation' = [generation EXCEPT ![v] = p]
            /\ Await(v, "recording")

StartVm(v) ==
    /\ Idle(v)
    /\ Spawn(v)
    /\ UNCHANGED <<files, closing, inv>>

(* The state file is written; only then are the exit listeners set. *)
Recorded(v) ==
    /\ op[v].await = "recording"
    /\ dir' = [dir EXCEPT ![v].runtime = running[v]]
    /\ procs' = IF running[v] \in Alive THEN [procs EXCEPT ![running[v]].heard = TRUE] ELSE procs
    /\ Await(v, "qmp")
    /\ UNCHANGED <<index, staging, broken, memory, inv>>

(* query-status is answered. *)
QmpReady(v) ==
    /\ op[v].await = "qmp"
    /\ running[v] \in Alive /\ Exists(v) /\ dir[v].runtime = running[v]
    /\ EndOp(v)
    /\ UNCHANGED <<files, procs, memory, inv>>

(* stopVmUnlocked or shutdownVmUnlocked of a machine with a process; the   *)
(* call goes on with "then".                                               *)
BeginStop(v, then) ==
    op' = [op EXCEPT ![v] = [NoOp EXCEPT !.await = "exit", !.then = then]]

(* QMP does not answer in time: the process is stopped again. *)
QmpFails(v) ==
    /\ op[v].await = "qmp"
    /\ IF running[v] = None THEN EndOp(v) ELSE BeginStop(v, "nothing")
    /\ UNCHANGED <<files, procs, memory, inv>>

-----------------------------------------------------------------------------
(* Stop, shutdown and restart *)

(* stopRecoveredVm: the process leaves after "quit" and the state file is  *)
(* written, or it does not.                                                *)
QuitRecovered(v) ==
    /\ procs' = [procs EXCEPT ![dir[v].runtime] = None]
    /\ dir' = [dir EXCEPT ![v].runtime = None]

(* shutdownVm and stopVm; restartVm.  The state file is rewritten; mkdir    *)
(* makes what is missing, for a process that outlived its deletion.        *)
StopVm(v, then) ==
    /\ Idle(v)
    /\ running[v] # None
    /\ BeginStop(v, then)
    /\ dir' = IF Exists(v) THEN dir ELSE [dir EXCEPT ![v] = Empty]
    /\ UNCHANGED <<index, staging, broken, procs, memory, inv>>

(* The same for a process of an earlier broker. *)
StopRecoveredVm(v, then) ==
    /\ Idle(v)
    /\ Recovered(v)
    /\ QuitRecovered(v)
    /\ IF then = "start" THEN BeginStop(v, then) ELSE UNCHANGED op
    /\ UNCHANGED <<index, staging, broken, memory, inv>>

(* The machine is out of "running" and awaitExitCleanup is done; or the    *)
(* wait for that ends, five seconds after kill has sent SIGKILL, with the  *)
(* process still there: not dead yet, or dead before its listeners were    *)
(* set.  The call goes on all the same; only startVm looks again.          *)
AfterStop(v) ==
    /\ op[v].await = "exit"
    /\ ~closing[v]
    /\ \/ op[v].then = "start" /\ Spawn(v)
       \/ /\ op[v].then = "rename"
          /\ Await(v, "rename") /\ Abandon(running[v])
          /\ UNCHANGED <<running, generation>>
       \/ /\ op[v].then = "nothing"
          /\ EndOp(v)
          /\ UNCHANGED <<procs, running, generation>>
    /\ UNCHANGED <<files, closing, inv>>

(* A process ends, by itself, powered down, by quit or killed.  The exit   *)
(* listener takes QEMU out of "running".                                   *)
Exits(p) ==
    /\ p \in Alive
    /\ procs' = [procs EXCEPT ![p] = None]
    /\ IF procs[p].heard
       THEN /\ running' = [v \in Ids |-> IF running[v] = p THEN None ELSE running[v]]
            /\ closing' = [v \in Ids |-> closing[v] \/ (running[v] = p /\ generation[v] = p)]
       ELSE UNCHANGED <<running, closing>>
    /\ UNCHANGED <<files, generation, op, inv>>

(* finalizeExit writes the state file, making the directories it needs. *)
FinalizeExit(v) ==
    /\ closing[v]
    /\ dir' = [dir EXCEPT ![v] = [(IF Exists(v) THEN dir[v] ELSE Empty) EXCEPT !.runtime = None]]
    /\ generation' = [generation EXCEPT ![v] = None]
    /\ closing' = [closing EXCEPT ![v] = FALSE]
    /\ UNCHANGED <<index, staging, broken, procs, running, op, inv>>

-----------------------------------------------------------------------------
(* Delete: in the chain of the machine, then in inventoryChain *)

DeleteVm(v, force) ==
    /\ Idle(v)
    /\ op' = [op EXCEPT ![v] = [NoOp EXCEPT !.await = "inventory", !.force = force]]
    /\ UNCHANGED <<files, procs, memory, inv>>

(* Mutant: no chain. *)
InventoryOpen == TRUE

(* serialInventory: the calls before are done. *)
InventoryFree == inv = NoInv

(* Mutant: the machine is moved as it is. *)
BeginDeleteRunning(v) ==
    /\ op[v].await = "inventory"
    /\ InventoryFree
    /\ IF ~Exists(v) \/ (RunningOrRecovered(v) /\ ~op[v].force)
       THEN EndOp(v) /\ UNCHANGED inv
       ELSE inv' = [kind |-> "delete", id |-> v] /\ Await(v, "rename")
    /\ UNCHANGED <<files, procs, memory>>

(* Its turn in inventoryChain.  A process that is still there is stopped;  *)
(* that one of an earlier broker does not stop makes no difference.        *)
BeginDelete(v) ==
    /\ op[v].await = "inventory"
    /\ InventoryFree
    /\ IF ~Exists(v) \/ (RunningOrRecovered(v) /\ ~op[v].force)
       THEN EndOp(v) /\ UNCHANGED <<inv, dir, procs>>
       ELSE /\ inv' = [kind |-> "delete", id |-> v]
            /\ IF running[v] # None
               THEN BeginStop(v, "rename") /\ UNCHANGED <<dir, procs>>
               ELSE /\ Await(v, "rename")
                    /\ IF Recovered(v)
                       THEN QuitRecovered(v) \/ (Abandon(dir[v].runtime) /\ UNCHANGED dir)
                       ELSE UNCHANGED <<dir, procs>>
    /\ UNCHANGED <<index, staging, broken, memory>>

(* Mutant: the chain is left undefined. *)
EndInventoryUndefined == inv' = None

EndInventory == inv' = NoInv

(* deletedAt of a new entry. *)
Now == Max({0} \cup {index[i].deletedAt : i \in DOMAIN index} \cup {t \in Stamps : Exists(t)}) + 1

(* The directory goes to the trash, if vm.json can be read. *)
MoveToTrash(v) ==
    /\ op[v].await = "rename"
    /\ \/ /\ ~Readable(v)
          /\ EndOp(v) /\ EndInventory /\ UNCHANGED <<dir, procs>>
       \/ /\ Readable(v) /\ Now \in Stamps
          /\ Move(v, Now)
          /\ op' = [op EXCEPT ![v] = [NoOp EXCEPT !.await = "index", !.deletedAt = Now]]
          /\ UNCHANGED inv
    /\ UNCHANGED <<index, staging, broken, memory>>

(* writeTrash with the new entry. *)
WriteEntry(v) ==
    /\ op[v].await = "index"
    /\ index' = Append(index, [id |-> v, deletedAt |-> op[v].deletedAt])
    /\ Await(v, "trim")
    /\ UNCHANGED <<dir, staging, broken, procs, memory, inv>>

Excess == Max({0, Len(index) - MaxTrash})

(* trimTrash removes the oldest directories, then writes the index. *)
TrimTrash(v) ==
    /\ op[v].await = "trim"
    /\ RemoveDirs({index[i].deletedAt : i \in 1 .. Excess})
    /\ Await(v, "unindex")
    /\ UNCHANGED <<index, staging, broken, memory, inv>>

WriteTrimmed(v) ==
    /\ op[v].await = "unindex"
    /\ index' = SubSeq(index, Excess + 1, Len(index))
    /\ EndOp(v) /\ EndInventory
    /\ UNCHANGED <<dir, staging, broken, procs, memory>>

-----------------------------------------------------------------------------
(* Create, restore and empty the trash: in inventoryChain only *)

(* liveVmIds: every directory in vms/, whatever it is. *)
LiveVms == Cardinality({v \in Ids : Exists(v)}) + (IF staging THEN 1 ELSE 0)

CreateVm(v) ==
    /\ InventoryFree
    /\ ~Exists(v) /\ LiveVms < MaxVms
    /\ inv' = [kind |-> "create", id |-> v]
    /\ UNCHANGED <<files, procs, memory, op>>

(* The staging directory is complete and renamed; another directory that   *)
(* has come into being there makes the rename fail.                        *)
Created(v) ==
    /\ inv = [kind |-> "create", id |-> v]
    /\ \/ ~Exists(v) /\ dir' = [dir EXCEPT ![v] = [Empty EXCEPT !.def = "ok"]]
       \/ UNCHANGED dir
    /\ EndInventory
    /\ UNCHANGED <<index, staging, broken, procs, memory, op>>

(* The first entry of the index with the id. *)
EntryOf(v) == SelectInSeq(index, LAMBDA e : e.id = v)

Restore(v) ==
    /\ InventoryFree
    /\ LiveVms < MaxVms
    /\ EntryOf(v) # 0
    /\ ~Exists(v)
    /\ LET at == index[EntryOf(v)].deletedAt
       IN Exists(at) /\ Move(at, v)
    /\ inv' = [kind |-> "restore", id |-> v]
    /\ UNCHANGED <<index, staging, broken, memory, op>>

WriteRestored(v) ==
    /\ inv = [kind |-> "restore", id |-> v]
    /\ index' = RemoveAt(index, EntryOf(v))
    /\ EndInventory
    /\ UNCHANGED <<dir, staging, broken, procs, memory, op>>

EmptyTrash ==
    /\ InventoryFree
    /\ index # <<>>
    /\ RemoveDirs({index[i].deletedAt : i \in DOMAIN index})
    /\ inv' = [kind |-> "empty", id |-> None]
    /\ UNCHANGED <<index, staging, broken, memory, op>>

WriteEmptied ==
    /\ inv.kind = "empty"
    /\ index' = <<>>
    /\ EndInventory
    /\ UNCHANGED <<dir, staging, broken, procs, memory, op>>

-----------------------------------------------------------------------------
(* The definition, ISO images and snapshots: in the chain of the machine *)

(* update and setMediaBoot need a stopped machine. *)
Update(v) ==
    /\ Idle(v)
    /\ Readable(v) /\ ~RunningOrRecovered(v)
    /\ Await(v, "define")
    /\ UNCHANGED <<files, procs, memory, inv>>

(* mountMedia, ejectMedia and deleteMedia do not. *)
ChangeMedia(v) ==
    /\ Idle(v)
    /\ Readable(v)
    /\ Await(v, "define")
    /\ UNCHANGED <<files, procs, memory, inv>>

WriteDefinition(v) ==
    /\ op[v].await = "define"
    /\ EndOp(v)
    /\ UNCHANGED <<files, procs, memory, inv>>

(* pushMedia does not look for the machine: mkdir makes what is missing.   *)
PushMedia(v) ==
    /\ Idle(v)
    /\ ~Exists(v)
    /\ dir' = [dir EXCEPT ![v] = Empty]
    /\ UNCHANGED <<index, staging, broken, procs, memory, op, inv>>

(* run(qemu-img) on the disk of a stopped machine. *)
Snapshot(v) ==
    /\ Idle(v)
    /\ Readable(v) /\ ~RunningOrRecovered(v)
    /\ \E p \in FreePids :
          /\ procs' = [procs EXCEPT ![p] = Started("qemu-img", v)]
          /\ op' = [op EXCEPT ![v] = [NoOp EXCEPT !.await = "qemu-img", !.child = p]]
    /\ UNCHANGED <<files, memory, inv>>

(* It has ended. *)
SnapshotDone(v) ==
    /\ op[v].await = "qemu-img"
    /\ op[v].child \notin Alive
    /\ EndOp(v)
    /\ UNCHANGED <<files, procs, memory, inv>>

(* After two minutes run sends SIGKILL and rejects, without waiting. *)
SnapshotTimesOut(v) ==
    /\ op[v].await = "qemu-img"
    /\ Abandon(op[v].child)
    /\ EndOp(v)
    /\ UNCHANGED <<files, memory, inv>>

-----------------------------------------------------------------------------
(* The broker dies and another one starts.  QEMU and qemu-img may survive  *)
(* it, and only the pid in the state file of its machine makes a process   *)
(* known to the next broker.  A file that was being written may be cut     *)
(* off, and then reads as empty.                                           *)

WritesRuntime(v) == op[v].await \in {"recording", "exit"} \/ closing[v]
WritesDefinition(v) == op[v].await = "define"
WritesIndex ==
    \/ \E v \in Ids : op[v].await \in {"index", "unindex"}
    \/ inv.kind \in {"restore", "empty"}

(* Nothing but the state files tells the next broker of the survivors. *)
Survive(S) ==
    procs' = [p \in Pids |->
                IF p \notin S THEN None
                ELSE [procs[p] EXCEPT !.heard = FALSE,
                                      !.abandoned = \/ @ \/ procs[p].in = None
                                                    \/ dir'[procs[p].in] = None
                                                    \/ dir'[procs[p].in].runtime # p]]

BrokerDies ==
    /\ \E T \in SUBSET Ids :
          dir' = [l \in DOMAIN dir |->
                IF l \in Stamps \/ ~Exists(l) \/ l \notin T THEN dir[l]
                ELSE [dir[l] EXCEPT !.runtime = IF WritesRuntime(l) THEN None ELSE @,
                                    !.def = IF WritesDefinition(l) THEN "torn" ELSE @]]
    /\ index' \in {index, IF WritesIndex THEN <<>> ELSE index}
    /\ \E S \in SUBSET Alive : Survive(S)
    /\ staging' = (staging \/ inv.kind = "create")
    /\ broken' = (broken \/ inv.kind \in {"delete", "restore", "empty"})
    /\ running' = [v \in Ids |-> None]
    /\ generation' = [v \in Ids |-> None]
    /\ closing' = [v \in Ids |-> FALSE]
    /\ op' = [v \in Ids |-> NoOp]
    /\ inv' = NoInv

Next ==
    \/ \E v \in Ids :
          \/ StartVm(v) \/ Recorded(v) \/ QmpReady(v) \/ QmpFails(v)
          \/ \E then \in {"nothing", "start"} : StopVm(v, then) \/ StopRecoveredVm(v, then)
          \/ AfterStop(v) \/ FinalizeExit(v)
          \/ BeginDelete(v) \/ MoveToTrash(v) \/ WriteEntry(v) \/ TrimTrash(v) \/ WriteTrimmed(v)
          \/ CreateVm(v) \/ Created(v) \/ Restore(v) \/ WriteRestored(v)
          \/ Update(v) \/ ChangeMedia(v) \/ WriteDefinition(v) \/ PushMedia(v)
          \/ Snapshot(v) \/ SnapshotDone(v) \/ SnapshotTimesOut(v)
          \/ \E force \in BOOLEAN : DeleteVm(v, force)
    \/ \E p \in Pids : Exits(p)
    \/ EmptyTrash \/ WriteEmptied
    \/ BrokerDies

Spec == Init /\ [][Next]_vars

-----------------------------------------------------------------------------
(* Properties *)

TypeOK ==
    /\ dir \in [Ids \cup Stamps -> Directory \cup {None}]
    /\ index \in Seq([id : Ids, deletedAt : Stamps])
    /\ staging \in BOOLEAN /\ broken \in BOOLEAN
    /\ procs \in [Pids -> Process \cup {None}]
    /\ running \in [Ids -> Pids \cup {None}]
    /\ generation \in [Ids -> Pids \cup {None}]
    /\ closing \in [Ids -> BOOLEAN]
    /\ op \in [Ids -> [await : Awaits, then : Awaits \cup {"start"}, force : BOOLEAN,
                     deletedAt : {0} \cup Stamps, child : Pids \cup {None}]]
    /\ inv \in [kind : {"none", "delete", "create", "restore", "empty"}, id : Ids \cup {None}]

(* Of two processes on the disk of one machine, QEMU or qemu-img, the      *)
(* broker has abandoned one: qemu-img timed out (run), it outlived a       *)
(* broker that had not recorded its pid (qemu-img never is), or its        *)
(* machine was deleted although it did not end when told to.  Restarts,    *)
(* stops that fail, exits nobody expected, processes the next broker       *)
(* finds, deletion and restoring put no others on one disk (startVm,       *)
(* requireStopped, stopVm, deleteVm, restore).                             *)
OneUserPerDisk ==
    \A p, q \in Alive :
        p # q /\ procs[p].in = procs[q].in /\ procs[p].in # None =>
            procs[p].abandoned \/ procs[q].abandoned

(* A machine goes to the trash, where the next deletion may remove its     *)
(* disk for good, only when the broker has abandoned every process on it:  *)
(* deleteVm has told the process it knows of to end and waited, and none   *)
(* starts between its checks and the rename.                               *)
TrashIsUnused ==
    \A p \in Alive : procs[p].in \in Stamps => procs[p].abandoned

(* Between two changes of the inventory the index lists exactly the        *)
(* directories in the trash, at most MaxTrash, oldest first, if the broker *)
(* has not died in such a change (deleteVm, restore, emptyTrash and        *)
(* trimTrash in inventoryChain).                                           *)
TrashIsIndexed ==
    inv = NoInv /\ ~broken =>
        /\ {index[i].deletedAt : i \in DOMAIN index} = {t \in Stamps : Exists(t)}
        /\ Len(index) <= MaxTrash
        /\ \A i, j \in DOMAIN index : i < j => index[i].deletedAt < index[j].deletedAt

=============================================================================
