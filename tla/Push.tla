--------------------------------- MODULE Push ---------------------------------
(***************************************************************************)
(* Files pushed from the host to the guest: the push half of               *)
(* src/host/transfers.ts against the file_write_* methods of the guest     *)
(* agent (guest/win98ctl.c), with the connection between them.             *)
(*                                                                         *)
(* The guest executes requests one at a time, in the order they were sent. *)
(* A request whose sender no longer waits (a timeout) is executed all the  *)
(* same.  An answer arrives with the execution of its request; an answer   *)
(* that is late is one whose sender timed out before.  As in Pull, a file  *)
(* is a sequence of chunks, each naming the version it belongs to, and the *)
(* hash of a file is the sequence itself.                                  *)
(***************************************************************************)
EXTENDS Naturals, Sequences, FiniteSetsExt

CONSTANTS
    Sessions,     \* sessions of the broker; each has one call at a time
    Sources,      \* files on the host
    Dests,        \* files in the guest
    Requests,     \* calls: [dir: is it directory_push, entries: what it copies]
    Overwrites,   \* values of the parameter "overwrite"
    Modes,        \* values of config.lockingEnabled
    Sizes,        \* Sizes[g][v] is the number of chunks of version v of source g
    MaxTransfers, \* MAX_TRANSFERS of the guest
    MaxWire,      \* bound on the requests the guest has not executed
    None,         \* "undefined"
    Torn          \* a .W98META file that was not written to its end

ASSUME PushAssumption ==
    /\ Sizes \in [Sources -> Seq(Nat)]
    /\ \A g \in Sources : Len(Sizes[g]) > 0
    /\ Requests \subseteq [dir : BOOLEAN, entries : Seq([from : Sources, to : Dests])]
    /\ \A r \in Requests : Len(r.entries) > 0 /\ (~r.dir => Len(r.entries) = 1)
    /\ Overwrites \subseteq BOOLEAN
    /\ Modes \subseteq BOOLEAN
    /\ MaxTransfers \in Nat \ {0} /\ MaxWire \in Nat \ {0}
    /\ IsFiniteSet(Sessions) /\ IsFiniteSet(Dests)
    /\ None # Torn /\ None \notin Nat

VARIABLES
    source,     \* version of each host file
    dest,       \* content of each destination, None if it does not exist
    temp,       \* content of each .W98PART file
    meta,       \* each .W98META file: None, Torn or the content it announces
    slots,      \* transfers[] of the guest, by destination
    wire,       \* requests sent and not yet executed, oldest first
    tr,         \* the transfer of each session and where its code stands
    abort       \* abortSession of each session

vars == <<source, dest, temp, meta, slots, wire, tr, abort>>
disk == <<dest, temp, meta>>

-----------------------------------------------------------------------------

Chunks == Sources \X (Nat \ {0})
Content(g, v) == [i \in 1 .. Sizes[g][v] |-> <<g, v>>]

(* The steps of a transfer, named for what it awaits. *)
Steps == {"idle", "list", "hash", "begin", "read", "chunk", "commit", "stat"}

NoTransfer == [pc |-> "idle", entries |-> <<>>, overwrite |-> FALSE, cancelled |-> FALSE,
               since |-> None, guestTransferId |-> None, offset |-> 0]

(* FILE_TRANSFER: sha is what has gone into the hash, its length "offset". *)
Slot == [id : Nat \ {0}, expected : Seq(Chunks), overwrite : BOOLEAN, sha : Seq(Chunks)]

Methods == {"file_write_begin", "file_write_chunk", "file_write_commit",
            "file_write_abort", "session_abort"}

(* A request with the parameters its method has.  live: the sender still   *)
(* waits for the answer.                                                   *)
NoRequest == [method |-> "session_abort", by |-> None, live |-> FALSE, id |-> 0, from |-> None,
              to |-> None, since |-> 0, overwrite |-> FALSE, offset |-> 0, data |-> <<>>]
Request == [method : Methods, by : Sessions \cup {None}, live : BOOLEAN, id : Nat,
            from : Sources \cup {None}, to : Dests \cup {None}, since : Nat, overwrite : BOOLEAN,
            offset : Nat, data : Seq(Chunks)]

Init ==
    /\ source = [g \in Sources |-> 1]
    /\ dest = [d \in Dests |-> None]
    /\ temp = [d \in Dests |-> None]
    /\ meta = [d \in Dests |-> None]
    /\ slots = [d \in Dests |-> None]
    /\ wire = <<>>
    /\ tr = [s \in Sessions |-> NoTransfer]
    /\ abort = [s \in Sessions |-> "none"]

From(s) == Head(tr[s].entries).from
To(s) == Head(tr[s].entries).to
Expected(s) == Content(From(s), tr[s].since)
Used == {d \in Dests : slots[d] # None}

(* Mutant: the ids begin with 0, what the guest reads for an absent one. *)
FreshIdFromZero ==
    LET ids == {slots[d].id : d \in Used} IN Min((0 .. Cardinality(ids)) \ ids)

(* next_transfer++ gives an id nobody has; one that is nowhere will do. *)
Ids ==
    {slots[d].id : d \in Used} \cup {wire[i].id : i \in DOMAIN wire}
        \cup {tr[s].guestTransferId : s \in {t \in Sessions : tr[t].guestTransferId # None}}
FreshId == Min((1 .. Cardinality(Ids) + 1) \ Ids)

-----------------------------------------------------------------------------
(* The host *)

Goto(s, pc) == tr' = [tr EXCEPT ![s].pc = pc]

(* unregister: the promise "done" is resolved. *)
Unregister(s) == tr' = [tr EXCEPT ![s] = NoTransfer]

(* pushOneFile begins with the next entry: lstat of the source. *)
BeginFile(t, entries) ==
    [NoTransfer EXCEPT !.pc = "hash", !.entries = entries, !.overwrite = t.overwrite,
        !.cancelled = t.cancelled, !.since = source[Head(entries).from]]

(* pushDirectoryOperation: the next file, unless cancelled, or the end. *)
NextFile(t, entries) ==
    IF entries = <<>> \/ t.cancelled THEN NoTransfer ELSE BeginFile(t, entries)

Send(s, q) == wire' = Append(wire, [q EXCEPT !.by = s, !.live = TRUE])

(* execute: register, and the checks before the first guest request. *)
Begin(s, r, overwrite) ==
    /\ tr[s].pc = "idle"
    /\ abort[s] = "none"
    /\ tr' = [tr EXCEPT ![s] =
                 IF r.dir
                 THEN [NoTransfer EXCEPT !.pc = "list", !.entries = r.entries, !.overwrite = overwrite]
                 ELSE BeginFile([NoTransfer EXCEPT !.overwrite = overwrite], r.entries)]
    /\ UNCHANGED <<source, disk, slots, wire, abort>>

(* collectHostTree, and fs_mkdir of each directory. *)
CollectHostTree(s) ==
    /\ tr[s].pc = "list"
    /\ tr' = [tr EXCEPT ![s] = NextFile(@, @.entries)]
    /\ UNCHANGED <<source, disk, slots, wire, abort>>

(* fs_mkdir of the parent directory, assertActive, hashOpenFile and the    *)
(* stat that shows whether the hash is of the file that lstat saw.  A      *)
(* transfer cancelled while it hashes still sends file_write_begin.        *)
HashFile(s) ==
    /\ tr[s].pc = "hash"
    /\ \/ /\ tr[s].cancelled \/ source[From(s)] # tr[s].since
          /\ Unregister(s) /\ UNCHANGED wire
       \/ /\ source[From(s)] = tr[s].since
          /\ Len(wire) < MaxWire
          /\ Goto(s, "begin")
          /\ Send(s, [NoRequest EXCEPT !.method = "file_write_begin", !.from = From(s), !.to = To(s),
                                       !.since = tr[s].since, !.overwrite = tr[s].overwrite])
    /\ UNCHANGED <<source, disk, slots, abort>>

(* The head of the loop: a chunk of the file as it is now, at most up to   *)
(* the size it had; after the last one, file_write_commit.                 *)
ReadSource(s) ==
    /\ tr[s].pc = "read"
    /\ LET size == Len(Expected(s))
           file == Content(From(s), source[From(s)])
           got == SubSeq(file, tr[s].offset + 1, Min({tr[s].offset + 1, size, Len(file)}))
       IN \/ /\ tr[s].offset = size
             /\ Goto(s, "commit")
             /\ Send(s, [NoRequest EXCEPT !.method = "file_write_commit", !.id = tr[s].guestTransferId,
                            !.from = From(s), !.to = To(s), !.since = tr[s].since])
          \/ /\ tr[s].offset < size
             /\ IF tr[s].cancelled \/ got = <<>>
                THEN Unregister(s) /\ UNCHANGED wire
                ELSE /\ Goto(s, "chunk")
                     /\ Send(s, [NoRequest EXCEPT !.method = "file_write_chunk", !.offset = tr[s].offset,
                                    !.id = tr[s].guestTransferId, !.data = got])
    /\ UNCHANGED <<source, disk, slots, abort>>

(* The stat after the commit. *)
StatSource(s) ==
    /\ tr[s].pc = "stat"
    /\ IF source[From(s)] # tr[s].since
       THEN Unregister(s)
       ELSE tr' = [tr EXCEPT ![s] = NextFile(@, Tail(@.entries))]
    /\ UNCHANGED <<source, disk, slots, wire, abort>>

(* Nobody waits for the answer any more. *)
Orphan(q) == [q EXCEPT !.by = None, !.live = FALSE]

(* No guest is connected when a request is to be sent, the answer does not *)
(* come in time, or fs_mkdir is refused.  A transfer that fails sends      *)
(* nothing more: the slot in the guest stays as it is.                     *)
RequestFails(s) ==
    /\ tr[s].pc \notin {"idle", "stat"}
    /\ Unregister(s)
    /\ wire' = [i \in DOMAIN wire |->
                  IF wire[i].by = s /\ wire[i].method # "file_write_abort"
                  THEN Orphan(wire[i]) ELSE wire[i]]
    /\ UNCHANGED <<source, disk, slots, abort>>

-----------------------------------------------------------------------------
(* abortSession, and the session_abort that follows it in a cleanup *)

AbortSession(s) ==
    /\ abort[s] = "none"
    /\ tr[s].pc # "idle" \/ Used # {}
    /\ tr' = [tr EXCEPT ![s].cancelled = (tr[s].pc # "idle")]
    /\ IF tr[s].guestTransferId # None
       THEN /\ abort' = [abort EXCEPT ![s] = "sent"]
            /\ Send(s, [NoRequest EXCEPT !.method = "file_write_abort", !.id = tr[s].guestTransferId])
       ELSE abort' = [abort EXCEPT ![s] = "done"] /\ UNCHANGED wire
    /\ UNCHANGED <<source, disk, slots>>

(* file_write_abort is not answered in time. *)
AbortTimesOut(s) ==
    /\ abort[s] = "sent"
    /\ abort' = [abort EXCEPT ![s] = "done"]
    /\ wire' = [i \in DOMAIN wire |->
                  IF wire[i].by = s /\ wire[i].method = "file_write_abort"
                  THEN Orphan(wire[i]) ELSE wire[i]]
    /\ UNCHANGED <<source, disk, slots, tr>>

(* "done" of the transfer is resolved.  When locking is enabled, the       *)
(* cleanup goes on with session_abort.                                     *)
EndAbort(s, locking) ==
    /\ abort[s] = "done"
    /\ tr[s].pc = "idle"
    /\ abort' = [abort EXCEPT ![s] = "none"]
    /\ IF locking
       THEN Len(wire) < MaxWire /\ wire' = Append(wire, NoRequest)
       ELSE UNCHANGED wire
    /\ UNCHANGED <<source, disk, slots, tr>>

-----------------------------------------------------------------------------
(* The guest executes the oldest request *)

Executes(method) ==
    /\ wire # <<>>
    /\ Head(wire).method = method
    /\ wire' = Tail(wire)

(* The sender goes on as t, if it still waits. *)
Answered(q, t) == tr' = IF q.live THEN [tr EXCEPT ![q.by] = t] ELSE tr

(* transfer_meta_state: nothing there, an interrupted transfer of the same *)
(* file or of another one, or files that do not belong together.           *)
TransferMetaState(q) ==
    IF temp[q.to] = None /\ meta[q.to] = None THEN "none"
    ELSE IF temp[q.to] = None \/ meta[q.to] \in {None, Torn} THEN "conflict"
    ELSE IF meta[q.to] = Content(q.from, q.since) THEN "same"
    ELSE "other"

(* Whether file_write_begin opens a transfer. *)
Admitted(q) ==
    /\ Cardinality(Used) < MaxTransfers
    /\ q.to \notin Used
    /\ q.overwrite \/ dest[q.to] = None
    /\ TransferMetaState(q) # "conflict"

(* Mutant: only the offset is set. *)
RehashNothing(d) == <<>>

(* rehash_transfer_prefix: what is in the partial file is hashed. *)
RehashTransferPrefix(d) == temp[d]

(* file_write_begin opens the partial file, or makes a new one, which may  *)
(* fail.                                                                   *)
FileWriteBegin ==
    /\ Executes("file_write_begin")
    /\ LET q == Head(wire)
           resume == TransferMetaState(q) = "same" /\ Len(temp[q.to]) <= Len(meta[q.to])
           prefix == IF resume THEN temp[q.to] ELSE <<>>
       IN \/ /\ Admitted(q)
             /\ slots' = [slots EXCEPT ![q.to] =
                   [id |-> FreshId, expected |-> Content(q.from, q.since),
                    overwrite |-> q.overwrite,
                    sha |-> IF resume THEN RehashTransferPrefix(q.to) ELSE <<>>]]
             /\ temp' = [temp EXCEPT ![q.to] = prefix]
             /\ meta' = [meta EXCEPT ![q.to] = Content(q.from, q.since)]
             /\ Answered(q, [tr[q.by] EXCEPT !.pc = "read", !.guestTransferId = FreshId,
                                             !.offset = Len(prefix)])
          \/ /\ Admitted(q) /\ ~resume
             /\ temp' = [temp EXCEPT ![q.to] = None]
             /\ meta' = [meta EXCEPT ![q.to] = None]
             /\ Answered(q, NoTransfer) /\ UNCHANGED slots
          \/ /\ ~Admitted(q)
             /\ Answered(q, NoTransfer) /\ UNCHANGED <<temp, meta, slots>>
    /\ UNCHANGED <<source, dest, abort>>

(* The transfer a request is about. *)
Named(q) == {d \in Used : slots[d].id = q.id}

NotFound ==
    /\ \E method \in {"file_write_chunk", "file_write_commit"} : Executes(method)
    /\ Named(Head(wire)) = {}
    /\ Answered(Head(wire), NoTransfer)
    /\ UNCHANGED <<source, disk, slots, abort>>

(* A chunk is appended and hashed; at another offset it is refused. *)
FileWriteChunk ==
    /\ Executes("file_write_chunk")
    /\ \E d \in Named(Head(wire)) :
          LET q == Head(wire)
              t == [tr[q.by] EXCEPT !.pc = "read", !.offset = @ + Len(q.data)]
          IN IF q.offset = Len(slots[d].sha)
             THEN /\ slots' = [slots EXCEPT ![d].sha = @ \o q.data]
                  /\ temp' = [temp EXCEPT ![d] = @ \o q.data]
                  /\ Answered(q, t)
             ELSE Answered(q, NoTransfer) /\ UNCHANGED <<temp, slots>>
    /\ UNCHANGED <<source, dest, meta, abort>>

(* WriteFile fails, with the data written or not: it is not hashed, and    *)
(* the transfer stays open.                                                *)
WriteFails ==
    /\ Executes("file_write_chunk")
    /\ \E d \in Named(Head(wire)) :
          /\ Head(wire).offset = Len(slots[d].sha)
          /\ \/ temp' = [temp EXCEPT ![d] = @ \o Head(wire).data]
             \/ UNCHANGED temp
    /\ Answered(Head(wire), NoTransfer)
    /\ UNCHANGED <<source, dest, meta, slots, abort>>

(* Mutant: a file of the right size is committed. *)
Sha256Unchecked(q, d) == TRUE

(* The hash is the announced one: of the begin and of the commit. *)
Sha256Matches(q, d) ==
    /\ slots[d].sha = slots[d].expected
    /\ slots[d].sha = Content(q.from, q.since)

(* file_write_commit: the size, the hash and the destination are checked;  *)
(* the old file is deleted and the partial file moved, which may fail.     *)
(* The transfer is over in any case.                                       *)
FileWriteCommit ==
    /\ Executes("file_write_commit")
    /\ \E d \in Named(Head(wire)) :
          LET q == Head(wire)
              t == [tr[q.by] EXCEPT !.pc = "stat", !.guestTransferId = None]
              full == Len(slots[d].sha) = Len(slots[d].expected)
              free == slots[d].overwrite \/ dest[d] = None
          IN /\ slots' = [slots EXCEPT ![d] = None]
             /\ IF full /\ Sha256Matches(q, d) /\ free
                THEN \/ /\ dest' = [dest EXCEPT ![d] = temp[d]]
                        /\ temp' = [temp EXCEPT ![d] = None]
                        /\ meta' = [meta EXCEPT ![d] = None]
                        /\ Answered(q, t)
                     \/ /\ \E old \in {None, dest[d]} : dest' = [dest EXCEPT ![d] = old]
                        /\ Answered(q, NoTransfer) /\ UNCHANGED <<temp, meta>>
                ELSE /\ Answered(q, NoTransfer) /\ UNCHANGED dest
                     /\ LET keep == ~full \/ Sha256Matches(q, d)
                        IN /\ temp' = IF keep THEN temp ELSE [temp EXCEPT ![d] = None]
                           /\ meta' = IF keep THEN meta ELSE [meta EXCEPT ![d] = None]
    /\ UNCHANGED <<source, abort>>

(* file_write_abort closes the transfer and keeps the files. *)
FileWriteAbort ==
    /\ Executes("file_write_abort")
    /\ slots' = [d \in Dests |-> IF d \in Named(Head(wire)) THEN None ELSE slots[d]]
    /\ abort' = IF Head(wire).live THEN [abort EXCEPT ![Head(wire).by] = "done"] ELSE abort
    /\ UNCHANGED <<source, disk, tr>>

(* session_abort: cleanup_transfers, whosever they are. *)
CleanupTransfers ==
    /\ Executes("session_abort")
    /\ slots' = [d \in Dests |-> None]
    /\ UNCHANGED <<source, disk, tr, abort>>

GuestExecutes ==
    \/ FileWriteBegin \/ NotFound \/ FileWriteChunk \/ WriteFails
    \/ FileWriteCommit \/ FileWriteAbort \/ CleanupTransfers

-----------------------------------------------------------------------------
(* The environment *)

(* A program on the host writes the source again. *)
HostFileChanges(g) ==
    /\ source[g] < Len(Sizes[g])
    /\ source' = [source EXCEPT ![g] = @ + 1]
    /\ UNCHANGED <<disk, slots, wire, tr, abort>>

(* The connection is gone with all that was under way on it. *)
Disconnected ==
    /\ slots' = [d \in Dests |-> None]
    /\ wire' = <<>>
    /\ tr' = [s \in Sessions |->
                IF \E i \in DOMAIN wire : wire[i].live /\ wire[i].by = s /\ wire[i].method # "file_write_abort"
                THEN NoTransfer ELSE tr[s]]
    /\ abort' = [s \in Sessions |-> IF abort[s] = "sent" THEN "done" ELSE abort[s]]

(* The agent closes its files and connects again. *)
ConnectionLost ==
    /\ Disconnected
    /\ wire # <<>> \/ Used # {}
    /\ UNCHANGED <<source, disk>>

(* The guest dies while it executes a request: after it has created the    *)
(* partial file; or in a commit after it has deleted the old file, after   *)
(* the move, or after the first of two deletions.                          *)
GuestCrash ==
    /\ Disconnected
    /\ wire # <<>>
    /\ LET q == Head(wire)
       IN \/ /\ q.method = "file_write_begin"
             /\ Admitted(q) /\ TransferMetaState(q) # "same"
             /\ temp' = [temp EXCEPT ![q.to] = <<>>]
             /\ \E m \in {None, Torn} : meta' = [meta EXCEPT ![q.to] = m]
             /\ UNCHANGED dest
          \/ /\ q.method = "file_write_commit"
             /\ \E d \in Named(q) :
                   /\ Len(slots[d].sha) = Len(slots[d].expected)
                   /\ IF Sha256Matches(q, d)
                      THEN /\ slots[d].overwrite \/ dest[d] = None
                           /\ \/ dest' = [dest EXCEPT ![d] = None] /\ UNCHANGED temp
                              \/ dest' = [dest EXCEPT ![d] = temp[d]] /\ temp' = [temp EXCEPT ![d] = None]
                      ELSE temp' = [temp EXCEPT ![d] = None] /\ UNCHANGED dest
             /\ UNCHANGED meta
    /\ UNCHANGED source

Next ==
    \/ \E s \in Sessions, r \in Requests, o \in Overwrites : Begin(s, r, o)
    \/ \E s \in Sessions :
          \/ CollectHostTree(s) \/ HashFile(s) \/ ReadSource(s) \/ StatSource(s)
          \/ RequestFails(s) \/ AbortSession(s) \/ AbortTimesOut(s)
          \/ \E locking \in Modes : EndAbort(s, locking)
    \/ GuestExecutes
    \/ \E g \in Sources : HostFileChanges(g)
    \/ ConnectionLost \/ GuestCrash

Spec == Init /\ [][Next]_vars

-----------------------------------------------------------------------------
(* Properties *)

TypeOK ==
    /\ source \in [Sources -> Nat \ {0}] /\ \A g \in Sources : source[g] <= Len(Sizes[g])
    /\ dest \in [Dests -> Seq(Chunks) \cup {None}]
    /\ temp \in [Dests -> Seq(Chunks) \cup {None}]
    /\ meta \in [Dests -> Seq(Chunks) \cup {None, Torn}]
    /\ slots \in [Dests -> Slot \cup {None}]
    /\ wire \in Seq(Request)
    /\ abort \in [Sessions -> {"none", "sent", "done"}]
    /\ tr \in [Sessions ->
          [pc : Steps, entries : Seq([from : Sources, to : Dests]), overwrite : BOOLEAN,
           cancelled : BOOLEAN, since : Nat \cup {None}, guestTransferId : Nat \cup {None},
           offset : Nat]]

(* As long as somebody can still write to a transfer of the guest or       *)
(* commit it, the partial file is there, announced by its metadata, and    *)
(* holds exactly what has gone into the hash, whatever was resumed, cut    *)
(* off by a failed write or closed by the cleanup of another session.      *)
CommitsWhatItHashed ==
    \A d \in Used :
        \/ /\ temp[d] = slots[d].sha
           /\ meta[d] = slots[d].expected
        \/ /\ \A s \in Sessions : tr[s].guestTransferId # slots[d].id
           /\ \A i \in DOMAIN wire : wire[i].id = slots[d].id => wire[i].method = "file_write_abort"

(* The copies under way, for AtomicCopy: those of running calls, and those *)
(* whose call has failed with the commit on its way.                       *)
Copies ==
    {[from |-> From(s), to |-> To(s), since |-> tr[s].since] :
        s \in {t \in Sessions : tr[t].pc \notin {"idle", "list"}}}
    \cup
    {[from |-> wire[i].from, to |-> wire[i].to, since |-> wire[i].since] :
        i \in {j \in DOMAIN wire : wire[j].method = "file_write_commit"}}

Copying == INSTANCE AtomicCopy WITH copies <- Copies, Missing <- None, MayVanish <- TRUE

(* Whatever is interleaved with a push, and wherever the connection is     *)
(* lost or the guest dies, a guest file only ever becomes a complete       *)
(* version of the host file, the one its call has seen; at worst the old   *)
(* file is gone, deleted for a move that did not happen.                   *)
PushIsAtomic == Copying!Spec

(* "Keep a verified sibling partial so a retry can resume"; the test       *)
(* "resumes a verified partial upload after a transient chunk failure"     *)
(* retries at once.  The guest refuses a push as TRANSFER_ACTIVE only if a *)
(* push of another session is under way.                                   *)
RetryIsNotRefused ==
    \A q \in {wire[i] : i \in DOMAIN wire \cap {1}} :
        q.method = "file_write_begin" /\ q.live /\ q.to \in Used
        => \E s \in Sessions \ {q.by} : tr[s].pc # "idle"

=============================================================================
