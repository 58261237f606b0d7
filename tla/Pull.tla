--------------------------------- MODULE Pull ---------------------------------
(***************************************************************************)
(* Files pulled from the guest to the host: the pull half of               *)
(* src/host/transfers.ts, with the file system it works on and the answers *)
(* of the guest to file_read_chunk.                                        *)
(*                                                                         *)
(* Every await of pullOneFile is a point where other sessions, a cleanup   *)
(* or a crash of the broker may come in between; an action is what happens *)
(* between two of them.  A chunk of a file is the version it belongs to,   *)
(* so a file is a sequence of chunks and its hash is the sequence itself.  *)
(***************************************************************************)
EXTENDS Naturals, Sequences, FiniteSetsExt

CONSTANTS
    Sessions,   \* sessions of the broker; each has one call at a time
    Sources,    \* files in the guest
    Dests,      \* files on the host
    Requests,   \* calls: [dir: is it directory_pull, entries: what it copies]
    Overwrites, \* values of the parameter "overwrite"
    Sizes,      \* Sizes[g][v] is the number of chunks of version v of source g
    None        \* "undefined"

ASSUME PullAssumption ==
    /\ Sizes \in [Sources -> Seq(Nat)]
    /\ \A g \in Sources : Len(Sizes[g]) > 0
    /\ Requests \subseteq [dir : BOOLEAN, entries : Seq([from : Sources, to : Dests])]
    /\ \A r \in Requests : Len(r.entries) > 0 /\ (~r.dir => Len(r.entries) = 1)
    /\ Overwrites \subseteq BOOLEAN
    /\ None \notin Sessions \cup Sources \cup Dests \cup Nat

VARIABLES
    source,     \* version of each guest file
    dest,       \* content of each destination, None if it does not exist
    temp,       \* content of each .partial file
    meta,       \* each .partial.json file: None, Torn or its fields
    active,     \* activeHostDestinations
    retained,   \* retainedHostPartials
    tr,         \* the transfer of each session and where its code stands
    abort       \* abortSession of each session: the partials it will remove

vars == <<source, dest, temp, meta, active, retained, tr, abort>>

-----------------------------------------------------------------------------

Chunks == Sources \X (Nat \ {0})
Content(g, v) == [i \in 1 .. Sizes[g][v] |-> <<g, v>>]

PullMetadata == [guestPath : Sources \cup {None}, expectedSize : Nat]
(* Metadata whose writing a crash cut short: it does not parse. *)
Torn == [guestPath |-> None, expectedSize |-> 0]

(* The steps of a transfer, named for what it awaits. *)
Steps == {"idle", "list", "prepare", "claim", "open", "hash", "read", "meta",
          "write", "close", "unmeta"}
UsesPartial == {"hash", "read", "meta", "write", "close", "unmeta"}

Reply == [data : Seq(Chunks), size : Nat, eof : BOOLEAN, sha256 : Seq(Chunks)]

NoTransfer == [pc |-> "idle", entries |-> <<>>, overwrite |-> FALSE, cancelled |-> FALSE,
               linked |-> FALSE, data |-> <<>>, offset |-> 0, expectedSize |-> None,
               noted |-> FALSE, hash |-> <<>>, reply |-> None, since |-> None]

Init ==
    /\ source = [g \in Sources |-> 1]
    /\ dest = [d \in Dests |-> None]
    /\ temp = [d \in Dests |-> None]
    /\ meta = [d \in Dests |-> None]
    /\ active = {}
    /\ retained = [s \in Sessions |-> {}]
    /\ tr = [s \in Sessions |-> NoTransfer]
    /\ abort = [s \in Sessions |-> None]

From(s) == Head(tr[s].entries).from
To(s) == Head(tr[s].entries).to

(* While a transfer has its partial file open, "linked" says whether the   *)
(* path still names it; if not, its content lives on in "data" only.       *)
FileOf(s) == IF tr[s].linked THEN temp[To(s)] ELSE tr[s].data

(* rm of the partial files of D under the transfers that have them open. *)
Detached(D) ==
    [s \in Sessions |->
        IF tr[s].linked /\ To(s) \in D
        THEN [tr[s] EXCEPT !.linked = FALSE, !.data = temp[To(s)]]
        ELSE tr[s]]
Without(files, D) == [d \in Dests |-> IF d \in D THEN None ELSE files[d]]

(* hostTempPath of a transfer is set while its partial file is in use. *)
HostTempPath(s) ==
    IF tr[s].pc \in UsesPartial THEN {To(s)} ELSE {}

RetainHostPartial(s) == retained' = [retained EXCEPT ![s] = @ \cup {To(s)}]
ReleaseHostPartial(s) == retained' = [retained EXCEPT ![s] = @ \ {To(s)}]

-----------------------------------------------------------------------------
(* Where a transfer goes next. *)

Goto(s, pc) == tr' = [tr EXCEPT ![s].pc = pc]

(* unregister: the promise "done" is resolved. *)
Unregister(s) == tr' = [tr EXCEPT ![s] = NoTransfer]

(* pullOneFile begins with the next entry. *)
BeginFile(t, entries) ==
    [NoTransfer EXCEPT !.pc = "prepare", !.entries = entries,
        !.overwrite = t.overwrite, !.cancelled = t.cancelled,
        !.since = source[Head(entries).from]]

(* Mutant: the error is swallowed. *)
FailKeepingSilently(s) == UNCHANGED <<tr, dest, temp, meta, active, retained>>

(* An error after which the partial file is kept for a retry: the          *)
(* "finally" of pullOneFile, then of execute.                              *)
FailKeeping(s) ==
    /\ active' = active \ {To(s)}
    /\ Unregister(s)
    /\ UNCHANGED <<dest, temp, meta, retained>>

(* An error for which discardHostPartial holds: the partial is of no use.  *)
FailDiscarding(s) ==
    /\ temp' = Without(temp, {To(s)})
    /\ meta' = Without(meta, {To(s)})
    /\ ReleaseHostPartial(s)
    /\ active' = active \ {To(s)}
    /\ tr' = [Detached({To(s)}) EXCEPT ![s] = NoTransfer]
    /\ UNCHANGED dest

(* No error: t is the transfer after the step. *)
Proceed(s, t) ==
    /\ tr' = [tr EXCEPT ![s] = t]
    /\ UNCHANGED <<dest, retained, active>>

-----------------------------------------------------------------------------
(* execute *)

(* register, and the checks before the first guest request. *)
Begin(s, r, overwrite) ==
    /\ tr[s].pc = "idle"
    /\ abort[s] = None
    /\ tr' = [tr EXCEPT ![s] =
                 IF r.dir
                 THEN [NoTransfer EXCEPT !.pc = "list", !.entries = r.entries, !.overwrite = overwrite]
                 ELSE BeginFile([NoTransfer EXCEPT !.overwrite = overwrite], r.entries)]
    /\ UNCHANGED <<source, dest, temp, meta, active, retained, abort>>

(* collectGuestTree answers and the directories are made. *)
ListTree(s) ==
    /\ tr[s].pc = "list"
    /\ IF tr[s].cancelled
       THEN Unregister(s)
       ELSE tr' = [tr EXCEPT ![s] = BeginFile(@, @.entries)]
    /\ UNCHANGED <<source, dest, temp, meta, active, retained, abort>>

(* The guest is lost, times out or refuses while the tree is listed. *)
ListFails(s) ==
    /\ tr[s].pc = "list"
    /\ Unregister(s)
    /\ UNCHANGED <<source, dest, temp, meta, active, retained, abort>>

-----------------------------------------------------------------------------
(* pullOneFile up to the first guest request *)

(* prepareHostDestination: lstat of the destination. *)
Prepare(s) ==
    /\ tr[s].pc = "prepare"
    /\ IF dest[To(s)] # None /\ ~tr[s].overwrite
       THEN Unregister(s)
       ELSE Goto(s, "claim")
    /\ UNCHANGED <<source, dest, temp, meta, active, retained, abort>>

(* Mutant: no look at activeHostDestinations. *)
ClaimUnchecked(s) ==
    /\ tr[s].pc = "claim"
    /\ Goto(s, "open") /\ active' = active \cup {To(s)}
    /\ UNCHANGED <<source, dest, temp, meta, retained, abort>>

(* The destination is claimed, or another transfer has it. *)
Claim(s) ==
    /\ tr[s].pc = "claim"
    /\ IF To(s) \in active
       THEN Unregister(s) /\ UNCHANGED active
       ELSE Goto(s, "open") /\ active' = active \cup {To(s)}
    /\ UNCHANGED <<source, dest, temp, meta, retained, abort>>

Resumable(s) ==
    /\ temp[To(s)] # None
    /\ meta[To(s)] # None
    /\ meta[To(s)].guestPath = From(s)
    /\ meta[To(s)].expectedSize >= Len(temp[To(s)])

(* openPullPartial opens the partial file where it ends, or removes both    *)
(* siblings and creates a new one; then retainHostPartial.                 *)
OpenPullPartial(s) ==
    /\ tr[s].pc = "open"
    /\ RetainHostPartial(s)
    /\ IF Resumable(s)
       THEN /\ tr' = [tr EXCEPT ![s].pc = "hash", ![s].linked = TRUE, ![s].noted = TRUE,
                                ![s].offset = Len(temp[To(s)]),
                                ![s].expectedSize = meta[To(s)].expectedSize]
            /\ UNCHANGED <<temp, meta>>
       ELSE /\ tr' = [Detached({To(s)}) EXCEPT ![s].pc = "hash", ![s].linked = TRUE]
            /\ temp' = [temp EXCEPT ![To(s)] = <<>>]
            /\ meta' = Without(meta, {To(s)})
    /\ UNCHANGED <<source, dest, active, abort>>

(* The partial file cannot be created.  pullOneFile has not entered its    *)
(* "try" yet: the destination stays claimed.                               *)
OpenFails(s) ==
    /\ tr[s].pc = "open"
    /\ ~Resumable(s)
    /\ temp' = Without(temp, {To(s)})
    /\ meta' = Without(meta, {To(s)})
    /\ tr' = [Detached({To(s)}) EXCEPT ![s] = NoTransfer]
    /\ UNCHANGED <<source, dest, active, retained, abort>>

(* updateOpenFileHash, then the head of the loop.  The file is as long as  *)
(* it was when it was opened: nobody else writes it.                       *)
HashPrefix(s) ==
    /\ tr[s].pc = "hash"
    /\ \/ tr[s].cancelled /\ FailKeeping(s)
       \/ /\ ~tr[s].cancelled
          /\ Proceed(s, [tr[s] EXCEPT !.pc = "read", !.hash = SubSeq(FileOf(s), 1, tr[s].offset)])
          /\ UNCHANGED <<temp, meta>>
    /\ UNCHANGED <<source, abort>>

-----------------------------------------------------------------------------
(* The loop of pullOneFile *)

(* Mutant: no hash with the last chunk. *)
FileReadChunkUnhashed(g, offset) ==
    LET file == Content(g, source[g])
        got == SubSeq(file, offset + 1, Min({offset + 1, Len(file)}))
    IN [data |-> got, size |-> Len(file), eof |-> offset + Len(got) >= Len(file), sha256 |-> None]

(* file_read_chunk of the guest: one chunk at the offset, and the hash of  *)
(* the whole file with the last one.                                       *)
FileReadChunk(g, offset) ==
    LET file == Content(g, source[g])
        got == SubSeq(file, offset + 1, Min({offset + 1, Len(file)}))
        eof == offset + Len(got) >= Len(file)
    IN [data |-> got, size |-> Len(file), eof |-> eof,
        sha256 |-> IF eof THEN file ELSE <<>>]

(* The chunk is next to be written; the last one of a file that is already *)
(* complete is empty and not written.                                      *)
TakeData(t) == [t EXCEPT !.pc = IF t.reply.data # <<>> THEN "write" ELSE "close"]

(* The guest answers; the size must be the one the transfer began with. *)
TakeChunk(s) ==
    /\ tr[s].pc = "read"
    /\ LET r == FileReadChunk(From(s), tr[s].offset)
           size == IF tr[s].expectedSize = None THEN r.size ELSE tr[s].expectedSize
           t == [tr[s] EXCEPT !.reply = r, !.expectedSize = size]
       IN \/ (r.size # size \/ tr[s].offset > size) /\ FailDiscarding(s)
          \/ /\ r.size = size /\ tr[s].offset <= size
             /\ Proceed(s, IF t.noted THEN TakeData(t) ELSE [t EXCEPT !.pc = "meta"])
             /\ UNCHANGED <<temp, meta>>
    /\ UNCHANGED <<source, abort>>

(* The guest is lost, times out or refuses the read. *)
ReadFails(s) ==
    /\ tr[s].pc = "read"
    /\ FailKeeping(s)
    /\ UNCHANGED <<source, abort>>

(* writePullMetadata, which creates the file and fails if it exists. *)
WritePullMetadata(s) ==
    /\ tr[s].pc = "meta"
    /\ IF meta[To(s)] # None
       THEN FailKeeping(s)
       ELSE /\ meta' = [meta EXCEPT ![To(s)] =
                          [guestPath |-> From(s), expectedSize |-> tr[s].expectedSize]]
            /\ Proceed(s, TakeData([tr[s] EXCEPT !.noted = TRUE]))
            /\ UNCHANGED temp
    /\ UNCHANGED <<source, abort>>

(* A write at an offset. *)
WriteAt(file, offset, chunk) ==
    [i \in 1 .. Max({Len(file), offset + Len(chunk)}) |->
        IF i \in offset + 1 .. offset + Len(chunk) THEN chunk[i - offset] ELSE file[i]]

(* The chunk is written and hashed; the head of the loop, or its end. *)
WriteChunk(s) ==
    /\ tr[s].pc = "write"
    /\ LET r == tr[s].reply
           file == WriteAt(FileOf(s), tr[s].offset, r.data)
           t == [tr[s] EXCEPT !.offset = @ + Len(r.data), !.hash = @ \o r.data,
                              !.data = IF tr[s].linked THEN <<>> ELSE file]
           written == IF tr[s].linked THEN [temp EXCEPT ![To(s)] = file] ELSE temp
       IN \/ /\ ~r.eof /\ tr[s].cancelled
             /\ temp' = written
             /\ active' = active \ {To(s)}
             /\ Unregister(s)
             /\ UNCHANGED <<dest, meta, retained>>
          \/ /\ r.eof \/ ~tr[s].cancelled
             /\ temp' = written
             /\ Proceed(s, IF r.eof THEN [t EXCEPT !.pc = "close"]
                                    ELSE [t EXCEPT !.pc = "read", !.reply = None])
             /\ UNCHANGED meta
    /\ UNCHANGED <<source, abort>>

-----------------------------------------------------------------------------
(* The end of pullOneFile *)

(* Mutant: the size is enough. *)
VerifiedSize(s) == tr[s].offset = tr[s].expectedSize

(* All of the file is there and its hash is the guest's. *)
Verified(s) ==
    /\ tr[s].offset = tr[s].expectedSize
    /\ tr[s].hash = tr[s].reply.sha256

(* The size and the hash are checked, then the partial file is renamed, if *)
(* it is still there.                                                      *)
Commit(s) ==
    /\ tr[s].pc = "close"
    /\ \/ ~Verified(s) /\ FailDiscarding(s)
       \/ Verified(s) /\ (tr[s].cancelled \/ temp[To(s)] = None) /\ FailKeeping(s)
       \/ /\ Verified(s) /\ ~tr[s].cancelled /\ temp[To(s)] # None
          /\ dest' = [dest EXCEPT ![To(s)] = temp[To(s)]]
          /\ temp' = Without(temp, {To(s)})
          /\ tr' = [Detached({To(s)}) EXCEPT ![s] = [tr[s] EXCEPT !.pc = "unmeta", !.linked = FALSE]]
          /\ UNCHANGED <<meta, active, retained>>
    /\ UNCHANGED <<source, abort>>

(* The metadata is removed and the destination released; then the next     *)
(* file of a directory, unless cancelled, or the end of the call.          *)
FinishFile(s) ==
    /\ tr[s].pc = "unmeta"
    /\ meta' = Without(meta, {To(s)})
    /\ ReleaseHostPartial(s)
    /\ active' = active \ {To(s)}
    /\ IF Len(tr[s].entries) = 1 \/ tr[s].cancelled
       THEN Unregister(s)
       ELSE tr' = [tr EXCEPT ![s] = BeginFile(@, Tail(@.entries))]
    /\ UNCHANGED <<source, dest, temp, abort>>

-----------------------------------------------------------------------------
(* abortSession and abortAll *)

AbortSession(s) ==
    /\ abort[s] = None
    /\ tr[s].pc # "idle" \/ retained[s] # {}
    /\ abort' = [abort EXCEPT ![s] = retained[s] \cup HostTempPath(s)]
    /\ retained' = [retained EXCEPT ![s] = {}]
    /\ tr' = [tr EXCEPT ![s].cancelled = (tr[s].pc # "idle")]
    /\ UNCHANGED <<source, dest, temp, meta, active>>

(* "done" of its transfer is resolved: the partials are removed. *)
RemovePartials(s) ==
    /\ abort[s] # None
    /\ tr[s].pc = "idle"
    /\ temp' = Without(temp, abort[s])
    /\ meta' = Without(meta, abort[s])
    /\ tr' = Detached(abort[s])
    /\ abort' = [abort EXCEPT ![s] = None]
    /\ UNCHANGED <<source, dest, active, retained>>

-----------------------------------------------------------------------------
(* The environment *)

(* A program in the guest, or a push, writes the source again. *)
GuestFileChanges(g) ==
    /\ source[g] < Len(Sizes[g])
    /\ source' = [source EXCEPT ![g] = @ + 1]
    /\ UNCHANGED <<dest, temp, meta, active, retained, tr, abort>>

(* The broker process dies and starts again: only the files are left, a    *)
(* metadata file being written perhaps in part.                            *)
Crash ==
    /\ \E s \in Sessions : tr[s].pc # "idle"
    /\ tr' = [s \in Sessions |-> NoTransfer]
    /\ abort' = [s \in Sessions |-> None]
    /\ retained' = [s \in Sessions |-> {}]
    /\ active' = {}
    /\ \E T \in SUBSET {d \in Dests : meta[d] = None /\ \E s \in Sessions : tr[s].pc = "meta" /\ To(s) = d} :
          meta' = [d \in Dests |-> IF d \in T THEN Torn ELSE meta[d]]
    /\ UNCHANGED <<source, dest, temp>>

TransferStep(s) ==
    \/ ListTree(s) \/ ListFails(s)
    \/ Prepare(s) \/ Claim(s) \/ OpenPullPartial(s) \/ OpenFails(s) \/ HashPrefix(s)
    \/ TakeChunk(s) \/ ReadFails(s) \/ WritePullMetadata(s) \/ WriteChunk(s)
    \/ Commit(s) \/ FinishFile(s)

Next ==
    \/ \E s \in Sessions, r \in Requests, o \in Overwrites : Begin(s, r, o)
    \/ \E s \in Sessions : TransferStep(s) \/ AbortSession(s) \/ RemovePartials(s)
    \/ \E g \in Sources : GuestFileChanges(g)
    \/ Crash

Spec == Init /\ [][Next]_vars

-----------------------------------------------------------------------------
(* Properties *)

TypeOK ==
    /\ source \in [Sources -> Nat \ {0}] /\ \A g \in Sources : source[g] <= Len(Sizes[g])
    /\ dest \in [Dests -> Seq(Chunks) \cup {None}]
    /\ temp \in [Dests -> Seq(Chunks) \cup {None}]
    /\ meta \in [Dests -> PullMetadata \cup {None}]
    /\ active \subseteq Dests
    /\ retained \in [Sessions -> SUBSET Dests]
    /\ abort \in [Sessions -> (SUBSET Dests) \cup {None}]
    /\ tr \in [Sessions ->
          [pc : Steps, entries : Seq([from : Sources, to : Dests]), overwrite : BOOLEAN,
           cancelled : BOOLEAN, linked : BOOLEAN, data : Seq(Chunks),
           offset : Nat, expectedSize : Nat \cup {None}, noted : BOOLEAN, hash : Seq(Chunks),
           reply : Reply \cup {None}, since : Nat \cup {None}]]

(* The file a transfer renames is the one it hashed: while a session uses a *)
(* partial file no other session does, the file holds exactly what has     *)
(* gone into its hash, and a file at the path of the partial is that file  *)
(* (activeHostDestinations against resumes and the rm of a cleanup).       *)
RenamesHashedFile ==
    \A s \in Sessions :
        /\ HostTempPath(s) \cap UNION {HostTempPath(o) : o \in Sessions \ {s}} = {}
        /\ tr[s].pc \in {"read", "meta", "write", "close"} =>
              /\ FileOf(s) = tr[s].hash
              /\ temp[To(s)] # None => tr[s].linked

(* The copies under way, for AtomicCopy. *)
Copies ==
    {[from |-> From(s), to |-> To(s), since |-> tr[s].since] :
        s \in {t \in Sessions : tr[t].pc \notin {"idle", "list"}}}

Copying == INSTANCE AtomicCopy WITH copies <- Copies, Missing <- None, MayVanish <- FALSE

(* Whatever is interleaved with a pull, and wherever the broker crashes in *)
(* it, a host file is replaced in one step and by a complete version of    *)
(* its source, one that the guest had since the call began: a stale        *)
(* partial file is never committed (the size, offset and hash checks of    *)
(* pullOneFile, the rename).                                               *)
PullIsAtomic == Copying!Spec

(* Cleanup ends: a cancelled transfer stops at its next assertActive or    *)
(* its end, which resolves "done" for abortSession.                        *)
AbortEnds == \A s \in Sessions : abort[s] # None ~> abort[s] = None

LiveSpec ==
    /\ Spec
    /\ \A s \in Sessions : WF_vars(TransferStep(s)) /\ WF_vars(RemovePartials(s))

=============================================================================
