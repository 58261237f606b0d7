-------------------------------- MODULE Capture --------------------------------
(***************************************************************************)
(* A screenshot on its way through the broker: the data frames of the      *)
(* guest collected by IncomingStreamRegistry (src/host/incoming-streams.ts)*)
(* on one GuestConnection, claimed by processGuestResponse                 *)
(* (src/host/broker.ts) and kept by ArtifactStore (src/host/artifacts.ts). *)
(*                                                                         *)
(* Frames arrive in order.  A frame, a timer or the answer of the disk is  *)
(* one callback of the event loop; the promises it settles go on before    *)
(* the next timer or socket event, but frames of the same chunk may be     *)
(* handled in between (Settled).  A payload is the pair <<call, part>>, so *)
(* the hash of a capture is the sequence of its parts.                     *)
(***************************************************************************)
EXTENDS Integers, Sequences, SequencesExt, FiniteSets

CONSTANTS
    Calls,            \* screen_capture calls, of any session
    Sizes,            \* numbers of data frames a capture may take
    PngSizes,         \* sizes of the PNG made of a capture
    MaxStreamBytes,   \* maxStreamBytes, in frames
    MaxStreams,       \* maxUnclaimedStreams
    MaxArtifactBytes, \* maxArtifactBytes
    MaxTotalBytes,    \* maxTotalBytes
    OldFiles,         \* artifact directories the broker may start with
    Boot,             \* the caller of evictFor in initialize()
    None              \* "undefined"

Artifact == [name : Calls \cup Nat, bytes : Nat]

ASSUME CaptureAssumption ==
    /\ Sizes \subseteq Nat \ {0} /\ PngSizes \subseteq Nat \ {0}
    /\ MaxStreamBytes \in Nat /\ MaxStreams \in Nat
    /\ MaxArtifactBytes \in Nat /\ MaxTotalBytes \in Nat
    /\ MaxArtifactBytes <= MaxTotalBytes
    /\ OldFiles \subseteq Seq(Artifact)
    /\ Boot \notin Calls

VARIABLES
    phase,        \* where the code of each call stands
    want,         \* the binary descriptor of its response
    image,        \* the bytes waitForStream gave it
    pending,      \* GuestConnection.pending: calls with a request timer
    conn,         \* "up", "failing" (socket destroyed, no close event yet), "down"
    inbox,        \* requests the guest has not executed
    nextStream,   \* pending_binary_stream of the guest
    wire,         \* frames sent by the guest, not yet handled
    streams,      \* IncomingStreamRegistry.streams, by stream id
    running,      \* initialize() has completed
    files,        \* the artifact directory, oldest file first
    maintenance,  \* callers in the maintenanceChain, first to run first
    op            \* the maintenance operation of each caller

calls == <<phase, want, image>>
net == <<conn, inbox, nextStream, wire>>
store == <<running, files, maintenance, op>>
vars == <<calls, pending, net, streams, store>>

-----------------------------------------------------------------------------

Phases == {"idle", "asked", "answered", "waiting", "woken", "storing", "stored", "failed"}
Ended == {"stored", "failed"}

Payload == Calls \X (Nat \ {0})
Whole(c, n) == [k \in 1 .. n |-> <<c, k>>]

(* BinaryDescriptor; the sha256 is that of the whole capture.  inline: the *)
(* response carries the image itself (imageBase64).                        *)
Descriptor == [streamId : Nat, total : Nat, inline : BOOLEAN]

Stream == [chunks : Seq(Payload), complete : BOOLEAN, error : BOOLEAN, retention : BOOLEAN]
NewStream == [chunks |-> <<>>, complete |-> FALSE, error |-> FALSE, retention |-> FALSE]

Frame == [type : {"data"}, streamId : Nat, final : BOOLEAN, payload : Payload]
         \cup [type : {"response"}, to : Calls, descriptor : Descriptor \cup {None}]

(* evictFor works on the listing it has read. *)
NoOp == [stage |-> "none", bytes |-> 0, listing |-> <<>>, total |-> 0]
NewOp(bytes) == [NoOp EXCEPT !.stage = "scan", !.bytes = bytes]
TotalBytes(fs) ==
    LET sum[n \in 0 .. Len(fs)] == IF n = 0 THEN 0 ELSE sum[n - 1] + fs[n].bytes
    IN sum[Len(fs)]

Init ==
    /\ phase = [c \in Calls |-> "idle"]
    /\ want = [c \in Calls |-> None]
    /\ image = [c \in Calls |-> <<>>]
    /\ pending = {}
    /\ conn = "down" /\ inbox = <<>> /\ nextStream = 0 /\ wire = <<>>
    /\ streams = <<>>
    /\ running = FALSE /\ files \in OldFiles
    /\ maintenance = <<Boot>>
    /\ op = [x \in Calls \cup {Boot} |-> IF x = Boot THEN NewOp(0) ELSE NoOp]

(* No promise settled by the last callback is left to go on. *)
Settled == \A c \in Calls : phase[c] \notin {"answered", "woken"}

Without(id) == [i \in DOMAIN streams \ {id} |-> streams[i]]
With(id, s) == [i \in DOMAIN streams \cup {id} |-> IF i = id THEN s ELSE streams[i]]

-----------------------------------------------------------------------------
(* The request and the guest *)

(* request(): the advisoryRequestChain, or the lease, lets one request out *)
(* at a time.                                                              *)
RequestNow(c) ==
    /\ phase[c] = "idle" /\ running /\ Settled
    /\ pending = {}
    /\ IF conn = "up"
       THEN /\ phase' = [phase EXCEPT ![c] = "asked"]
            /\ pending' = {c}
            /\ inbox' = Append(inbox, c)
       ELSE /\ phase' = [phase EXCEPT ![c] = "failed"]
            /\ UNCHANGED <<pending, inbox>>
    /\ UNCHANGED <<want, image, conn, nextStream, wire, streams, store>>

RequestTimeout(c) ==
    /\ c \in pending /\ Settled
    /\ pending' = pending \ {c}
    /\ phase' = [phase EXCEPT ![c] = "failed"]
    /\ UNCHANGED <<want, image, net, streams, store>>

(* The guest executes the oldest request and sends a refusal, the image in *)
(* the response (the agent does if it is small), or n data frames with the *)
(* response behind them (the agent) or before them (the order of the       *)
(* registry's second case).                                                *)
GuestCaptures ==
    /\ conn = "up" /\ inbox # <<>>
    /\ inbox' = Tail(inbox)
    /\ LET c == Head(inbox)
           id == nextStream + 1
           Response(d) == <<[type |-> "response", to |-> c, descriptor |-> d]>>
           Data(n) == [k \in 1 .. n |-> [type |-> "data", streamId |-> id, final |-> k = n,
                                         payload |-> <<c, k>>]]
       IN \/ /\ wire' = wire \o Response(None)
             /\ UNCHANGED nextStream
          \/ \E n \in Sizes :
               /\ wire' = wire \o Response([streamId |-> 0, total |-> n, inline |-> TRUE])
               /\ UNCHANGED nextStream
          \/ \E n \in Sizes :
               /\ LET r == Response([streamId |-> id, total |-> n, inline |-> FALSE])
                  IN wire' \in {wire \o Data(n) \o r, wire \o r \o Data(n)}
               /\ nextStream' = id
    /\ UNCHANGED <<calls, pending, conn, streams, store>>

-----------------------------------------------------------------------------
(* Frames from the guest *)

(* accept() with a payload: what becomes of the stream. *)
Extended(s, frame) ==
    IF Len(s.chunks) + 1 > MaxStreamBytes
    THEN [s EXCEPT !.error = TRUE, !.complete = TRUE]
    ELSE [s EXCEPT !.chunks = Append(@, frame.payload), !.complete = frame.final]

(* waitFor is in the registry for this stream. *)
Waiters(id) == {c \in Calls : phase[c] = "waiting" /\ want[c].streamId = id}

(* A frame that throws fails the connection; a frame that ends a stream    *)
(* wakes whoever waits for it.                                             *)
Accept(frame) ==
    LET id == frame.streamId
        known == id \in DOMAIN streams
        s == Extended(IF known THEN streams[id] ELSE [NewStream EXCEPT !.retention = TRUE], frame)
    IN IF IF known THEN streams[id].complete ELSE Cardinality(DOMAIN streams) >= MaxStreams
       THEN /\ conn' = "failing"
            /\ UNCHANGED <<phase, streams>>
       ELSE /\ streams' = With(id, s)
            /\ phase' = [c \in Calls |->
                            IF s.complete /\ c \in Waiters(id) THEN "woken" ELSE phase[c]]
            /\ UNCHANGED conn

(* Frames decoded with the one that failed are still handled. *)
HandleData ==
    /\ conn # "down" /\ wire # <<>> /\ Head(wire).type = "data"
    /\ wire' = Tail(wire)
    /\ Accept(Head(wire))
    /\ UNCHANGED <<want, image, pending, inbox, nextStream, store>>

(* The response to a request that has timed out is dropped. *)
HandleResponse ==
    /\ conn # "down" /\ wire # <<>> /\ Head(wire).type = "response"
    /\ wire' = Tail(wire)
    /\ LET c == Head(wire).to
       IN IF c \in pending
          THEN /\ pending' = pending \ {c}
               /\ phase' = [phase EXCEPT ![c] = "answered"]
               /\ want' = [want EXCEPT ![c] = Head(wire).descriptor]
          ELSE UNCHANGED <<pending, phase, want>>
    /\ UNCHANGED <<image, conn, inbox, nextStream, streams, store>>

-----------------------------------------------------------------------------
(* processGuestResponse *)

(* Mutant: what has arrived is taken for the capture. *)
VerifiedNothing(c, data) == TRUE

(* The length and the sha256 of the descriptor. *)
Verified(c, data) ==
    /\ Len(data) = want[c].total
    /\ data = Whole(c, want[c].total)

Fail(c) ==
    /\ phase' = [phase EXCEPT ![c] = "failed"]
    /\ UNCHANGED <<image, maintenance, op>>

(* The size of the PNG, as compression has it; None: a header, format or   *)
(* dimension that is refused.                                              *)
NormalizeImageToPng == PngSizes \cup {None}

(* With the image in hand: normalizeImageToPng, then put() up to its first *)
(* await.                                                                  *)
Put(c, data) ==
    \E bytes \in NormalizeImageToPng :
         IF bytes = None \/ bytes > MaxArtifactBytes \/ bytes > MaxTotalBytes
         THEN Fail(c)
         ELSE /\ phase' = [phase EXCEPT ![c] = "storing"]
              /\ image' = [image EXCEPT ![c] = data]
              /\ maintenance' = Append(maintenance, c)
              /\ op' = [op EXCEPT ![c] = NewOp(bytes)]

(* waitFor once its stream has ended, its finally block included. *)
EndWait(c, s) ==
    /\ IF s.error \/ ~Verified(c, s.chunks) THEN Fail(c) ELSE Put(c, s.chunks)
    /\ streams' = Without(want[c].streamId)

(* From the response to the first await: the stream that has ended already *)
(* is used at once, any other is claimed.                                  *)
ProcessGuestResponse(c) ==
    /\ phase[c] = "answered"
    /\ \/ /\ want[c] = None
          /\ Fail(c)
          /\ UNCHANGED streams
       \/ /\ want[c] # None /\ want[c].inline
          /\ Put(c, Whole(c, want[c].total))
          /\ UNCHANGED streams
       \/ /\ want[c] # None /\ ~want[c].inline
          /\ LET id == want[c].streamId
                 s == IF id \in DOMAIN streams THEN streams[id] ELSE NewStream
             IN IF s.complete
                THEN EndWait(c, s)
                ELSE /\ streams' = With(id, [s EXCEPT !.retention = FALSE])
                     /\ phase' = [phase EXCEPT ![c] = "waiting"]
                     /\ UNCHANGED <<image, maintenance, op>>
    /\ UNCHANGED <<want, pending, net, running, files>>

(* The continuation of a waitFor that was woken. *)
GoOn(c) ==
    /\ phase[c] = "woken"
    /\ EndWait(c, streams[want[c].streamId])
    /\ UNCHANGED <<want, pending, net, running, files>>

(* Mutant: the stream stays in the registry. *)
WaitTimeoutKeeping(c) ==
    /\ phase[c] = "waiting" /\ Settled
    /\ Fail(c)
    /\ UNCHANGED <<want, pending, net, streams, running, files>>

(* DATA_STREAM_TIMEOUT. *)
WaitTimeout(c) ==
    /\ phase[c] = "waiting" /\ Settled
    /\ Fail(c)
    /\ streams' = Without(want[c].streamId)
    /\ UNCHANGED <<want, pending, net, running, files>>

(* Mutant: only a stream that has ended is dropped. *)
RetentionOfComplete(id) ==
    /\ id \in DOMAIN streams /\ streams[id].retention /\ streams[id].complete /\ Settled
    /\ streams' = Without(id)
    /\ UNCHANGED <<calls, pending, net, store>>

(* The timer of scheduleRetention. *)
Retention(id) ==
    /\ id \in DOMAIN streams /\ streams[id].retention /\ Settled
    /\ streams' = Without(id)
    /\ UNCHANGED <<calls, pending, net, store>>

-----------------------------------------------------------------------------
(* The connection *)

SocketError ==
    /\ conn = "up" /\ Settled
    /\ conn' = "failing"
    /\ UNCHANGED <<calls, pending, inbox, nextStream, wire, streams, store>>

(* Mutant: the timers of the requests are cleared, the requests not rejected. *)
CloseInternalSilently ==
    /\ conn = "failing" /\ Settled
    /\ conn' = "down" /\ inbox' = <<>> /\ wire' = <<>>
    /\ pending' = {}
    /\ streams' = <<>>
    /\ phase' = [c \in Calls |-> IF phase[c] = "waiting" THEN "failed" ELSE phase[c]]
    /\ UNCHANGED <<want, image, nextStream, store>>

(* The calls whose waitFor the close() of the registry rejects. *)
WaitingForData == {c \in Calls : phase[c] = "waiting"}

(* closeInternal: everything that waits for this guest is rejected. *)
CloseInternal ==
    /\ conn = "failing" /\ Settled
    /\ conn' = "down" /\ inbox' = <<>> /\ wire' = <<>>
    /\ pending' = {}
    /\ streams' = <<>>
    /\ phase' = [c \in Calls |->
                    IF c \in pending \cup WaitingForData THEN "failed" ELSE phase[c]]
    /\ UNCHANGED <<want, image, nextStream, store>>

(* The agent, perhaps a new process that counts its streams anew. *)
Reconnect ==
    /\ conn = "down" /\ running
    /\ conn' = "up"
    /\ nextStream' \in {0, nextStream}
    /\ UNCHANGED <<calls, pending, inbox, wire, streams, store>>

-----------------------------------------------------------------------------
(* ArtifactStore *)

(* Mutant: operations do not wait for each other. *)
RunsAtOnce(x) == x \in Range(maintenance)

(* runMaintenance: an operation starts when the one before it has ended. *)
Runs(x) == maintenance # <<>> /\ Head(maintenance) = x

(* Broker.start goes on after initialize: guests and adapters are accepted. *)
Start(outcome) == running' = (outcome = "stored")

(* The operation of x ends; a put answers its call. *)
EndOp(x, outcome) ==
    /\ maintenance' = RemoveFirst(maintenance, x)
    /\ op' = [op EXCEPT ![x] = NoOp]
    /\ IF x = Boot
       THEN Start(outcome) /\ UNCHANGED phase
       ELSE phase' = [phase EXCEPT ![x] = outcome] /\ UNCHANGED running

(* Mutant: the newest file first. *)
ScanNewestFirst(x) ==
    /\ Runs(x) /\ op[x].stage = "scan" /\ Settled
    /\ op' = [op EXCEPT ![x].stage = "evict", ![x].listing = Reverse(files),
                        ![x].total = TotalBytes(files)]
    /\ UNCHANGED <<calls, pending, net, streams, running, files, maintenance>>

(* evictFor reads the directory. *)
Scan(x) ==
    /\ Runs(x) /\ op[x].stage = "scan" /\ Settled
    /\ op' = [op EXCEPT ![x].stage = "evict", ![x].listing = files, ![x].total = TotalBytes(files)]
    /\ UNCHANGED <<calls, pending, net, streams, running, files, maintenance>>

Fits(x) == op[x].total + op[x].bytes <= MaxTotalBytes

(* Mutant: the size of a removed file is subtracted twice. *)
UnlinkTwice(x) ==
    /\ Runs(x) /\ op[x].stage = "evict" /\ ~Fits(x) /\ op[x].listing # <<>> /\ Settled
    /\ LET oldest == Head(op[x].listing)
       IN /\ files' = RemoveFirst(files, oldest)
          /\ op' = [op EXCEPT ![x].listing = Tail(@), ![x].total = @ - 2 * oldest.bytes]
    /\ UNCHANGED <<calls, pending, net, streams, running, maintenance>>

(* evictFor removes the oldest file of its listing. *)
Unlink(x) ==
    /\ Runs(x) /\ op[x].stage = "evict" /\ ~Fits(x) /\ op[x].listing # <<>> /\ Settled
    /\ LET oldest == Head(op[x].listing)
       IN /\ files' = RemoveFirst(files, oldest)
          /\ op' = [op EXCEPT ![x].listing = Tail(@), ![x].total = @ - oldest.bytes]
    /\ UNCHANGED <<calls, pending, net, streams, running, maintenance>>

(* evictFor is done: initialize ends, put writes its file. *)
Evicted(x) ==
    /\ Runs(x) /\ op[x].stage = "evict" /\ Fits(x) /\ Settled
    /\ IF x = Boot
       THEN EndOp(x, "stored")
       ELSE /\ op' = [op EXCEPT ![x].stage = "write"]
            /\ UNCHANGED <<maintenance, running, phase>>
    /\ UNCHANGED <<want, image, pending, net, streams, files>>

WriteFile(x) ==
    /\ Runs(x) /\ op[x].stage = "write" /\ Settled
    /\ files' = Append(files, [name |-> x, bytes |-> op[x].bytes])
    /\ EndOp(x, "stored")
    /\ UNCHANGED <<want, image, pending, net, streams>>

(* What a write that failed may leave behind. *)
PartlyWritten(x) ==
    IF op[x].stage = "write"
    THEN {files} \cup {Append(files, [name |-> x, bytes |-> n]) : n \in 0 .. op[x].bytes - 1}
    ELSE {files}

(* A call on the directory fails, and the put or the start with it. *)
DiskFails(x) ==
    /\ Runs(x) /\ ~(op[x].stage = "evict" /\ Fits(x)) /\ Settled
    /\ files' \in PartlyWritten(x)
    /\ EndOp(x, "failed")
    /\ UNCHANGED <<want, image, pending, net, streams>>

(* The broker dies, or could not start, and is started again. *)
Restart ==
    /\ files' \in IF maintenance = <<>> THEN {files} ELSE PartlyWritten(Head(maintenance))
    /\ phase' = [c \in Calls |-> IF phase[c] \in {"idle", "stored"} THEN phase[c] ELSE "failed"]
    /\ pending' = {} /\ streams' = <<>>
    /\ conn' = "down" /\ inbox' = <<>> /\ wire' = <<>>
    /\ running' = FALSE /\ maintenance' = <<Boot>>
    /\ op' = [x \in Calls \cup {Boot} |-> IF x = Boot THEN NewOp(0) ELSE NoOp]
    /\ UNCHANGED <<want, image, nextStream>>

-----------------------------------------------------------------------------

CallStep(c) ==
    \/ RequestTimeout(c) \/ ProcessGuestResponse(c) \/ GoOn(c) \/ WaitTimeout(c)

StoreStep(x) == Scan(x) \/ Unlink(x) \/ Evicted(x) \/ WriteFile(x) \/ DiskFails(x)

Next ==
    \/ \E c \in Calls : RequestNow(c) \/ CallStep(c)
    \/ GuestCaptures \/ HandleData \/ HandleResponse
    \/ \E id \in DOMAIN streams : Retention(id)
    \/ SocketError \/ CloseInternal \/ Reconnect
    \/ \E x \in Calls \cup {Boot} : StoreStep(x)
    \/ Restart

Spec == Init /\ [][Next]_vars

(* Timers fire, settled promises go on, the disk answers and a destroyed   *)
(* socket closes.  Nothing is assumed of the guest, and nobody has to call *)
(* or to restart the broker.                                               *)
Fairness ==
    /\ \A c \in Calls : WF_vars(CallStep(c))
    /\ \A id \in 1 .. Cardinality(Calls) : WF_vars(Retention(id))
    /\ WF_vars(CloseInternal)
    /\ \A x \in Calls \cup {Boot} : WF_vars(StoreStep(x))

LiveSpec == Spec /\ Fairness

-----------------------------------------------------------------------------
(* Properties *)

TypeOK ==
    /\ phase \in [Calls -> Phases]
    /\ want \in [Calls -> Descriptor \cup {None}]
    /\ image \in [Calls -> Seq(Payload)]
    /\ pending \subseteq Calls
    /\ conn \in {"up", "failing", "down"}
    /\ inbox \in Seq(Calls) /\ nextStream \in Nat /\ wire \in Seq(Frame)
    /\ \A id \in DOMAIN streams : id \in Nat \ {0} /\ streams[id] \in Stream
    /\ running \in BOOLEAN /\ files \in Seq(Artifact)
    /\ maintenance \in Seq(Calls \cup {Boot})
    /\ op \in [Calls \cup {Boot} -> [stage : {"none", "scan", "evict", "write"}, bytes : Nat,
                                    listing : Seq(Artifact), total : Nat]]

(* The image a call stores is its own capture, whole, whatever earlier     *)
(* calls left in the registry and whatever part of it the retention timer, *)
(* the limits or a failing connection dropped.                             *)
StoresOwnCapture ==
    \A c \in Calls : phase[c] \in {"storing", "stored"} => image[c] = Whole(c, want[c].total)

(* A stream in the registry has a retention timer or exactly one call that *)
(* will remove it, never neither: a stream nobody owns would fill one of   *)
(* the places of the registry until the guest reconnects.                  *)
StreamIsOwned ==
    \A id \in DOMAIN streams :
        Cardinality({c \in Calls : phase[c] \in {"waiting", "woken"} /\ want[c].streamId = id})
        = IF streams[id].retention THEN 0 ELSE 1

(* The directory of a running broker stays within maxTotalBytes, with puts *)
(* of several calls under way, after failed ones, and after a crash in the *)
(* middle of one.                                                          *)
StoreIsBounded == running => TotalBytes(files) <= MaxTotalBytes

(* A file is only removed when it is the oldest, and when what the store   *)
(* holds leaves no room for what is to be written.                         *)
EvictsOldest ==
    [][Len(files') < Len(files)
       => /\ files' = Tail(files)
          /\ TotalBytes(files) + op[Head(maintenance)].bytes > MaxTotalBytes]_vars

(* A call that has sent its request ends, whatever the guest does. *)
CallEnds == \A c \in Calls : phase[c] # "idle" ~> phase[c] \in Ended

(* Every stream leaves the registry ("Unclaimed streams are short-lived"). *)
StreamEnds ==
    \A id \in 1 .. Cardinality(Calls) : id \in DOMAIN streams ~> id \notin DOMAIN streams

=============================================================================
