# Verification of windows98-mcp

windows98-mcp lets several agents (MCP adapters, the command line, an Admin
application) work on one Windows 98 machine. A broker process on the host owns
the only connection to the guest agent and decides who may use the machine, when
what a session left behind is cleaned up, and what happens when the connection,
an adapter or an answer is lost. It also copies files to and from the guest, keeps
its screenshots and runs QEMU machines. This directory holds TLA+ models of these
parts, the TLC runs that check them, and proofs that the safety properties the runs
check hold for any number of sessions, requests, files and machines.

Paths below are relative to the repository root (`src/host/lease.ts` and so on).

## The system

| Part | State | Operations | Talks to |
| --- | --- | --- | --- |
| Lease manager, `src/host/lease.ts` | owner, its last activity, the FIFO queue of tickets with the resolvers and timers of pending `vm_wait` calls, the `blocked` flag | acquire, wait, touch, release, disconnect, snapshot, setBlocked, clearWaiters; lease, ticket and wait timers | called by the broker; emits `expired` |
| Broker, `src/host/broker.ts` | adapters, one request chain per session, `openResources`, the cleanup chain, connection state, locking mode | `vm_lock`, `vm_wait`, `vm_unlock`, guest operations, `broker_set_locking`, disconnect of sessions, cleanup | everything |
| Guest connection, `broker.ts` `GuestConnection` | socket, phase, pending requests with timers, advisory chain, sequence numbers, incoming streams | hello, request, answer, timeout, ping, close | guest agent over TCP |
| Guest agent, `guest/win98ctl.c` | terminals, held keys and buttons, open transfers | runs one request at a time, polls for aborts while it does, cleans up and reconnects every two seconds | broker |
| Transfers, `src/host/transfers.ts` | active transfers, partial files and their metadata on both sides | push, pull, resume, abort | broker, host files |
| Adapter client, `src/mcp/broker-client.ts` | socket, pending calls, request chain | request with replay after a lost connection, reconnect, close | broker over a pipe or TCP |
| Upstream bridge, `broker.ts` | pair of sockets | relays a guest to another broker | |
| Incoming streams, `src/host/incoming-streams.ts` | data frames by stream, with a waiter or a retention timer | accept, waitFor, close | guest connection |
| Artifact store, `src/host/artifacts.ts` | a directory of files with a size limit, a chain of maintenance operations | put, get, eviction of the oldest | broker |
| Frame protocol, `src/shared/protocol.ts` | decoder buffer, sequence numbers | encode, decode | guest connection |
| Managed QEMU VMs, `src/host/qemu.ts` | directories with definition, state file and disk; trash with an index; processes | create, update, start, stop, delete, restore, media, snapshots | broker |
| Supervisor, `guest/win98sup.c` | heartbeat and restart count | restarts the agent | guest agent |
| MCP server, command line, configuration, logging, Admin application, simulator, workflows | | translation of calls, parsing, user interface, tests | |

What is hard here: the broker is one Node process, so code between two `await`s
is atomic, but every guest request, every file removal and every wait is an
`await` with other sessions' work in between. A connection can be lost and
replaced at each of them, each has a timer, and the guest may execute a request
the broker gave up on. `PROJECT.json` lists these hazards line by line.

What makes the parts correct: the lease is FIFO, goes to nobody silently and to
nobody before the former owner is cleaned up; no pending `vm_wait` or
`vm_unlock` is forgotten; in exclusive mode no session meets another's terminals
or held keys; in parallel mode requests go to the guest one at a time and what
`openResources` lists of a session does not outlive it; a new connection is sanitized
before it is used; the machine never stays blocked. A copied file is a complete version
of its source or is not there; a call gets its own screenshot or none; a disk image has
no two users, and a machine in the trash none, but for processes the broker has
abandoned (see Known limits).

## Modules

**LeaseManager** has one operator per method of the class, from the fields before
to the fields after. An instant is reduced to "the deadline has passed": `due` of
the lease and `due` of each ticket. `call` is the promise of a session's `vm_wait`.
The loops that shift expired tickets off the head are `DropExpiredHeads`, shared
by `grantNext` and `firstEligibleSession`, which do the same. Because a session
has at most one ticket (`OneClaimPerSession`), `removeWaitersForSession` drops at
most one. A ticket id given to `vm_wait` is reduced to whether it is the queued
one.

**Lease** (checked by **MCLease**) is the state machine over it: any session calls
any method, the broker calls its own, and the clock and timers run in any order.
`told` records whom the last step answered "acquired" directly. A timer may fire
long after its deadline, as in a busy Node process; tickets have one lifetime, so
they become due in queue order.

**Broker** (checked by **MCBroker**) composes the lease, the sessions, the cleanup
chain, the guest connection and the guest.

| Variable | In the code |
| --- | --- |
| `lease` | `Broker.lease` |
| `locking` | `config.lockingEnabled` |
| `state` | `connectionState.state`; `unseen` is offline with no `lastSeenAt`, which is what `isKnownGuestOffline` tells apart |
| `conn` | `Broker.guest`: `link` the socket (`destroyed`: destroyed, close event not handled yet), `wire` and `answers` what is on its way to and from the guest, `advisory` the requests behind the first in `advisoryRequestChain`; a request is `live` while it is in `pending` |
| `residue` | terminals and held input in the guest, by session |
| `tracked` | sessions in `openResources` |
| `present` | sessions in `adapters` |
| `work`, `final` | the call at the head of a session's `adapterRequestChains` entry, and the final cleanup queued behind it |
| `cleanups`, `phase` | `cleanupChain` and where its first cleanup is |

An action is one event with every continuation that needs no further I/O. The
start of a queued cleanup is a continuation with an action of its own; `Settling`
keeps events out until it has run. `StartCleanup(partials)`: `abortSession` of the
transfers takes time exactly when there are files to remove or transfers to stop,
and then other events come in between.

Guest operations are reduced to three kinds: one that opens a terminal, one that
closes it, one that leaves a key or button held. A session has at most one
terminal.

FIFO is a promise of the lease that the broker can break: one of its steps may call
several methods of the LeaseManager, as the end of a cleanup does, which releases one
session, unblocks the VM for another and answers a third. `QueueIsFair` says of such a
step as a whole that it passes nobody (`PassesNobody`) and that nobody swaps places
(`PlacesKept`). There is one exception. The last call of a removed session may draw a
ticket (`broker.ts:1180`), which its final cleanup drops while it hands the VM over.
That no session loses its place by a `vm_unlock` is due to the request chain of the
session, which starts no call before the unlock has returned.

The guest (`Executed`, `GuestExecutes`, `GuestInterrupted`) follows `win98ctl.c`: every
`session_abort` cleans everything, whoever asked for it; a failed operation releases
held input; a request that arrives during another is answered first, an abort after
cancelling the running one, anything else VM_BUSY.

**AdapterSession** (checked by **MCAdapterSession**) is one session seen from both
ends: the reconnecting client of `broker-client.ts` and the broker's side of the
adapter connections. A socket has an end at the client and one at the broker, which
learn of its loss at different times and until then read what was sent; lines of
different sockets have no order. `conn[c].cut` says that a socket is dead or about to
be destroyed. `socket`, `opening`, `closed`, `reconnecting` and `hasSent` are the
client's fields (`opening` is the socket `connectPromise` is about, confirmed or not);
`runner` is where the loop of `requestWithRecovery` stands, for the call at the head
of `requestChain` and for the `vm_unlock` of `close()`, which does not wait in that
chain. `adapter`, `timers`, `revoked` and `chain` are the session's entries in
`adapters`, the cleanup timers, `revokedAdapterSessions` and `adapterRequestChains`. A
request is its call and its attempt; what the broker does with it is in Broker. A
socket that is dead but whose close event has not come is replaced by a new one
(`Connects`, `Connected`); from then on its lines and its close event are ignored, and a
call that was pending on it waits for its own timer or for the loss of the new one.
Broker takes a session to be present or removed;
AdapterSession shows how it comes to be removed (`Finalize`).

**AtomicCopy** says what a transfer promises, without chunks and partial files: a
destination changes in one step, and only to a whole content that its source had
since the copy began. `MayVanish` is the one weakness of the push: Windows 98 cannot
replace a file by a rename, so `file_write_commit` deletes the old one first.

**Pull** (checked by **MCPull**) is the pull half of `transfers.ts` with the host
files it works on; an action is what happens between two `await`s. `temp` and `meta`
are the `.partial` file and its `.json`, `active` and `retained` the maps
`activeHostDestinations` and `retainedHostPartials`, `tr` the transfer of each session
with the step it awaits, `abort` an `abortSession` under way. A chunk is the version
of the source it belongs to, so a file is a sequence of chunks and its SHA-256 is the
sequence itself: a file stitched together from two versions has another hash. An open
file whose name was removed by a cleanup lives on in `tr[s].data` (`linked`).

**Push** (checked by **MCPush**) is the push half together with the `file_write_*`
methods of the guest: `slots` is `transfers[]`, `wire` the requests the guest has not
executed, `temp` and `meta` the `.W98PART` and `.W98META` files. The guest executes
requests in order, those whose sender has given up too. `session_abort`, from the
cleanup of any session, closes every transfer.

Both show `Copying!Spec`, the refinement `INSTANCE AtomicCopy WITH copies <- Copies`:
`source` and `dest` map to themselves, a transfer is a copy from the moment
`pullOneFile` or `pushOneFile` begins, and a commit on the wire still is one after its
sender has given up. Every step before the rename or the move maps to a stuttering
step or to the start or end of copies.

**Qemu** (checked by **MCQemu**) is the QEMU manager: `dir` the directories of machines
and of the trash with what their `vm.json` and `state.json` say, `index` the trash index,
`procs` the processes that use a disk, QEMU and qemu-img, with the directory of that disk,
`running`, `generation` and `closing` the maps of the manager, `op` and `inv` the calls in
the chain of each machine and in `inventoryChain`. A call that stops a process waits for
its end or, five seconds after SIGKILL, gives up and goes on (`AfterStop`); one that runs
qemu-img waits for its end or for two minutes (`SnapshotTimesOut`). `BrokerDies` leaves
files half written and any of the processes alive; the next broker finds a QEMU by the pid
in its state file (`Recovered`), and a qemu-img not at all. `heard` says whether the exit
listeners of a process are set. `abandoned` and `broken` are history for the properties:
the broker has gone on as if the process had ended or has died without a record of it; it
has died in a change of the inventory.

**Capture** (checked by **MCCapture**) composes the guest connection's data frames, the
registry of incoming streams, `processGuestResponse` and the artifact store. `phase` is
where the code of each call stands. Promise jobs run before the next timer, socket or
disk event (`Settled`), but frames of one chunk may be handled before them. The agent
sends the data before the response; the registry is written for both orders, so both
are modelled. A payload names its call and its part, as a hash would.

**LeaseManagerProofs**, **LeaseProofs**, **BrokerProofs**, **AdapterSessionProofs**,
**PullProofs**, **PushProofs**, **QemuProofs** and **CaptureProofs** prove theorems about
these modules (see Proofs).

## Runs

| Run | Checks |
| --- | --- |
| `lease` | type, `OneClaimPerSession`, `NoOrphanedWait`, and of every step `NoBypass` (FIFO), `KeepsPlace`, `NoSilentGrant`, `HandoverDiscipline` |
| `broker_exclusive` | `Isolation`, `SanitizedFirst`, `TrackedByOwner`, and of every step `QueueIsFair` (FIFO): exclusive mode, two sessions |
| `broker_parallel` | `AdvisoryChainServed`, `NoResourceOutlivesSession`: parallel mode, two sessions |
| `broker_live` | `UnlockReturns`, `BlockedIsTemporary`, one session, mode switches |
| `adapter_session` | `NoLeakedSocket`, `NoLateWork`: one session, two sockets, a call that may be replayed |
| `adapter_live` | `CallReturns`, `SessionResumes`, `DisconnectIsFinal` |
| `pull` | `PullIsAtomic` (refines AtomicCopy), `RenamesHashedFile`, `AbortEnds`: two sessions, one destination, two sources |
| `push` | `PushIsAtomic` (refines AtomicCopy), `CommitsWhatItHashed`: two sessions, one destination |
| `qemu` | `OneUserPerDisk`, `TrashIsUnused`, `TrashIsIndexed`: two machines, two processes |
| `capture` | `StoresOwnCapture`, `StreamIsOwned`, `StoreIsBounded`, `EvictsOldest`, `CallEnds`, `StreamEnds`: two calls |
| `lease_lost_wakeup` | violated: `HeadWaiterGranted` |
| `push_retry` | violated: `RetryIsNotRefused` |

Every checked property has a mutant in `PROJECT.json`, a plausible slip in the
code's place that makes TLC report the property violated.

### What the violated runs show

* `lease_lost_wakeup`. The VM is free, the head ticket belongs to a session that
  is not inside `vm_wait`, and the second session is. The head ticket expires or
  its session disconnects. Neither `expireTicket` nor `removeWaitersForSession`
  calls `grantNext`, so the second session waits for its full time and is told the
  VM did not become available.
* `push_retry`. A chunk of a push fails or times out. `pushOneFile` forgets the transfer
  id without a `file_write_abort`, "so a retry can resume", but the guest keeps the
  transfer open and refuses the retry with TRANSFER_ACTIVE until it reconnects or a
  cleanup in exclusive mode wipes it. Four such failures use up the guest's transfers.
  The simulated guest of the repository's test for this behaves otherwise.

### Known limits

The models also contain behaviour that no run isolates, because the property that
would be wanted does not hold. It is listed for whoever changes the code.

* Broker. While the cleanup of a `vm_unlock` waits for files to be removed, a guest may
  reconnect, be sanitized and unblock the VM; if the cleanup's own `session_abort` then
  fails, the lease goes to the next session although the caller is told that new owners
  remain blocked (`broker.ts:948`). A session removed while its call polls for the guest
  gets no cleanup, and the call may take the lease afterwards, until it expires
  (`broker.ts:1180`). In parallel mode the cleanup of a removed session closes what
  `openResources` lists; keys and buttons are not in it (README.md:360 says they are
  released). `broker_set_locking` looks at `openResources`, which an operation enters when
  it returns, so one under way goes on next to a new owner's (`broker.ts:750`).
* Adapter client. A call sent on a socket that is attached but not confirmed may reach
  the broker after later calls of the session (`broker-client.ts:170`).
* Transfers. A pull whose partial file cannot be created leaves its destination claimed
  for the life of the broker (`OpenFails`, `transfers.ts:479`). `overwrite: false` is checked
  when a pull begins, not when it renames.
* QEMU. Two programs may use one disk, or one use the disk of a machine in the trash, if the
  broker has abandoned one of them (`abandoned`, the exception in `OneUserPerDisk` and
  `TrashIsUnused`). It does so in three ways. `run` sends SIGKILL after two minutes and
  rejects without waiting for the exit (`qemu.ts:810`), so the chain of the machine goes on
  while qemu-img may still hold the disk. A process may outlive a broker that had not
  recorded its pid: a qemu-img, whose pid is recorded nowhere, a QEMU whose broker dies
  between the spawn and the end of `writeRuntime` (`qemu.ts:251`) or while the state file is
  rewritten, one whose record a late `finalizeExit` of its predecessor has cleared.
  And `deleteVm` goes on when the process has not ended: `kill` ignores the result of its
  wait (`qemu.ts:752`, `320`-`326`), and so does a stop of a process of an earlier broker.
  An image lock that QEMU itself may hold is not modelled.
  The exit listeners are set after `await writeRuntime`; a process that exits before
  is taken to run until the broker restarts (`qemu.ts:251`). A broker that dies between the move to the trash and the
  index leaves a directory no index lists (`broken`), and one that dies in `create` leaves a
  staging directory that counts as a machine. `pushMedia` and a late `finalizeExit` make
  directories for machines that do not exist.
* Capture. Streams that nobody claims count against the limit together with claimed ones;
  at the limit, or at a frame after an oversized one, the whole guest connection is failed.

### Bounds

* `lease`: three sessions, so that a queue has a head, a second and an owner in
  front of them; nothing else is bounded. Sessions are symmetric.
* `MaxWire` bounds the session operations on one connection (waiting, on the wire
  or answered but not yet read). Two let an operation that timed out be followed
  by another; the parallel run has three, for a chain with one in flight and
  two behind it, or one that timed out in front. Aborts and close requests of
  cleanups come on top and need no bound.
* `broker_exclusive` and `broker_parallel` have one mode each, since a switch during an
  operation breaks `Isolation` (Known limits); `broker_live` has both.
* `LongLease`: a lease outlasts a cleanup. A cleanup may take ten seconds, the
  default lease is 30 minutes, but `config.ts` accepts one second. With such a
  lease `Isolation` does not hold: the owner that came in during a cleanup may
  expire before it ends, and the end of that cleanup unblocks the VM although the
  cleanup of the expired owner is still queued. Of any lease `OwnerDue` assumes that it
  does not run out during an operation of its owner, which renews it at a third of its
  length; a lease of one second exactly is renewed no sooner than it ends (`broker.ts:460`).
* `adapter_*`: two sockets, so that a new one and an old one whose other end has not
  noticed overlap; a third would only be a second old one. `MaxTries` is the number of
  attempts before the deadline of a call: two give a replay in `adapter_session`. There is
  one in `adapter_live`, which says nothing of replays but that a call whose connection is
  lost connects again or ends; the liveness check of two is too long. `MaxChain` keeps the
  grace period from ending again and again while nothing is executed.
* A session is removed again only after its last final cleanup.
* `pull`: two sessions and one destination, so that they compete for it; a source with
  two versions of the same size, which only the hash tells apart, and an empty one.
  Chunks are one unit, files have two: a resume can begin at 0, in the middle and at the
  end. Each call is a file or a directory; calls, aborts and crashes are not bounded.
* `push`: the same with one source; `MaxWire` bounds the requests a transfer may begin
  with while others are on the wire, so a late request and a new one overlap.
  `MaxTransfers` is the agent's 4. The run is in exclusive mode, where cleanups send
  `session_abort`; `push_retry` is in parallel mode with one session.
* `qemu`: two machines and two processes, each a QEMU or a qemu-img; a limit of one directory in the trash and two
  deletions (`MaxDeletes`) let trimming, restoring and deleting again happen.
* `capture`: two calls, streams of one, two and four frames against a limit of two, one
  stream in the registry, PNGs of one to three units against a store of two, and a
  directory that is empty or over its limit at the start.

### Fairness

`broker_live` assumes that continuations and timers run (Node's event loop), that a
dead socket gets its close event and the guest connects again
(`agent_network_thread` retries every two seconds), and that a guest which connects
again and again sometime answers the hello and the sanitize. Fairness is strong
because `Settling` disables handlers for a moment again and again. Nothing is
assumed of sessions, of other guest requests or of the moments at which connections
fail.

`adapter_live` assumes that both ends read what arrives and notice a dead socket, that
a connection attempt ends (it has a timeout), that the deadline ends the loop of a call
sometime, since every turn checks it, and that a notice which is sent again on every
hello is read sometime. `SessionResumes` and `DisconnectIsFinal` are claimed only if
the network stops failing (`Calm`); `CallReturns` without that.

`pull` assumes that the steps of a transfer and of `abortSession` are taken: each is the
answer of the disk, or of a guest request that has a timer. `capture` assumes that timers
fire, promise jobs run, the disk answers and a destroyed socket gets its close event;
nothing of the guest.

## Proofs

The proofs are for any sets of sessions, files, machines and processes, queues and wires
of any length and any value of the bounds, with the assumptions the modules state of
their constants: a model value for "undefined" is none of the values it is told apart
from, files have versions, requests have entries. `PushAssumption` also says that
sessions and destinations are finite sets, which is why an unused transfer id exists.

| Theorem | States |
| --- | --- |
| `TypeCorrect`, `BrokerTypeCorrect`, `AdapterTypeCorrect`, `PullTypeCorrect`, `PushTypeCorrect`, `QemuTypeCorrect`, `CaptureTypeCorrect` | `TypeOK` of each module |
| `OneClaim`, `EveryWaitSettled` | `OneClaimPerSession`, `NoOrphanedWait` |
| `Fifo`, `PlaceIsKept`, `OwnerIsTold`, `CleanHandover` | the action properties `NoBypass`, `KeepsPlace`, `NoSilentGrant`, `HandoverDiscipline` |
| `SanitizeComesFirst`, `ChainIsServed` | `SanitizedFirst`, `AdvisoryChainServed`, in both modes and while they are switched |
| `TrackedIsOwned`, `SessionsAreIsolated` | `TrackedByOwner`, `Isolation`, in exclusive mode |
| `ResourcesAreReleased` | `NoResourceOutlivesSession`, in parallel mode |
| `QueueStaysFair` | the action property `QueueIsFair`, in both modes and while they are switched |
| `SocketsAreReleased`, `DisconnectedStaysOut` | `NoLeakedSocket`, and the action property `NoLateWork` |
| `PullRenamesHashedFile`, `PushCommitsWhatItHashed` | `RenamesHashedFile`, `CommitsWhatItHashed` |
| `PullImplementsAtomicCopy`, `PushImplementsAtomicCopy` | the refinements `PullIsAtomic`, `PushIsAtomic` |
| `DisksAreExclusive`, `TrashHasNoKnownUser`, `TrashStaysIndexed` | `OneUserPerDisk`, `TrashIsUnused`, `TrashIsIndexed` |
| `CaptureStoresOwn`, `CaptureStreamsOwned`, `CaptureStoreBounded` | `StoresOwnCapture`, `StreamIsOwned`, `StoreIsBounded` |
| `CaptureEvictsOldest` | the action property `EvictsOldest` |

These are all the invariants, action properties and refinements that the passing runs
check. Each rests on a theorem that an inductive invariant always holds: `...Sound`, and
`CaptureInvariant`.

**Lease.** `LeaseOK`, a predicate on one value of the fields. None of its parts is
inductive alone: that dropping a ticket settles the right promise, and only that one,
needs the tickets to be distinct; that an owner assigned from the queue is not queued
any more needs it too; and that a `vm_wait` that is settled by a grant has no resolver
left needs both. `LeaseManagerProofs` has three lemmas for each method: it keeps
`LeaseOK`, who can own the lease after it, and that the queue keeps its order. Further
lemmas say who is queued after it (`AcquireQueues`) and what a queue loses (`Kept`).
The action properties follow from these, and BrokerProofs uses them for the lease
inside the broker.

**Broker.** `Inv` is `LeaseOK` together with the types of the rest and `Net`: where the
connection stands (`link`), where the cleanup does (`phase`), and which requests can be
under way then. A sanitize is the first request of its connection and no operation is
sent or waits behind it; a request of a cleanup that is under way belongs to the phase
that waits for it; of the advisory chain one request is in flight while others wait.
`Awaits` adds that a cleanup which releases the lease is awaited by its session, which
does nothing else meanwhile. Two more invariants are about one mode each:

* exclusive: `Owned`, that an operation under way is the owner's, whose lease is not due,
  and that what a session opens again during its own cleanup gets another one
  (`Retracked`); and `Isolated`, that nothing is sent behind the abort of a cleanup that
  may free the VM (`AbortClears`), and that the lease that is due is the one being cleaned
  up (`DueIsCleaned`). Without `AbortClears` an operation could be executed after the
  abort that was to wipe it.
* parallel: `Parallel`, that a session which waits for the guest is present or has a final
  cleanup coming, so that what its operation opens is found by it.

The hypothesis of these three theorems is that the mode is not switched (`Modes = {TRUE}`
or `{FALSE}`), since a switch during an operation breaks the property (Known limits); for
`Isolation` also `LongLease`, for the reason given under Bounds. `TrackedByOwner` needs no
`LongLease`.

The action property about the queue, `QueueIsFair`, is proved without such a
hypothesis. `FairTo` says that a lease is a fair successor of the present one;
`NextFair`, that every step ends in one. The step that needs an argument is the end of
a cleanup (`FairFreed`): a grant by the release passes expired tickets; a grant by the
unblocking after it does so in the queue the release left, which lacks only expired
tickets and the ticket of the released session (`KeptTurn`). Whose ticket that can be
takes two invariants: by `Awaits` the session waits for the cleanup, and by `Unqueued`
it does not wait for a `vm_unlock`, because such a session owned the lease when it
called and has called nothing since, and there is no queue in parallel mode.

**AdapterSession.** `Links` says which socket each of the client's fields is about, what
the other end of it can be, that a socket which connects next to an attached one finds
that one dead, and that a closed client has stopped its loops.

**Pull.** `TransferOK` says of one transfer how its offset, hash, reply and open file
belong together at each step; `Claims` that transfers with a claimed destination have
different ones. Another transfer at the same destination would write the file, and a
transfer whose file is not the one at the path could rename somebody else's.

**Push.** A transfer of the guest is written and committed by whoever knows its id.
`Handles` says who that is: at most one session, with at most one request under way, the
one its step is about (`Awaiting`); `Places`, that an id names the transfer of the
destination its holder copies to. A failed write puts data into the file that is not in
the hash. The transfer stays open, and it is `Handles` that makes it harmless: the one
request that could still name the id was the one that failed.

**Refinement.** For both, initial states map to initial states and each step maps to a
step of AtomicCopy or to no change: the beginning of a file to `Start`, the rename or the
move to `Replace`, a deletion without the move to `Vanish`, a new version of a source to
`Change`, everything else to `Stop` or to stuttering. `Replace` is where the invariant is
needed: what is moved into place is what was hashed, the hash is the one announced, and a
commit names the destination of the transfer it ends, also when its sender is gone.

**Qemu.** `KnownProcesses`, that a process the broker has not abandoned uses the disk of a
machine in `vms/` and is in `running`, in the state file of a machine that has none there,
or the qemu-img of the call in the machine's chain; `OneMachine`, `ChainsOK` and `IndexOK`,
what the calls under way have done so far to directories and index, among it that qemu-img
and the move to the trash find no process the broker knows of.

**Capture.** `IdsAreFresh`, that a stream id is named by one answer on the wire or held by
one call, which survives the guest counting anew because nothing of a closed connection
is left (`DownIsEmpty`); with it, whoever drops a stream drops it from nobody else
(`ClaimsMatch`). `Chain`, that only the first operation of the maintenance chain has read
the directory and that its listing and its total still are what the directory holds;
without it the total could be of another directory than the one that is written to.
`TotalBytes` is a recursive function: that a file at the end adds its size and one removed
from the front takes it away is proved by induction, from the library's theorem that
every set of naturals has a least element (`SetInduction`, `SumsExist`, `TotalBytesIs`).

Only model-checked:

* liveness (`UnlockReturns`, `BlockedIsTemporary`, `CallReturns`, `SessionResumes`,
  `DisconnectIsFinal`, `AbortEnds`, `CallEnds`, `StreamEnds`), which this prover does not
  reach, nor ENABLED;
* that the two violated properties fail, which their runs show.

## Not modelled

Read-only calls, capabilities and labels; the contents of screenshots, terminals and
files beyond which version they belong to; NEEDS_ATTENTION answers, which open a terminal
like a success; `agent_diagnostics`, which needs no lease; broker stop. Of transfers: path
checks, case conflicts and size limits, which refuse a call before it changes anything,
and the CRC of a chunk, as the connection does not corrupt data; a metadata file that the
guest writes in part without noticing (`win98ctl.c:425`). Of QEMU: the qemu-img that makes
the disk of a new machine in its staging directory, command lines,
QMP and HMP input, metrics and screen capture. Equal modification times in the artifact
store. The frame codec, whose errors end the connection, which the models allow at any
time. The upstream bridge, the supervisor, and the parts without protocol state
(`not_modelled` in `PROJECT.json`).

## Plan

The upstream bridge with `broker_set_upstream` (callbacks of a bridge that was replaced),
and the supervisor's restart loop.
