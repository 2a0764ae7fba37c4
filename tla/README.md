# TLA+ models of qcow2target

This directory holds TLA+ models of the iSCSI target and the QCOW2 image engine
in `src/arms/qcow2target`, together with the TLC configurations that check them.
`PROJECT.json` lists every component, run, mutant, source mapping, finding and
hazard. This README explains them.

## The system

`qcow2target` is an iSCSI target whose logical units are QCOW2 images.

* **iSCSI target** (`pkg/iscsi_target`). A TCP server accepts connections.
  * Each connection runs a chain of receive goroutines (`handler`,
    `receiveHandler`).
  * PDU handling is serialised by `connection.readLock`. `scsiCommandHandler`
    runs inside `receiveHandler` and calls the transmit path synchronously.
  * A NOP-In heartbeat goroutine runs beside the chain.
  * Login negotiates the session parameters and binds the connection to a
    session, which gets a TSIH (target session identifying handle).
  * The session orders non-immediate SCSI commands by CmdSN through
    `ExpCmdSN` and `PendingTasks`.
  * Writes that carry too little immediate data are solicited with R2T
    (ready to transfer) PDUs and completed by Data-Out PDUs.
* **SCSI layer** (`pkg/scsi`).
  * A registry holds targets and their LUNs, guarded by `DevicesLock` and
    `ITNexusMutex`.
  * SBC commands are validated and dispatched to a backing store.
* **QCOW2 engine** (`pkg/qcow2`).
  * An image is addressed through an L1 table and L2 tables. Space is tracked
    in a two-level refcount table.
  * Both table levels live in write-back LRU caches.
  * Clusters are allocated from a stack of freed clusters or at the end of the
    file.
  * `Flush`/`syncCache` writes the caches back in a fixed order.
  * An image opened dirty has its refcounts rebuilt.
* **Admin API** (`pkg/api`). HTTP handlers, serialised by `apiLock`, create
  and delete targets and attach or detach LUNs.

## Modules

| Module | Models | Source |
|---|---|---|
| `IscsiTaskQueue` | CmdSN sequencing of one session: command arrival, the pending stack, the drain loop, R2T/Data-Out, task management functions | `iscsid.go` `scsiCommandHandler`, `iscsiTaskQueueHandler`, `iscsiExecTask`; `task_queue.go`; `connection.go` `buildResponsePackage` (R2T) |
| `MCIscsiTaskQueue` | TLC instance: 3 tags, 2-bit CmdSN, command shapes | — |
| `Qcow2Layout` | Sizes, table indices and the content of a cluster: header, L1, refcount table, L2, refcount block, data | `qcow2header.go` `preComputeTableSizes`, `maxRefCountClusters`; `referenceCount.go` `getRefcountIndex`; `qcow_raw_file.go` table readers and writers |
| `Qcow2Header` | Creating, writing, reading and validating the image header: `createHeaderForSizeAndPath`, `toByte`/`writeToFile`, `imageHeaderFromFile`, `preComputeTableSizes`, `validate` | `qcow2header.go`; `util.go` `divRoundUp`, `getClusterSize`, `offsetIsClusterBoundary` |
| `Qcow2Rebuild` | The refcount rebuild as a function from a file to the file it leaves | `referenceCountRebuild.go` |
| `Qcow2Image` | An open image: both write-back caches and their LRU maps, the allocator, WriteAt, ReadAt, Flush, Close, Open with the rebuild, power loss | `qcow2.go`, `pointer_table_caches.go`, `referenceCount.go`, `lru_cache.go`, `qcow_raw_file.go` |
| `VirtualDisk` | The abstract disk an image promises (spec §8, properties 1 and 2): write, flush, close, stop without flushing, reopen | spec only |
| `MCQcow2Image` | TLC instance: 3 guest clusters, L2 tables of 2, refcount blocks of 8 (or 4) | — |
| `Qcow2Backing` | Reads and writes of a child image over its backing chain, byte by byte within clusters: `ReadAt` falling through to the backing image, `WriteAt` with the copy-on-write of `fileOffsetWrite`, `CreateImageFromBacking` | `qcow2.go` `ReadAt`, `WriteAt`, `fileOffsetWrite`, `limitRangeFile`, `CreateImageFromBacking`; `qcow_raw_file.go` `clusterOffset`, `limitRangeCluster`, `WriteAt`, `writeCluster` |
| `MCQcow2Rebuild` | Every small image with two L2 tables and two data clusters, as initial states; an instance of `Qcow2Header` at 512-byte clusters; an instance of `Qcow2Backing` at 2-byte clusters; `ScsiPrimary` results sent through `IscsiDataIn` with 8-byte segments | — |
| `IscsiLogin` | The life of a connection: accept, security and operational login (`processLoginData`), session binding with TSIH allocation, the IT nexus, the ping worker, unbind and close | `iscsid.go` `handler`, `receiveHandler`, `iscsiExecLogin`, `BindISCSISession`; `login.go`; `session.go`; `connection.go` `probeInitiatorWithPings` |
| `MCIscsiLogin` | TLC instance: three connections, one target, TSIH space 1..2, three login PDU shapes | — |
| `ScsiBlock` | The block-command path: CDB fields, `validateOffsetLength` in uint64 (scaled), the READ/WRITE/WRITE SAME/SYNCHRONIZE CACHE handlers, the backing-store calls, `limitRangeFile` | `scsi/scsi.go`, `scsi/sbc.go`, `scsi/backingstore.go`, `scsi/lun.go` `PerformCommand`, `qcow2.go` `limitRangeFile` |
| `TargetRegistry` | Admin requests serialised by `apiLock`; targets, LUNs, `DevicesLock` and the LUN-number bitmap; sessions logging in and sending block commands (uses `ScsiBlock`) | `api/server.go`, `api/handlers.go`, `iscsid.go` `NewTarget`..`Clear`, `scsi/target.go`, `scsi/scsi.go` |
| `MCTargetRegistry` | TLC instance: LUN numbers 0..3, 4-block disks, 3-bit LBA words, 2-bit transfer byte counts (in blocks), a set of well-formed CDBs; REPORT LUNS (`ScsiPrimary`) read against the registry's LUNs | — |
| `ScsiPrimary` | The SPC commands that return parameter data, as the status, sense buffer, `Residual` and data length they leave: INQUIRY, REPORT LUNS (with its bytes), MODE SENSE, REQUEST SENSE, and the block READ | `scsi/spc.go`, `scsi/spc_inquiry.go` `SPCInquiry`, `standardInquiryData`; `scsi/scsi.go` `BuildSenseData`; `scsi/backingstore.go` `HandleRead` |
| `IscsiDataIn` | The answer to a read: the response opcode, `buildResponsePackage`, the Data-In segmentation of `transferHandler` and the header fields of `dataInBytes` | `iscsid.go` `scsiCommandHandler`, `transferHandler`, `iscsiExecLogin`; `connection.go` `buildResponsePackage`; `command.go` `dataInBytes` |

### IscsiTaskQueue

State:

* **Initiator** (the environment). `sent`, `solicited` (the Data-Out units it
  still owes the last R2T) and `aborted`. It sends each command once. It sends
  Data-Out only in reply to R2T. It sends at most one task management request
  per tag, with a function from `TmfFunctions`, and then stops sending data for
  that tag.
* **Channel.** `chan` holds the PDUs in flight over the one TCP connection, in
  order.
* **Target.** `expCmdSN` is `session.ExpCmdSN`. `pending` is
  `session.PendingTasks`, with Push appending and Pop taking the last element,
  as `task_queue.go` does. `r2tCount` is `task.r2tCount`. `receiving` is false
  once an error path returned without re-arming the receive goroutine.
* **Observations.** `executed` is the order in which `iscsiExecTask` hands tasks
  to the LU, each marked with whether all its data had arrived. `answered`,
  `tmfResult` (the function and response of the task management request
  naming the tag) and `dropped` record what happened to each tag.

Each target action is one PDU's handling in `scsiCommandHandler`, which is
atomic because of `readLock`:

* `RecvScsiCmd` covers the R2T write path (lines 548–588) and otherwise
  `TaskQueueHandler`. The latter has four branches: immediate, CmdSN equal with
  the `Drain` retry loop, stale, and queued. It also covers the response that
  follows (597–610).
* `RecvDataOut` covers lines 618–661. An unknown tag stops the receive chain.
* `RecvTaskMgmt` is the `OpSCSITaskReq` case (611–617) with the TaskFunc
  switch of `iscsiExecTask` (749–785). `ExecAbortTask` is ABORT TASK
  (752–770): RemoveByTag, then Function complete or No task. `TmfOutcome` is
  the rest of the switch. The ABORT TASK SET and LOGICAL UNIT RESET cases are
  empty, so `task.result` keeps its zero value, Function complete. ClearAca
  and ClearTaskSet fall through to Not supported. Any other code is Rejected.

Data is counted in units. Each Data-Out carries one unit, and R2T asks for
`min(r2tCount, MaxBurst)` (`connection.go:197-200`).

Immediate commands carry the CmdSN of the next non-immediate command, as
RFC 7143 requires. Task management requests are sent immediate, as initiators
do. A non-immediate one would go through the CmdSN queue like a command; that
path is not modelled.

Bounds: 3 commands and a 2-bit CmdSN. With the initial CmdSN 3 the counter
wraps after the first command. A write needs at most 2 units, MaxBurst is 1, so
there are two R2T rounds, and there is at most 1 task management request.
`taskqueue_reorder_r2t` lets that request carry any of the nine function
classes (the eight codes and one unknown code). Three commands are the
fewest in which two can be queued behind a gap, which is what the LIFO pop
needs. Two-unit writes exercise both the "another R2T" and the "execute"
branches.

The real CmdSN is 32 bits wide. TLC cannot hold 2^32, and the comparisons
depend only on where the values sit relative to the wrap point, so a 2-bit
width shows the same behaviour.

**Fairness.** The model assumes weak fairness of the three receive actions: the
receive goroutine is always re-armed while `receiving` holds. It assumes the
same of `SendCommand` and `SendDataOut`: a conforming initiator eventually sends
what it issued and what R2T solicited. There is no fairness on `SendTaskMgmt`.

`Idle` lets a finished or stopped session stutter. Without it, deadlock
checking would report the normal end of the command list.

### Qcow2Image

A cluster's content is abstracted to what it holds (`Qcow2Layout`): zero
bytes, the header (with its lazy-refcounts bit), an L1 table, the refcount
table, an L2 table, a refcount block or one guest value. Reading a cluster as
a table of another kind ("foreign bytes") sets `img.corrupt`, and the model
stops following the code there. Sizes are in clusters, and the guest reads and
writes whole clusters: one iteration of the loops in `ReadAt` and `WriteAt`.

State:

* `img` is the `ImageFile` and the file as the process sees it:
  * `l1`, `l1Dirty`: the L1 cache;
  * `l2`, `l2Lru`, `l2Evicted`: the L2 `LruCacheMap` and the addresses of
    tables evicted since the last L1 sync;
  * `rt`, `rtDirty`, `rb`, `rbLru`, `rbEvicted`: the same for the refcount
    table and blocks;
  * `avail`, `unref`: `availClusters` and `unrefClusters`;
  * `page`, `size`: the file; `written`: every content written to each
    cluster since the last fsync;
  * `err`: the Go call returned an error.
* `disk`, `dsize`: what survives a power loss.
* `open`, `flushing`: whether a file is open, and which `syncCache` is between
  its two fsyncs.
* `guest`, `since`: what the guest last wrote, and what each cluster may hold
  after a crash (written since the last Flush).

Every Go function is an operator from `img` to `img` that makes the same calls
in the same order. `Then` skips the rest of a function once a call has failed
and keeps what was already done, as the code's early returns do.

Actions:

* `WriteAt(g, v)` is `fileOffsetWrite` followed by the data write. It covers the
  L2 allocation, the copy-on-write of a clean table, the data cluster from
  `getNewCluster`, the refcount updates with their `ErrNeedNewCluster` and
  `ErrNeedReadCluster` retries, evictions and the deferred refcounts.
* `ReadAt(g)` brings the L2 table into the cache.
* `SyncCacheBegin(op)` is the first half of `syncCache` for a Flush or a Close:
  the L2 tables, then the refcount blocks, then an fsync.
* `SyncCacheEnd` is `flushTable`, `syncL1` and the second fsync. A Flush then
  moves `unrefClusters` to `availClusters`, and a Close closes the file.
* `OpenFile` is `OpenImage`: decide whether a rebuild is needed, run it, then
  `findAvailableClusters`.
* `Crash` is a power loss. Each cluster keeps its synced content or any content
  written since, and the size is either one. With `CrashInSync` the loss may
  also come between the halves of `syncCache`, after some of the second half's
  writes and before its fsync.

The initial state is the file `writeToFile` leaves (header, zero L1 and
table), opened and rebuilt by `createImageFromHeader`, with nothing synced
since. `CreateImage` never fsyncs, so a crash before the first Flush can lose
any of it.

Bounds: 3 guest clusters in two L2 tables of 2 entries, 2 pointers per cluster,
blocks of 8 refcounts (the file's 3-cluster header area plus 2 L2 and 3 data
clusters need one block; copy-on-write pushes the file to the second).
`PointerCacheSize = 1` makes every second table access an eviction, and a
refcount cache of 3 holds every block. The self-drop run uses a cache of 1 so
that blocks are evicted. Up to 8 writes without crashes, or 4 writes and 1
crash, reach every allocation path: a new L2, a copied L2, a copied refcount
block, a reused cluster, and the file reaching `maxValidClusterOffset` with
blocks of 4.

There is no fairness and no liveness property: the image is driven by its
callers, and nothing in it must happen on its own.

### Refinement: Qcow2Image implements VirtualDisk

`VirtualDisk` has three variables:
* `data`: what reads return;
* `durable[b]`: the values block `b` may come back with after a stop;
* `isOpen`.

Its actions are `Write`, `Flush`, `Close`, `Stop` (a power loss, or a
`Close` whose first fsync failed) and `Open`. After a stop, `Open` may give
each block any of its durable values.

`Qcow2Image` instantiates it as `Disk`. The refinement mapping is:

| Abstract variable | Concrete expression |
|---|---|
| `data` | `View(img, g)` of every guest cluster while the file is open (what `ReadAt` would return from the caches and the file); the ghost `guest` while it is closed |
| `durable` | the ghost `since` |
| `isOpen` | `open` |

`ImplementsVirtualDisk == Disk!Spec` is checked as a property of the
`qcow2_crash` run. It catches three kinds of error:
* an image step that changes what a read returns in a way no write explains;
* a Flush or Close that completes without making the data durable;
* a reopen that returns a value the disk could not hold.

### Qcow2Rebuild

`Rebuild(f)` follows `rebuildReferenceCounts`. It collects the references in
the code's order (the header, L1 and every reachable L2 and data cluster, the
table), counts them, allocates the block addresses first-fit, and writes the
blocks and the table. `MCQcow2Rebuild` gives every image with two L2 clusters
and two data clusters as an initial state (729 files), and checks the stored
counts against `References`, which counts the references directly.

### Qcow2Header

A header is a record of its fields; `WriteHeader(h)` is the file
`writeToFile` leaves: the fields `toByte` writes, the byte after the
104-byte header (the compression type only when `Length` is not 104, else
the zero extension area) and the backing path, of which only its length
matters. The incompatible and autoclear feature words are sets of named
bits.
* `CreateHeader(size, backing)` is `createHeaderForSizeAndPath`. It returns
  `CreateError` for a path longer than the header cluster leaves, or a size
  over `diskSizeLimitForCluster`.
* `HeaderFromFile(d)` is `imageHeaderFromFile`. It reads the fields, reads
  the optional byte and the path under the code's conditions
  (`ReadFields`), then runs `PreComputeTableSizes`, then `Valid`.
* `Panic` stands for a division by zero in `PreComputeTableSizes`, and
  `Rejected` for any error from `validate`.
* `Valid` is the conjunction of `validate`'s checks, in the code's order.
* `diskSizeLimitForCluster` is `2^(25+2*bits)/64` in uint64. `SizeOverLimit`
  keeps its wrap to 0 for `bits >= 20` without computing past TLC's 32-bit
  integers.

The constant `ClusterBits` stands for `DefaultClusterBits` (16).
`MCQcow2Rebuild` sets it to 9, so 512-byte clusters stand for 64 KiB ones.
Every formula keeps its form in the cluster size. The ratio that matters
(L1 entries per cluster, cs/8) is reached at a 4 MiB disk instead of 4 TiB.
* The sizes cover the edge cases: 0, half a cluster, one cluster,
  scenario S1's 160 clusters, and 4 MiB.
* The backing paths cover none, short, exactly filling the header cluster,
  and one byte too long.
* `ForeignClusterBits` gives files written by another tool with the same
  layout: cluster_bits 9, 20 (the overflow) and the corrupt values 0 and 64.

Each property is an operator over one request. `MCQcow2Rebuild` adds a
variable `req`, a size, a backing path and a foreign cluster_bits, chosen in
`Init` just as `file` is chosen. Its states are therefore 729 images × 80
requests (58,320), plus the 624 `io` states of `Qcow2Backing` below
(58,944 in all), and the header properties cost no run of their own.

### Qcow2Backing

A chain is a sequence of layers: `chain[1]` is the image written, `chain[i+1]`
the backing image of `chain[i]`. A layer is a virtual size and its allocated
data clusters, each a sequence of `ClusterSize` bytes. Where a cluster sits in
the file, the L2 tables and the refcounts are `Qcow2Image`'s business and are
left out here. The operators follow the Go loops:

* `ReadAt(chain, i, address, size)` clamps the range with `LimitRangeFile` and
  goes cluster by cluster (`LimitRangeCluster`). An allocated cluster gives
  its bytes. Otherwise the backing image's own `ReadAt` gives them, clamped to
  *its* virtual size. With no backing image the bytes are zeros. As in the
  code, the loop advances by the count whatever the backing read returned.
* `WriteAt(chain, address, data)` does the same for `chain[1]`. For an
  unallocated cluster, `NewDataCluster` is the copy-on-write branch of
  `fileOffsetWrite` (lines 527–545). The initial data is the whole enclosing
  cluster, read from the backing image. `getNewCluster` writes it through
  `writeCluster`, which refuses data shorter than a cluster
  (`WriteClusterAccepts`). An error returns at once and keeps the clusters
  already written.
* `CreateChild(parent)` is `CreateImageFromBacking`: an empty image of the
  parent's virtual size.

`ChildReadback(parent, ws)` (spec section 8, properties 1 and 8) applies the
writes `ws` to a new child. It then requires that none failed, and that a
read of the whole child gives each byte as last written, or the parent's byte
(`Expected`, computed from the parent's clusters directly).

`MCQcow2Rebuild` uses 2-byte clusters and adds a third variable `io`. Its
parents are every allocation of their clusters, filled with 5s. Its write
sequences have one or two writes of 1, 2 or 3 bytes at every address. Writes
therefore start and end inside clusters, cross cluster boundaries, and
overwrite each other. The `io` states are a separate part of `Init`, paired
with one fixed image and header request, so they add 624 states instead of
multiplying them. The constant `ChildSizes` is `{4}` in the run: two whole
clusters. It is `{3}` in `MCQcow2Rebuild_unaligned_child.cfg`: a virtual size
that is not a multiple of the cluster size, as `CreateImage` allows.

### IscsiLogin

Each connection `c` has a record `conn[c]`:
* `st` is `connection.state`;
* `rx` is the receive goroutine: waiting in `readHeader`, gone (it did not
  re-arm), or in the cleanup of `handler`;
* `worker` is the ping goroutine;
* `nop` is the NOP state;
* `closed` says whether the socket is closed;
* `session` is the TSIH of `connection.session`;
* `lp` is the part of `loginParam` that decides control flow.

`sess`, `pool`, `tsess` and `nexus` are the sessions, the TSIH pool, each
target's `Sessions` and the IT nexuses.

Actions:
* `Accept` is `StartTcpServer`. It either closes a socket whose keepalive or
  no-delay setup failed, or hands it to `Run`'s closure (`ServeConn`).
* `LoginSecurity` and `LoginOperational` are the two stages of
  `iscsiExecLogin`.
  * `LoginOperational` first calls `ProcessLoginData`. The login is rejected
    on an unknown key. It is also rejected when no key was answered with the
    target default and the initiator does not itself go to full feature.
  * It then takes every branch of `BindISCSISession` (`BindOutcome`),
    including the nil dereferences, which set `panicked`.
* `RecvOther`, `RecvScsi` and `RecvFail` cover the other PDUs and read
  errors.
* `Cleanup` is the unbind and close at the end of `handler`.
* `PingSend`, `WorkerUnbind` and `WorkerClose` are the heartbeat.

Fairness: only weak fairness on `Cleanup` and `WorkerClose`. These are steps
of a goroutine that is runnable and needs nothing from outside. Nothing is
assumed of initiators or the network.

### ScsiBlock and TargetRegistry

`ScsiBlock` is a set of operators with no state. `BackingAccess(cdb)` is the
access that `PerformCommand` makes for a CDB:
* nothing, when a flag is rejected or the range check fails;
* a sync;
* a read or write of `len` blocks at `off`.

A CDB is the record of the fields the handlers read:
* the opcode class, the LBA and the transfer length;
* the flag bits;
* the length of the Data-Out buffer.

LBA arithmetic is modulo `2^AddrBits`. This keeps the uint64 wrap test of
`validateOffsetLength` meaningful in a small model. The handlers store
`transferLength << BlockShift` in the uint32 `TransferLength`;
`TransferBlocks` keeps that in blocks modulo `2^LenBits` (2^23 in the code).
A READ(16) or WRITE SAME(16) of 2^23 blocks or more passes the range check
on its block count, but reads or writes only the truncated count. `HandleWrite`
writes the whole Data-Out buffer and is not affected.

`TargetRegistry` has three kinds of actors:
* **Admin clients.** Each request runs through `Submit`, then `LockApi`
  (`apiLock`), the handler body (one action per handler: `Attach`, `Detach`,
  `AddTarget`, `DeleteTarget`, `Clear`, with `ClearStep` per LUN, `List`),
  then `Reply`.
* **The driver's tables.** These are `drv`, `tidOf`, `byName` and `byTid`.
* **Sessions.** `Login` and `Logout` manage the IT nexus. `Dispatch` is
  `AddCommandQueue`'s lookup of `target.Devices` without the lock. `Perform`
  is the command on the LU it found.

`DetachLun` and the attach path keep the code's early returns. The
`DevicesLock` they leave held is part of the state (`devLock`).

Fairness (used only by `RequestsAnswered`, which the `registry_hang` run
checks):
* Each request goroutine keeps running, which gives weak fairness on its
  handler steps.
* Go's `sync.Mutex` switches to starvation mode after 1 ms and then hands
  the lock to the longest waiter. This justifies strong fairness on
  `LockApi`.
* Sessions get no fairness.

Bounds:
* `MaxRequests` caps the requests served, and so the number of LU objects.
* Two names give target ids 0..1.
* Four LUN numbers let the bitmap fill up.
* Disks of 4 blocks with 3-bit LBA words reach both the end of the disk and
  the wrap.
* `LenBits` = 2 makes a whole-disk READ(16) or WRITE SAME(16) (4 blocks)
  overflow the byte count, as one of 2^23 blocks does in the code.

The passing `registry` run has one admin client with well-formed requests,
so nothing there can leave `DevicesLock` held. It does not check
`RequestsAnswered`, which would hold trivially. The hang is shown by
`registry_hang`.

## Runs

| Run | Result | What it shows |
|---|---|---|
| `taskqueue_inorder_r2t` | pass | In-order arrival, immediate reads and R2T writes, one abort: `WriteDataComplete` and `EveryCommandAnswered` hold. |
| `taskqueue_reorder` | pass | Any arrival order without R2T, one ABORT TASK: the LU sees CmdSN order (`CmdSNOrder`), including across wraparound. A task answered Function complete never runs, even after the gap before it fills (`AbortCompleteIsFinal`). |
| `taskqueue_reorder_r2t` | pass | Any order with R2T writes and any task management function: no task runs twice (`ExecutedAtMostOnce`). |
| `taskqueue_lifo_stall` | violation | Arrivals 2,3,1: the LIFO pop stalls the drain, and 2 and 3 never run. |
| `qcow2_crash` | pass | With power loss anywhere outside `syncCache`: no cluster is both in use and free (`NoAliasing`), reads return the last write (`Readback`), every used cluster has a nonzero refcount (`RefcountsCover`), and the image implements the abstract `VirtualDisk` (`ImplementsVirtualDisk`). |
| `qcow2_crash_in_flush` | violation | A power loss between `flushTable` and `syncL1` persists L1 without the refcounts; after reopening, a write overwrites a live L2 table. |
| `rebuild_exact` | pass | When one refcount block suffices, the rebuild stores every cluster's exact reference count. Also, every header `CreateImage` makes reads back as itself or is rejected (`HeaderIdempotent`, spec §8.5). Writes of 1 to 3 bytes to a child of a 4-byte parent read back as written, and elsewhere read back as the parent's bytes (`ChildReadback`). For the results of the SPC commands and READ, the Data-In PDUs deliver the data once, in order, with the status last (`DataInCoversData`), and no sequence is longer than MaxBurstLength (`DataInBurstBound`). |
| `rebuild_two_blocks` | violation | When two blocks are needed, only one table entry is allocated, and the clusters past the first block get refcount 0. |
| `login_sessions` | pass | Three connections logging in with new sessions until the TSIH pool runs out: no handle is shared or reserved (`SessionHeldOnce`), a connection in the Scsi state has a bound session and nexus (`ScsiSessionBound`), and every closing connection is cleaned up (`CloseLeadsToCleanup`). |
| `login_panic` | violation | A login with a non-zero TSIH dereferences a nil session and brings the process down. |
| `registry` | pass | One admin client and one session: commands reach their own target (`CommandReachesOwnTarget`), the LUN bitmap matches the devices (`LunTableConsistent`), and every block access starts at its CDB's LBA, stays within its transfer length and inside the disk (`IoWithinCommand`). Whole-disk READ(16) and WRITE SAME(16), whose byte count overflows, are included. |
| `registry_hang` | violation | Two admin clients detach the same LUN: `DetachLun` returns holding `DevicesLock`, and the next attach hangs holding `apiLock`. |
### ScsiPrimary and IscsiDataIn

Both modules are operators with no state. A handler's *outcome* is the record
`[status, sense, resid, len]`: the command's `Result`, whether `SenseBuffer`
is set, `InSDBBuffer.Residual`, and the number of bytes it built. The
iSCSI layer reads nothing else. `scsiCommandHandler` allocates `InSDBBuffer`
with `Length` = the expected length and `Residual` 0, so a handler that does
not assign `Residual` leaves 0. Note that the handlers use `Residual` as the
number of valid bytes, not as what RFC 7143 calls the residual.

* `Inquiry`, `ModeSense`, `RequestSense` and `HandleRead` keep each branch
  of their handler and its `Residual` rule. Page contents are abstracted to
  their length.
* `ReportLunsData` builds the bytes of `SPCReportLuns`: the header, the four
  bytes appended for a missing LUN 0 (while 8 are subtracted), and one entry
  per LUN until the uint32 `remainingLength` is exactly 0 (`Sub32`, modulus
  scaled to 2^30 because TLC's integers are 32-bit signed).
* `BuildResponse` is `buildResponsePackage` for `OpSCSIIn`/`OpSCSIResp`.
  `SendRemainingData` is the `goto SendRemainingData` loop of
  `transferHandler`, one PDU per pass, and `DataInPdu` the fields of
  `dataInBytes`.

`MCQcow2Rebuild` adds a variable `xfer`. Like `io`, it is a separate part of
`Init`, with about a thousand states. Its values pair a handler outcome with an
expected length: standard and VPD inquiries; REPORT LUNS over every LUN set
in `0..2` in every order; MODE SENSE(6) and (10), REQUEST SENSE and READs.
MODE SENSE(10) panics in the code (`Panic`), so its outcome builds no
response. The Data-In properties exclude it. The expected
lengths run from 1 to 96 around the data lengths. The segment is 8 bytes and
the burst 32 (so four segments per sequence, as 65536 and 262144 give in the
code). The responses therefore span one to twelve PDUs and up to three
sequences. The run checks two properties:
* `DataInCoversData`: the PDUs deliver the data once and in order.
* `DataInBurstBound`: no sequence exceeds the burst length.

`MCTargetRegistry` composes `ScsiPrimary` with the registry.
`ReportLunsListsDevices` reads the REPORT LUNS data of every target, in
every map order, at each reachable state. It requires that the data lists
exactly the attached LUNs and LUN 0.

Every property of a passing run has a mutant in `PROJECT.json`. A mutant is a
plausible bug in the mapped definition (a dropped guard, an off-by-one, a
kept LUN number, a dropped wrap test) that TLC finds violating the property.

Further configurations, each showing another disagreement with the spec:

| Configuration | What TLC finds |
|---|---|
| `MCIscsiTaskQueue_drained_unanswered.cfg` | Commands executed by the drain never get a response. |
| `MCIscsiTaskQueue_r2t_order.cfg` | A read overtakes an earlier write that waits for R2T data. |
| `MCIscsiTaskQueue_immediate_write.cfg` | An immediate R2T write advances ExpCmdSN, and the next command is discarded. |
| `MCIscsiTaskQueue_cmdsn_wrap.cfg` | After wraparound, a command ahead of its predecessor is discarded as stale. |
| `MCIscsiTaskQueue_reorder_incomplete.cfg` | The drain executes a write whose R2T data has not arrived. |
| `MCIscsiTaskQueue_abort_task_set.cfg` | ABORT TASK SET answers Function complete but aborts nothing. A queued task then runs once its CmdSN gap fills (`AbortCompleteIsFinal`). Spec 4.8 says an unsupported function answers Not supported. |
| `MCQcow2Image_nocrash.cfg` | The image invariants without power loss. This run passes, and `qcow2_crash` subsumes it. |
| `MCQcow2Image_refcount_self_drop.cfg` | A refcount block evicted clean and read back is queued at its own address and later handed out. |
| `MCQcow2Image_alloc_failure.cfg` | A failed data allocation leaves L1 pointing at an L2 whose refcount was never set. |
| `MCIscsiLogin_duplicate_isid.cfg` | A TSIH-0 login with a live session's ISID creates a second session (`OneSessionPerISID`). |
| `MCIscsiLogin_worker_leak.cfg` | The ping worker of a connection closed before Scsi never ends (`WorkerEnds`). |
| `MCTargetRegistry_closed_io.cfg` | A command runs on an LU that a detach closed meanwhile (`NoIoOnClosedLu`). |
| `MCQcow2Rebuild_CreatedImageOpens.cfg` | `CreateImage` of less than one cluster writes a header whose L1 offset exceeds the virtual size; its own reopen rejects it. |
| `MCQcow2Rebuild_CreatedTablesDisjoint.cfg` | Past cs/8 L2 tables (4 TiB at 64 KiB clusters) the L1 entries of a created image run into its refcount table. `l1Clusters` divides entries, not bytes, by the cluster size. |
| `MCQcow2Rebuild_OpenNeverPanics.cfg` | A file with cluster_bits 0 or 64 divides by zero in `preComputeTableSizes`, before `validate` can reject it. |
| `MCQcow2Rebuild_ClusterBitsAccepted.cfg` | A valid file with cluster_bits 20 is rejected: `diskSizeLimitForCluster` wraps to 0 in uint64. |
| `MCQcow2Rebuild_unaligned_child.cfg` | For a child image whose virtual size is not a multiple of the cluster size, a write to its last cluster always fails. The copy-on-write reads that cluster from the parent, the parent clamps the read to its virtual size, and `writeCluster` refuses the short data (`ChildReadback`). |
| `MCQcow2Rebuild_ResidualCountsUntransferred.cfg` | The residual count is `Residual`, the number of valid bytes. A 10-byte VPD page read with expected length 1 reports overflow by 10, not 9. A short standard INQUIRY reports underflow by the data length (RFC 7143 11.4.5). |
| `MCQcow2Rebuild_GoodReadSendsData.cfg` | REQUEST SENSE leaves a non-nil empty `SenseBuffer`. The read is then answered by a SCSI Response with GOOD status and the bytes in its data segment, not by Data-In, so the initiator receives no parameter data (`GoodReadSendsData`). |
| `MCTargetRegistry_report_luns.cfg` | Attach LUN 0, attach LUN 1, detach LUN 0: REPORT LUNS appends 4 filler bytes for LUN 0 instead of 8. LUN 1's entry is then shifted, and the initiator reads only LUN 0 (`ReportLunsListsDevices`). |
| `MCTargetRegistry_long_transfer.cfg` | A READ(16) of the whole 4-block disk passes the range check, but its byte count shifts to 0 in the uint32 `TransferLength`, so it reads nothing (`IoCoversCommand`). In the code this happens for counts of 2^23 blocks or more. A read of exactly 2^23 blocks answers GOOD with a buffer of zeros. |
| `MCQcow2Rebuild_HandlerReturns.cfg` | Every MODE SENSE(10) panics the target: `SPCModeSense10` reads its allocation length with `binary.BigEndian.Uint32` from the 2-byte slice `SCB[7:9]` (`HandlerReturns`). |
| `MCTargetRegistry_overlong_write.cfg` | A WRITE whose Data-Out buffer is longer than its transfer length writes past the CDB's blocks (`IoWithinCommand`). |

## Not modelled (yet)

See `components` in `PROJECT.json`.

* **Pure I/O or formatting, left out for good:**
  * PDU and header byte encoding, except the Data-In header fields
    (`IscsiDataIn`);
  * the content of the SPC inquiry and mode pages, and REPORT SUPPORTED
    OPERATION CODES, which format constant tables;
  * qemu-img;
  * the CLI and the logger.
* **Planned modules:**
  * the transmit side of a connection and the unlocked writes of the
    response by the login path and the heartbeat;
  * `LruCache`, with a refinement to an abstract map.
* **Left out of the SCSI and API models:**
  * sense data bytes, and the SBC commands that only build a reply
    (read capacity, format, start/stop, mode select);
  * JSON encoding, the admin socket I/O and the CLI;
  * a request that `ParseRequest` rejects: `HandleConnection` sends the
    error and then calls `HandleRequest(nil)`, which panics the daemon. The
    model's clients send only well-formed requests;
  * image opening failures in attach, which would let the hung-lock
    scenario escape by fairness rather than show it.
* **Left out of the image model:**
  * backing files and writes and reads of part of a cluster. `Qcow2Backing`
    models both, without the allocator.
  * read-only images and the no-cache variants of both caches;
  * header parsing and validation; the dirty and corrupt feature bits, which
    the code never sets or reads;
  * the negotiated MaxRecvDataSegmentLength: `transferHandler` segments by
    the target's constant, so `IscsiDataIn` takes it as a constant; the
    header and data digests, which are not implemented on the send path;
  * concurrent callers: `ImageFile` has no lock, and the SCSI layer calls it
    from one goroutine per connection.
