----------------------------- MODULE Qcow2Image -----------------------------
(***************************************************************************)
(* An open QCOW2 image (qcow2.go ImageFile) with the write-back caches of *)
(* the pointer tables (pointer_table_caches.go) and of the refcounts      *)
(* (referenceCount.go), their LRU maps (lru_cache.go), the cluster        *)
(* allocator, Flush and Close, Open with the refcount rebuild, and power  *)
(* loss.  The guest addresses whole clusters; each WriteAt and ReadAt     *)
(* covers one cluster, which is one iteration of their loops.             *)
(*                                                                         *)
(* The in-memory image and the file as the process sees it are the record *)
(* img.  Its operations are written as functions from img to img that    *)
(* follow the Go calls one by one; a call that returns an error sets      *)
(* img.err and Then skips the remaining steps, keeping what was done.     *)
(***************************************************************************)
EXTENDS Qcow2Rebuild, Functions, TLC

CONSTANTS
    Values,              \* nonzero guest data values
    PointerCacheSize,    \* CachedImageFactory pointerTableCacheSize
    RefcountCacheSize,   \* CachedImageFactory referenceCountTableCacheSize
    MaxWrites,           \* bound on WriteAt calls
    MaxCrashes,          \* bound on power losses
    CrashInSync          \* whether a power loss may come during syncCache

ASSUME /\ 0 \notin Values
       /\ PointerCacheSize \in Nat \ {0}
       /\ RefcountCacheSize \in Nat \ {0}
       /\ MaxWrites \in Nat /\ MaxCrashes \in Nat
       /\ CrashInSync \in BOOLEAN

VARIABLES
    img,       \* the ImageFile and the file contents the process sees
    disk,      \* cluster contents that survive a power loss
    dsize,     \* file size that survives a power loss
    open,      \* an ImageFile is open on the file
    flushing,  \* "none", or the syncCache of a Flush or a Close between its two fsyncs
    guest,     \* what the guest last wrote to each cluster (0: never written)
    since,     \* values each cluster may hold on disk: written since the last Flush
    writes, crashes

vars == <<img, disk, dsize, open, flushing, guest, since, writes, crashes>>

(***************************************************************************)
(* LRU maps (lru_cache.go).  A map is a function from key to entry plus a *)
(* sequence of its keys, least recently used first.                        *)
(***************************************************************************)
\* get and set of a present key move it to the rear of the queue.
Promote(q, k) == Append(Remove(q, k), k)

\* The result of a failed call: the state is kept, Then skips what follows.
Fail(s) == [s EXCEPT !.err = TRUE]
Then(s, Op(_)) == IF s.err \/ s.corrupt THEN s ELSE Op(s)

\* A table read from a cluster holding something else.
ReadCheck(s, c, k) == IF Decodable(s.page[c], k) THEN s ELSE [s EXCEPT !.corrupt = TRUE]

\* rawFile writes: the page cache holds the new content; until the next
\* fsync the disk may end up with any content the cluster held since.
WritePage(s, c, x) ==
    [s EXCEPT !.page[c] = x, !.written[c] = @ \cup {x}]

\* LruCacheMap.set
CacheSet(s, m, q, k, e) ==
    [s EXCEPT ![m] = (k :> e) @@ @, ![q] = Append(Remove(@, k), k)]

\* LruCacheMap.remove
CacheRemove(s, m, q, k) ==
    [s EXCEPT ![m] = Restrict(@, DOMAIN @ \ {k}), ![q] = Remove(@, k)]

\* Mutant: insert never evicts, so the cache outgrows its capacity.
L2Insert_NoEvict(s, k, e) == CacheSet(s, "l2", "l2Lru", k, e)

\* Mutant: the eviction callback drops a dirty table without writing it.
L2Insert_NoWriteBack(s, k, e) ==
    LET v == Head(s.l2Lru)
        s1 == IF Cardinality(DOMAIN s.l2) = PointerCacheSize
              THEN LET s0 == CacheRemove(s, "l2", "l2Lru", v)
                   IN IF s.l2[v].dirty THEN [s0 EXCEPT !.l2Evicted = @ \cup {v}] ELSE s0
              ELSE s
    IN CacheSet(s1, "l2", "l2Lru", k, e)

\* LruCacheMap.insert into the L2 cache with the callback of
\* readClusterAddress / addNewPointerCluster: a dirty evicted table is
\* written to its own cluster and remembered in l2Evicted.
L2Insert(s, k, e) ==
    LET v == Head(s.l2Lru)
        s1 == IF Cardinality(DOMAIN s.l2) = PointerCacheSize
              THEN LET s0 == CacheRemove(s, "l2", "l2Lru", v)
                   IN IF s.l2[v].dirty
                      THEN WritePage([s0 EXCEPT !.l2Evicted = @ \cup {v}], v,
                                     L2Content(s.l2[v].ptr))
                      ELSE s0
              ELSE s
    IN CacheSet(s1, "l2", "l2Lru", k, e)

\* LruCacheMap.insert into the refcount block cache with the callback of
\* setClusterRefcount / getClusterRefcount: a dirty evicted block is
\* written where the table points and remembered in rbEvicted.
RbInsert(s, k, e) ==
    LET v == Head(s.rbLru)
        s1 == IF Cardinality(DOMAIN s.rb) = RefcountCacheSize
              THEN LET s0 == CacheRemove(s, "rb", "rbLru", v)
                   IN IF s.rb[v].dirty
                      THEN WritePage([s0 EXCEPT !.rbEvicted = @ \cup {v}], s.rt[v],
                                     BlockContent(s.rb[v].cnt))
                      ELSE s0
              ELSE s
    IN CacheSet(s1, "rb", "rbLru", k, e)

(***************************************************************************)
(* Cluster allocation (qcow2.go getNewCluster, with no initial data).      *)
(***************************************************************************)
\* The address getNewCluster returns: the most recently freed cluster,
\* else the cluster at the (cluster-aligned) end of the file.
NewClusterAddr(s) == IF s.avail # <<>> THEN Last(s.avail) ELSE s.size

\* Pop it and zero it, or extend the file by truncate; past the last
\* cluster the refcount table can count, allocateClusterAtFileEnd fails.
GetNewCluster(s) ==
    IF s.avail # <<>>
    THEN WritePage([s EXCEPT !.avail = Front(@)], Last(s.avail), ZeroContent)
    ELSE IF s.size > MaxValidCluster
         THEN Fail(s)
         ELSE [WritePage(s, s.size, ZeroContent) EXCEPT !.size = @ + 1]

(***************************************************************************)
(* Refcounts (referenceCount.go ReferenceCountWriteBack.setClusterRefcount)*)
(* nc is the newCluster argument; nc.addr = 0 is nil.                      *)
(***************************************************************************)
NilCluster == [addr |-> 0, cnt |-> NoPointers(BlockEntry), dirty |-> FALSE]

RbPromote(s, ti) == [s EXCEPT !.rbLru = Promote(@, ti)]

\* The block of table entry ti is cached in s2 and promoted: a clean block
\* not evicted since the last table sync is copied to nc (copy-on-write),
\* which must be given; then the refcount is set (referenceCount.go:113-140).
RcUpdate(s2, c, val, nc, bd) ==
    LET ti == TableIndex(c)
        cow == ~s2.rb[ti].dirty /\ ti \notin s2.rbEvicted
        s3 == IF cow THEN [s2 EXCEPT !.rt[ti] = nc.addr, !.rtDirty = TRUE] ELSE s2
    IN IF cow /\ nc.addr = 0
       THEN [st |-> s2, res |-> "needNew", d |-> 0]
       ELSE [st |-> [s3 EXCEPT !.rb[ti] = [cnt |-> [@.cnt EXCEPT ![BlockIndex(c)] = val],
                                           dirty |-> TRUE]],
             res |-> IF cow THEN "dropped" ELSE "ok", d |-> bd]

\* Result: the state, and "ok", "dropped" (with the dropped address d),
\* "needNew" (ErrNeedNewCluster) or "needRead" (ErrNeedReadCluster at d).
RcSet(s, c, val, nc) ==
    LET ti == TableIndex(c)
    IN IF ti \notin DOMAIN s.rb /\ nc.addr = 0
       THEN [st |-> s, res |-> IF s.rt[ti] = 0 THEN "needNew" ELSE "needRead", d |-> s.rt[ti]]
       ELSE RcUpdate(RbPromote(IF ti \in DOMAIN s.rb THEN s
                               ELSE RbInsert([s EXCEPT !.rt[ti] = nc.addr, !.rtDirty = TRUE],
                                             ti, [cnt |-> nc.cnt, dirty |-> nc.dirty]),
                               ti),
                     c, val, nc, s.rt[ti])

\* The retry loop of ImageFile.setClusterRefcount (qcow2.go:391-430):
\* allocate a block on needNew, read the block on needRead, and call again.
RECURSIVE RefcountLoop(_, _, _, _, _), RefcountNext(_, _, _, _)
RefcountLoop(s, c, val, nc, added) == RefcountNext(RcSet(s, c, val, nc), c, val, added)

\* One turn of the loop after setClusterRefcount returned r.
RefcountNext(r, c, val, added) ==
    LET a == NewClusterAddr(r.st)
    IN CASE r.res = "needNew" /\ GetNewCluster(r.st).err ->
              [st |-> GetNewCluster(r.st), added |-> added, dropped |-> <<>>]
         [] r.res = "needNew" ->
              RefcountLoop(GetNewCluster(r.st), c, val,
                           [addr |-> a, cnt |-> NoPointers(BlockEntry), dirty |-> TRUE],
                           Append(added, a))
         [] r.res = "needRead" /\ ~Decodable(r.st.page[r.d], "rb") ->
              [st |-> ReadCheck(r.st, r.d, "rb"), added |-> added, dropped |-> <<>>]
         [] r.res = "needRead" ->
              RefcountLoop(r.st, c, val, [addr |-> r.d, cnt |-> Counts(r.st.page[r.d]), dirty |-> FALSE],
                           added)
         [] OTHER ->
              [st |-> r.st, added |-> added,
               dropped |-> IF r.res = "dropped" THEN <<r.d>> ELSE <<>>]

\* Mutant: the blocks the loop allocated are never given refcount 1.
SetClusterRefcount_NoAdded(s, c, val) ==
    LET r == RefcountLoop(s, c, val, NilCluster, <<>>)
    IN [st |-> r.st, dropped |-> r.dropped]

\* ImageFile.setClusterRefcount: the loop, then refcount 1 for every block
\* it allocated (qcow2.go:431-436, whose own dropped clusters are ignored).
RECURSIVE SetClusterRefcount(_, _, _), SetAddedAfter(_), SetAddedRefcounts(_, _)
SetClusterRefcount(s, c, val) == SetAddedAfter(RefcountLoop(s, c, val, NilCluster, <<>>))

SetAddedAfter(r) ==
    [st |-> Then(r.st, LAMBDA t : SetAddedRefcounts(t, r.added)), dropped |-> r.dropped]

SetAddedRefcounts(s, added) ==
    IF added = <<>> THEN s
    ELSE Then(SetClusterRefcount(s, Head(added), 1).st,
              LAMBDA t : SetAddedRefcounts(t, Tail(added)))

\* A caller that appends the dropped clusters to unrefClusters on success.
KeepDropped(r) == Then(r.st, LAMBDA t : [t EXCEPT !.unref = @ \o r.dropped])

SetRefcountKeep(s, c, val) == KeepDropped(SetClusterRefcount(s, c, val))

(***************************************************************************)
(* Pointer tables (pointer_table_caches.go pointerWriteBackCache).         *)
(***************************************************************************)
\* readClusterAddress for an L1 entry l2a # 0: the L2 table is read into
\* the cache clean if absent, then promoted.
ReadL2(s, l2a) ==
    IF l2a \in DOMAIN s.l2
    THEN [s EXCEPT !.l2Lru = Promote(@, l2a)]
    ELSE Then(ReadCheck(s, l2a, "l2"),
              LAMBDA t : L2Insert(t, l2a, [ptr |-> Pointers(t.page[l2a], L2Entry),
                                            dirty |-> FALSE]))

\* addNewPointerCluster: point the L1 entry at a fresh, dirty, empty table.
AddNewPointerCluster(s, g, a) ==
    L2Insert([s EXCEPT !.l1[L1Index(g)] = a, !.l1Dirty = TRUE],
             a, [ptr |-> NoPointers(L2Entry), dirty |-> TRUE])

\* Mutant: a clean table is updated in place instead of being copied.
UpdateClusterAddress_InPlace(s, g, d) ==
    LET l2a == s.l1[L1Index(g)]
    IN [st |-> [s EXCEPT !.l2Lru = Promote(@, l2a),
                         !.l2[l2a] = [ptr |-> [@.ptr EXCEPT ![L2Index(g)] = d], dirty |-> TRUE]],
        refs |-> <<>>]

\* Mutant: the copy is made, and the L1 table written through at once.
UpdateClusterAddress_WriteL1(s, g, d) ==
    LET l2a == s.l1[L1Index(g)]
        s0 == [s EXCEPT !.l2Lru = Promote(@, l2a)]
        item == [ptr |-> [s.l2[l2a].ptr EXCEPT ![L2Index(g)] = d], dirty |-> TRUE]
        n == NewClusterAddr(s0)
        s1 == GetNewCluster(s0)
        l1 == [s1.l1 EXCEPT ![L1Index(g)] = n]
    IN IF s.l2[l2a].dirty \/ l2a \in s.l2Evicted
       THEN [st |-> [s0 EXCEPT !.l2[l2a] = item], refs |-> <<>>]
       ELSE IF s1.err THEN [st |-> s1, refs |-> <<>>]
       ELSE [st |-> [CacheSet(CacheRemove(WritePage([s1 EXCEPT !.l1 = l1], L1Cluster, L1Content(l1)),
                                          "l2", "l2Lru", l2a),
                              "l2", "l2Lru", n, item)
                       EXCEPT !.unref = Append(@, l2a)],
             refs |-> <<[addr |-> l2a, val |-> 0], [addr |-> n, val |-> 1]>>]

\* updateClusterAddress (pointer_table_caches.go:185-228 with
\* qcow2.go:655-668).  A clean table that was not evicted since the last L1
\* sync is copied to a new cluster: the L1 entry moves to it, the old table
\* is queued for refcount 0 and unrefClusters, the new one for refcount 1.
\* Result: the state and the refcounts to set.
UpdateClusterAddress(s, g, d) ==
    LET l2a == s.l1[L1Index(g)]
        s0 == [s EXCEPT !.l2Lru = Promote(@, l2a)]
        item == [ptr |-> [s.l2[l2a].ptr EXCEPT ![L2Index(g)] = d], dirty |-> TRUE]
        n == NewClusterAddr(s0)
        s1 == GetNewCluster(s0)
    IN IF s.l2[l2a].dirty \/ l2a \in s.l2Evicted
       THEN [st |-> [s0 EXCEPT !.l2[l2a] = item], refs |-> <<>>]
       ELSE IF s1.err THEN [st |-> s1, refs |-> <<>>]
       ELSE [st |-> [CacheSet(CacheRemove([s1 EXCEPT !.l1[L1Index(g)] = n, !.l1Dirty = TRUE],
                                          "l2", "l2Lru", l2a),
                              "l2", "l2Lru", n, item)
                       EXCEPT !.unref = Append(@, l2a)],
             refs |-> <<[addr |-> l2a, val |-> 0], [addr |-> n, val |-> 1]>>]

RECURSIVE SetRefcounts(_, _)
SetRefcounts(s, refs) ==
    IF refs = <<>> THEN s
    ELSE Then(SetRefcountKeep(s, Head(refs).addr, Head(refs).val),
              LAMBDA t : SetRefcounts(t, Tail(refs)))

(***************************************************************************)
(* qcow2.go fileOffsetWrite: the data cluster of guest cluster g, with the *)
(* L2 table and the data cluster allocated when absent.  Result: the      *)
(* state and the data cluster.                                             *)
(***************************************************************************)
\* Lines 546-559: the refcounts of the new tables are set last.
WriteUpdated(u, d, refs1) ==
    [st |-> Then(u.st, LAMBDA t : SetRefcounts(t, refs1 \o u.refs)), addr |-> d]

\* Lines 527-545: appendDataCluster gave d, then updateClusterAddress.
WriteData(s2, g, d, refs1) ==
    IF s2.err \/ s2.corrupt THEN [st |-> s2, addr |-> d]
    ELSE WriteUpdated(UpdateClusterAddress(s2, g, d), d, refs1)

\* With the L2 table of g cached in s1: its entry, or a new data cluster.
WriteWithTable(s1, g, refs1) ==
    LET l2a == s1.l1[L1Index(g)]
        cur == IF l2a = 0 \/ s1.err \/ s1.corrupt THEN 0 ELSE s1.l2[l2a].ptr[L2Index(g)]
    IN IF cur # 0
       THEN [st |-> Then(s1, LAMBDA t : SetRefcounts(t, refs1)), addr |-> cur]
       ELSE WriteData(Then(Then(s1, GetNewCluster),
                           LAMBDA t : SetRefcountKeep(t, NewClusterAddr(s1), 1)),
                      g, NewClusterAddr(s1), refs1)

FileOffsetWrite(s, g) ==
    LET l2a == s.l1[L1Index(g)]
    IN IF l2a = 0
       \* lines 506-526: ErrNeedPointerCluster allocates the L2 table
       THEN WriteWithTable(Then(GetNewCluster(s),
                                LAMBDA t : AddNewPointerCluster(t, g, NewClusterAddr(s))),
                           g, <<[addr |-> NewClusterAddr(s), val |-> 1]>>)
       ELSE WriteWithTable(ReadL2(s, l2a), g, <<>>)

(***************************************************************************)
(* Opening (qcow2.go imageFromFile) and syncing (qcow2.go syncCache).      *)
(***************************************************************************)
\* Lines 152-176: a rebuild is required unless the first refcount table
\* entry points at a block whose first refcount is nonzero, and always
\* when the lazy-refcounts bit is set.
FirstBlock(f) == Pointers(f.page[RefTableCluster], RefTableEntry)[0]

\* The tables imageFromFile decodes hold tables.
OpenReadable(f) ==
    /\ Decodable(f.page[L1Cluster], "l1")
    /\ Decodable(f.page[RefTableCluster], "rt")
    /\ FirstBlock(f) = 0 \/ Decodable(f.page[FirstBlock(f)], "rb")

RebuildRequired(f) ==
    LET first == FirstBlock(f)
    IN \/ first = 0
       \/ Counts(f.page[first])[0] = 0
       \/ f.page[HeaderCluster] = HeaderContent(TRUE)

\* What rebuildReferenceCounts writes: the header twice (lazy bit set,
\* then cleared) and every cluster whose content changed.
RebuildWritten(f, g, written) ==
    [c \in Cluster |->
        written[c] \cup
          (IF c = HeaderCluster THEN {HeaderContent(TRUE), HeaderContent(FALSE)}
           ELSE IF g.page[c] # f.page[c] THEN {g.page[c]} ELSE {})]

\* getClusterRefcount (referenceCount.go:180-218) as used by
\* findAvailableClusters (qcow2.go:344-359): clusters whose refcount is 0,
\* in ascending order, become availClusters.
RECURSIVE FindAvailableClusters(_, _)
FindAvailableClusters(s, i) ==
    IF i >= s.size \/ s.corrupt THEN s
    ELSE LET ti == TableIndex(i)
             bd == s.rt[ti]
             s1 == IF bd = 0 \/ ti \in DOMAIN s.rb THEN s
                   ELSE Then(ReadCheck(s, bd, "rb"),
                             LAMBDA t : RbInsert(t, ti, [cnt |-> Counts(t.page[bd]),
                                                        dirty |-> FALSE]))
             s2 == IF bd = 0 \/ s1.corrupt THEN s1 ELSE [s1 EXCEPT !.rbLru = Promote(@, ti)]
             free == bd = 0 \/ (~s2.corrupt /\ s2.rb[ti].cnt[BlockIndex(i)] = 0)
         IN FindAvailableClusters(IF free THEN [s2 EXCEPT !.avail = Append(@, i)] ELSE s2,
                                  i + 1)

\* An ImageFile over file f with empty caches and nothing read yet.
ImageOver(f, written) ==
    [l1 |-> NoPointers(L1Entry), l1Dirty |-> FALSE,
     l2 |-> [a \in {} |-> 0], l2Lru |-> <<>>, l2Evicted |-> {},
     rt |-> NoPointers(RefTableEntry), rtDirty |-> FALSE,
     rb |-> [a \in {} |-> 0], rbLru |-> <<>>, rbEvicted |-> {},
     avail |-> <<>>, unref |-> <<>>,
     page |-> f.page, size |-> f.size, written |-> written,
     err |-> FALSE, corrupt |-> FALSE]

\* The ImageFile over file f, after the rebuild if one is required.
OpenImage(f, written) ==
    LET r == IF ~OpenReadable(f) THEN [ok |-> TRUE, file |-> f]
             ELSE IF RebuildRequired(f) THEN Rebuild(f) ELSE [ok |-> TRUE, file |-> f]
        g == r.file
        s == [ImageOver(g, IF OpenReadable(f) /\ RebuildRequired(f)
                           THEN RebuildWritten(f, g, written) ELSE written)
                EXCEPT !.l1 = Pointers(g.page[L1Cluster], L1Entry),
                       !.rt = Pointers(g.page[RefTableCluster], RefTableEntry),
                       !.err = ~r.ok, !.corrupt = ~OpenReadable(f)]
    IN IF ~r.ok \/ s.corrupt THEN s ELSE FindAvailableClusters(s, 0)

\* The first half of syncCache (lines 671-682): dirty L2 tables and every
\* cached refcount block are written back, then fsync.
FlushL2Tables(s) ==
    [s EXCEPT !.page = [c \in Cluster |->
                          IF c \in DOMAIN s.l2 /\ s.l2[c].dirty THEN L2Content(s.l2[c].ptr)
                          ELSE @[c]],
              !.written = [c \in Cluster |->
                          IF c \in DOMAIN s.l2 /\ s.l2[c].dirty
                          THEN @[c] \cup {L2Content(s.l2[c].ptr)} ELSE @[c]],
              !.l2 = [a \in DOMAIN s.l2 |-> [s.l2[a] EXCEPT !.dirty = FALSE]]]

FlushBlocks(s) ==
    LET at(c) == {ti \in DOMAIN s.rb : s.rt[ti] = c}
        cnt(c) == s.rb[CHOOSE ti \in at(c) : TRUE].cnt
    IN IF \E ti \in DOMAIN s.rb : s.rt[ti] = 0 THEN Fail(s)
       ELSE [s EXCEPT !.page = [c \in Cluster |->
                                  IF at(c) # {} THEN BlockContent(cnt(c)) ELSE @[c]],
                      !.written = [c \in Cluster |->
                                  IF at(c) # {} THEN @[c] \cup {BlockContent(cnt(c))} ELSE @[c]],
                      !.rb = [ti \in DOMAIN s.rb |-> [s.rb[ti] EXCEPT !.dirty = FALSE]]]

\* The second half (lines 685-701): flushTable, then syncL1; each clears
\* its evicted set; fsync if either wrote.
FlushTable(s) ==
    IF s.rtDirty
    THEN [WritePage(s, RefTableCluster, RefTableContent(s.rt))
            EXCEPT !.rbEvicted = {}, !.rtDirty = FALSE]
    ELSE s

SyncL1(s) ==
    IF s.l1Dirty
    THEN [WritePage(s, L1Cluster, L1Content(s.l1)) EXCEPT !.l2Evicted = {}, !.l1Dirty = FALSE]
    ELSE s

(***************************************************************************)
(* What ReadAt returns for guest cluster g (fileOffsetRead, qcow2.go:473): *)
(* zero without an L2 table or a data cluster, else the data cluster.      *)
(* GarbageValue stands for bytes that are not the guest's.                 *)
(***************************************************************************)
GarbageValue == 0 - 1

DataClusterOf(s, g) ==
    LET l2a == s.l1[L1Index(g)]
    IN IF l2a = 0 THEN 0
       ELSE IF l2a \in DOMAIN s.l2 THEN s.l2[l2a].ptr[L2Index(g)]
       ELSE Pointers(s.page[l2a], L2Entry)[L2Index(g)]

View(s, g) ==
    LET l2a == s.l1[L1Index(g)]
        d == DataClusterOf(s, g)
    IN CASE l2a # 0 /\ l2a \notin DOMAIN s.l2 /\ ~Decodable(s.page[l2a], "l2") -> GarbageValue
         [] d = 0 -> 0
         [] Decodable(s.page[d], "data") -> GuestValue(s.page[d])
         [] OTHER -> GarbageValue

(***************************************************************************)
(* CreateImage (qcow2.go createImageFromHeader): writeToFile leaves the   *)
(* header and zero bytes up to the end of the refcount table; the image   *)
(* is opened, which rebuilds the refcounts, and the clusters up to the    *)
(* end of the refcount table get refcount 1.  Nothing is synced: the disk *)
(* holds what writeToFile wrote only.                                     *)
(***************************************************************************)
HeaderOnlyFile ==
    [page |-> [c \in Cluster |-> IF c = HeaderCluster THEN HeaderContent(FALSE) ELSE ZeroContent],
     size |-> RefTableCluster + RefTableClusters]

NothingWritten == [c \in Cluster |-> {}]

CreatedImage ==
    SetRefcounts(OpenImage(HeaderOnlyFile, NothingWritten),
                 [i \in 1..HeaderOnlyFile.size |-> [addr |-> i - 1, val |-> 1]])

Init ==
    /\ img = CreatedImage
    /\ disk = HeaderOnlyFile.page
    /\ dsize = HeaderOnlyFile.size
    /\ open = TRUE
    /\ flushing = "none"
    /\ guest = [g \in GuestCluster |-> 0]
    /\ since = [g \in GuestCluster |-> {0}]
    /\ writes = 0
    /\ crashes = 0

\* A state in which the image decoded foreign bytes has no successor.
Ready == open /\ flushing = "none" /\ ~img.corrupt

(***************************************************************************)
(* Actions.                                                                *)
(***************************************************************************)
\* The data write after fileOffsetWrite returned r.
WriteResult(r, g, v) ==
    IF r.st.err \/ r.st.corrupt
    THEN /\ img' = [r.st EXCEPT !.err = FALSE]
         /\ UNCHANGED <<guest, since>>
    ELSE /\ img' = WritePage(r.st, r.addr, DataContent(v))
         /\ guest' = [guest EXCEPT ![g] = v]
         /\ since' = [since EXCEPT ![g] = @ \cup {v}]

\* WriteAt (qcow2.go:594-617) of one cluster: fileOffsetWrite, then the
\* data.  On an error the guest's data is not written.
WriteAt(g, v) ==
    /\ Ready
    /\ writes < MaxWrites
    /\ WriteResult(FileOffsetWrite(img, g), g, v)
    /\ writes' = writes + 1
    /\ UNCHANGED <<disk, dsize, open, flushing, crashes>>

\* ReadAt (qcow2.go:561-592) of a cluster with an L2 table: the table is
\* brought into the pointer cache, which may evict a dirty one.
ReadAt(g) ==
    /\ Ready
    /\ img.l1[L1Index(g)] # 0
    /\ img' = ReadL2(img, img.l1[L1Index(g)])
    /\ UNCHANGED <<disk, dsize, open, flushing, guest, since, writes, crashes>>

\* File.Sync: the disk holds what the process wrote.
Fsync(s) == [s EXCEPT !.written = NothingWritten]

\* Flush (qcow2.go:704) and Close (qcow2.go:619) both start with the first
\* half of syncCache, which ends with an fsync.  When it fails, Flush
\* returns the error and Close closes the file all the same.
SyncCacheBegin(op) ==
    /\ Ready
    /\ LET s == Then(FlushL2Tables(img), FlushBlocks)
       IN /\ img' = IF s.err THEN [s EXCEPT !.err = FALSE] ELSE Fsync(s)
          /\ disk' = IF s.err THEN disk ELSE s.page
          /\ dsize' = IF s.err THEN dsize ELSE s.size
          /\ flushing' = IF s.err THEN "none" ELSE op
          /\ open' = (~s.err \/ op = "flush")
    /\ UNCHANGED <<guest, since, writes, crashes>>

\* Mutant: Flush moves unrefClusters to availClusters and keeps them.
SyncCacheEnd_KeepUnref ==
    /\ open /\ flushing # "none"
    /\ LET s == SyncL1(FlushTable(img))
           synced == s.page # img.page \/ s.written # img.written
       IN /\ img' = IF flushing = "flush"
                    THEN [Fsync(s) EXCEPT !.avail = @ \o img.unref]
                    ELSE Fsync(s)
          /\ disk' = IF synced THEN s.page ELSE disk
          /\ dsize' = IF synced THEN s.size ELSE dsize
    /\ open' = (flushing = "flush")
    /\ flushing' = "none"
    /\ since' = [g \in GuestCluster |-> {guest[g]}]
    /\ UNCHANGED <<guest, writes, crashes>>

\* The second half: flushTable, syncL1 and the fsync if either wrote.
\* Flush then moves unrefClusters to availClusters; Close closes the file.
SyncCacheEnd ==
    /\ open /\ flushing # "none"
    /\ LET s == SyncL1(FlushTable(img))
           synced == s.page # img.page \/ s.written # img.written
       IN /\ img' = IF flushing = "flush"
                    THEN [Fsync(s) EXCEPT !.avail = @ \o img.unref, !.unref = <<>>]
                    ELSE Fsync(s)
          /\ disk' = IF synced THEN s.page ELSE disk
          /\ dsize' = IF synced THEN s.size ELSE dsize
    /\ open' = (flushing = "flush")
    /\ flushing' = "none"
    /\ since' = [g \in GuestCluster |-> {guest[g]}]
    /\ UNCHANGED <<guest, writes, crashes>>

\* ImageFactory.OpenImage (qcow2.go:332) of the file as it is.
OpenFile ==
    /\ ~open
    /\ LET s == OpenImage([page |-> img.page, size |-> img.size], img.written)
       IN /\ ~s.err
          /\ img' = s
          /\ guest' = [g \in GuestCluster |-> View(s, g)]
    /\ open' = TRUE
    /\ UNCHANGED <<disk, dsize, flushing, since, writes, crashes>>

\* Every function that gives each cluster c < n one of opt[c].
RECURSIVE Outcomes(_, _)
Outcomes(opt, n) ==
    IF n = 0 THEN {[c \in {} |-> ZeroContent]}
    ELSE {(n - 1 :> x) @@ f : f \in Outcomes(opt, n - 1), x \in opt[n - 1]}

\* Power loss: each cluster keeps its content at the last fsync or any
\* content written to it since; the size is the synced or the current one.
\* Between the two halves of syncCache the loss may also come after some
\* of the second half's writes (flushTable, syncL1) and before its fsync.
Crash ==
    /\ crashes < MaxCrashes
    /\ CrashInSync \/ flushing = "none"
    /\ LET s == IF flushing # "none" THEN SyncL1(FlushTable(img)) ELSE img
       IN \E size \in {dsize, s.size} :
          \E kept \in Outcomes([c \in Cluster |-> IF c < size THEN {disk[c]} \cup s.written[c]
                                                      ELSE {ZeroContent}],
                               MaxValidCluster + 1) :
            LET page == [c \in Cluster |-> kept[c]] IN
            /\ img' = [img EXCEPT !.page = page, !.size = size, !.written = NothingWritten]
            /\ disk' = page
            /\ dsize' = size
    /\ open' = FALSE
    /\ flushing' = "none"
    /\ crashes' = crashes + 1
    /\ UNCHANGED <<guest, since, writes>>

Next ==
    \/ \E g \in GuestCluster, v \in Values : WriteAt(g, v)
    \/ \E g \in GuestCluster : ReadAt(g)
    \/ \E op \in {"flush", "close"} : SyncCacheBegin(op)
    \/ SyncCacheEnd
    \/ OpenFile
    \/ Crash

Spec == Init /\ [][Next]_vars

(***************************************************************************)
(* Properties.                                                             *)
(***************************************************************************)
TypeOK ==
    /\ [page |-> img.page, size |-> img.size] \in File
    /\ img.l1 \in [L1Entry -> Cluster]
    /\ img.rt \in [RefTableEntry -> Cluster]
    /\ DOMAIN img.l2 \subseteq Cluster /\ Cardinality(DOMAIN img.l2) <= PointerCacheSize
    /\ DOMAIN img.rb \subseteq RefTableEntry /\ Cardinality(DOMAIN img.rb) <= RefcountCacheSize
    /\ ToSet(img.l2Lru) = DOMAIN img.l2 /\ ToSet(img.rbLru) = DOMAIN img.rb
    /\ ToSet(img.avail) \cup ToSet(img.unref) \subseteq Cluster
    /\ flushing \in {"none", "flush", "close"}
    /\ guest \in [GuestCluster -> Values \cup {0}]

\* The L2 tables the image refers to: cached, or as on file.
L2Of(s, a) == IF a \in DOMAIN s.l2 THEN s.l2[a].ptr ELSE Pointers(s.page[a], L2Entry)

\* Every reference the open image holds, one entry per reference: the
\* fixed clusters, the refcount blocks of the table, the L2 tables of the
\* L1 table and the data clusters of those tables, then the clusters the
\* allocator holds (availClusters, unrefClusters).
Claims(s) ==
    LET l2s == SelectSeq([i \in 1..NumL2Clusters |-> s.l1[i - 1]], LAMBDA a : a # 0)
    IN <<HeaderCluster, L1Cluster, RefTableCluster>>
         \o SelectSeq([i \in 1..MaxRefCountClusters |-> s.rt[i - 1]], LAMBDA a : a # 0)
         \o l2s
         \o FoldLeft(LAMBDA acc, a :
                        acc \o SelectSeq([i \in 1..L2Size |-> L2Of(s, a)[i - 1]],
                                         LAMBDA d : d # 0), <<>>, l2s)
         \o s.avail \o s.unref

\* No cluster is claimed twice: no two tables, blocks or data clusters
\* share a cluster, and no cluster in use is on the free lists.  Freeing
\* and reuse go through updateClusterAddress, setClusterRefcount,
\* getNewCluster and Flush.
NoAliasing ==
    open => \A i, j \in 1..Len(Claims(img)) : i < j => Claims(img)[i] # Claims(img)[j]

\* Reading any guest cluster from the open image returns what the guest
\* last wrote (or recovered after a power loss): fileOffsetWrite and the
\* caches' write-back never lose or redirect a write.
Readback ==
    open => \A g \in GuestCluster : View(img, g) = guest[g]

\* The refcount the open image holds for cluster c: from the cached block,
\* else from the block the refcount table points at (0 without one).
RefcountOf(s, c) ==
    LET ti == TableIndex(c)
    IN IF ti \in DOMAIN s.rb THEN s.rb[ti].cnt[BlockIndex(c)]
       ELSE IF s.rt[ti] = 0 THEN 0
       ELSE Counts(s.page[s.rt[ti]])[BlockIndex(c)]

\* Every cluster the open image uses (header, L1, refcount table and
\* blocks, L2 tables and data clusters) has a nonzero refcount, so that a
\* reopen never hands it out again (spec: "L1 never points at an L2
\* cluster whose refcount is 0").  fileOffsetWrite sets the refcounts of
\* what it allocates only after the whole allocation chain succeeded.
RefcountsCover ==
    open => \A i \in 1..Len(Claims(img)) - Len(img.avail) - Len(img.unref) :
              RefcountOf(img, Claims(img)[i]) > 0

(***************************************************************************)
(* The image implements a virtual disk (VirtualDisk): what the open image *)
(* reads back is the disk's data, the values written since the last      *)
(* completed Flush are its durable values, and the file being open is the *)
(* disk being open.  WriteAt is a Write of the cluster, the second half of *)
(* syncCache a Flush or a Close, a power loss or a Close whose first fsync *)
(* failed a Stop, OpenFile (with the refcount rebuild) an Open; every     *)
(* other step (ReadAt, a failed WriteAt, the first half of syncCache)     *)
(* leaves the disk as it is.                                               *)
(***************************************************************************)
Disk == INSTANCE VirtualDisk WITH
            Blocks <- GuestCluster,
            data <- IF open THEN [g \in GuestCluster |-> View(img, g)] ELSE guest,
            durable <- since,
            isOpen <- open

\* The image's reads, Flush, Close, power loss and reopen, taken together,
\* behave as the virtual disk: after a power loss and OpenImage every
\* guest cluster holds its value at the last Flush or one written since.
ImplementsVirtualDisk == Disk!Spec
====
