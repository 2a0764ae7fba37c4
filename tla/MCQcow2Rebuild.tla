---------------------------- MODULE MCQcow2Rebuild ----------------------------
(***************************************************************************)
(* The refcount rebuild over every small image whose refcounts must be    *)
(* rebuilt: a file with an empty refcount table, two L2 table clusters    *)
(* (3, 4) and two data clusters (5, 6), with every L1 and L2 table the    *)
(* clusters can hold, shared and repeated references included.  Each     *)
(* state also holds one header request for Qcow2Header; a few states     *)
(* hold instead one write sequence on a child image for Qcow2Backing,     *)
(* and others one SCSI command answered over iSCSI (ScsiPrimary,          *)
(* IscsiDataIn).                                                          *)
(***************************************************************************)
EXTENDS Qcow2Rebuild

\* Three guest clusters in two L2 tables, two pointers per cluster.
MCNumClusters == 3
MCL2Size == 2
MCPointersPerCluster == 2
\* Eight refcounts per block: one block counts all seven clusters the
\* rebuild sizes for.  Four: the rebuild needs two blocks.
MCRefcountBlockEntries == 8
MCRefcountBlockEntriesSmall == 4

L2Clusters == {3, 4}
DataClusters == {5, 6}

Images ==
    { [page |-> [c \in Cluster |->
                   CASE c = HeaderCluster -> HeaderContent(FALSE)
                     [] c = L1Cluster -> L1Content(l1)
                     [] c = 3 -> L2Content(t3)
                     [] c = 4 -> L2Content(t4)
                     [] c \in DataClusters -> DataContent(1)
                     [] OTHER -> ZeroContent],
       size |-> 7]
      : l1 \in [L1Entry -> {0} \cup L2Clusters],
        t3 \in [L2Entry -> {0} \cup DataClusters],
        t4 \in [L2Entry -> {0} \cup DataClusters] }

(***************************************************************************)
(* The header of a created image (Qcow2Header).  Clusters of 512 bytes    *)
(* (cluster_bits 9) stand for DefaultClusterBits 16 so that an L1 table   *)
(* of more than one cluster fits TLC's integers: 4 MiB here is what 4 TiB *)
(* is at 64 KiB clusters.  81920 bytes is scenario S1's 160 clusters.     *)
(* Paths of 400 bytes fill the header cluster; 401 is too long.           *)
(***************************************************************************)
MCHeaderClusterBits == 9
MCCreateSizes == {0, 256, 512, 81920, 4194304}
\* -1 is NoBacking, CreateImage's nil path.
MCBackings == {-1, 7, 400, 401}
\* Bits below 3 and 64 leave no l2Size or cluster size; 20 is 1 MiB.
MCForeignClusterBits == {0, 9, 20, 64}

(***************************************************************************)
(* A child image over a parent (Qcow2Backing): clusters of 2 bytes, the   *)
(* parent's allocated clusters holding 5s, and up to two writes of 1 to 3 *)
(* bytes, each at any address, so that writes start and end inside a      *)
(* cluster and cross cluster boundaries.  ChildSizes are the virtual      *)
(* sizes of parent and child.                                             *)
(***************************************************************************)
CONSTANT ChildSizes

MCBackingClusterSize == 2
MCChildSizesAligned == {4}
MCChildSizesUnaligned == {3}
MCWriteData == {<<13>>, <<7, 7>>, <<13, 13, 13>>}

Bk == INSTANCE Qcow2Backing WITH ClusterSize <- MCBackingClusterSize

Parents ==
    UNION {{[vsize |-> v, data |-> [k \in ks |-> <<5, 5>>]]
             : ks \in SUBSET (0..Bk!ClusterIndex(v - 1))} : v \in ChildSizes}

IoRequests ==
    UNION {{[parent |-> p, writes |-> ws]
             : ws \in UNION {[1..n -> [addr : 0..(p.vsize - 1), data : MCWriteData]]
                              : n \in 1..2}} : p \in Parents}

NoIo == [parent |-> [vsize |-> 0, data |-> <<>>], writes |-> <<>>]

(***************************************************************************)
(* SCSI commands that return data, each with the initiator's expected     *)
(* length, as the handlers of ScsiPrimary answer them.  Segments of 8      *)
(* bytes and bursts of 32 keep the code's ratio 65536 : 262144, so that    *)
(* the 74 bytes of standard INQUIRY data take ten PDUs in three           *)
(* sequences.  The allocation length is the expected length, as an        *)
(* initiator sends them; VPD pages of 10 and 64 bytes, mode pages of 0    *)
(* and 24 bytes, and READs of 1, 2 and 5 blocks of 8 bytes.               *)
(***************************************************************************)
MCSegmentLength == 8
MCBurstLength == 32
MCExpected == 1..96

Spc == INSTANCE ScsiPrimary
Din == INSTANCE IscsiDataIn WITH MaxRecvDataSegmentLength <- MCSegmentLength,
                                 MaxBurstLength <- MCBurstLength

X(e, o) == [expected |-> e, out |-> o]

ScsiRequests ==
    {X(e, Spc!Inquiry(FALSE, pg, e, 0)) : e \in MCExpected, pg \in {0, 1}}
    \cup {X(e, Spc!Inquiry(TRUE, pg, e, v)) : e \in MCExpected, pg \in {"known", "unknown"}, v \in {10, 64}}
    \cup UNION {{X(e, Spc!ReportLuns(l, o, e)) : e \in 1..48, o \in SetToSeqs(l)} : l \in SUBSET {0, 1, 2}}
    \cup {X(e, Spc!ModeSense(t, pc, f, d, pl, e)) : e \in 1..64, t \in BOOLEAN, pc \in {0, 3},
                                                  f \in BOOLEAN, d \in BOOLEAN, pl \in {0, 24}}
    \cup {X(e, Spc!RequestSense(e, e)) : e \in 1..32}
    \cup UNION {{X(e, Spc!HandleRead(tl, e)) : e \in {tl - 8, tl, tl + 8} \ {0}} : tl \in {8, 16, 40}}

NoXfer == X(0, Spc!CheckCondition)

VARIABLE file
\* A CreateImage(size, backing) call, and a file of another tool with that
\* size and cluster_bits bits, whose headers are checked (Qcow2Header).
VARIABLE req
\* A write sequence on a child image (Qcow2Backing), or NoIo.
VARIABLE io
\* A SCSI command's outcome and expected length (IscsiDataIn), or NoXfer.
VARIABLE xfer

Requests == [size : MCCreateSizes, backing : MCBackings, bits : MCForeignClusterBits]

OneImage == CHOOSE f \in Images : TRUE
OneRequest == [size |-> 81920, backing |-> -1, bits |-> MCHeaderClusterBits]

Init ==
    \/ file \in Images /\ req \in Requests /\ io = NoIo /\ xfer = NoXfer
    \/ file = OneImage /\ req = OneRequest /\ io \in IoRequests /\ xfer = NoXfer
    \/ file = OneImage /\ req = OneRequest /\ io = NoIo /\ xfer \in ScsiRequests
Next == UNCHANGED <<file, req, io, xfer>>
Spec == Init /\ [][Next]_<<file, req, io, xfer>>

\* The refcount of cluster c as imageFromFile and getClusterRefcount read
\* it from a file: through the refcount table, 0 without a block.
StoredRefcount(f, c) ==
    LET bd == Pointers(f.page[RefTableCluster], RefTableEntry)[TableIndex(c)]
    IN IF bd = 0 THEN 0 ELSE Counts(f.page[bd])[BlockIndex(c)]

\* The number of references to c: the header, L1 and refcount table
\* clusters, every L1 entry and every entry of a referenced L2 table, and
\* the refcount blocks the new table points at.  A zero entry is empty.
References(f, g, c) ==
    LET l1 == Pointers(f.page[L1Cluster], L1Entry)
        rt == Pointers(g.page[RefTableCluster], RefTableEntry)
        l2(i) == Pointers(f.page[l1[i]], L2Entry)
    IN (IF c \in {HeaderCluster, L1Cluster, RefTableCluster} THEN 1 ELSE 0)
       + IF c = 0 THEN 0
         ELSE Cardinality({i \in L1Entry : l1[i] = c})
              + Cardinality({p \in L1Entry \X L2Entry : l1[p[1]] # 0 /\ l2(p[1])[p[2]] = c})
              + Cardinality({e \in RefTableEntry : rt[e] = c})

\* After rebuildReferenceCounts succeeds, every cluster of the file has the
\* refcount its references give it, as read back through the table.  The
\* rebuild sizes its table by allocateReferenceCountBlocks.
RebuiltRefcountsExact ==
    LET r == Rebuild(file)
    IN r.ok => \A c \in 0..r.file.size - 1 :
                  StoredRefcount(r.file, c) = References(file, r.file, c)

Hdr == INSTANCE Qcow2Header WITH ClusterBits <- MCHeaderClusterBits

\* Spec section 8, property 5: writeToFile then imageHeaderFromFile gives
\* back the header createHeaderForSizeAndPath made, or rejects it.
HeaderIdempotent == Hdr!HeaderIdempotent(req.size, req.backing)

\* CreateImage's header passes the validate of its own reopen.
CreatedImageOpens == Hdr!CreatedImageOpens(req.size, req.backing)

\* The L1 entries of a created image end where its refcount table starts.
CreatedTablesDisjoint == Hdr!CreatedTablesDisjoint(req.size, req.backing)

\* imageHeaderFromFile rejects a bad cluster_bits without crashing.
OpenNeverPanics == Hdr!OpenNeverPanics(req.size, req.bits)

\* imageHeaderFromFile accepts every cluster_bits validateClusterBits allows.
ClusterBitsAccepted == Hdr!ClusterBitsAccepted(req.size, req.bits)

\* Spec section 8, properties 1 and 8: through WriteAt's copy-on-write from
\* the parent and ReadAt's fallthrough, a child reads each byte as last
\* written, or the parent's byte where it never wrote, and no write fails.
ChildReadback == io # NoIo => Bk!ChildReadback(io.parent, io.writes)

\* The response the target builds for the command in xfer, when Data-In.
DataInResponse == Din!BuildResponse(xfer.out, xfer.expected)
IsDataIn == xfer # NoXfer /\ xfer.out.status # "panic" /\ Din!ResponseOpcode(TRUE, xfer.out, xfer.expected) = "SCSIIn"

\* RFC 7143 section 11.7: transferHandler's Data-In PDUs of every command
\* answered with data carry its RawData whole, in order, DataSN 0, 1, ...,
\* in segments of at most MaxRecvDataSegmentLength, status in the last.
DataInCoversData == IsDataIn => Din!DataInCoversData(DataInResponse)

\* RFC 7143 section 12.13: no Data-In sequence transferHandler sends, up to
\* a PDU with the F bit, exceeds MaxBurstLength.
DataInBurstBound == IsDataIn => Din!DataInBurstBound(DataInResponse)

\* RFC 7143 section 11.4.5: the residual count of the status PDU is what
\* was not transferred (buildResponsePackage copies Residual into it).
ResidualCountsUntransferred ==
    IsDataIn => Din!ResidualCountsUntransferred(xfer.out, DataInResponse)

\* A read that ends GOOD having built data is answered by Data-In PDUs that
\* carry it, not by a SCSI Response whose data segment the initiator takes
\* for sense data (scsiCommandHandler's choice of opcode).
GoodReadSendsData ==
    xfer # NoXfer /\ xfer.out.status = "good" /\ xfer.out.len > 0
        => Din!ResponseOpcode(TRUE, xfer.out, xfer.expected) = "SCSIIn"

\* Every SCSI command the target supports is answered: its handler returns
\* a status (GOOD or CHECK CONDITION) rather than panicking the process
\* (spec 4.7 lists MODE SENSE 6/10 among the commands dispatched).
HandlerReturns ==
    xfer # NoXfer => xfer.out.status \in {"good", "check"}
=============================================================================
