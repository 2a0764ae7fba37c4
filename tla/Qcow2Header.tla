----------------------------- MODULE Qcow2Header -----------------------------
(***************************************************************************)
(* The QCOW2 header as pkg/qcow2 creates, writes, reads and validates it  *)
(* (qcow2header.go): createHeaderForSizeAndPath, toByte and writeToFile,  *)
(* imageHeaderFromFile with preComputeTableSizes, and validate with each  *)
(* of its checks in the code's order.                                     *)
(*                                                                         *)
(* A header is the record of its fields.  The on-disk form keeps every    *)
(* field toByte writes, at its width, and the bytes after the 104-byte    *)
(* header: the compression byte only when Length > 104, else the zero     *)
(* header-extension area, and the backing-file path, of which only the    *)
(* length matters here.  The feature words are sets of named bits.        *)
(*                                                                         *)
(* DefaultClusterBits (16) is the constant ClusterBits so that tables     *)
(* that span several clusters fit TLC's integers; every formula of the    *)
(* code is kept as it is in the cluster size.                             *)
(***************************************************************************)
EXTENDS Integers, TLC

\* DefaultClusterBits, the cluster_bits of created images.
CONSTANT ClusterBits

NoBacking == -1

ASSUME ClusterBits \in 9..30

QcowMagic == "QFI\\xfb"
MaxBackingFileNameSize == 1023
L1TableMaxSize == 32 * 1024 * 1024
V3BareHeaderSize == 104
EmptyHeaderExtensionAreaSize == 8
DefaultRefcountOrder == 4

CreateError == [err |-> "create"]
Rejected == [err |-> "rejected"]
\* An integer division by zero: the Go runtime panics.
Panic == [err |-> "panic"]

\* util.go divRoundUp and getClusterSize.
DivRoundUp(a, b) == (a + b - 1) \div b
ClusterSizeOf(bits) == IF bits >= 64 THEN 0 ELSE 2^bits

\* diskSizeLimitForCluster: L1TableMaxSize * clusterSize * clusterSize / 8
\* / 8 in uint64.  The sizes are powers of two, so the product is 2^p and
\* is 0 modulo 2^64 once p >= 64.  SizeOverLimit compares a size with it.
SizeOverLimit(size, bits) ==
    LET p == 25 + 2 * bits
    IN IF p >= 64 THEN size > 0 ELSE p - 6 < 31 /\ size > 2^(p - 6)

\* maxRefCountClusters and findRefcountTableClustersNumber: 2-byte
\* refcounts; the refcount table holds one 8-byte entry per block.
MaxRefCountClusters(numClusters, numL2, l1Clusters, cs) ==
    LET forData == DivRoundUp((numClusters + numL2 + l1Clusters + 1) * 2, cs)
    IN forData + DivRoundUp(forData * 2, cs)

FindRefcountTableClustersNumber(numClusters, numL2, l1Clusters, cs) ==
    DivRoundUp(MaxRefCountClusters(numClusters, numL2, l1Clusters, cs) * 8, cs)

\* preComputeTableSizes: the geometry derived from the size and cluster size.
\* getClusterSize is uint64(1 << bits): 0 once bits >= 64, and l2Size is 0
\* below 3 bits; divRoundUp by either divides by zero.
PreComputeTableSizes(h) ==
    IF h.clusterSize = 0 \/ h.clusterSize \div 8 = 0 THEN Panic ELSE
    LET numClusters == DivRoundUp(h.size, h.clusterSize)
        l2Size == h.clusterSize \div 8
        numL2 == DivRoundUp(numClusters, l2Size)
        l1Clusters == DivRoundUp(numL2, h.clusterSize)
    IN [h EXCEPT !.numClusters = numClusters, !.l2Size = l2Size, !.numL2Clusters = numL2,
                 !.l1Clusters = l1Clusters,
                 !.rcComputed = FindRefcountTableClustersNumber(numClusters, numL2, l1Clusters,
                                                                h.clusterSize)]

(***************************************************************************)
(* The header createHeaderForSizeAndPath lays out for cluster_bits bits:  *)
(* header at 0, L1 table at one cluster, the refcount table after the L1  *)
(* clusters, the backing path right after the empty extension area.       *)
(***************************************************************************)
LayoutHeader(size, backing, bits) ==
    LET cs == ClusterSizeOf(bits)
        numClusters == DivRoundUp(size, cs)
        numL2 == DivRoundUp(numClusters, cs \div 8)
        l1Clusters == DivRoundUp(numL2, cs)
    IN [magic |-> QcowMagic, version |-> 3,
        bfOffset |-> IF backing = NoBacking THEN 0
                     ELSE V3BareHeaderSize + EmptyHeaderExtensionAreaSize,
        bfSize |-> IF backing = NoBacking THEN 0 ELSE backing,
        clusterBits |-> bits, size |-> size, crypt |-> 0,
        l1Size |-> numL2, l1Offset |-> cs, rtOffset |-> cs * (l1Clusters + 1),
        rtClusters |-> FindRefcountTableClustersNumber(numClusters, numL2, l1Clusters, cs),
        nbSnapshots |-> 0, snapOffset |-> 0,
        incompat |-> {}, compat |-> {}, autoclear |-> {},
        refcountOrder |-> DefaultRefcountOrder, length |-> V3BareHeaderSize,
        compression |-> 0, backing |-> backing, clusterSize |-> cs,
        numClusters |-> 0, l2Size |-> 0, numL2Clusters |-> 0, l1Clusters |-> 0,
        rcComputed |-> 0]

\* createHeaderForSizeAndPath: a path longer than the space left in the
\* header cluster, or a size over diskSizeLimitForCluster, is an error.
CreateHeader(size, backing) ==
    LET maxLength == ClusterSizeOf(ClusterBits) - V3BareHeaderSize - EmptyHeaderExtensionAreaSize
    IN IF backing # NoBacking /\ backing > maxLength THEN CreateError
       ELSE IF SizeOverLimit(size, ClusterBits) THEN CreateError
       ELSE PreComputeTableSizes(LayoutHeader(size, backing, ClusterBits))

(***************************************************************************)
(* writeToFile (toByte, the empty extension area, the backing path): the  *)
(* fields as stored.  The byte after the 104-byte header is the           *)
(* compression type only when Length is not 104; otherwise it is the      *)
(* first byte of the zero extension area.                                  *)
(***************************************************************************)
OnDiskFields == {"magic", "version", "bfOffset", "bfSize", "clusterBits", "size", "crypt",
                 "l1Size", "l1Offset", "rtOffset", "rtClusters", "nbSnapshots", "snapOffset",
                 "incompat", "compat", "autoclear", "refcountOrder", "length"}

WriteHeader(h) ==
    [f \in OnDiskFields \cup {"byte104", "path"} |->
        CASE f = "byte104" -> IF h.length = V3BareHeaderSize THEN 0 ELSE h.compression
          [] f = "path" -> h.backing
          [] OTHER -> h[f]]


\* offsetIsClusterBoundary: offset & (clusterSize - 1) = 0.
OnClusterBoundary(offset, cs) == offset % cs = 0

IncompatibleUnsupported == {"compressionType", "externalDataFile", "extendedL2Entries"}
AutoClearUnsupported == {"rawExternalData", "bitmapsExtension"}

(***************************************************************************)
(* validate: the checks in the order the code makes them; the first that  *)
(* fails rejects the header.  The dirty and corrupt bits are accepted:    *)
(* validateIncompatibleFeatures records them on the copy validate's value *)
(* receiver made, so the header read keeps neither flag.                  *)
(***************************************************************************)
Valid(h) ==
    /\ h.magic = QcowMagic
    /\ h.version = 3
    /\ (h.bfOffset = 0 => h.bfSize = 0)
    /\ (h.bfSize = 0 => h.bfOffset = 0)
    /\ h.bfSize <= MaxBackingFileNameSize
    /\ h.clusterBits \in 9..30
    /\ ~SizeOverLimit(h.size, h.clusterBits)
    /\ h.crypt = 0
    /\ h.l1Size <= L1TableMaxSize
    /\ h.l1Offset <= h.size
    /\ h.rtClusters # 0
    /\ h.nbSnapshots = 0
    /\ h.incompat \cap IncompatibleUnsupported = {}
    /\ h.autoclear \cap AutoClearUnsupported = {}
    /\ h.refcountOrder = 4
    /\ h.length >= V3BareHeaderSize
    /\ \A o \in {h.l1Offset, h.snapOffset, h.rtOffset} : OnClusterBoundary(o, h.clusterSize)
    /\ h.numL2Clusters <= L1TableMaxSize
    /\ h.rtClusters <= 2 * h.rcComputed
    /\ h.l1Clusters + h.rcComputed <= L1TableMaxSize

\* The fields read without the backing-file path.
ReadFields_NoBackingPath(d) ==
    [f \in OnDiskFields |-> d[f]]
      @@ [compression |-> IF d.length > V3BareHeaderSize THEN d.byte104 ELSE 0,
          backing |-> NoBacking,
          clusterSize |-> ClusterSizeOf(d.clusterBits),
          numClusters |-> 0, l2Size |-> 0, numL2Clusters |-> 0, l1Clusters |-> 0,
          rcComputed |-> 0]

\* The header fields as the file holds them, before preComputeTableSizes.
ReadFields(d) ==
    [f \in OnDiskFields |-> d[f]]
      @@ [compression |-> IF d.length > V3BareHeaderSize THEN d.byte104 ELSE 0,
          backing |-> IF d.bfOffset # 0 /\ d.bfSize # 0 THEN d.path ELSE NoBacking,
          clusterSize |-> ClusterSizeOf(d.clusterBits),
          numClusters |-> 0, l2Size |-> 0, numL2Clusters |-> 0, l1Clusters |-> 0,
          rcComputed |-> 0]

(***************************************************************************)
(* imageHeaderFromFile: read every field, the compression byte when       *)
(* Length > 104 and the backing path when its offset and size are both    *)
(* non-zero; then preComputeTableSizes, then validate.                    *)
(***************************************************************************)
HeaderFromFile(d) ==
    LET h == PreComputeTableSizes(ReadFields(d))
    IN IF h = Panic THEN Panic
       ELSE IF Valid(h) THEN h ELSE Rejected

\* A file another tool laid out the same way with cluster_bits bits; a
\* cluster size the layout cannot be computed for is a corrupt field.
ForeignFile(size, bits) ==
    IF bits \in 3..62
    THEN WriteHeader(LayoutHeader(size, NoBacking, bits))
    ELSE [WriteHeader(LayoutHeader(size, NoBacking, ClusterBits)) EXCEPT !.clusterBits = bits]

-----------------------------------------------------------------------------
(* Properties of one CreateImage(size, backing) call, with backing a path *)
(* length or NoBacking, and of one file of another tool with that size    *)
(* and cluster_bits bits (0..30 or 64, within TLC's integers).            *)

\* Spec section 8, property 5: reading back a header CreateImage wrote
\* gives the header that was written (createHeaderForSizeAndPath,
\* writeToFile, imageHeaderFromFile), unless validate rejects it.
HeaderIdempotent(size, backing) ==
    LET h == CreateHeader(size, backing)
    IN h # CreateError => HeaderFromFile(WriteHeader(h)) \in {h, Rejected}

\* CreateImage hands the file it wrote to imageFromFile: every header
\* createHeaderForSizeAndPath accepts must pass validate.
CreatedImageOpens(size, backing) ==
    LET h == CreateHeader(size, backing)
    IN h # CreateError => HeaderFromFile(WriteHeader(h)) # Rejected

\* The l1Size 8-byte L1 entries written from l1TableOffset end before
\* refCountTableOffset, where createHeaderForSizeAndPath puts the refcount
\* table.
CreatedTablesDisjoint(size, backing) ==
    LET h == CreateHeader(size, backing)
    IN h # CreateError => h.l1Offset + 8 * h.l1Size <= h.rtOffset

\* imageHeaderFromFile rejects a file with a bad cluster_bits, it does not
\* crash the process.
OpenNeverPanics(size, bits) == HeaderFromFile(ForeignFile(size, bits)) # Panic

\* A file with a cluster_bits validateClusterBits allows (9..30) and a
\* virtual size of at least one cluster is accepted.
ClusterBitsAccepted(size, bits) ==
    bits \in 9..30 /\ size >= ClusterSizeOf(bits)
        => HeaderFromFile(ForeignFile(size, bits)) # Rejected

====
