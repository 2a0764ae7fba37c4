---------------------------- MODULE Qcow2Layout ----------------------------
(***************************************************************************)
(* The on-disk layout of a QCOW2 image as pkg/qcow2 lays it out, with     *)
(* sizes counted in clusters.  A cluster's content is abstracted to what  *)
(* it holds: nothing (all zero bytes), the header, the L1 table, the      *)
(* refcount table, an L2 table, a refcount block or a guest data value.   *)
(* Byte encodings (big-endian words, the ClusterUsedFlag bit, masks) are  *)
(* left out: they map a table to bytes and back unchanged.                *)
(***************************************************************************)
EXTENDS Naturals, Sequences, FiniteSets

CONSTANTS
    NumClusters,          \* guest clusters: header.numClusters
    L2Size,               \* pointers per L2 table: header.l2Size
    RefcountBlockEntries, \* refcounts per refcount block
    PointersPerCluster    \* 64-bit pointers per cluster (clusterSize / 8)

ASSUME /\ NumClusters \in Nat \ {0}
       /\ L2Size \in Nat \ {0}
       /\ RefcountBlockEntries \in Nat \ {0}
       /\ PointersPerCluster \in Nat \ {0}

\* util.go divRoundUp
DivRoundUp(a, b) == (a + b - 1) \div b

\* qcow2header.go preComputeTableSizes: one L1 cluster, and the fixed
\* placement of createHeaderForSizeAndPath: header at cluster 0, L1 at
\* cluster 1 (l1TableOffset = clusterSize), refcount table after the L1.
NumL2Clusters == DivRoundUp(NumClusters, L2Size)
L1Clusters == 1
HeaderCluster == 0
L1Cluster == 1
RefTableCluster == L1Clusters + 1
RefTableClusters == 1

\* qcow2header.go maxRefCountClusters: the number of refcount table
\* entries newReferenceCount reads.
MaxRefCountClusters ==
    LET n == NumClusters + NumL2Clusters + L1Clusters + 1
        forData == DivRoundUp(n, RefcountBlockEntries)
    IN forData + DivRoundUp(forData, RefcountBlockEntries)

\* referenceCount.go newReferenceCountWriteBack: the last cluster whose
\* refcount the table can hold.
MaxValidCluster == MaxRefCountClusters * RefcountBlockEntries - 1

GuestCluster == 0..NumClusters - 1
L1Entry == 0..NumL2Clusters - 1
L2Entry == 0..L2Size - 1
RefTableEntry == 0..MaxRefCountClusters - 1
BlockEntry == 0..RefcountBlockEntries - 1
Cluster == 0..MaxValidCluster

\* pointer_table_caches.go l1TableIndex, l2TableIndex
L1Index(g) == g \div L2Size
L2Index(g) == g % L2Size

\* referenceCount.go getRefcountIndex
TableIndex(c) == c \div RefcountBlockEntries
BlockIndex(c) == c % RefcountBlockEntries

(***************************************************************************)
(* Cluster contents.                                                       *)
(***************************************************************************)
ZeroContent == [kind |-> "zero"]
HeaderContent(lazy) == [kind |-> "header", lazy |-> lazy]
L1Content(p) == [kind |-> "l1", ptr |-> p]
RefTableContent(p) == [kind |-> "rt", ptr |-> p]
L2Content(p) == [kind |-> "l2", ptr |-> p]
BlockContent(n) == [kind |-> "rb", cnt |-> n]
DataContent(v) == [kind |-> "data", v |-> v]

NoPointers(D) == [i \in D |-> 0]

\* A cluster can be read as a table of kind k when it holds one or holds
\* only zero bytes.  Reading it as anything else decodes foreign bytes.
Decodable(c, k) == c.kind \in {k, "zero"}

\* rawFile.readPointerTable / readRefCountBlock: zero bytes decode as zero
\* entries.  The operators are total; a reader that decodes foreign bytes
\* checks Decodable first and stops following the code there.
Pointers(c, D) == [i \in D |-> IF "ptr" \in DOMAIN c /\ i \in DOMAIN c.ptr THEN c.ptr[i] ELSE 0]
Counts(c) == [i \in BlockEntry |-> IF "cnt" \in DOMAIN c THEN c.cnt[i] ELSE 0]

\* The guest value a data cluster holds; 0 is the zero-filled cluster.
GuestValue(c) == IF c.kind = "data" THEN c.v ELSE 0

\* A file: the content of every cluster and the file size in clusters.
File == [page : [Cluster -> [kind : {"zero"}] \cup [kind : {"header"}, lazy : BOOLEAN]
                   \cup [kind : {"l1"}, ptr : [L1Entry -> Cluster]]
                   \cup [kind : {"rt"}, ptr : [RefTableEntry -> Cluster]]
                   \cup [kind : {"l2"}, ptr : [L2Entry -> Cluster]]
                   \cup [kind : {"rb"}, cnt : [BlockEntry -> Nat]]
                   \cup [kind : {"data"}, v : Nat]],
         size : 0..MaxValidCluster + 1]
=============================================================================
