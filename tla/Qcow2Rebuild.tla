---------------------------- MODULE Qcow2Rebuild ----------------------------
(***************************************************************************)
(* referenceCountRebuild.go: the refcounts of an image are recomputed     *)
(* from its L1 and L2 tables when imageFromFile finds the first refcount  *)
(* zero or the lazy-refcounts bit set.  Rebuild(f) is the file the        *)
(* rebuild leaves, or ok = FALSE when it returns an error.                *)
(***************************************************************************)
EXTENDS Qcow2Layout, SequencesExt

\* Sizes computed at referenceCountRebuild.go:8-26.
RebuildMaxClusters == L1Clusters + NumL2Clusters + NumClusters + 1
RebuildBlockClusters == DivRoundUp(RebuildMaxClusters, RefcountBlockEntries)
RebuildTableClusters == DivRoundUp(RebuildBlockClusters, PointersPerCluster)
RebuildMaxValidIndex ==
    LET forRefcounts == DivRoundUp(RebuildBlockClusters + RebuildTableClusters,
                                   RefcountBlockEntries)
    IN RebuildMaxClusters + RebuildBlockClusters + RebuildTableClusters
         + forRefcounts + DivRoundUp(forRefcounts, RefcountBlockEntries)

\* The L2 tables and data clusters reachable from the L1 table on disk
\* (setDataReferenceCounts): one entry per reference, in a sequence so
\* that a cluster referenced twice is counted twice.
L2Refs(f) ==
    LET l1 == Pointers(f.page[L1Cluster], L1Entry)
    IN SelectSeq([i \in 1..NumL2Clusters |-> l1[i - 1]], LAMBDA a : a # 0)

DataRefs(f, l2) ==
    LET p == Pointers(f.page[l2], L2Entry)
    IN SelectSeq([i \in 1..L2Size |-> p[i - 1]], LAMBDA a : a # 0)

TableReadable(f) ==
    /\ Decodable(f.page[L1Cluster], "l1")
    /\ \A i \in 1..Len(L2Refs(f)) : Decodable(f.page[L2Refs(f)[i]], "l2")

\* Header, L1 clusters, reachable L2 and data clusters, refcount table.
AllRefs(f) ==
    <<HeaderCluster, L1Cluster>>
      \o L2Refs(f)
      \o FoldLeft(LAMBDA acc, l2 : acc \o DataRefs(f, l2), <<>>, L2Refs(f))
      \o <<RefTableCluster>>

RefCount(refs, i) == Cardinality({k \in 1..Len(refs) : refs[k] = i})

\* The k smallest elements of S, in ascending order.
RECURSIVE SmallestOf(_, _)
SmallestOf(S, k) ==
    IF k = 0 \/ S = {} THEN <<>> ELSE <<Min(S)>> \o SmallestOf(S \ {Min(S)}, k - 1)

\* allocateReferenceCountBlocks: table entries get the free indices
\* first-fit.  The number of entries allocated is
\* referenceCountTableEntries = DivRoundUp(blocks, pointersPerCluster).

RebuildBlockAddrs(refs) ==
    SmallestOf({i \in 0..RebuildMaxValidIndex - 1 : RefCount(refs, i) = 0},
               RebuildTableClusters)

\* Mutant: the refcount blocks are not counted as references to themselves.
RebuildCounts_NoSelf(refs) == [i \in 0..RebuildMaxValidIndex - 1 |-> RefCount(refs, i)]

RebuildCounts(refs) ==
    LET blocks == RebuildBlockAddrs(refs)
    IN [i \in 0..RebuildMaxValidIndex - 1 |->
           RefCount(refs, i) + IF i \in ToSet(blocks) THEN 1 ELSE 0]

\* writeReferenceCountBlocks: block j holds counts[j*R .. (j+1)*R), padded
\* with zeros past the end of counts; the table write covers only the
\* allocated entries and leaves the rest of the table cluster as it was.
BlockAt(counts, j) ==
    [e \in BlockEntry |->
        LET i == j * RefcountBlockEntries + e
        IN IF i < RebuildMaxValidIndex THEN counts[i] ELSE 0]

RebuiltFile(f, refs) ==
    LET blocks == RebuildBlockAddrs(refs)
        counts == RebuildCounts(refs)
        blockOf(c) == CHOOSE j \in 1..Len(blocks) : blocks[j] = c
        oldTable == Pointers(f.page[RefTableCluster], RefTableEntry)
        table == [e \in RefTableEntry |->
                    IF e < Len(blocks) THEN blocks[e + 1] ELSE oldTable[e]]
    IN [page |-> [c \in Cluster |->
                    CASE c = HeaderCluster -> HeaderContent(FALSE)
                      [] c = RefTableCluster -> RefTableContent(table)
                      [] c \in ToSet(blocks) -> BlockContent(BlockAt(counts, blockOf(c) - 1))
                      [] OTHER -> f.page[c]],
        size |-> Max({f.size} \cup {c + 1 : c \in ToSet(blocks)})]

Rebuild(f) ==
    LET refs == AllRefs(f)
    IN IF /\ TableReadable(f)
          /\ Decodable(f.page[RefTableCluster], "rt")
          /\ f.size - 1 <= RebuildMaxValidIndex
          /\ \A k \in 1..Len(refs) : refs[k] < RebuildMaxValidIndex
          /\ Len(RebuildBlockAddrs(refs)) = RebuildTableClusters
       THEN [ok |-> TRUE, file |-> RebuiltFile(f, refs)]
       ELSE [ok |-> FALSE, file |-> f]
=============================================================================
