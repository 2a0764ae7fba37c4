---------------------------- MODULE Qcow2Backing ----------------------------
(***************************************************************************)
(* Reads and writes of an image with a backing chain (qcow2.go ReadAt,    *)
(* WriteAt and the copy-on-write branch of fileOffsetWrite), byte by     *)
(* byte within clusters of ClusterSize bytes.                             *)
(*                                                                         *)
(* A chain is a sequence of layers: chain[1] is the image opened for      *)
(* writing, chain[i + 1] the backing image of chain[i], opened read-only. *)
(* A layer is its virtual size and its allocated data clusters, a         *)
(* function from cluster index to the cluster's bytes.  Where the         *)
(* clusters live in the file, the L2 tables and the refcounts are left to *)
(* Qcow2Image; here a cluster is allocated or not.                        *)
(***************************************************************************)
EXTENDS Naturals, Sequences, SequencesExt, Functions

CONSTANT ClusterSize

ASSUME ClusterSize \in Nat \ {0}

Min2(a, b) == IF a < b THEN a ELSE b

Zeros(n) == [i \in 1..n |-> 0]

\* QcowRawFile.clusterOffset: the offset of an address in its cluster.
ClusterOffset(a) == a % ClusterSize

ClusterIndex(a) == a \div ClusterSize

\* ImageFile.limitRangeFile: the part of [address, address + count) below
\* the layer's virtual size (its uint64 overflow check never fires at
\* these sizes).
LimitRangeFile(l, address, count) ==
    IF address > l.vsize THEN 0 ELSE Min2(count, l.vsize - address)

\* QcowRawFile.limitRangeCluster: the part that stays in one cluster.
LimitRangeCluster(address, count) ==
    Min2(count, ClusterSize - ClusterOffset(address))

(***************************************************************************)
(* ImageFile.ReadAt on layer i: each cluster's bytes from the layer when  *)
(* allocated (fileOffsetRead), else from the backing image's own ReadAt,  *)
(* else zeros.  The loop advances by count whatever the backing returned. *)
(***************************************************************************)
RECURSIVE ReadAt(_, _, _, _), ReadLoop(_, _, _, _, _, _)
ReadAt(chain, i, address, size) ==
    ReadLoop(chain, i, address, LimitRangeFile(chain[i], address, size), 0, <<>>)

ReadLoop(chain, i, address, readCount, done, buf) ==
    IF done >= readCount THEN buf
    ELSE LET cur == address + done
             count == LimitRangeCluster(cur, readCount - done)
             k == ClusterIndex(cur)
             part == IF k \in DOMAIN chain[i].data
                     THEN SubSeq(chain[i].data[k], ClusterOffset(cur) + 1,
                                 ClusterOffset(cur) + count)
                     ELSE IF i < Len(chain) THEN ReadAt(chain, i + 1, cur, count)
                     ELSE Zeros(count)
         IN ReadLoop(chain, i, address, readCount, done + count, buf \o part)

(***************************************************************************)
(* fileOffsetWrite for an unallocated cluster (qcow2.go:527-545): the     *)
(* initial data is the whole enclosing cluster read from the backing      *)
(* image, or nil without one; getNewCluster writes it with writeCluster,  *)
(* which fails on initial data shorter than a cluster, or zeroes the new  *)
(* cluster.  Result: whether it succeeded and the cluster's bytes.        *)
(***************************************************************************)
\* QcowRawFile.writeCluster refuses initial data shorter than a cluster.
WriteClusterAccepts(initial) == Len(initial) >= ClusterSize

\* Mutant: the new cluster is zeroed even when a backing image exists.
NewDataCluster_NoCopy(chain, cur) == [ok |-> TRUE, bytes |-> Zeros(ClusterSize)]

NewDataCluster(chain, cur) ==
    IF Len(chain) = 1 THEN [ok |-> TRUE, bytes |-> Zeros(ClusterSize)]
    ELSE LET initial == ReadAt(chain, 2, cur - ClusterOffset(cur), ClusterSize)
         IN [ok |-> WriteClusterAccepts(initial), bytes |-> initial]

\* QcowRawFile.WriteAt into a cluster: bytes from lo (1-based) of s
\* replaced by the sequence t.
Splice(s, lo, t) ==
    [j \in 1..Len(s) |-> IF j >= lo /\ j < lo + Len(t) THEN t[j - lo + 1] ELSE s[j]]

(***************************************************************************)
(* ImageFile.WriteAt on chain[1]: for each cluster of the clamped range,  *)
(* fileOffsetWrite, then the bytes.  An error returns at once, keeping    *)
(* the clusters already written.  Result: the chain and whether it failed.*)
(***************************************************************************)
RECURSIVE WriteLoop(_, _, _, _, _)
WriteLoop(chain, address, data, writeCount, done) ==
    IF done >= writeCount THEN [chain |-> chain, err |-> FALSE]
    ELSE LET cur == address + done
             k == ClusterIndex(cur)
             old == IF k \in DOMAIN chain[1].data
                    THEN [ok |-> TRUE, bytes |-> chain[1].data[k]]
                    ELSE NewDataCluster(chain, cur)
             count == LimitRangeCluster(cur, writeCount - done)
         IN IF ~old.ok THEN [chain |-> chain, err |-> TRUE]
            ELSE LET new == Splice(old.bytes, ClusterOffset(cur) + 1,
                                   SubSeq(data, done + 1, done + count))
                     top == [chain[1] EXCEPT !.data = (k :> new) @@ @]
                 IN WriteLoop([chain EXCEPT ![1] = top], address, data,
                              writeCount, done + count)

WriteAt(chain, address, data) ==
    WriteLoop(chain, address, data, LimitRangeFile(chain[1], address, Len(data)), 0)

\* A sequence of WriteAt calls, each a record [addr, data], on chain[1];
\* err records whether any failed.
RECURSIVE WriteAll(_, _)
WriteAll(chain, ws) ==
    IF ws = <<>> THEN [chain |-> chain, err |-> FALSE]
    ELSE LET r == WriteAt(chain, Head(ws).addr, Head(ws).data)
             rest == WriteAll(r.chain, Tail(ws))
         IN [chain |-> rest.chain, err |-> r.err \/ rest.err]

(***************************************************************************)
(* Spec section 8, properties 1 and 8: a child image over a parent reads  *)
(* the parent's bytes until it writes them, and then its own; every write *)
(* inside the virtual size succeeds.                                      *)
(***************************************************************************)
\* The bytes a reader expects at address a after writes ws over parent p.
Expected(p, ws, a) ==
    LET hits == {i \in 1..Len(ws) : ws[i].addr <= a /\ a < ws[i].addr + Len(ws[i].data)}
    IN IF hits = {}
       THEN IF ClusterIndex(a) \in DOMAIN p.data
            THEN p.data[ClusterIndex(a)][ClusterOffset(a) + 1] ELSE 0
       ELSE LET i == CHOOSE j \in hits : \A m \in hits : m <= j
            IN ws[i].data[a - ws[i].addr + 1]

\* CreateImageFromBacking: a new image with the backing image's virtual
\* size and no data clusters, over that image.
CreateChild(parent) ==
    <<[vsize |-> parent.vsize, data |-> [k \in {} |-> <<>>]], parent>>

ChildReadback(parent, ws) ==
    LET r == WriteAll(CreateChild(parent), ws)
    IN /\ ~r.err
       /\ ReadAt(r.chain, 1, 0, parent.vsize) = [a \in 1..parent.vsize |-> Expected(parent, ws, a - 1)]
=============================================================================
