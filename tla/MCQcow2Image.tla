---------------------------- MODULE MCQcow2Image ----------------------------
EXTENDS Qcow2Image

\* Three guest clusters in two L2 tables, eight refcounts per block and two
\* pointers per cluster: two refcount table entries, sixteen clusters.
MCNumClusters == 3
MCL2Size == 2
MCRefcountBlockEntries == 8
MCPointersPerCluster == 2
MCValues == {1}

\* Four refcounts per block: the two table entries count twelve clusters,
\* which three guest clusters and their tables can fill.
MCRefcountBlockEntriesSmall == 4
====
