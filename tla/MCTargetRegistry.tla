-------------------------- MODULE MCTargetRegistry --------------------------
EXTENDS TargetRegistry

\* Four LUN numbers stand for the 256 of availableLunNumbers: with five
\* requests at most four attaches reach one target, so the table never fills
\* in the passing run.
MCLunIds == 0..3
\* Two LUN numbers when the bitmap need not be large.
MCSmallLunIds == 0..1
\* add n1, add n2, delete n1, add n1, attach: the shortest sequence in which
\* a tid could be given twice.
MCMaxRequests == 5
\* add, attach, detach, detach, then one more request: two clients detach
\* the same LUN and a later request needs its DevicesLock.
MCRaceRequests == 5

\* Logical units of four blocks, LBAs modulo 2^3: an LBA of 6 or 7 plus a
\* transfer length wraps past the top as one near 2^64 does.
MCLuBlocks == 4
MCAddrBits == 3
\* Byte counts of 2 blocks' width: a READ(16) or WRITE SAME(16) of the whole
\* 4-block disk shifts to a byte count of 0, as one of 2^23 blocks does.
MCLenBits == 2

C(op, lba, tl, buf, flags) == [op |-> op, lba |-> lba, tl |-> tl, buf |-> buf, flags |-> flags]

\* Commands inside, across and past the end of the device, ones whose end
\* wraps, an empty transfer at the end, whole-disk transfers whose byte
\* count overflows, rejected flag bits, a sync and a non-block command, all
\* as a well-behaved initiator sends them.
MCCdbs ==
    { C("read", 0, 2, 0, {}), C("read", 3, 2, 0, {}), C("read", 7, 2, 0, {}),
      C("read", 4, 0, 0, {}), C("read", 1, 1, 0, {"protect"}),
      C("write", 2, 2, 2, {}), C("write", 6, 3, 3, {}), C("write", 3, 0, 0, {}),
      C("writesame", 1, 3, 1, {}), C("writesame", 5, 4, 1, {}),
      C("writesame", 0, 1, 1, {"unmap"}),
      C("read", 0, 4, 0, {}), C("writesame", 0, 4, 1, {}),
      C("sync", 7, 2, 0, {}), C("other", 0, 0, 0, {}) }

\* A write whose Data-Out buffer (ExpectedDataTransferLength) is one block
\* longer than its transfer length.
MCOverlongCdbs == { C("write", 0, 1, 2, {}), C("read", 0, 2, 0, {}) }
Spc == INSTANCE ScsiPrimary
SeqX == INSTANCE SequencesExt

\* An allocation length that holds the header and an entry for every LUN
\* number plus LUN 0.
MCReportLunsAlloc == 8 + 8 * (Cardinality(MCLunIds) + 1)

\* REPORT LUNS on a target of the driver, answered with MCReportLunsAlloc
\* bytes of data-in buffer, lists to the initiator exactly the LUNs
\* attached to it, and LUN 0, whatever order SPCReportLuns ranges over
\* target.Devices in.
ReportLunsListsDevices ==
    \A n \in drv : \A order \in SeqX!SetToSeqs(Attached(n)) :
        Spc!ListedLuns(Spc!Received(Spc!ReportLunsData(Attached(n), order, MCReportLunsAlloc),
                                    MCReportLunsAlloc))
            = Attached(n) \cup {0}
=============================================================================
