------------------------------ MODULE ScsiBlock ------------------------------
(***************************************************************************)
(* The block-command path of a logical unit: PerformCommand's dispatch     *)
(* (scsi/lun.go), the SBC read, write, write-same and synchronize-cache    *)
(* handlers with validateOffsetLength (scsi/sbc.go), the CDB field parsing *)
(* (scsi/scsi.go), the backing-store calls (scsi/backingstore.go) and the  *)
(* image's clipping of an access to the virtual disk (qcow2.go            *)
(* limitRangeFile).                                                        *)
(*                                                                         *)
(* Addresses and lengths are counted in logical blocks and the uint64      *)
(* arithmetic of LBAs is kept modulo 2^AddrBits, a scaled 64-bit width, so *)
(* that an LBA near the top of the range wraps as it does in the code.     *)
(* The byte length transferLength << BlockShift is a uint32: in blocks it  *)
(* is kept modulo 2^LenBits (32 - BlockShift = 23 in the code).  Only the  *)
(* 32-bit count of a 16-byte CDB reaches that width, so in the model a     *)
(* count of 2^LenBits or more stands for one.                           *)
(*                                                                         *)
(* A CDB is the record of the fields the handlers read: opcode class, LBA, *)
(* transfer length, the flag bits of byte 1 and the length of the Data-Out *)
(* buffer.                                                                 *)
(***************************************************************************)
EXTENDS Integers

CONSTANTS
    LuBlocks,   \* device.Size >> device.BlockShift of every logical unit
    AddrBits,   \* width of the LBA arithmetic (64 in the code)
    LenBits     \* width of TransferLength in blocks (32 - BlockShift)

ASSUME LuBlocks \in Nat /\ AddrBits \in Nat \ {0} /\ LenBits \in Nat \ {0}

Word == 2^AddrBits

\* uint64 addition.
AddU64(a, b) == (a + b) % Word

\* command.TransferLength = transferLength << device.BlockShift, a uint32,
\* counted back in blocks: the high bits of the count are shifted out.
TransferBlocks(tl) == tl % 2^LenBits

CdbOps == {"read", "write", "writesame", "sync", "other"}
CdbFlags == {"protect", "anchor", "unmap", "lbpbdata", "fua"}
Cdb == [op : CdbOps, lba : 0..(Word - 1), tl : Nat, flags : SUBSET CdbFlags,
        buf : Nat]

\* What a command did to the backing store: nothing, a sync, or a read or
\* write of len blocks at off.
NoAccess == [kind |-> "none", off |-> 0, len |-> 0]

\* A CDB of no block command (as before any command was received).
NoCdb == [op |-> "other", lba |-> 0, tl |-> 0, flags |-> {}, buf |-> 0]

\* getSCSIReadWriteOffset / getSCSIReadWriteCount: the LBA and transfer
\* length of READ, WRITE, WRITE SAME and SYNCHRONIZE CACHE CDBs; 0 for any
\* other opcode.
ReadWriteOffset(cdb) == IF cdb.op = "other" THEN 0 ELSE cdb.lba
ReadWriteCount(cdb) == IF cdb.op = "other" THEN 0 ELSE cdb.tl

\* Mutant: validateOffsetLength without the uint64 wrap test.
ValidateOffsetLength_NoWrap(tl, lba, size) ==
    IF tl # 0 THEN ~(AddU64(lba, tl) > size) ELSE lba < size

\* validateOffsetLength: a non-empty transfer must neither wrap nor end
\* past the device; an empty one must start inside it.
ValidateOffsetLength(tl, lba, size) ==
    IF tl # 0
      THEN ~(AddU64(lba, tl) < lba \/ AddU64(lba, tl) > size)
      ELSE lba < size

\* ImageFile.limitRangeFile: the part of an access the image performs,
\* cut at the end of the virtual disk; 0 when the end would wrap.
LimitRangeFile(addr, count) ==
    IF Word - 1 - addr < count \/ addr > LuBlocks THEN 0
    ELSE IF count < LuBlocks - addr THEN count ELSE LuBlocks - addr

Access(kind, off, count) == [kind |-> kind, off |-> off, len |-> LimitRangeFile(off, count)]

(***************************************************************************)
(* The backing-store access PerformCommand makes for a CDB on an open     *)
(* logical unit.  SBCRead reads TransferLength (the truncated byte length) *)
(* worth of blocks; SbcWrite writes the whole Data-Out buffer at the LBA   *)
(* (HandleWrite); SbcWriteSame16 writes the one-block buffer once per      *)
(* block of TransferLength; SbcSyncCache syncs without any                 *)
(* range check.  Flag bits the handlers reject and a failed range check    *)
(* answer CHECK CONDITION before any access.                               *)
(***************************************************************************)
BackingAccess(cdb) ==
    LET lba == ReadWriteOffset(cdb)
        tl == ReadWriteCount(cdb)
        inRange == ValidateOffsetLength(tl, lba, LuBlocks)
    IN CASE cdb.op = "read" ->
              IF "protect" \in cdb.flags \/ ~inRange THEN NoAccess
              ELSE Access("read", lba, TransferBlocks(tl))
         [] cdb.op = "write" ->
              IF "protect" \in cdb.flags \/ ~inRange THEN NoAccess
              ELSE Access("write", lba, cdb.buf)
         [] cdb.op = "writesame" ->
              IF {"anchor", "unmap", "protect", "lbpbdata"} \cap cdb.flags # {}
                 \/ ~inRange \/ cdb.buf # 1
                THEN NoAccess
              ELSE Access("write", lba, TransferBlocks(tl))
         [] cdb.op = "sync" -> [NoAccess EXCEPT !.kind = "sync"]
         [] OTHER -> NoAccess

(***************************************************************************)
(* A CDB as a well-behaved initiator sends it: a write's Data-Out buffer   *)
(* (ExpectedDataTransferLength) is its transfer length, and WRITE SAME     *)
(* carries one block.                                                      *)
(***************************************************************************)
WellFormed(cdb) ==
    /\ cdb.op = "write" => cdb.buf = cdb.tl
    /\ cdb.op = "writesame" => cdb.buf = 1

=============================================================================
