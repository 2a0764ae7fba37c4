---------------------------- MODULE ScsiPrimary ----------------------------
(***************************************************************************)
(* The SPC commands that return parameter data (spc.go, spc_inquiry.go)   *)
(* and the block READ (backingstore.go HandleRead), as what they leave in *)
(* the SCSICommand for the iSCSI layer: the status, whether SenseBuffer is *)
(* set, InSDBBuffer.Residual, and the number of bytes of parameter data   *)
(* the handler built.  The bytes themselves are kept only for REPORT LUNS, *)
(* whose layout a property reads.                                         *)
(*                                                                         *)
(* InSDBBuffer is allocated by scsiCommandHandler with Length = the        *)
(* command's ExpectedDataTransferLength and Residual 0; a handler that     *)
(* does not assign Residual leaves that 0.                                 *)
(***************************************************************************)
EXTENDS Naturals, Sequences, FiniteSets

\* standardInquiryData: 5 bytes of fixed header, then TPGS, flags, CMDQUE,
\* vendor (8), product (16), revision (4), 22 reserved bytes and the 16-byte
\* VersionDescription.
StdInquiryLength == 5 + 3 + 8 + 16 + 4 + 22 + 16

\* BuildSenseData: fixed-format sense, ADDITIONAL SENSE LENGTH 0xa plus 8.
SenseLength == 18

Outcome(st, sense, resid, len) == [status |-> st, sense |-> sense, resid |-> resid, len |-> len]

\* BuildSenseData(...) and return SAMStatCheckCondition, Residual untouched.
\* len is then the sense data built.
CheckCondition == Outcome("check", TRUE, 0, SenseLength)

(***************************************************************************)
(* SPCInquiry.  page is 0 or another code for standard data, "known" or   *)
(* "unknown" for a VPD page; vpdLen is the length of the page built.     *)
(* Truncated VPD data sets Residual to the page length; standard data     *)
(* sets it to the allocation length when that is below the additional     *)
(* length (len - 5), else to the data length.                             *)
(***************************************************************************)
Inquiry(evpd, page, alloc, vpdLen) ==
    IF evpd
    THEN IF page = "unknown" THEN CheckCondition
         ELSE Outcome("good", FALSE, IF alloc < vpdLen THEN vpdLen ELSE 0, vpdLen)
    ELSE IF page # 0 THEN CheckCondition
         ELSE Outcome("good", FALSE,
                      IF alloc < StdInquiryLength - 5 THEN alloc ELSE StdInquiryLength,
                      StdInquiryLength)

(***************************************************************************)
(* SPCReportLuns on a target whose Devices hold the LUN numbers luns,     *)
(* ranged over in the order order (Go map iteration order is unspecified). *)
(* An 8-byte header with the list length; when LUN 0 has no device, four  *)
(* zero bytes for it and 8 taken off remainingLength; then one 8-byte     *)
(* entry per LUN until remainingLength, a uint32, is exactly 0.           *)
(***************************************************************************)
\* remainingLength -= 8 in uint32.  TLC's integers stop below 2^31, so the
\* modulus is 2^30: a wrapped remainder then needs 2^27 more entries to
\* reach 0 again, as it needs 2^29 in the code; a target has at most 256.
Uint32Modulus == 2^30
Sub32(a, b) == (a + Uint32Modulus - b) % Uint32Modulus

RECURSIVE LunEntries(_, _)
LunEntries(order, remaining) ==
    IF order = <<>> \/ remaining = 0 THEN <<>>
    ELSE <<0, Head(order), 0, 0, 0, 0, 0, 0>> \o LunEntries(Tail(order), Sub32(remaining, 8))

ReportLunsData(luns, order, alloc) ==
    LET noLun0 == 0 \notin luns
        avail == 8 * Cardinality(luns) + (IF noLun0 THEN 8 ELSE 0)
        header == <<0, 0, avail \div 256, avail % 256, 0, 0, 0, 0>>
    IN header \o (IF noLun0 THEN <<0, 0, 0, 0>> ELSE <<>>)
              \o LunEntries(order, IF noLun0 THEN Sub32(alloc, 8) ELSE alloc)

ReportLuns(luns, order, alloc) ==
    IF alloc < 16 THEN CheckCondition
    ELSE Outcome("good", FALSE, alloc, Len(ReportLunsData(luns, order, alloc)))

(***************************************************************************)
(* What an initiator reads from the first n bytes of REPORT LUNS parameter *)
(* data d (SPC-4 6.33): the LUN LIST LENGTH in bytes 0-3 and one 8-byte   *)
(* entry per LUN from byte 8, a single-level LUN in the entry's byte 1;   *)
(* the bytes past d are the zeros of the data-in buffer.                  *)
(***************************************************************************)
Received(d, n) == [i \in 1..n |-> IF i <= Len(d) THEN d[i] ELSE 0]

ListedLuns(r) ==
    LET listLen == r[3] * 256 + r[4]
        entries == (IF listLen < Len(r) - 8 THEN listLen ELSE Len(r) - 8) \div 8
    IN {r[8 + 8 * k + 2] : k \in 0..(entries - 1)}

\* A handler that panics: the runtime ends the process and no response is
\* built.
Panic == Outcome("panic", FALSE, 0, 0)

(***************************************************************************)
(* SPCModeSense6 / SPCModeSense10.  SPCModeSense10 reads its allocation    *)
(* length with binary.BigEndian.Uint32 from the 2-byte slice SCB[7:9],    *)
(* which panics before any check.  SPCModeSense6: page control 3 and a    *)
(* page toBytes does not find fail; otherwise the 4-byte header, the      *)
(* block descriptor unless DBD, and the pages.  Residual is set to the    *)
(* allocation length only when the data is longer.                      *)
(***************************************************************************)
ModeSense(ten, pc, found, dbd, pagesLen, alloc) ==
    IF ten THEN Panic
    ELSE IF pc = 3 \/ ~found THEN CheckCondition
    ELSE LET len == 4 + (IF dbd THEN 0 ELSE 8) + pagesLen
         IN Outcome("good", FALSE, IF len > alloc THEN alloc ELSE 0, len)

(***************************************************************************)
(* SPCRequestSense: the allocation length capped at the buffer, the sense  *)
(* data of BuildSenseData(NoSense) cut to it and Residual set to what was  *)
(* copied; the handler then replaces SenseBuffer by an empty, non-nil one. *)
(* NoSense is key 0, so command.Result is GOOD.                           *)
(***************************************************************************)
RequestSense(alloc, bufLen) ==
    LET a == IF alloc > bufLen THEN bufLen ELSE alloc
        actual == IF SenseLength < a THEN SenseLength ELSE a
    IN Outcome("good", TRUE, actual, actual)

(***************************************************************************)
(* HandleRead of a range validateOffsetLength accepted: the image returns *)
(* TransferLength bytes and Residual is set to that; a buffer shorter     *)
(* than the data read fails the command.                                  *)
(***************************************************************************)
HandleRead(tlBytes, bufLen) ==
    IF bufLen < tlBytes THEN CheckCondition
    ELSE Outcome("good", FALSE, tlBytes, tlBytes)
=============================================================================
