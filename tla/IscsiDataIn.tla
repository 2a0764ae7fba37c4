----------------------------- MODULE IscsiDataIn -----------------------------
(***************************************************************************)
(* The answer to a SCSI command that returns data: which PDU carries it   *)
(* (scsiCommandHandler), the response buildResponsePackage fills from the *)
(* handler's SCSICommand, and the Data-In PDUs transferHandler sends,     *)
(* each with the header fields dataInBytes writes.  Data is abstracted to *)
(* lengths and offsets; a PDU is a record of its header fields.           *)
(*                                                                         *)
(* A handler outcome is a record [status, sense, resid, len] as           *)
(* ScsiPrimary gives it: the command's Result, whether SenseBuffer is set, *)
(* InSDBBuffer.Residual and the bytes of data (or sense data) it built.   *)
(***************************************************************************)
EXTENDS Naturals, Sequences

CONSTANTS
    MaxRecvDataSegmentLength,   \* connection.maxRecvDataSegmentLength
    MaxBurstLength              \* connection.maxBurstLength

ASSUME MaxRecvDataSegmentLength \in Nat \ {0} /\ MaxBurstLength \in Nat \ {0}

\* iscsiExecLogin: connection.maxSeqCount, the segments of one sequence.
MaxSeqCount == MaxBurstLength \div MaxRecvDataSegmentLength

\* scsiCommandHandler after the task ran: Data-In for a read with no sense
\* buffer and a non-zero expected length, else a SCSI Response.
ResponseOpcode(read, out, expected) ==
    IF read /\ ~out.sense /\ expected # 0 THEN "SCSIIn" ELSE "SCSIResp"

(***************************************************************************)
(* buildResponsePackage(OpSCSIIn or OpSCSIResp) for a read, whose         *)
(* InSDBBuffer has Length expected: a failed command with sense sends the *)
(* 2-byte sense length and the sense data; otherwise Resid is Residual,   *)
(* and RawData is the first Resid bytes of the buffer when Resid is       *)
(* non-zero and below the buffer length, else the whole buffer.          *)
(***************************************************************************)
BuildResponse(out, expected) ==
    IF out.status # "good" /\ out.sense
    THEN [status |-> out.status, expected |-> expected, resid |-> 0, len |-> 2 + out.len]
    ELSE [status |-> out.status, expected |-> expected, resid |-> out.resid,
          len |-> IF out.resid # 0 /\ out.resid < expected THEN out.resid ELSE expected]

(***************************************************************************)
(* dataInBytes: the flags byte (F when FinalInSeq or Final, S with the    *)
(* status when Final, since HasStatus is always set; O or U by comparing  *)
(* a non-zero Resid with ExpectedDataLen), DataSN, BufferOffset, the data *)
(* segment length and the residual count, which is Resid.                *)
(***************************************************************************)
DataInPdu(rsp, offset, len, sn, finalInSeq, final) ==
    [off |-> offset, len |-> len, sn |-> sn, rescount |-> rsp.resid,
     flags |-> (IF finalInSeq \/ final THEN {"F"} ELSE {})
               \cup (IF final THEN {"S"} ELSE {})
               \cup (IF rsp.resid > 0 /\ rsp.resid > rsp.expected THEN {"O"} ELSE {})
               \cup (IF rsp.resid > 0 /\ rsp.resid < rsp.expected THEN {"U"} ELSE {})]

(***************************************************************************)
(* transferHandler's SendRemainingData loop: while a full segment past    *)
(* offset leaves data over, send MaxRecvDataSegmentLength bytes, counting  *)
(* segments and ending the sequence (FinalInSeq, count back to 0) at the  *)
(* maxSeqCount-th; the rest goes in a PDU with Final set.  DataSN starts  *)
(* at 0 and grows by one per PDU.                                         *)
(***************************************************************************)
RECURSIVE SendRemainingData(_, _, _, _)

\* Mutant: the last PDU is given a whole segment.
SendRemainingData_FullLast(rsp, offset, count, sn) ==
    IF offset + MaxRecvDataSegmentLength < rsp.len
    THEN LET c == count + 1
             endSeq == ~(c < MaxSeqCount)
         IN <<DataInPdu(rsp, offset, MaxRecvDataSegmentLength, sn, endSeq, FALSE)>>
            \o SendRemainingData(rsp, offset + MaxRecvDataSegmentLength,
                                 IF endSeq THEN 0 ELSE c, sn + 1)
    ELSE <<DataInPdu(rsp, offset, MaxRecvDataSegmentLength, sn, TRUE, TRUE)>>

\* Mutant: count <= maxCount, one segment too many per sequence.
SendRemainingData_LongSeq(rsp, offset, count, sn) ==
    IF offset + MaxRecvDataSegmentLength < rsp.len
    THEN LET c == count + 1
             endSeq == ~(c <= MaxSeqCount)
         IN <<DataInPdu(rsp, offset, MaxRecvDataSegmentLength, sn, endSeq, FALSE)>>
            \o SendRemainingData(rsp, offset + MaxRecvDataSegmentLength,
                                 IF endSeq THEN 0 ELSE c, sn + 1)
    ELSE <<DataInPdu(rsp, offset, rsp.len - offset, sn, TRUE, TRUE)>>

SendRemainingData(rsp, offset, count, sn) ==
    IF offset + MaxRecvDataSegmentLength < rsp.len
    THEN LET c == count + 1
             endSeq == ~(c < MaxSeqCount)
         IN <<DataInPdu(rsp, offset, MaxRecvDataSegmentLength, sn, endSeq, FALSE)>>
            \o SendRemainingData(rsp, offset + MaxRecvDataSegmentLength,
                                 IF endSeq THEN 0 ELSE c, sn + 1)
    ELSE <<DataInPdu(rsp, offset, rsp.len - offset, sn, TRUE, TRUE)>>

DataInPdus(rsp) == SendRemainingData(rsp, 0, 0, 0)

-----------------------------------------------------------------------------
(* Properties of one response, stated against RFC 7143 section 11.7.      *)

\* The PDUs deliver RawData exactly once and in order: DataSN 0, 1, ...,
\* each BufferOffset where the previous segment ended, no segment longer
\* than MaxRecvDataSegmentLength, the last ending at the data's end, and
\* the status (S) in the last PDU only.
DataInCoversData(rsp) ==
    LET p == DataInPdus(rsp)
        n == Len(p)
    IN /\ p[1].off = 0
       /\ \A i \in 1..n :
             /\ p[i].sn = i - 1
             /\ p[i].len <= MaxRecvDataSegmentLength
             /\ ("S" \in p[i].flags <=> i = n)
             /\ i < n => p[i + 1].off = p[i].off + p[i].len
       /\ p[n].off + p[n].len = rsp.len

\* No Data-In sequence, the PDUs up to and including one with the F bit,
\* carries more than MaxBurstLength bytes.
DataInBurstBound(rsp) ==
    LET p == DataInPdus(rsp)
        ends == {i \in 1..Len(p) : "F" \in p[i].flags}
        start(i) == 1 + (LET before == {j \in ends : j < i}
                         IN IF before = {} THEN 0
                            ELSE CHOOSE j \in before : \A m \in before : m <= j)
    IN \A i \in ends : p[i].off + p[i].len - p[start(i)].off <= MaxBurstLength

\* The residual count of the status PDU tells the initiator what was not
\* transferred: on underflow (U) the expected length less the bytes sent,
\* on overflow (O) the bytes the command had (out.len) beyond it.
ResidualCountsUntransferred(out, rsp) ==
    LET p == DataInPdus(rsp)
        last == p[Len(p)]
        sent == last.off + last.len
    IN /\ "U" \in last.flags => last.rescount = rsp.expected - sent
       /\ "O" \in last.flags => last.rescount = out.len - rsp.expected
=============================================================================
