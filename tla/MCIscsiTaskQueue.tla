-------------------------- MODULE MCIscsiTaskQueue --------------------------
(* Instantiation of IscsiTaskQueue for TLC: three task tags, a 2-bit     *)
(* CmdSN so that wraparound is reachable, and command shapes chosen per  *)
(* run in the .cfg files.                                                *)
EXTENDS IscsiTaskQueue

MCCmd == 1..3

(* Starting at SNMod - 1 makes the session's CmdSN wrap after one command. *)
MCFirstNoWrap == {0}
MCFirstAny == {0, 3}
MCFirstWrap == {3}

Read == [dir |-> "read", need |-> 0, imm |-> 0, immediate |-> FALSE]
ImmediateRead == [dir |-> "read", need |-> 0, imm |-> 0, immediate |-> TRUE]
WriteImmediateData == [dir |-> "write", need |-> 1, imm |-> 1, immediate |-> FALSE]
WriteR2T == [dir |-> "write", need |-> 2, imm |-> 0, immediate |-> FALSE]
ImmediateWriteR2T == [dir |-> "write", need |-> 1, imm |-> 0, immediate |-> TRUE]

ShapesInOrder == {Read, ImmediateRead, WriteImmediateData, WriteR2T}
ShapesNoR2T == {Read, WriteImmediateData}
ShapesR2T == {Read, WriteR2T}
ShapesReads == {Read}
ShapesImmediateWrite == {Read, ImmediateWriteR2T}

(* Task management functions: ABORT TASK alone, every code the switch of *)
(* iscsiExecTask distinguishes, and the empty ABORT TASK SET case.       *)
TmfAbortTask == {"AbortTask"}
TmfAll == TaskFuncNames \cup {"Unknown"}
TmfAbortTaskSet == {"AbortTaskSet"}
=============================================================================
