--------------------------- MODULE IscsiTaskQueue ---------------------------
(***************************************************************************)
(* Command sequencing of one iSCSI session (pkg/iscsi_target).            *)
(*                                                                         *)
(* The initiator issues the commands of Cmd (task tags, in issue order)   *)
(* over one TCP connection; PDUs reach the target in the order sent.      *)
(* The target's receive goroutine handles one PDU at a time under         *)
(* connection.readLock, and scsiCommandHandler runs the command queue     *)
(* handler, the R2T solicitation and the response within that PDU's      *)
(* handling, so each PDU is one atomic step here.                         *)
(*                                                                         *)
(* Data is abstracted to units: a write needs shape.need units, carries   *)
(* shape.imm of them as immediate data, and the rest is solicited by R2T  *)
(* in bursts of at most MaxBurst units, one unit per Data-Out PDU.        *)
(***************************************************************************)
EXTENDS Integers, Sequences, SequencesExt, FiniteSets

CONSTANTS
    Cmd,          \* task tags 1..N, in the order the initiator issues them
    SNBits,       \* width of CmdSN / ExpCmdSN (uint32 in the code)
    FirstCmdSNs,  \* CmdSN of the login request, i.e. the initial ExpCmdSN
    CmdShapes,    \* commands the initiator may issue
    InOrder,      \* TRUE: the initiator sends commands in CmdSN order
    MaxBurst,     \* MaxBurstLength, in data units
    MaxAborts,    \* bound on task management requests per behaviour
    TmfFunctions  \* TaskFunc values the initiator may send, by name

(* The TaskFunc codes of task.go (1..8); "Unknown" stands for any other  *)
(* value of the 7-bit field.                                             *)
TaskFuncNames == {"AbortTask", "AbortTaskSet", "ClearAca", "ClearTaskSet",
                  "LogicalUnitReset", "TargetWarmReset", "TargetColdReset",
                  "TaskReassign"}

ASSUME /\ Cmd = 1..Cardinality(Cmd)
       /\ SNBits \in Nat \ {0}
       /\ MaxBurst \in Nat \ {0}
       /\ \A s \in CmdShapes :
             /\ s.dir \in {"read", "write"}
             /\ s.immediate \in BOOLEAN
             /\ s.imm \in 0..s.need
             /\ s.dir = "read" => s.need = 0
       /\ TmfFunctions \subseteq TaskFuncNames \cup {"Unknown"}

SNMod == 2^SNBits

VARIABLES
    shape,        \* the command each tag carries (fixed at Init)
    firstSN,      \* login CmdSN (fixed at Init)
    sent,         \* initiator: command PDU sent
    solicited,    \* initiator: Data-Out units still owed to the last R2T
    aborted,      \* initiator: a task management request for this tag sent
    chan,         \* PDUs in flight, initiator to target
    expCmdSN,     \* session.ExpCmdSN
    pending,      \* session.PendingTasks, as a sequence of tags
    r2tCount,     \* task.r2tCount, in units
    executed,     \* history: tasks handed to the LU by iscsiExecTask
    answered,     \* SCSI responses carrying this tag
    tmfResult,    \* function and response of the TMF naming this tag
    dropped,      \* target discarded the command as stale
    receiving     \* the receive goroutine chain is alive

initiator == <<shape, firstSN, sent, solicited, aborted>>
target == <<expCmdSN, pending, r2tCount, executed, answered, tmfResult,
            dropped, receiving>>
vars == <<initiator, chan, target>>

PDU == [op : {"Cmd", "DataOut", "Tmf"}, c : Cmd, final : BOOLEAN,
        fn : TmfFunctions \cup {"none"}]

(* The task.result values of task.go a TMF response can carry. *)
TmfResponses == {"Complete", "NoTask", "NotSupported", "Rejected"}

NoTmf == [fn |-> "none", rsp |-> "none"]

(* CmdSN the initiator puts in command c: immediate commands carry the    *)
(* CmdSN of the next non-immediate one and do not advance it.             *)
CmdSN(c) ==
    (firstSN + Cardinality({d \in Cmd : d < c /\ ~shape[d].immediate}))
        % SNMod

Init ==
    /\ shape \in [Cmd -> CmdShapes]
    /\ firstSN \in FirstCmdSNs
    /\ sent = [c \in Cmd |-> FALSE]
    /\ solicited = [c \in Cmd |-> 0]
    /\ aborted = [c \in Cmd |-> FALSE]
    /\ chan = <<>>
    /\ expCmdSN = firstSN
    /\ pending = <<>>
    /\ r2tCount = [c \in Cmd |-> 0]
    /\ executed = <<>>
    /\ answered = [c \in Cmd |-> 0]
    /\ tmfResult = [c \in Cmd |-> NoTmf]
    /\ dropped = [c \in Cmd |-> FALSE]
    /\ receiving = TRUE

-----------------------------------------------------------------------------
(* Initiator *)

SendCommand(c) ==
    /\ ~sent[c]
    /\ InOrder => \A d \in Cmd : d < c => sent[d]
    /\ sent' = [sent EXCEPT ![c] = TRUE]
    /\ chan' = Append(chan, [op |-> "Cmd", c |-> c, final |-> TRUE,
                             fn |-> "none"])
    /\ UNCHANGED <<shape, firstSN, solicited, aborted, target>>

SendDataOut(c) ==
    /\ solicited[c] > 0
    /\ ~aborted[c]
    /\ solicited' = [solicited EXCEPT ![c] = @ - 1]
    /\ chan' = Append(chan, [op |-> "DataOut", c |-> c,
                             final |-> solicited[c] = 1, fn |-> "none"])
    /\ UNCHANGED <<shape, firstSN, sent, aborted, target>>

(* A task management request referring to task c, sent immediate; the   *)
(* initiator stops sending Data-Out for c.                             *)
SendTaskMgmt(c, fn) ==
    /\ sent[c] /\ ~aborted[c]
    /\ Cardinality({d \in Cmd : aborted[d]}) < MaxAborts
    /\ aborted' = [aborted EXCEPT ![c] = TRUE]
    /\ solicited' = [solicited EXCEPT ![c] = 0]
    /\ chan' = Append(chan, [op |-> "Tmf", c |-> c, final |-> TRUE, fn |-> fn])
    /\ UNCHANGED <<shape, firstSN, sent, target>>

-----------------------------------------------------------------------------
(* Target *)

(* An entry of the executed history: whether all the data had arrived.   *)
ExecRecord(c, remaining) == [c |-> c, complete |-> remaining = 0]

(* Mutant of Drain: the popped task runs without comparing its CmdSN.   *)
RECURSIVE Drain_NoSNCheck(_, _, _)
Drain_NoSNCheck(q, sn, ran) ==
    IF q = <<>>
    THEN [queue |-> q, sn |-> sn, ran |-> ran]
    ELSE Drain_NoSNCheck(Front(q), (sn + 1) % SNMod,
               Append(ran, ExecRecord(Last(q), r2tCount[Last(q)])))

(* The retry loop of iscsiTaskQueueHandler after the command whose CmdSN *)
(* equals ExpCmdSN ran: ExpCmdSN is sn; Pop takes the LAST pushed task;  *)
(* a mismatch is pushed back and ends the loop.                          *)
RECURSIVE Drain(_, _, _)
Drain(q, sn, ran) ==
    IF q = <<>> \/ CmdSN(Last(q)) # sn
    THEN [queue |-> q, sn |-> sn, ran |-> ran]
    ELSE Drain(Front(q), (sn + 1) % SNMod,
               Append(ran, ExecRecord(Last(q), r2tCount[Last(q)])))

(* Mutant of Solicit: DesiredLength not capped by MaxBurstLength. *)
Solicit_NoBurstCap(n) == n

(* R2T solicitation: DesiredLength = min(r2tCount, MaxBurstLength). *)
Solicit(n) == IF n > MaxBurst THEN MaxBurst ELSE n

(* iscsiTaskQueueHandler(task) for a SCSI command, with the response     *)
(* scsiCommandHandler builds when it returns nil.                        *)
TaskQueueHandler(c) ==
    \/ /\ shape[c].immediate
       /\ executed' = Append(executed, ExecRecord(c, 0))
       /\ answered' = [answered EXCEPT ![c] = @ + 1]
       /\ UNCHANGED <<expCmdSN, pending, dropped>>
    \/ /\ ~shape[c].immediate
       /\ CmdSN(c) = expCmdSN
       /\ LET d == Drain(pending, (CmdSN(c) + 1) % SNMod,
                         <<ExecRecord(c, 0)>>)
          IN /\ expCmdSN' = d.sn
             /\ pending' = d.queue
             /\ executed' = executed \o d.ran
       /\ answered' = [answered EXCEPT ![c] = @ + 1]
       /\ UNCHANGED dropped
    \/ /\ ~shape[c].immediate
       /\ CmdSN(c) # expCmdSN
       /\ CmdSN(c) < expCmdSN
       /\ dropped' = [dropped EXCEPT ![c] = TRUE]
       /\ UNCHANGED <<expCmdSN, pending, executed, answered>>
    \/ /\ ~shape[c].immediate
       /\ CmdSN(c) # expCmdSN
       /\ ~(CmdSN(c) < expCmdSN)
       /\ pending' = Append(pending, c)
       /\ UNCHANGED <<expCmdSN, executed, answered, dropped>>

(* scsiCommandHandler, case OpSCSICmd. *)
RecvScsiCmd ==
    /\ receiving /\ chan # <<>> /\ Head(chan).op = "Cmd"
    /\ chan' = Tail(chan)
    /\ LET c == Head(chan).c
           r2t == shape[c].need - shape[c].imm
       IN \/ /\ shape[c].dir = "write" /\ r2t > 0
             /\ expCmdSN' = (expCmdSN + 1) % SNMod
             /\ pending' = Append(pending, c)
             /\ r2tCount' = [r2tCount EXCEPT ![c] = r2t]
             /\ solicited' = [solicited EXCEPT ![c] = Solicit(r2t)]
             /\ UNCHANGED <<executed, answered, dropped>>
          \/ /\ ~(shape[c].dir = "write" /\ r2t > 0)
             /\ TaskQueueHandler(c)
             /\ UNCHANGED <<r2tCount, solicited>>
    /\ UNCHANGED <<shape, firstSN, sent, aborted, tmfResult, receiving>>

(* Mutants of DataOutFinal, each a plausible slip in lines 638-661.     *)
DataOutFinal_NoR2TCheck(c, left) ==
    /\ executed' = Append(executed, ExecRecord(c, left))
    /\ answered' = [answered EXCEPT ![c] = @ + 1]
    /\ pending' = RemoveFirst(pending, c)
    /\ UNCHANGED solicited

DataOutFinal_NoNextR2T(c, left) ==
    \/ /\ left > 0
       /\ UNCHANGED <<pending, executed, answered, solicited>>
    \/ /\ ~(left > 0)
       /\ executed' = Append(executed, ExecRecord(c, left))
       /\ answered' = [answered EXCEPT ![c] = @ + 1]
       /\ pending' = RemoveFirst(pending, c)
       /\ UNCHANGED solicited

DataOutFinal_NoRemoveByTag(c, left) ==
    \/ /\ left > 0
       /\ solicited' = [solicited EXCEPT ![c] = Solicit(left)]
       /\ UNCHANGED <<pending, executed, answered>>
    \/ /\ ~(left > 0)
       /\ executed' = Append(executed, ExecRecord(c, left))
       /\ answered' = [answered EXCEPT ![c] = @ + 1]
       /\ UNCHANGED <<pending, solicited>>

(* The final Data-Out of a burst: another R2T while data is missing,     *)
(* else iscsiExecTask, the SCSI response and RemoveByTag.               *)
DataOutFinal(c, left) ==
    \/ /\ left > 0
       /\ solicited' = [solicited EXCEPT ![c] = Solicit(left)]
       /\ UNCHANGED <<pending, executed, answered>>
    \/ /\ ~(left > 0)
       /\ executed' = Append(executed, ExecRecord(c, left))
       /\ answered' = [answered EXCEPT ![c] = @ + 1]
       /\ pending' = RemoveFirst(pending, c)
       /\ UNCHANGED solicited

(* scsiCommandHandler, case OpSCSIOut: an unknown tag is an error that   *)
(* returns without calling handler(DataIn), ending the receive chain.    *)
RecvDataOut ==
    /\ receiving /\ chan # <<>> /\ Head(chan).op = "DataOut"
    /\ chan' = Tail(chan)
    /\ LET c == Head(chan).c
           left == r2tCount[c] - 1
       IN \/ /\ c \notin ToSet(pending)
             /\ receiving' = FALSE
             /\ UNCHANGED <<pending, r2tCount, executed, answered, solicited>>
          \/ /\ c \in ToSet(pending)
             /\ r2tCount' = [r2tCount EXCEPT ![c] = left]
             /\ \/ /\ ~Head(chan).final
                   /\ UNCHANGED <<pending, executed, answered, solicited>>
                \/ /\ Head(chan).final
                   /\ DataOutFinal(c, left)
             /\ UNCHANGED receiving
    /\ UNCHANGED <<shape, firstSN, sent, aborted, expCmdSN, tmfResult,
                   dropped>>

(* Mutant of ExecAbortTask: the task is looked up (GetByTag) but left in *)
(* PendingTasks, and Function complete is still reported.               *)
ExecAbortTask_NoRemove(c) ==
    \/ /\ c \in ToSet(pending)
       /\ tmfResult' = [tmfResult EXCEPT ![c] = [fn |-> "AbortTask",
                                                  rsp |-> "Complete"]]
       /\ UNCHANGED pending
    \/ /\ c \notin ToSet(pending)
       /\ tmfResult' = [tmfResult EXCEPT ![c] = [fn |-> "AbortTask",
                                                  rsp |-> "NoTask"]]
       /\ UNCHANGED pending

(* iscsiExecTask, IscsiTmFuncAbortTask: RemoveByTag on PendingTasks; a   *)
(* task found is aborted (its SCSI response carries the TMF's own tag,   *)
(* connection.request, so the aborted tag gets none) and the result is   *)
(* Function complete, else No task.                                      *)
ExecAbortTask(c) ==
    \/ /\ c \in ToSet(pending)
       /\ pending' = RemoveFirst(pending, c)
       /\ tmfResult' = [tmfResult EXCEPT ![c] = [fn |-> "AbortTask",
                                                  rsp |-> "Complete"]]
    \/ /\ c \notin ToSet(pending)
       /\ tmfResult' = [tmfResult EXCEPT ![c] = [fn |-> "AbortTask",
                                                  rsp |-> "NoTask"]]
       /\ UNCHANGED pending

(* The rest of the TaskFunc switch: the AbortTaskSet and LogicalUnitReset *)
(* cases are empty, so task.result keeps its zero value, Function        *)
(* complete, and nothing is aborted; ClearAca and ClearTaskSet fall      *)
(* through to the reset and reassign functions, Not supported; any other *)
(* code takes the default, Rejected.                                     *)
TmfOutcome(fn) ==
    CASE fn \in {"AbortTaskSet", "LogicalUnitReset"} -> "Complete"
      [] fn \in TaskFuncNames \ {"AbortTask"}      -> "NotSupported"
      [] OTHER                                      -> "Rejected"

(* scsiCommandHandler, case OpSCSITaskReq, with the TMF sent immediate:  *)
(* iscsiTaskQueueHandler calls iscsiExecTask at once, which answers with *)
(* buildResponsePackage(OpSCSITaskResp).                                 *)
RecvTaskMgmt ==
    /\ receiving /\ chan # <<>> /\ Head(chan).op = "Tmf"
    /\ chan' = Tail(chan)
    /\ LET c == Head(chan).c
           fn == Head(chan).fn
       IN \/ /\ fn = "AbortTask"
             /\ ExecAbortTask(c)
          \/ /\ fn # "AbortTask"
             /\ tmfResult' = [tmfResult EXCEPT ![c] = [fn |-> fn,
                                                  rsp |-> TmfOutcome(fn)]]
             /\ UNCHANGED pending
    /\ UNCHANGED <<initiator, expCmdSN, r2tCount, executed, answered,
                   dropped, receiving>>

(* The initiator has sent everything it owes and nothing is in flight,   *)
(* or the receive goroutine has stopped: the session waits for input.    *)
Idle ==
    /\ \/ /\ \A c \in Cmd : sent[c] /\ (solicited[c] = 0 \/ aborted[c])
          /\ chan = <<>>
       \/ ~receiving
    /\ UNCHANGED vars

Next ==
    \/ \E c \in Cmd : SendCommand(c) \/ SendDataOut(c)
    \/ \E c \in Cmd, fn \in TmfFunctions : SendTaskMgmt(c, fn)
    \/ RecvScsiCmd \/ RecvDataOut \/ RecvTaskMgmt
    \/ Idle

(* The receive goroutine keeps handling PDUs while it is alive, and the  *)
(* initiator eventually sends what it has issued and what R2T asked for. *)
Fairness ==
    /\ WF_vars(RecvScsiCmd) /\ WF_vars(RecvDataOut) /\ WF_vars(RecvTaskMgmt)
    /\ \A c \in Cmd : WF_vars(SendCommand(c)) /\ WF_vars(SendDataOut(c))

Spec == Init /\ [][Next]_vars /\ Fairness

-----------------------------------------------------------------------------
(* Properties *)

TypeOK ==
    /\ shape \in [Cmd -> CmdShapes]
    /\ firstSN \in FirstCmdSNs
    /\ sent \in [Cmd -> BOOLEAN]
    /\ solicited \in [Cmd -> 0..MaxBurst]
    /\ aborted \in [Cmd -> BOOLEAN]
    /\ chan \in Seq(PDU)
    /\ expCmdSN \in 0..(SNMod - 1)
    /\ pending \in Seq(Cmd)
    /\ r2tCount \in [Cmd -> Nat]
    /\ executed \in Seq([c : Cmd, complete : BOOLEAN])
    /\ answered \in [Cmd -> Nat]
    /\ tmfResult \in [Cmd -> {NoTmf} \cup [fn : TmfFunctions,
                                            rsp : TmfResponses]]
    /\ dropped \in [Cmd -> BOOLEAN]
    /\ receiving \in BOOLEAN

Ran == {executed[i].c : i \in DOMAIN executed}

Resolved(c) == answered[c] > 0 \/ tmfResult[c] # NoTmf

(* Spec 3.2 (a) and property 7: whatever the arrival order, the LU sees   *)
(* the non-immediate commands in CmdSN order (iscsiTaskQueueHandler's    *)
(* queue and drain, and the R2T write path that bypasses them).          *)
CmdSNOrder ==
    \A i, j \in DOMAIN executed :
        /\ i < j
        /\ ~shape[executed[i].c].immediate
        /\ ~shape[executed[j].c].immediate
        => executed[i].c < executed[j].c

(* Spec 4.8: a task management request answered Function complete has  *)
(* aborted the task it names, so the LU never runs that task, neither   *)
(* before the answer (it would no longer be pending) nor after it, when *)
(* a later command fills the CmdSN gap and the drain pops what remains  *)
(* queued (iscsiExecTask's TaskFunc switch against iscsiTaskQueueHandler). *)
AbortCompleteIsFinal ==
    \A c \in Cmd : tmfResult[c].rsp = "Complete" => c \notin Ran

(* No task is handed to the LU twice: a task leaves PendingTasks when it *)
(* is drained or when its last Data-Out runs it (RemoveByTag).           *)
ExecutedAtMostOnce ==
    \A i, j \in DOMAIN executed : i # j => executed[i].c # executed[j].c

(* A write reaches the LU only after all its data arrived: the Data-Out  *)
(* path runs it at r2tCount = 0, and no other path runs a pending write. *)
WriteDataComplete ==
    \A i \in DOMAIN executed : executed[i].complete

(* The initiator never resends, so no command the target receives is    *)
(* stale: iscsiTaskQueueHandler's CmdSN < ExpCmdSN branch never drops one. *)
NoCommandDropped ==
    \A c \in Cmd : ~dropped[c]

(* Every command issued is eventually executed by the LU, once its CmdSN *)
(* predecessors have arrived (the drain of iscsiTaskQueueHandler).       *)
EveryCommandExecuted ==
    \A c \in Cmd : <>(c \in Ran \/ aborted[c])

(* Every command the LU executed eventually gets its SCSI response.     *)
ExecutedCommandAnswered ==
    \A c \in Cmd : (c \in Ran) ~> Resolved(c)

(* Every command issued eventually gets a SCSI response, or, when it was *)
(* aborted, a task management response (scsiCommandHandler, R2T loop).  *)
EveryCommandAnswered ==
    \A c \in Cmd : <>Resolved(c)

=============================================================================
