--------------------------- MODULE TargetRegistry ---------------------------
(***************************************************************************)
(* The target registry and its admin control plane: the admin socket       *)
(* handlers (api/handlers.go, one goroutine per request, serialised by     *)
(* apiLock), the iSCSI driver's target table (iscsi_target/iscsid.go       *)
(* NewTarget .. Clear), the SCSI target service (scsi/target.go,           *)
(* scsi/scsi.go) with its per-target DevicesLock and LUN-number bitmap,    *)
(* and the sessions that log in to a target (session.go AddITNexus /       *)
(* RemoveITNexus) and dispatch commands through AddCommandQueue, which     *)
(* reads target.Devices without DevicesLock.                               *)
(*                                                                         *)
(* A target object is identified by its name: NewTarget refuses a name     *)
(* already in iSCSITargets, and nothing removes a name from it.  A logical *)
(* unit is identified by its creation number 1..MaxRequests.               *)
(***************************************************************************)
EXTENDS Integers, FiniteSets, ScsiBlock

CONSTANTS
    Names,          \* target names used by admin requests
    LunIds,         \* the LUN numbers of availableLunNumbers (0..255)
    Admins,         \* concurrent admin-socket connections
    Initiators,     \* sessions that log in to targets
    MaxRequests,    \* bound on the admin requests served
    CloseMayFail,   \* whether image Close may report an error
    AnyDetachId,    \* whether a DETACHLUN may name a LUN not attached
    Cdbs            \* the commands a session may send

ASSUME /\ LunIds \subseteq 0..255 /\ LunIds # {}
       /\ MaxRequests \in Nat
       /\ Cdbs \subseteq Cdb

None == "none"
NoLu == 0
\* A session's io before its first command.
NoIo == [cdb |-> NoCdb, acc |-> NoAccess]
Lus == 1..MaxRequests
Tids == 0..(Cardinality(Names) - 1)
Ops == {"attach", "detach", "addtarget", "deletetarget", "clear", "list"}

VARIABLES
    drv,        \* keys of driver.iSCSITargets
    tidOf,      \* TargetId given to the SCSITarget of each name
    byName,     \* keys of TargetService.targetByName
    byTid,      \* TargetService.targetByTid: tid -> name or None
    devices,    \* target.Devices: name -> LUN -> LU or NoLu
    avail,      \* target.availableLuns as the set of free LUN numbers
    devLock,    \* target.DevicesLock is held
    nexus,      \* target.ITNexus: the sessions logged in to a target
    lus,        \* state of each logical unit's backing image
    nLus,       \* number of logical units created (factory.iscsiId)
    admin,      \* each admin goroutine: pc and request
    apiLock,    \* holder of DemonApiHandler.apiLock
    served,     \* admin requests accepted so far
    ini,        \* each session: its target and the LU of a command in flight
    io,         \* each session's last command and its backing-store access
    ioClosed    \* history: a command ran on an LU whose image was closed

vars == <<drv, tidOf, byName, byTid, devices, avail, devLock, nexus, lus,
          nLus, admin, apiLock, served, ini, io, ioClosed>>

Request == [op : Ops, name : Names, lun : LunIds]
AdminState == [pc : {"idle", "wait", "body", "clear"}, req : Request]
LuState == [st : {"none", "open", "closed"}, tgt : Names \cup {None}]

TypeOK ==
    /\ drv \subseteq Names /\ byName \subseteq Names
    /\ tidOf \in [Names -> Tids \cup {-1}]
    /\ byTid \in [Tids -> Names \cup {None}]
    /\ devices \in [Names -> [LunIds -> Lus \cup {NoLu}]]
    /\ avail \in [Names -> SUBSET LunIds]
    /\ devLock \in [Names -> BOOLEAN]
    /\ nexus \in [Names -> SUBSET Initiators]
    /\ lus \in [Lus -> LuState] /\ nLus \in 0..MaxRequests
    /\ admin \in [Admins -> AdminState]
    /\ apiLock \in Admins \cup {None}
    /\ served \in 0..MaxRequests
    /\ ini \in [Initiators -> [tgt : Names \cup {None}, lu : Lus \cup {NoLu}]]
    /\ io \in [Initiators -> [cdb : Cdbs \cup {NoCdb},
                              acc : [kind : {"none", "sync", "read", "write"},
                                     off : Nat, len : Nat]]]
    /\ ioClosed \in BOOLEAN

AnyRequest == [op |-> "list", name |-> CHOOSE n \in Names : TRUE,
               lun |-> CHOOSE l \in LunIds : TRUE]

\* NewApiServer, NewISCSITargetDriver and NewSCSITargetService: empty tables.
Init ==
    /\ drv = {} /\ byName = {}
    /\ tidOf = [n \in Names |-> -1]
    /\ byTid = [t \in Tids |-> None]
    /\ devices = [n \in Names |-> [l \in LunIds |-> NoLu]]
    /\ avail = [n \in Names |-> {}]
    /\ devLock = [n \in Names |-> FALSE]
    /\ nexus = [n \in Names |-> {}]
    /\ lus = [u \in Lus |-> [st |-> "none", tgt |-> None]] /\ nLus = 0
    /\ admin = [a \in Admins |-> [pc |-> "idle", req |-> AnyRequest]]
    /\ apiLock = None /\ served = 0
    /\ ini = [i \in Initiators |-> [tgt |-> None, lu |-> NoLu]]
    /\ io = [i \in Initiators |-> NoIo]
    /\ ioClosed = FALSE

Attached(n) == {l \in LunIds : devices[n][l] # NoLu}

(***************************************************************************)
(* HandleConnection reads one request; HandleRequest dispatches it to a    *)
(* handler, which first locks apiLock.                                     *)
(***************************************************************************)
Submit(a) ==
    /\ admin[a].pc = "idle"
    /\ served < MaxRequests
    /\ \E r \in Request :
         /\ r.op = "detach" /\ ~AnyDetachId => r.lun \in Attached(r.name)
         /\ admin' = [admin EXCEPT ![a] = [pc |-> "wait", req |-> r]]
    /\ served' = served + 1
    /\ UNCHANGED <<drv, tidOf, byName, byTid, devices, avail, devLock, nexus,
                   lus, nLus, apiLock, ini, io, ioClosed>>

LockApi(a) ==
    /\ admin[a].pc = "wait"
    /\ apiLock = None
    /\ apiLock' = a
    /\ admin' = [admin EXCEPT ![a].pc = "body"]
    /\ UNCHANGED <<drv, tidOf, byName, byTid, devices, avail, devLock, nexus,
                   lus, nLus, served, ini, io, ioClosed>>

\* The deferred apiLock.Unlock and the response: the goroutine ends.
Reply(a) ==
    /\ apiLock' = None
    /\ admin' = [admin EXCEPT ![a].pc = "idle"]

Body(a) == admin[a].pc = "body"
Req(a) == admin[a].req

\* availableLunNumbers.nextLun: the lowest free LUN number.
NextLun(n) == CHOOSE l \in avail[n] : \A m \in avail[n] : l <= m

\* Mutant: DetachLun that forgets availableLuns.deleteLun.
DetachLun_KeepNumber(n, id, ok) ==
    LET u == devices[n][id] IN
    /\ ~devLock[n]
    /\ u # NoLu /\ ok
    /\ lus' = [lus EXCEPT ![u].st = "closed"]
    /\ devices' = [devices EXCEPT ![n][id] = NoLu]
    /\ UNCHANGED <<avail, devLock>>

(***************************************************************************)
(* SCSITarget.DetachLun(id) for target n; ok is whether it returns nil.    *)
(* It locks DevicesLock and unlocks it only on success: a LUN not in       *)
(* Devices, or a Close that fails, returns with the lock held.  A failed   *)
(* Close may already have closed the raw file (syncCache error) or not     *)
(* (backing file error); the LU stays in Devices either way.               *)
(***************************************************************************)
DetachLun(n, id, ok) ==
    LET u == devices[n][id] IN
    /\ ~devLock[n]
    /\ IF u = NoLu
         THEN /\ ~ok
              /\ devLock' = [devLock EXCEPT ![n] = TRUE]
              /\ UNCHANGED <<devices, avail, lus>>
         ELSE \/ /\ ok
                 /\ lus' = [lus EXCEPT ![u].st = "closed"]
                 /\ devices' = [devices EXCEPT ![n][id] = NoLu]
                 /\ avail' = [avail EXCEPT ![n] = @ \cup {id}]
                 /\ UNCHANGED devLock
              \/ /\ CloseMayFail /\ ~ok
                 /\ \E st \in {"open", "closed"} : lus' = [lus EXCEPT ![u].st = st]
                 /\ devLock' = [devLock EXCEPT ![n] = TRUE]
                 /\ UNCHANGED <<devices, avail>>

(***************************************************************************)
(* Attach -> driver.AddLun: the target must be in iSCSITargets; NewSCSILu  *)
(* opens the image; SCSITarget.AddLun locks DevicesLock, takes the next    *)
(* LUN number and, when none is left, returns the error with the lock held *)
(* and the opened image never closed.  An image that fails to open        *)
(* returns before any lock, like a missing target; the requests modelled   *)
(* name images that open.                                                  *)
(***************************************************************************)
Attach(a) ==
    LET n == Req(a).name
        u == nLus + 1
        lu == [st |-> "open", tgt |-> n]
    IN
    /\ Body(a) /\ Req(a).op = "attach"
    /\ Reply(a)
    /\ IF n \notin drv
         THEN UNCHANGED <<devices, avail, devLock, lus, nLus>>
         ELSE /\ ~devLock[n]
              /\ nLus' = u
              /\ lus' = [lus EXCEPT ![u] = lu]
              /\ IF avail[n] = {}
                   THEN /\ devLock' = [devLock EXCEPT ![n] = TRUE]
                        /\ UNCHANGED <<devices, avail>>
                   ELSE /\ devices' = [devices EXCEPT ![n][NextLun(n)] = u]
                        /\ avail' = [avail EXCEPT ![n] = @ \ {NextLun(n)}]
                        /\ UNCHANGED devLock
    /\ UNCHANGED <<drv, tidOf, byName, byTid, nexus, served, ini, io, ioClosed>>

\* DetachLun -> driver.RemoveLun -> SCSITarget.DetachLun.
Detach(a) ==
    LET n == Req(a).name IN
    /\ Body(a) /\ Req(a).op = "detach"
    /\ Reply(a)
    /\ IF n \notin drv
         THEN UNCHANGED <<devices, avail, devLock, lus>>
         ELSE \E ok \in BOOLEAN : DetachLun(n, Req(a).lun, ok)
    /\ UNCHANGED <<drv, tidOf, byName, byTid, nexus, nLus, served, ini, io, ioClosed>>

\* Mutant: NewTarget that inserts into iSCSITargets before taking
\* len(iSCSITargets) as the tid.
AddTarget_LenAfterInsert(a) ==
    LET n == Req(a).name
        tid == Cardinality(drv \cup {n})
    IN
    /\ Body(a) /\ Req(a).op = "addtarget"
    /\ Reply(a)
    /\ IF n \in drv
         THEN UNCHANGED <<drv, tidOf, byName, byTid, devices, avail, devLock, nexus>>
         ELSE /\ byTid' = [t \in Tids |-> IF t = tid THEN n ELSE byTid[t]]
              /\ byName' = byName \cup {n}
              /\ tidOf' = [tidOf EXCEPT ![n] = tid]
              /\ devices' = [devices EXCEPT ![n] = [l \in LunIds |-> NoLu]]
              /\ avail' = [avail EXCEPT ![n] = LunIds]
              /\ devLock' = [devLock EXCEPT ![n] = FALSE]
              /\ nexus' = [nexus EXCEPT ![n] = {}]
              /\ drv' = drv \cup {n}
    /\ UNCHANGED <<lus, nLus, served, ini, io, ioClosed>>

(***************************************************************************)
(* AddTarget -> driver.NewTarget: refuses a name in iSCSITargets, else     *)
(* NewSCSITarget(len(iSCSITargets), name) registers a fresh target under   *)
(* that tid and name, with every LUN number free and no devices.           *)
(***************************************************************************)
AddTarget(a) ==
    LET n == Req(a).name
        tid == Cardinality(drv)
    IN
    /\ Body(a) /\ Req(a).op = "addtarget"
    /\ Reply(a)
    /\ IF n \in drv
         THEN UNCHANGED <<drv, tidOf, byName, byTid, devices, avail, devLock, nexus>>
         ELSE /\ byTid' = [byTid EXCEPT ![tid] = n]
              /\ byName' = byName \cup {n}
              /\ tidOf' = [tidOf EXCEPT ![n] = tid]
              /\ devices' = [devices EXCEPT ![n] = [l \in LunIds |-> NoLu]]
              /\ avail' = [avail EXCEPT ![n] = LunIds]
              /\ devLock' = [devLock EXCEPT ![n] = FALSE]
              /\ nexus' = [nexus EXCEPT ![n] = {}]
              /\ drv' = drv \cup {n}
    /\ UNCHANGED <<lus, nLus, served, ini, io, ioClosed>>

\* Mutant: DeleteTarget that also deletes the name from iSCSITargets.
DeleteTarget_DropDriverEntry(a) ==
    LET n == Req(a).name IN
    /\ Body(a) /\ Req(a).op = "deletetarget"
    /\ Reply(a)
    /\ IF n \notin drv \/ n \notin byName \/ Attached(n) # {} \/ nexus[n] # {}
         THEN UNCHANGED <<drv, byName, byTid>>
         ELSE /\ byName' = byName \ {n}
              /\ byTid' = [byTid EXCEPT ![tidOf[n]] = None]
              /\ drv' = drv \ {n}
    /\ UNCHANGED <<tidOf, devices, avail, devLock, nexus, lus, nLus,
                   served, ini, io, ioClosed>>

(***************************************************************************)
(* DeleteTarget -> driver.DeleteTarget -> DeleteScsiTarget: refuses a      *)
(* target with LUNs or IT nexuses, then removes it from targetByName and   *)
(* targetByTid only; iSCSITargets keeps it.                                *)
(***************************************************************************)
DeleteTarget(a) ==
    LET n == Req(a).name IN
    /\ Body(a) /\ Req(a).op = "deletetarget"
    /\ Reply(a)
    /\ IF n \notin drv \/ n \notin byName \/ Attached(n) # {} \/ nexus[n] # {}
         THEN UNCHANGED <<byName, byTid>>
         ELSE /\ byName' = byName \ {n}
              /\ byTid' = [byTid EXCEPT ![tidOf[n]] = None]
    /\ UNCHANGED <<drv, tidOf, devices, avail, devLock, nexus, lus, nLus,
                   served, ini, io, ioClosed>>

\* ClearTarget -> driver.Clear -> SCSITarget.Clear: refuses a target with
\* IT nexuses, then detaches its LUNs one by one (ClearStep).
Clear(a) ==
    LET n == Req(a).name IN
    /\ Body(a) /\ Req(a).op = "clear"
    /\ IF n \notin drv \/ nexus[n] # {}
         THEN Reply(a)
         ELSE /\ admin' = [admin EXCEPT ![a].pc = "clear"]
              /\ UNCHANGED apiLock
    /\ UNCHANGED <<drv, tidOf, byName, byTid, devices, avail, devLock, nexus,
                   lus, nLus, served, ini, io, ioClosed>>

\* One iteration of Clear's range over Devices (in map order, so any LUN);
\* the first DetachLun error is returned.
ClearStep(a) ==
    LET n == Req(a).name IN
    /\ admin[a].pc = "clear"
    /\ IF Attached(n) = {}
         THEN /\ Reply(a)
              /\ UNCHANGED <<devices, avail, devLock, lus>>
         ELSE \E id \in Attached(n), ok \in BOOLEAN :
                /\ DetachLun(n, id, ok)
                /\ IF ok THEN UNCHANGED <<admin, apiLock>> ELSE Reply(a)
    /\ UNCHANGED <<drv, tidOf, byName, byTid, nexus, nLus, served, ini, io, ioClosed>>

\* ListTargets reads the tables under apiLock and changes nothing.
List(a) ==
    /\ Body(a) /\ Req(a).op = "list"
    /\ Reply(a)
    /\ UNCHANGED <<drv, tidOf, byName, byTid, devices, avail, devLock, nexus,
                   lus, nLus, served, ini, io, ioClosed>>

(***************************************************************************)
(* Sessions.  BindISCSISession finds the target by name in iSCSITargets    *)
(* and AddITNexus registers the session with it; UnBindISCSISession        *)
(* removes it.  A session's commands run on its receive goroutine, so it   *)
(* logs out only between commands.                                         *)
(***************************************************************************)
Login(i) ==
    /\ ini[i].tgt = None
    /\ \E n \in drv :
         /\ nexus' = [nexus EXCEPT ![n] = @ \cup {i}]
         /\ ini' = [ini EXCEPT ![i].tgt = n]
    /\ UNCHANGED <<drv, tidOf, byName, byTid, devices, avail, devLock, lus,
                   nLus, admin, apiLock, served, io, ioClosed>>

Logout(i) ==
    /\ ini[i].tgt # None /\ ini[i].lu = NoLu
    /\ nexus' = [nexus EXCEPT ![ini[i].tgt] = @ \ {i}]
    /\ ini' = [ini EXCEPT ![i].tgt = None]
    /\ UNCHANGED <<drv, tidOf, byName, byTid, devices, avail, devLock, lus,
                   nLus, admin, apiLock, served, io, ioClosed>>

(***************************************************************************)
(* AddCommandQueue(session.Target.SCSITarget.TargetId, cmd): the target is *)
(* looked up by tid in targetByTid and the device read from its Devices    *)
(* without DevicesLock.  A tid not found fails the command and an absent   *)
(* LUN answers from LUN0; neither changes state, so Dispatch is the case   *)
(* where a logical unit is found and its pointer held for PerformCommand.  *)
(***************************************************************************)
Dispatch(i) ==
    LET t == byTid[tidOf[ini[i].tgt]] IN
    /\ ini[i].tgt # None /\ ini[i].lu = NoLu
    /\ t # None
    /\ \E l \in Attached(t) : ini' = [ini EXCEPT ![i].lu = devices[t][l]]
    /\ UNCHANGED <<drv, tidOf, byName, byTid, devices, avail, devLock, nexus,
                   lus, nLus, admin, apiLock, served, io, ioClosed>>

(***************************************************************************)
(* device.PerformCommand on the logical unit read by Dispatch, for one of  *)
(* the commands the session may send.  A read, write or sync of a closed   *)
(* image still reaches it: Close set no state the block path checks.       *)
(***************************************************************************)
Perform(i) ==
    /\ ini[i].lu # NoLu
    /\ \E cdb \in Cdbs :
         LET acc == BackingAccess(cdb) IN
         /\ io' = [io EXCEPT ![i] = [cdb |-> cdb, acc |-> acc]]
         /\ ioClosed' = (ioClosed \/ (acc.kind # "none" /\ lus[ini[i].lu].st # "open"))
    /\ ini' = [ini EXCEPT ![i].lu = NoLu]
    /\ UNCHANGED <<drv, tidOf, byName, byTid, devices, avail, devLock, nexus,
                   lus, nLus, admin, apiLock, served>>

AdminStep(a) ==
    \/ Attach(a) \/ Detach(a) \/ AddTarget(a) \/ DeleteTarget(a)
    \/ Clear(a) \/ ClearStep(a) \/ List(a)

Next ==
    \/ \E a \in Admins : Submit(a) \/ LockApi(a) \/ AdminStep(a)
    \/ \E i \in Initiators : Login(i) \/ Logout(i) \/ Dispatch(i) \/ Perform(i)

(***************************************************************************)
(* Each request runs on its own goroutine, so it keeps taking steps; Go's  *)
(* sync.Mutex hands a lock that is repeatedly free to a waiter that has    *)
(* waited over 1ms (starvation mode), hence strong fairness on LockApi.    *)
(***************************************************************************)
Fairness == \A a \in Admins : SF_vars(LockApi(a)) /\ WF_vars(AdminStep(a))

Spec == Init /\ [][Next]_vars /\ Fairness

-----------------------------------------------------------------------------
(* Properties *)

(***************************************************************************)
(* A command dispatched through AddCommandQueue reaches a logical unit of  *)
(* the target its session logged in to: the tid a session's target        *)
(* carries resolves, in targetByTid, to that same target.  It rests on     *)
(* NewTarget numbering targets by len(iSCSITargets), which only stays      *)
(* unique while iSCSITargets never shrinks.                                *)
(***************************************************************************)
CommandReachesOwnTarget ==
    \A i \in Initiators : ini[i].lu # NoLu => lus[ini[i].lu].tgt = ini[i].tgt

(***************************************************************************)
(* After any sequence of attach, detach and clear requests, the LUN-number *)
(* bitmap of every target marks free exactly the LUN numbers with no       *)
(* device, and every attached device belongs to that target and has its   *)
(* image open.                                                             *)
(***************************************************************************)
LunTableConsistent ==
    \A n \in drv :
        /\ avail[n] = LunIds \ Attached(n)
        /\ \A l \in Attached(n) : lus[devices[n][l]] = [st |-> "open", tgt |-> n]

(***************************************************************************)
(* Every admin request (attach, detach, add, delete, clear, list) is       *)
(* eventually answered: no handler blocks forever on apiLock or on a       *)
(* target's DevicesLock.                                                   *)
(***************************************************************************)
RequestsAnswered ==
    \A a \in Admins : admin[a].pc = "wait" ~> admin[a].pc = "idle"

(***************************************************************************)
(* A read or write a block command makes of the backing image stays       *)
(* within the blocks its CDB names and inside the logical unit: the range *)
(* check of validateOffsetLength, including its uint64 wrap test, and the *)
(* offset and length HandleRead, HandleWrite and HandleWriteSame pass to  *)
(* the image agree with the LBA and transfer length of the CDB.           *)
(***************************************************************************)
IoWithinCommand ==
    \A i \in Initiators :
        io[i].acc.kind \in {"read", "write"} =>
            /\ io[i].acc.off = io[i].cdb.lba
            /\ io[i].acc.len <= io[i].cdb.tl
            /\ io[i].acc.off + io[i].acc.len <= LuBlocks

(***************************************************************************)
(* A read or write that passed the range check accesses every block its   *)
(* CDB names (SBC-4: the transfer length is the number of blocks to read  *)
(* or write), also for the 32-bit transfer lengths of READ(16) and WRITE  *)
(* SAME(16) that SBCRead and SbcWriteSame16 shift into a uint32 byte      *)
(* count.                                                                  *)
(***************************************************************************)
IoCoversCommand ==
    \A i \in Initiators :
        io[i].acc.kind \in {"read", "write"} => io[i].acc.len = io[i].cdb.tl

(***************************************************************************)
(* No SCSI command runs on a logical unit whose image DetachLun or Clear   *)
(* has closed: the devices table is protected by the per-target mutex      *)
(* (spec section 5), so a command sees a device only while it is attached. *)
(***************************************************************************)
NoIoOnClosedLu == ~ioClosed

=============================================================================
