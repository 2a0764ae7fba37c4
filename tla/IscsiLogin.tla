----------------------------- MODULE IscsiLogin -----------------------------
(***************************************************************************)
(* The life of an iSCSI connection in pkg/iscsi_target: accept, login     *)
(* (security and operational stages), session binding with TSIH           *)
(* allocation and IT-nexus registration, the heartbeat worker, and the    *)
(* unbind-and-close that ends a connection.                               *)
(*                                                                         *)
(* Each accepted connection runs two goroutines (iscsid.go Run):          *)
(*   - the receive goroutine, blocked in readHeader (rx = "idle"), which  *)
(*     handles one PDU per step: receiveHandler, the login/logout/text    *)
(*     handler, transferHandler and its state switch; it ends when it     *)
(*     does not re-arm (rx = "gone") or after the cleanup of handler()    *)
(*     once the state is Close (rx = "cleanup");                          *)
(*   - the ping worker, probeInitiatorWithPings, whose sleeps and          *)
(*     continues are stuttering steps.                                    *)
(* PDU contents, key/value text, byte encodings and StatSN/CmdSN are      *)
(* abstracted to the choices that decide the control flow.                *)
(***************************************************************************)
EXTENDS Integers, FiniteSets, TLC

CONSTANTS
    Conns,        \* TCP connections the server accepts
    Targets,      \* names of the targets in driver.iSCSITargets
    NoTarget,     \* a TargetName no target has (or none sent)
    ISIDs,        \* initiator session ids an initiator may send
    ReqTSIHs,     \* TSIH values a login request may carry
    CIDs,         \* connection ids (CID) a login request may carry
    MaxTSIH,      \* IscsiMaxTargetSessionIdentifierHandler (0xffff)
    LoginKeySets  \* the classes of keys an operational login PDU may carry

(***************************************************************************)
(* The classes of login keys processLoginData tells apart: the declarative *)
(* names (InitiatorName, TargetName, SessionType, ...), a negotiable key    *)
(* with a value in [min, max] or outside it, a constant key at or off its   *)
(* default, a value conv cannot parse (skipped), and a key not in           *)
(* sessionKeys.                                                            *)
(***************************************************************************)
LoginKeys == {"declarative", "inrange", "outofrange", "constdefault", "constother",
              "badvalue", "unknown"}

ASSUME /\ NoTarget \notin Targets
       /\ 0 \in ReqTSIHs /\ ReqTSIHs \subseteq 0..MaxTSIH
       /\ MaxTSIH \in Nat \ {0}
       /\ LoginKeySets \subseteq SUBSET LoginKeys

\* A nil *ISCSISession.  TSIH 0 is IscsiUnspecifiedTargetSessionIdentifierHandler.
Nil == -1
Unspecified == 0

ConnStates == {"none", "free", "login", "loginfull", "fullfeature", "scsi", "close"}
\* States in which receiveHandler dispatches to login/logout/text/reject.
PreScsi == {"free", "login", "loginfull", "fullfeature"}

VARIABLES
    conn,      \* per connection: state, goroutines, socket, session, loginParam
    sess,      \* every ISCSISession created, by TSIH
    pool,      \* TargetSessionIdentifierHandlePool: TSIHs marked in use
    tsess,     \* target.Sessions: the TSIHs bound at each target
    nexus,     \* SCSITarget IT nexuses, named by the session that added them
    panicked   \* the process died of a nil pointer dereference

vars == <<conn, sess, pool, tsess, nexus, panicked>>

LoginParam == [target : Targets \cup {NoTarget}, stype : {"normal", "discovery"},
               isid : ISIDs, tsih : ReqTSIHs, cid : CIDs, paramInit : BOOLEAN]

TypeOK ==
    /\ conn \in [Conns -> [st : ConnStates, rx : {"idle", "gone", "cleanup"},
                           worker : {"run", "closing", "done"}, nop : {"none", "req", "ping"},
                           closed : BOOLEAN, session : {Nil} \cup 0..MaxTSIH,
                           lp : LoginParam]]
    /\ pool \subseteq 0..MaxTSIH
    /\ DOMAIN sess \subseteq 0..MaxTSIH
    /\ tsess \in [Targets -> SUBSET (0..MaxTSIH)]
    /\ nexus \in [Targets -> SUBSET (0..MaxTSIH)]
    /\ panicked \in BOOLEAN

\* The zero iscsiLoginParam: no target name, session type 0 (Normal).
InitLoginParam == [target |-> NoTarget, stype |-> "normal", isid |-> CHOOSE i \in ISIDs : TRUE,
                   tsih |-> Unspecified, cid |-> CHOOSE i \in CIDs : TRUE, paramInit |-> FALSE]

\* iscsiConnection.init: state Free; the ping worker started.
NewConn(lp) == [st |-> "free", rx |-> "idle", worker |-> "run", nop |-> "none",
                closed |-> FALSE, session |-> Nil, lp |-> lp]

Init ==
    /\ conn = [c \in Conns |-> [NewConn(InitLoginParam) EXCEPT !.st = "none"]]
    /\ sess = <<>>
    /\ pool = {0, MaxTSIH}
    /\ tsess = [t \in Targets |-> {}]
    /\ nexus = [t \in Targets |-> {}]
    /\ panicked = FALSE

(***************************************************************************)
(* The session registry.                                                  *)
(***************************************************************************)

\* An empty slot of a session's Connections map.
NoConn == "noconn"

\* AllocTSIH: the first handle below IscsiMaxTargetSessionIdentifierHandler
\* not marked in the pool; Unspecified when every one is taken.  Nothing
\* calls ReleaseTSIH, so a handle stays marked after its session is gone.
FreeTSIHs == {i \in 0..MaxTSIH - 1 : i \notin pool}
AllocTSIH == IF FreeTSIHs = {} THEN Unspecified
             ELSE CHOOSE i \in FreeTSIHs : \A j \in FreeTSIHs : i <= j

\* LookupISCSISession: the target by name, then target.Sessions[tsih] with
\* the same ISID (one portal group, so the TPGT always matches).
LookupISCSISession(lp) ==
    IF /\ lp.target \in Targets
       /\ lp.tsih \in tsess[lp.target]
       /\ sess[lp.tsih].isid = lp.isid
    THEN lp.tsih ELSE Nil

\* LookupConnection: the session's Connections map holds the connection
\* that created it, under the CID of its login.
LookupConnection(h, cid) == IF sess[h].cid = cid THEN sess[h].conn ELSE NoConn

\* UnBindISCSISession: a discovery session has no target and is left
\* alone; otherwise its TSIH leaves target.Sessions and its IT nexus
\* leaves the SCSI target.  Applied to either map.
UnBindISCSISession(m, h) ==
    IF h = Nil \/ sess[h].target = NoTarget THEN m
    ELSE [m EXCEPT ![sess[h].target] = @ \ {h}]

\* BindISCSISession up to the branch it takes.  The reinstatement branch
\* needs target.Sessions[0], which AllocTSIH never creates.
BindOutcome(lp) ==
    LET exist == LookupISCSISession(lp)
    IN CASE lp.stype = "normal" /\ lp.target \notin Targets -> "err"
         [] lp.stype = "discovery" /\ lp.tsih # Unspecified /\ exist # Nil -> "err"
         \* existSession == nil && tsih != 0 && existSession.TSIH != ...
         [] exist = Nil /\ lp.tsih # Unspecified -> "panic"
         [] exist = Nil /\ AllocTSIH = Unspecified -> "err"
         [] exist = Nil -> "new"
         \* ReInstatement(existingConnection.session, ...)
         [] lp.tsih = Unspecified /\ LookupConnection(exist, lp.cid) = NoConn -> "panic"
         [] lp.tsih = Unspecified /\ AllocTSIH = Unspecified -> "err"
         \* AddITNexus(newSession.Target.SCSITarget, ...) with no target
         [] lp.tsih = Unspecified /\ lp.stype = "discovery" -> "panic"
         [] lp.tsih = Unspecified -> "reinstate"
         [] OTHER -> "connection"

(***************************************************************************)
(* The receive goroutine.                                                 *)
(***************************************************************************)

\* receiveHandler reads a header, and a login/logout/text PDU is handled
\* in the states before Scsi.  A closed socket fails the read (RecvFail).
Receiving(c) ==
    /\ conn[c].rx = "idle"
    /\ ~conn[c].closed
    /\ conn[c].st \in PreScsi

\* A handler error: the state becomes Close, handler() skips the transfer
\* and the goroutine goes on to unbind and close.
Fail(c, lp) ==
    /\ conn' = [conn EXCEPT ![c].lp = lp, ![c].st = "close", ![c].rx = "cleanup",
                            ![c].nop = "req"]
    /\ UNCHANGED <<sess, pool, tsess, nexus, panicked>>

\* Mutant: the state switch ignores the session type.
LoginFull_NoTypeCheck(cs, c, stype, sent) ==
    /\ panicked' = (sent /\ cs[c].session = Nil)
    /\ conn' = IF ~sent THEN [cs EXCEPT ![c].st = "loginfull", ![c].rx = "gone"]
               ELSE [cs EXCEPT ![c].st = "scsi"]

\* transferHandler after a LoginFull response.  A failed write returns
\* before the state switch: nothing re-arms the receive goroutine and the
\* state is not Close, so handler() neither unbinds nor closes.  Else the
\* switch reads connection.session.SessionType, and a nil session panics.
LoginFull(cs, c, stype, sent) ==
    /\ panicked' = (sent /\ cs[c].session = Nil)
    /\ conn' = IF ~sent THEN [cs EXCEPT ![c].st = "loginfull", ![c].rx = "gone"]
               ELSE [cs EXCEPT ![c].st = IF stype = "normal" THEN "scsi" ELSE "fullfeature"]

\* Mutant: AllocTSIH does not mark the handle in the pool.
NewISCSISession_NoMark(cs, c, lp, sent, drop) ==
    LET h == AllocTSIH
        t == IF lp.stype = "normal" THEN lp.target ELSE NoTarget
        Bind(m) == IF t = NoTarget THEN m ELSE [m EXCEPT ![t] = @ \cup {h}]
    IN /\ pool' = pool
       /\ sess' = (h :> [isid |-> lp.isid, target |-> t, stype |-> lp.stype,
                         cid |-> lp.cid, conn |-> c]) @@ sess
       /\ tsess' = Bind(UnBindISCSISession(tsess, drop))
       /\ nexus' = Bind(UnBindISCSISession(nexus, drop))
       /\ LoginFull([cs EXCEPT ![c].session = h, ![c].lp = [lp EXCEPT !.paramInit = TRUE]],
                    c, lp.stype, sent)

\* NewISCSISession and the registration that follows it: a TSIH from the
\* pool, for a normal session an IT nexus at the target and
\* target.Sessions[tsih]; connection.session set.  Session reinstatement
\* first unbinds the old session `drop`, whose connection cs has closed.
NewISCSISession(cs, c, lp, sent, drop) ==
    LET h == AllocTSIH
        t == IF lp.stype = "normal" THEN lp.target ELSE NoTarget
        Bind(m) == IF t = NoTarget THEN m ELSE [m EXCEPT ![t] = @ \cup {h}]
    IN /\ pool' = pool \cup {h}
       /\ sess' = (h :> [isid |-> lp.isid, target |-> t, stype |-> lp.stype,
                         cid |-> lp.cid, conn |-> c]) @@ sess
       /\ tsess' = Bind(UnBindISCSISession(tsess, drop))
       /\ nexus' = Bind(UnBindISCSISession(nexus, drop))
       /\ LoginFull([cs EXCEPT ![c].session = h, ![c].lp = [lp EXCEPT !.paramInit = TRUE]],
                    c, lp.stype, sent)

\* Connection reinstatement (TSIH and ISID match a session): the existing
\* connection with the same CID is closed and hands over its socket;
\* connection.session of the new connection is never set.
ConnReinstatement(c, lp, sent) ==
    LET old == LookupConnection(LookupISCSISession(lp), lp.cid)
        cs == IF old = NoConn THEN conn ELSE [conn EXCEPT ![old].closed = TRUE]
    IN /\ UNCHANGED <<sess, pool, tsess, nexus>>
       /\ LoginFull([cs EXCEPT ![c].lp = [lp EXCEPT !.paramInit = TRUE]], c, lp.stype, sent)

\* iscsiExecLogin at the security stage: processSecurityData fails unless
\* AuthMethod offers None; otherwise the state is Login and, once the
\* response is written, transferHandler re-arms the receive goroutine.
LoginSecurity(c) ==
    /\ Receiving(c)
    /\ \E name \in Targets \cup {NoTarget}, isid \in ISIDs, tsih \in ReqTSIHs,
          cid \in CIDs, authNone \in BOOLEAN, sent \in BOOLEAN :
        LET lp == [conn[c].lp EXCEPT !.target = name, !.isid = isid, !.tsih = tsih, !.cid = cid]
        IN IF ~authNone THEN Fail(c, lp)
           ELSE /\ conn' = [conn EXCEPT ![c].lp = lp, ![c].st = "login", ![c].nop = "req",
                                        ![c].rx = IF sent THEN "idle" ELSE "gone"]
                /\ UNCHANGED <<sess, pool, tsess, nexus, panicked>>

\* processLoginData: an unknown key fails the login whatever else the PDU
\* holds; a key answered with the target's default (out of range, or a
\* constant key changed) counts as a change, and the target then transits
\* to full feature on its own; with no change it transits only when the
\* initiator asks for full feature with the T bit, and rejects otherwise.
ProcessLoginData(keys, iniToFull) ==
    LET kvChanges == keys \cap {"outofrange", "constother"}
    IN "unknown" \notin keys /\ (kvChanges # {} \/ iniToFull)

\* iscsiExecLogin at the operational stage.  processLoginData fails on an
\* unknown key, or when no key changed and the initiator does not transit
\* to full feature; otherwise the target transits to full feature.  The
\* first such login binds the session; every one ends in LoginFull.
LoginOperational(c) ==
    /\ Receiving(c)
    /\ \E stype \in {"normal", "discovery"}, name \in Targets \cup {NoTarget},
          isid \in ISIDs, tsih \in ReqTSIHs, cid \in CIDs,
          keys \in LoginKeySets, iniToFull \in BOOLEAN, sent \in BOOLEAN :
        LET negotiated == ProcessLoginData(keys, iniToFull)
            lp == [conn[c].lp EXCEPT !.stype = stype, !.target = name, !.isid = isid,
                                     !.tsih = tsih, !.cid = cid]
            cs == [conn EXCEPT ![c].nop = "req"]
            out == IF lp.paramInit THEN "bound" ELSE BindOutcome(lp)
            h == conn[c].session
        IN CASE ~negotiated \/ out = "err" -> Fail(c, lp)
             [] out = "panic" -> panicked' = TRUE /\ UNCHANGED <<conn, sess, pool, tsess, nexus>>
             [] out = "new" -> NewISCSISession(cs, c, lp, sent, Nil)
             [] out = "reinstate" ->
                    LET old == LookupConnection(LookupISCSISession(lp), lp.cid)
                    IN NewISCSISession([cs EXCEPT ![old].closed = TRUE], c, lp, sent,
                                       LookupISCSISession(lp))
             [] out = "connection" -> ConnReinstatement(c, lp, sent)
             [] out = "bound" ->
                    /\ UNCHANGED <<sess, pool, tsess, nexus>>
                    /\ LoginFull([cs EXCEPT ![c].lp = lp], c,
                                 IF h = Nil THEN "normal" ELSE sess[h].stype, sent)

\* A logout, text, NOP-Out or any other PDU before the Scsi state: the
\* response leaves the state as it is and transferHandler re-arms the
\* receive goroutine, unless the write fails.
RecvOther(c) ==
    /\ Receiving(c)
    /\ \E sent \in BOOLEAN :
        conn' = [conn EXCEPT ![c].nop = "req", ![c].rx = IF sent THEN "idle" ELSE "gone"]
    /\ UNCHANGED <<sess, pool, tsess, nexus, panicked>>

\* A PDU in the Scsi state goes to scsiCommandHandler.  A command it
\* handles re-arms the receive goroutine; a text or SNACK request, an
\* unknown opcode or a failed task returns an error that receiveHandler
\* drops, and nothing reads from the socket again.
RecvScsi(c) ==
    /\ conn[c].rx = "idle"
    /\ ~conn[c].closed
    /\ conn[c].st = "scsi"
    /\ \E handled \in BOOLEAN :
        conn' = [conn EXCEPT ![c].nop = "req", ![c].rx = IF handled THEN "idle" ELSE "gone"]
    /\ UNCHANGED <<sess, pool, tsess, nexus, panicked>>

\* readHeader or readData fails (EOF, reset, or a socket closed by the
\* ping worker or by a connection reinstatement): the state is Close.
RecvFail(c) ==
    /\ conn[c].rx = "idle"
    /\ conn[c].st # "none"
    /\ conn' = [conn EXCEPT ![c].st = "close", ![c].rx = "cleanup"]
    /\ UNCHANGED <<sess, pool, tsess, nexus, panicked>>

\* Mutant: handler() closes the connection without unbinding its session.
Cleanup_NoUnbind(c) ==
    /\ conn[c].rx = "cleanup"
    /\ conn' = [conn EXCEPT ![c].closed = TRUE, ![c].rx = "gone"]
    /\ UNCHANGED <<sess, pool, tsess, nexus, panicked>>

\* handler(): with the state Close, the session (if any) is unbound and
\* the connection closed.  Both checks of handler() run; the second finds
\* the session already unbound and the socket closed.
Cleanup(c) ==
    /\ conn[c].rx = "cleanup"
    /\ conn' = [conn EXCEPT ![c].closed = TRUE, ![c].rx = "gone"]
    /\ tsess' = UnBindISCSISession(tsess, conn[c].session)
    /\ nexus' = UnBindISCSISession(nexus, conn[c].session)
    /\ UNCHANGED <<sess, pool, panicked>>

\* The connection Run's handler closure builds: a zero loginParam, init,
\* the ping worker started and the receive goroutine reading.
ServeConn == NewConn(InitLoginParam)

\* StartTcpServer accepts a connection.  When setting the keepalive
\* parameters or TCP_NODELAY fails, it closes the socket and never serves
\* it; otherwise it hands it to the handler closure.
Accept(c) ==
    /\ conn[c].st = "none" /\ ~conn[c].closed
    /\ \/ conn' = [conn EXCEPT ![c] = ServeConn]
       \/ conn' = [conn EXCEPT ![c].closed = TRUE, ![c].rx = "gone", ![c].worker = "done"]
    /\ UNCHANGED <<sess, pool, tsess, nexus, panicked>>

(***************************************************************************)
(* The ping worker.  It acts only with a session and in the Scsi state;   *)
(* in any other state, Close included, it sleeps and loops for ever.      *)
(***************************************************************************)

\* No request for nop_interval: sendNoOperationPing writes a NOP-In.
PingSend(c) ==
    /\ conn[c].worker = "run"
    /\ conn[c].session # Nil
    /\ conn[c].st = "scsi"
    /\ conn[c].nop = "req"
    /\ ~conn[c].closed
    /\ conn' = [conn EXCEPT ![c].nop = "ping"]
    /\ UNCHANGED <<sess, pool, tsess, nexus, panicked>>

\* probeInitiatorWithPings returns an error: sendNoOperationPing failed
\* (socket closed or write error), or no answer within nop_timeout.
\* startNopPingWorker then unbinds the session ...
WorkerUnbind(c) ==
    /\ conn[c].worker = "run"
    /\ conn[c].session # Nil
    /\ conn[c].st = "scsi"
    /\ conn[c].nop \in {"req", "ping"}
    /\ conn' = [conn EXCEPT ![c].worker = "closing"]
    /\ tsess' = UnBindISCSISession(tsess, conn[c].session)
    /\ nexus' = UnBindISCSISession(nexus, conn[c].session)
    /\ UNCHANGED <<sess, pool, panicked>>

\* ... and then closes the connection, and the worker ends.
WorkerClose(c) ==
    /\ conn[c].worker = "closing"
    /\ conn' = [conn EXCEPT ![c].closed = TRUE, ![c].worker = "done"]
    /\ UNCHANGED <<sess, pool, tsess, nexus, panicked>>

Next ==
    /\ ~panicked
    /\ \E c \in Conns :
        \/ Accept(c)
        \/ LoginSecurity(c)
        \/ LoginOperational(c)
        \/ RecvOther(c)
        \/ RecvScsi(c)
        \/ RecvFail(c)
        \/ Cleanup(c)
        \/ PingSend(c)
        \/ WorkerUnbind(c)
        \/ WorkerClose(c)

\* The Go scheduler runs a runnable goroutine: a receive goroutine that
\* has seen Close goes on to its cleanup, and a ping worker that has
\* unbound its session goes on to close the connection.  Nothing is
\* assumed of the initiator, the network or the clock.
Fairness == \A c \in Conns : WF_vars(Cleanup(c)) /\ WF_vars(WorkerClose(c))

Spec == Init /\ [][Next]_vars /\ Fairness

(***************************************************************************)
(* Properties.                                                            *)
(***************************************************************************)

\* The session of connection c is registered at its target.
Bound(c) ==
    LET h == conn[c].session
    IN h # Nil /\ sess[h].target # NoTarget /\ h \in tsess[sess[h].target]

\* A TSIH names one session: AllocTSIH marks the handle it hands out, so
\* no two connections are bound to the same TSIH, and the reserved
\* handles 0 and 0xffff are never given to a session (spec 3.2 (b)).
SessionHeldOnce ==
    \A c, d \in Conns :
        /\ conn[c].session \notin {Unspecified, MaxTSIH}
        /\ c # d /\ conn[c].session # Nil => conn[c].session # conn[d].session

\* scsiCommandHandler takes the IT nexus from connection.session: while a
\* connection is open in the Scsi state its session is bound at its
\* target with its nexus registered, except in the window where the ping
\* worker has unbound the session and not yet closed the socket.
ScsiSessionBound ==
    \A c \in Conns :
        conn[c].st = "scsi" /\ ~conn[c].closed /\ conn[c].worker = "run"
            => Bound(c) /\ conn[c].session \in nexus[sess[conn[c].session].target]

\* A connection that reaches Close (read error, failed login, failed
\* bind) is eventually closed and no longer holds a session at its
\* target: handler() unbinds and closes after receiveHandler returns.
CloseLeadsToCleanup ==
    \A c \in Conns : conn[c].st = "close" ~> (conn[c].closed /\ ~Bound(c))

\* A login carrying a TSIH is answered (spec 4.9: a mismatch is
\* rejected, 9 (b): reject rather than guess) and never brings the
\* target process down with a nil pointer dereference.
NoPanic == ~panicked

\* Spec 4.9: a TSIH-0 login naming the ISID of a live session reinstates
\* that session, closing its connections; so a target holds at most one
\* session per ISID.
OneSessionPerISID ==
    \A t \in Targets : \A h1, h2 \in tsess[t] : sess[h1].isid = sess[h2].isid => h1 = h2

\* The ping worker of a connection ends once the connection is closed,
\* whoever closed it.
WorkerEnds == \A c \in Conns : conn[c].closed ~> conn[c].worker = "done"
=============================================================================
