---------------------------- MODULE MCIscsiLogin ----------------------------
(***************************************************************************)
(* IscsiLogin for TLC: three connections, one target, one ISID and CID,  *)
(* and a TSIH space of 1..2 so that the pool runs out.                   *)
(***************************************************************************)
EXTENDS IscsiLogin

\* IscsiMaxTargetSessionIdentifierHandler scaled down: handles 1 and 2.
MCMaxTSIH == 3
\* Logins from initiators that open new sessions (TSIH 0), and ones that
\* also name an existing or unknown TSIH.
MCNewSessionTSIHs == {0}
MCAnyTSIHs == {0, 1}
\* Operational login PDUs: plain negotiation, one that changes a constant
\* key (the target transits on its own), and one with an unknown key.
MCLoginKeySets == {{"declarative", "inrange"}, {"constother"}, {"unknown"}}
=============================================================================
