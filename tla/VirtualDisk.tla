----------------------------- MODULE VirtualDisk -----------------------------
(***************************************************************************)
(* What an image promises its user (spec section 8, properties 1 and 2): *)
(* a virtual disk of Blocks, each holding a value (0 until written), that *)
(* reads back the last value written, and whose Flush and Close make the  *)
(* current contents durable.  When the disk stops without them (a power   *)
(* loss, a Close whose first fsync failed) and is opened again, each      *)
(* block holds its value at the last Flush or a value written since.      *)
(*                                                                         *)
(* data is what a read returns while the disk is open; durable[b] the     *)
(* values block b may come back with after a stop.                         *)
(***************************************************************************)
EXTENDS Naturals

CONSTANTS Blocks, Values

VARIABLES data, durable, isOpen

Init ==
    /\ data = [b \in Blocks |-> 0]
    /\ durable = [b \in Blocks |-> {0}]
    /\ isOpen = TRUE

Write(b, v) ==
    /\ isOpen
    /\ data' = [data EXCEPT ![b] = v]
    /\ durable' = [durable EXCEPT ![b] = @ \cup {v}]
    /\ UNCHANGED isOpen

Flush ==
    /\ isOpen
    /\ durable' = [b \in Blocks |-> {data[b]}]
    /\ UNCHANGED <<data, isOpen>>

Close ==
    /\ isOpen
    /\ durable' = [b \in Blocks |-> {data[b]}]
    /\ isOpen' = FALSE
    /\ UNCHANGED data

\* The disk stops without making its contents durable.
Stop ==
    /\ isOpen
    /\ isOpen' = FALSE
    /\ UNCHANGED <<data, durable>>

\* Opening again: every block holds one of its durable values.
Open ==
    /\ ~isOpen
    /\ \E d \in [Blocks -> UNION {durable[b] : b \in Blocks}] :
         /\ \A b \in Blocks : d[b] \in durable[b]
         /\ data' = d
    /\ isOpen' = TRUE
    /\ UNCHANGED durable

Next ==
    \/ \E b \in Blocks, v \in Values : Write(b, v)
    \/ Flush \/ Close \/ Stop \/ Open

Spec == Init /\ [][Next]_<<data, durable, isOpen>>

=============================================================================
