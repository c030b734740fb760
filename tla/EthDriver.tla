----------------------------- MODULE EthDriver -----------------------------
(***************************************************************************)
(* The Ethernet driver: the transmit and the receive half under one        *)
(* interrupt handler.  Processes run outside the handler, the DMA engine   *)
(* at any time, also between the parts of the handler.                     *)
(***************************************************************************)
EXTENDS EthTx, EthRx

vars == <<sr, handling, txVars, rxVars>>

Init ==
    /\ sr = {} /\ handling = {}
    /\ TxInit
    /\ RxInit

Next ==
    \/ HandlerEnter /\ UNCHANGED <<txVars, rxVars>>
    \/ TxNext /\ UNCHANGED rxVars
    \/ RxNext /\ UNCHANGED txVars

Spec == Init /\ [][Next]_vars

\* The hardware sends what it owns, interrupts are taken and the handler runs
\* to its end, and rawin, the process of highest priority, gets to run.
Fairness ==
    /\ WF_vars(DmaSend /\ UNCHANGED rxVars)
    /\ WF_vars(HandlerEnter /\ UNCHANGED <<txVars, rxVars>>)
    /\ WF_vars(TxReclaim /\ UNCHANGED rxVars)
    /\ WF_vars(RxCount /\ UNCHANGED txVars)
    /\ SF_vars(~garbage /\ Reading /\ UNCHANGED txVars)

FairSpec == Spec /\ Fairness

-----------------------------------------------------------------------------
(* Properties *)

\* Neither ring keeps a descriptor: a transmit descriptor is reclaimed by
\* ethhandler and a received frame is read by ethread, unless a ring gets full.
DescriptorsReturn == SlotReturns /\ FrameLeaves

(* The driver is type correct, the interrupt bits included. *)
TypeOK ==
    /\ sr \subseteq {"TI", "RI"} /\ handling \subseteq {"TI", "RI"}
    /\ TxTypeOK
    /\ RxTypeOK

=============================================================================
