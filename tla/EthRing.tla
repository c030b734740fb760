------------------------------ MODULE EthRing ------------------------------
(***************************************************************************)
(* What the transmit and receive halves of the Ethernet driver device/eth  *)
(* share: the index arithmetic of a descriptor ring with n descriptors,    *)
(* the interrupt status and the interrupt handler.                         *)
(***************************************************************************)
EXTENDS Integers

VARIABLES
    sr,        \* pending bits of the status register: "TI", "RI"
    handling   \* the bits the running ethhandler has still to process

Descs(n) == 0..n-1

\* An index is incremented and goes back to 0 at the end of the ring.
Step(n, j) == IF j + 1 >= n THEN 0 ELSE j + 1

\* The descriptor k places after descriptor h, 0 <= k <= 2 * n.
Ahead(n, h, k) ==
    IF h + k < n THEN h + k
    ELSE IF h + k < 2 * n THEN h + k - n
    ELSE h + k - 2 * n

\* How many places descriptor j is after descriptor h.
Dist(n, h, j) == IF j >= h THEN j - h ELSE j - h + n

\* Processes run only outside the handler, and the driver's upper half runs
\* with interrupts disabled: each of its steps ends before a handler starts.
NoHandler == handling = {}

\* ethhandler reads the status register and acknowledges what it read.
HandlerEnter ==
    /\ NoHandler
    /\ sr # {}
    /\ handling' = sr
    /\ sr' = {}

=============================================================================
