------------------------------- MODULE EthTx -------------------------------
(***************************************************************************)
(* The transmit half of the Ethernet driver: ethwrite (device/eth/         *)
(* ethwrite.c), the transmit part of ethhandler and the DMA engine.        *)
(* write() runs with interrupts disabled, so after wait(osem) ethwrite is  *)
(* one step.  The processes that call it are counted, not named.           *)
(***************************************************************************)
EXTENDS EthRing

CONSTANTS
    txRingSize,
    MaxCallers    \* bound: processes blocked in ethwrite

ASSUME TxAssump == txRingSize \in Nat \ {0} /\ MaxCallers \in Nat

VARIABLES
    txHead, txTail,  \* ring indices: next to reclaim, next to fill
    osem,            \* scount of the semaphore that counts free descriptors
    waiting,         \* processes blocked on osem
    woken,           \* processes signaln() made ready, still to use their slot
    txOwned,         \* descriptors with TDCS_OWN set: the DMA is to send them
    txDma            \* the descriptor the DMA engine looks at

txVars == <<txHead, txTail, osem, waiting, woken, txOwned, txDma>>

\* Descriptors filled and not reclaimed: what osem has been charged for, less
\* the processes that are charged and have not written.
InFlight == txRingSize - osem - waiting - woken

-----------------------------------------------------------------------------
(* Plausible bugs, used to show that the properties can fail. *)

ReclaimedNoOwnTest(n) == n = Dist(txRingSize, txHead, txTail)
-----------------------------------------------------------------------------
TxInit ==
    /\ txHead = 0 /\ txTail = 0
    /\ osem = txRingSize
    /\ waiting = 0 /\ woken = 0
    /\ txOwned = {}
    /\ txDma = 0

\* wait(osem) with no descriptor free.
WriteBlocks ==
    /\ NoHandler
    /\ osem <= 0
    /\ waiting < MaxCallers
    /\ osem' = osem - 1
    /\ waiting' = waiting + 1
    /\ UNCHANGED <<sr, handling, txHead, txTail, woken, txOwned, txDma>>

\* A caller that got past wait(osem), at once or by being woken, fills the
\* descriptor at txTail, hands it to the DMA and advances txTail.
WriteFrame(resumed) ==
    /\ NoHandler
    /\ IF resumed THEN woken > 0 ELSE osem > 0
    /\ osem' = IF resumed THEN osem ELSE osem - 1
    /\ woken' = IF resumed THEN woken - 1 ELSE woken
    /\ txOwned' = txOwned \cup {txTail}
    /\ txTail' = Step(txRingSize, txTail)
    /\ UNCHANGED <<sr, handling, txHead, waiting, txDma>>

\* The DMA engine sends the next frame, gives the descriptor back and, IC
\* being set, raises the transmit interrupt.
DmaSend ==
    /\ txDma \in txOwned
    /\ txOwned' = txOwned \ {txDma}
    /\ txDma' = Step(txRingSize, txDma)
    /\ sr' = sr \cup {"TI"}
    /\ UNCHANGED <<handling, txHead, txTail, osem, waiting, woken>>

\* The number of passes of the handler's loop: up to the first descriptor the
\* DMA owns, while txHead differs from txTail.
Reclaimed(n) ==
    /\ \A k \in 0..n-1 : Ahead(txRingSize, txHead, k) \notin txOwned
    /\ n = Dist(txRingSize, txHead, txTail) \/ Ahead(txRingSize, txHead, n) \in txOwned

\* ethhandler, transmit interrupt: reclaim and signaln(osem, count).
TxReclaim ==
    /\ "TI" \in handling
    /\ handling' = handling \ {"TI"}
    /\ \E n \in 0..Dist(txRingSize, txHead, txTail) :
        /\ Reclaimed(n)
        /\ txHead' = Ahead(txRingSize, txHead, n)
        /\ osem' = osem + n
        /\ LET released == IF n < waiting THEN n ELSE waiting IN
            /\ waiting' = waiting - released
            /\ woken' = woken + released
    /\ UNCHANGED <<sr, txTail, txOwned, txDma>>

TxNext ==
    \/ WriteBlocks
    \/ \E resumed \in BOOLEAN : WriteFrame(resumed)
    \/ DmaSend
    \/ TxReclaim

-----------------------------------------------------------------------------
(* Properties *)

TxTypeOK ==
    /\ txHead \in Descs(txRingSize) /\ txTail \in Descs(txRingSize)
    /\ txDma \in Descs(txRingSize)
    /\ osem \in -MaxCallers..txRingSize
    /\ waiting \in 0..MaxCallers /\ woken \in Nat
    /\ txOwned \subseteq Descs(txRingSize)

\* osem, the processes it has charged and the ring indices agree: the
\* descriptors in flight are those from txHead up to txTail.
SlotsAgree ==
    /\ 0 <= InFlight /\ InFlight <= txRingSize
    /\ txTail = Ahead(txRingSize, txHead, InFlight)

\* A process that may write finds at txTail a descriptor it may fill: never
\* one whose frame the DMA has yet to send.
NoOverwrite == (osem > 0 \/ woken > 0) => txTail \notin txOwned

\* The transmit ring as ethwrite and the interrupt handler share it: semaphore,
\* waiting processes and indices agree, and no frame is overwritten unsent.
TxSafe == SlotsAgree /\ NoOverwrite

\* Every descriptor given to the DMA is reclaimed for another frame, unless
\* the ring gets completely full.
SlotReturns ==
    \A j \in Descs(txRingSize) :
        (Dist(txRingSize, txHead, j) < InFlight)
            ~> (Dist(txRingSize, txHead, j) >= InFlight \/ InFlight = txRingSize)

\* A process that waits for an empty slot is released some day.
BlockedWriteReleased == (waiting > 0) ~> (waiting = 0)

=============================================================================
