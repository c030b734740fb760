------------------------------- MODULE EthRx -------------------------------
(***************************************************************************)
(* The receive half of the Ethernet driver: ethread (device/eth/ethread.c) *)
(* as called by rawin, the receive part of ethhandler and the DMA engine.  *)
(* read() runs with interrupts disabled, so after wait(isem) one pass of   *)
(* ethread's loop is one step.  A frame fits one descriptor; whether its   *)
(* destination is one of ours is decided when ethread looks at it.         *)
(***************************************************************************)
EXTENDS EthRing, FiniteSets

CONSTANTS
    rxRingSize,
    MaxCount     \* bound: isem above which no further frame is considered

ASSUME RxAssump == rxRingSize \in Nat \ {0} /\ MaxCount \in Nat

VARIABLES
    rxHead, rxTail,  \* ring indices: next to read, next to count
    isem,            \* scount of the semaphore that counts received frames
    reader,          \* ethread: "wait", "blocked", "copy", "returned"
    filled,          \* descriptors the DMA filled (RDST_OWN clear)
    rxDma,           \* the descriptor the DMA engine looks at
    overcounted,     \* history: the handler found the whole ring filled
    garbage          \* ethread took a descriptor the DMA still owns for a frame

rxVars == <<rxHead, rxTail, isem, reader, filled, rxDma, overcounted, garbage>>

\* Frames counted by the handler that ethread has not taken from the ring.
Counted == isem + (IF reader \in {"blocked", "copy"} THEN 1 ELSE 0)

-----------------------------------------------------------------------------
(* Plausible bugs, used to show that the properties can fail. *)

CountedUpOne(n) == n = 1
RxCountNothing ==
    /\ handling = {"RI"}
    /\ handling' = {}
    /\ UNCHANGED <<sr, rxVars>>
ReadSkipNoStep ==
    /\ reader = "copy"
    /\ rxHead \in filled
    /\ reader' = "wait"
    /\ filled' = filled \ {rxHead}
    /\ UNCHANGED <<sr, handling, rxHead, rxTail, isem, rxDma, overcounted, garbage>>
-----------------------------------------------------------------------------
RxInit ==
    /\ rxHead = 0 /\ rxTail = 0
    /\ isem = 0
    /\ reader = "wait"
    /\ filled = {}
    /\ rxDma = 0
    /\ overcounted = FALSE
    /\ garbage = FALSE

\* A frame arrives and the DMA has a descriptor for it; without one the
\* hardware drops the frame and nothing changes.
DmaReceive ==
    /\ rxDma \notin filled
    /\ isem < MaxCount
    /\ filled' = filled \cup {rxDma}
    /\ rxDma' = Step(rxRingSize, rxDma)
    /\ sr' = sr \cup {"RI"}
    /\ UNCHANGED <<handling, rxHead, rxTail, isem, reader, overcounted, garbage>>

\* The number of passes of the handler's loop, from rxTail to the first
\* descriptor the DMA owns, and rxRingSize + 1 if there is none.
Received(n) ==
    /\ \A k \in 0..n-1 : Ahead(rxRingSize, rxTail, k) \in filled
    /\ n = rxRingSize + 1 \/ Ahead(rxRingSize, rxTail, n) \notin filled

\* ethhandler, receive interrupt, after the transmit part: advance rxTail and
\* signaln(isem, count).
RxCount ==
    /\ handling = {"RI"}
    /\ handling' = {}
    /\ \E n \in 0..rxRingSize+1 :
        /\ Received(n)
        /\ rxTail' = Ahead(rxRingSize, rxTail, n)
        /\ isem' = isem + n
        /\ reader' = IF isem < 0 /\ n > 0 THEN "copy" ELSE reader
    /\ overcounted' = (overcounted \/ filled = Descs(rxRingSize))
    /\ UNCHANGED <<sr, rxHead, filled, rxDma, garbage>>

\* wait(isem)
ReadWait ==
    /\ NoHandler
    /\ reader = "wait"
    /\ isem' = isem - 1
    /\ reader' = IF isem - 1 < 0 THEN "blocked" ELSE "copy"
    /\ UNCHANGED <<sr, handling, rxHead, rxTail, filled, rxDma, overcounted, garbage>>

\* Give the descriptor at rxHead back to the DMA and advance.
ReadAdvance ==
    /\ NoHandler
    /\ rxHead' = Step(rxRingSize, rxHead)
    /\ filled' = filled \ {rxHead}
    /\ UNCHANGED <<sr, handling, rxTail, isem, rxDma, overcounted>>

\* A frame for one of our addresses: ethread returns it.
ReadDeliver ==
    /\ reader = "copy"
    /\ rxHead \in filled
    /\ reader' = "returned"
    /\ ReadAdvance
    /\ UNCHANGED garbage

\* A frame for somebody else: round the loop again.
ReadSkip ==
    /\ reader = "copy"
    /\ rxHead \in filled
    /\ reader' = "wait"
    /\ ReadAdvance
    /\ UNCHANGED garbage

\* The descriptor is not a received frame: neither FS nor LS is set and
\* valid_addr was never assigned, so the loop may end or go on.
ReadGarbage(accepted) ==
    /\ reader = "copy"
    /\ rxHead \notin filled
    /\ reader' = IF accepted THEN "returned" ELSE "wait"
    /\ ReadAdvance
    /\ garbage' = TRUE

\* rawin has handled the frame and calls read() again.
Reread ==
    /\ NoHandler
    /\ reader = "returned"
    /\ reader' = "wait"
    /\ UNCHANGED <<sr, handling, rxHead, rxTail, isem, filled, rxDma, overcounted, garbage>>

Reading == ReadWait \/ ReadDeliver \/ ReadSkip \/ Reread

\* Once garbage has been read nothing more is received or read.
RxNext ==
    \/ ~garbage /\ (DmaReceive \/ \E accepted \in BOOLEAN : ReadGarbage(accepted))
    \/ ~garbage /\ Reading
    \/ RxCount

-----------------------------------------------------------------------------
(* Properties *)

RxTypeOK ==
    /\ rxHead \in Descs(rxRingSize) /\ rxTail \in Descs(rxRingSize)
    /\ rxDma \in Descs(rxRingSize)
    /\ isem \in Int /\ isem >= -1
    /\ reader \in {"wait", "blocked", "copy", "returned"}
    /\ filled \subseteq Descs(rxRingSize)
    /\ overcounted \in BOOLEAN /\ garbage \in BOOLEAN

\* Until the handler has found the whole ring filled, isem counts received
\* frames between rxHead and rxTail, no more and no less, and every one of
\* them is there to be read: ethread never takes an empty descriptor.
FramesAgree ==
    ~overcounted =>
        /\ ~garbage
        /\ Counted >= 0 /\ Counted < rxRingSize
        /\ rxTail = Ahead(rxRingSize, rxHead, Counted)
        /\ \A k \in 0..Counted-1 : Ahead(rxRingSize, rxHead, k) \in filled

\* No frame is forgotten: once its interrupt has been handled, isem has a
\* count for every frame in the ring, also when the ring was full.
NoFrameForgotten ==
    "RI" \notin sr \cup handling /\ ~garbage => Counted >= Cardinality(filled)

\* ethread reads frames only and forgets none of them (ethread, ethhandler).
RxSafe == FramesAgree /\ NoFrameForgotten

\* Every frame received, wanted or not, leaves the ring, unless the handler
\* finds the whole ring filled.
FrameLeaves == \A j \in Descs(rxRingSize) : (j \in filled) ~> (j \notin filled \/ overcounted)

=============================================================================
