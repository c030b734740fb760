-------------------------- MODULE EthDriverProofs --------------------------
(***************************************************************************)
(* The Ethernet driver.  The ring invariants, for rings of every size and  *)
(* any number of callers; setting up the device, for any number of retries *)
(* and any size of the multicast list: it is started only when all of it   *)
(* is there, and the list holds what was added and not removed.            *)
(***************************************************************************)
EXTENDS EthDriver, EthSetup, FiniteSetTheorems, TLAPS

(***************************************************************************)
(* Arithmetic of a ring                                                    *)
(***************************************************************************)

\* Ahead and Step stay in the ring.
LEMMA AheadInRing ==
    ASSUME NEW n \in Nat \ {0}, NEW h \in Descs(n), NEW k \in 0..n+1
    PROVE  Ahead(n, h, k) \in Descs(n) /\ Step(n, h) \in Descs(n)
BY DEF Ahead, Step, Descs

\* Going k places ahead and then d more is going k + d places ahead.
LEMMA AheadAhead ==
    ASSUME NEW n \in Nat \ {0}, NEW h \in Descs(n), NEW k \in 0..n, NEW d \in 0..n, k + d <= n
    PROVE  Ahead(n, Ahead(n, h, k), d) = Ahead(n, h, k + d)
BY DEF Ahead, Descs

\* Step is one place ahead: of h, and of the descriptor k places after h.
LEMMA StepAhead ==
    ASSUME NEW n \in Nat \ {0}, NEW h \in Descs(n), NEW k \in 0..n-1
    PROVE  Step(n, h) = Ahead(n, h, 1) /\ Step(n, Ahead(n, h, k)) = Ahead(n, h, k + 1)
BY DEF Ahead, Step, Descs

\* Dist inverts Ahead, and a whole turn comes back to the start.
LEMMA DistAhead ==
    ASSUME NEW n \in Nat \ {0}, NEW h \in Descs(n)
    PROVE  /\ \A k \in 0..n-1 : Dist(n, h, Ahead(n, h, k)) = k
           /\ \A j \in Descs(n) : Dist(n, h, j) \in 0..n-1 /\ Ahead(n, h, Dist(n, h, j)) = j
           /\ Ahead(n, h, n) = h /\ Ahead(n, h, 0) = h /\ Dist(n, h, h) = 0
BY DEF Ahead, Dist, Descs

\* Distances seen from a head that has moved c places.
LEMMA DistFrom ==
    ASSUME NEW n \in Nat \ {0}, NEW h \in Descs(n), NEW c \in 0..n-1, NEW j \in Descs(n)
    PROVE  Dist(n, Ahead(n, h, c), j) =
           (IF Dist(n, h, j) >= c THEN Dist(n, h, j) - c ELSE Dist(n, h, j) - c + n)
BY DEF Ahead, Dist, Descs

(***************************************************************************)
(* The transmit ring                                                       *)
(***************************************************************************)

\* What the DMA owns is the end of what is in flight: it has sent the first m
\* descriptors after txHead and looks at the next one.
TxSent(m) ==
    /\ txDma = Ahead(txRingSize, txHead, m)
    /\ \A j \in Descs(txRingSize) :
        j \in txOwned <=> /\ m <= Dist(txRingSize, txHead, j)
                          /\ Dist(txRingSize, txHead, j) < InFlight

\* The inductive invariant of the transmit half.
TxInv ==
    /\ TxTypeOK
    /\ waiting = IF osem < 0 THEN -osem ELSE 0
    /\ SlotsAgree
    /\ \E m \in 0..InFlight : TxSent(m)

LEMMA TxInvInit == TxInit => TxInv
<1> SUFFICES ASSUME TxInit PROVE TxInv
  OBVIOUS
<1> USE TxAssump DEF TxInit
<1>1. InFlight = 0
  BY DEF InFlight
<1>2. TxTypeOK
  BY DEF TxTypeOK, Descs
<1>3. SlotsAgree /\ TxSent(0)
  BY <1>1, DistAhead DEF SlotsAgree, TxSent, Ahead, Dist, Descs
<1> QED
  BY <1>1, <1>2, <1>3 DEF TxInv

\* Writing a frame puts the tail of the ring in flight.
LEMMA WriteFrameInv ==
    ASSUME TxInv, NEW resumed \in BOOLEAN, WriteFrame(resumed)
    PROVE  TxInv'
<1> USE TxAssump
<1> USE DEF WriteFrame
<1>1. /\ osem \in Int /\ waiting \in Nat /\ woken \in Nat /\ InFlight \in Int
      /\ txHead \in Descs(txRingSize) /\ txTail \in Descs(txRingSize)
  BY DEF TxInv, TxTypeOK, InFlight
<1>2. InFlight' = InFlight + 1 /\ InFlight < txRingSize
  <2>1. CASE resumed
    BY <1>1, <2>1 DEF InFlight, TxInv, SlotsAgree
  <2>2. CASE ~resumed
    BY <1>1, <2>2 DEF InFlight, TxInv, SlotsAgree
  <2> QED
    BY <2>1, <2>2
<1>3. InFlight \in 0..txRingSize-1
  BY <1>1, <1>2 DEF TxInv, SlotsAgree
<1>4. waiting' = (IF osem' < 0 THEN -osem' ELSE 0) /\ osem' \in -MaxCallers..txRingSize /\ woken' \in Nat
  <2>1. CASE resumed
    BY <1>1, <2>1 DEF TxInv, TxTypeOK
  <2>2. CASE ~resumed
    BY <1>1, <2>2 DEF TxInv, TxTypeOK
  <2> QED
    BY <2>1, <2>2
<1>5. TxTypeOK'
  BY <1>1, <1>4, AheadInRing DEF TxInv, TxTypeOK
<1>6. SlotsAgree'
  BY <1>1, <1>2, <1>3, StepAhead DEF TxInv, SlotsAgree
<1>7. PICK m \in 0..InFlight : TxSent(m)
  BY DEF TxInv
<1>8. TxSent(m)'
  <2> SUFFICES ASSUME NEW j \in Descs(txRingSize)
               PROVE  j \in txOwned' <=> /\ m <= Dist(txRingSize, txHead, j)
                                         /\ Dist(txRingSize, txHead, j) < InFlight + 1
    BY <1>2, <1>7 DEF TxSent
  <2>1. j = txTail <=> Dist(txRingSize, txHead, j) = InFlight
    BY <1>1, <1>3, DistAhead DEF TxInv, SlotsAgree
  <2>2. Dist(txRingSize, txHead, j) \in Int
    BY <1>1, DistAhead
  <2> QED
    BY <1>3, <1>7, <2>1, <2>2 DEF TxSent
<1> QED
  BY <1>2, <1>3, <1>4, <1>5, <1>6, <1>8 DEF TxInv

\* The DMA sends the first frame it owns.
LEMMA DmaSendInv ==
    ASSUME TxInv, DmaSend
    PROVE  TxInv'
<1> USE TxAssump DEF DmaSend
<1>1. /\ InFlight \in 0..txRingSize /\ InFlight' = InFlight
      /\ txHead \in Descs(txRingSize) /\ txDma \in Descs(txRingSize)
  BY DEF TxInv, TxTypeOK, SlotsAgree, InFlight
<1>2. PICK m \in 0..InFlight : TxSent(m)
  BY DEF TxInv
<1>3. m < InFlight
  <2>1. CASE m < txRingSize
    BY <1>1, <1>2, <2>1, DistAhead DEF TxSent
  <2>2. CASE m = txRingSize
    BY <1>1, <1>2, <2>2, DistAhead DEF TxSent
  <2> QED
    BY <1>1, <2>1, <2>2
<1>4. TxTypeOK' /\ SlotsAgree'
  BY <1>1, AheadInRing DEF TxInv, TxTypeOK, SlotsAgree
<1>5. TxSent(m + 1)'
  <2>1. txDma' = Ahead(txRingSize, txHead, m + 1)
    BY <1>1, <1>2, <1>3, StepAhead DEF TxSent
  <2> SUFFICES ASSUME NEW j \in Descs(txRingSize)
               PROVE  j \in txOwned' <=> /\ m + 1 <= Dist(txRingSize, txHead, j)
                                         /\ Dist(txRingSize, txHead, j) < InFlight
    BY <1>1, <2>1 DEF TxSent
  <2>2. j = txDma <=> Dist(txRingSize, txHead, j) = m
    BY <1>1, <1>2, <1>3, DistAhead DEF TxSent
  <2>3. Dist(txRingSize, txHead, j) \in Int
    BY <1>1, DistAhead
  <2> QED
    BY <1>1, <1>2, <1>3, <2>2, <2>3 DEF TxSent
<1> QED
  BY <1>1, <1>3, <1>4, <1>5 DEF TxInv

\* The handler reclaims only what the DMA has sent, and accounts for it.
LEMMA TxReclaimInv ==
    ASSUME TxInv, TxReclaim
    PROVE  TxInv'
<1> USE TxAssump
<1>1. /\ osem \in Int /\ waiting \in Nat /\ woken \in Nat /\ InFlight \in 0..txRingSize
      /\ txHead \in Descs(txRingSize) /\ txTail \in Descs(txRingSize)
      /\ txTail' = txTail /\ txOwned' = txOwned /\ txDma' = txDma
  BY DEF TxInv, TxTypeOK, SlotsAgree, InFlight, TxReclaim
<1>2. PICK n \in 0..Dist(txRingSize, txHead, txTail) :
        /\ Reclaimed(n)
        /\ txHead' = Ahead(txRingSize, txHead, n)
        /\ osem' = osem + n
        /\ LET released == IF n < waiting THEN n ELSE waiting IN
            /\ waiting' = waiting - released
            /\ woken' = woken + released
  BY DEF TxReclaim
<1>3. PICK m \in 0..InFlight : TxSent(m)
  BY DEF TxInv
<1>4. n \in 0..InFlight /\ n < txRingSize /\ n \in Int
  <2>1. CASE InFlight < txRingSize
    BY <1>1, <1>2, <2>1, DistAhead DEF TxInv, SlotsAgree
  <2>2. CASE InFlight = txRingSize
    BY <1>1, <1>2, <2>2, DistAhead DEF TxInv, SlotsAgree
  <2> QED
    BY <1>1, <2>1, <2>2
<1>5. n <= m
  <2> SUFFICES ASSUME m < n PROVE FALSE
    BY <1>3, <1>4
  <2>1. Ahead(txRingSize, txHead, m) \in Descs(txRingSize) /\ Dist(txRingSize, txHead, Ahead(txRingSize, txHead, m)) = m
    BY <1>1, <1>4, AheadInRing, DistAhead
  <2>2. Ahead(txRingSize, txHead, m) \in txOwned
    BY <1>1, <1>3, <1>4, <2>1 DEF TxSent
  <2> QED
    BY <1>2, <1>3, <1>4, <2>2 DEF Reclaimed
<1>6. InFlight' = InFlight - n
  BY <1>1, <1>2, <1>4 DEF InFlight
<1>7. /\ waiting' = (IF osem' < 0 THEN -osem' ELSE 0) /\ waiting' \in 0..MaxCallers
      /\ woken' \in Nat
  BY <1>1, <1>2, <1>4 DEF TxInv, TxTypeOK
<1>8. osem' \in -MaxCallers..txRingSize
  BY <1>1, <1>2, <1>4, <1>6, <1>7 DEF InFlight, TxInv, TxTypeOK
<1>9. TxTypeOK'
  BY <1>1, <1>2, <1>4, <1>7, <1>8, AheadInRing DEF TxInv, TxTypeOK
<1>10. SlotsAgree'
  BY <1>1, <1>2, <1>4, <1>6, AheadAhead DEF TxInv, SlotsAgree
<1>11. TxSent(m - n)'
  <2>1. txDma' = Ahead(txRingSize, txHead', m - n)
    BY <1>1, <1>2, <1>3, <1>4, <1>5, AheadAhead DEF TxSent
  <2> SUFFICES ASSUME NEW j \in Descs(txRingSize)
               PROVE  j \in txOwned <=> /\ m - n <= Dist(txRingSize, txHead', j)
                                        /\ Dist(txRingSize, txHead', j) < InFlight - n
    BY <1>1, <1>6, <2>1 DEF TxSent
  <2>2. Dist(txRingSize, txHead', j) =
          (IF Dist(txRingSize, txHead, j) >= n THEN Dist(txRingSize, txHead, j) - n
           ELSE Dist(txRingSize, txHead, j) - n + txRingSize)
    BY <1>1, <1>2, <1>4, DistFrom
  <2>3. Dist(txRingSize, txHead, j) \in 0..txRingSize-1
    BY <1>1, DistAhead
  <2>4. j \in txOwned <=> m <= Dist(txRingSize, txHead, j) /\ Dist(txRingSize, txHead, j) < InFlight
    BY <1>3 DEF TxSent
  <2> QED
    BY <1>1, <1>3, <1>4, <1>5, <2>2, <2>3, <2>4
<1> QED
  BY <1>1, <1>4, <1>5, <1>6, <1>7, <1>9, <1>10, <1>11 DEF TxInv

\* Steps that leave the transmit half alone.
LEMMA TxInvStutter ==
    ASSUME TxInv, UNCHANGED txVars
    PROVE  TxInv'
BY DEF txVars, TxInv, TxTypeOK, SlotsAgree, TxSent, InFlight

LEMMA TxInvNext ==
    ASSUME TxInv, [Next]_vars
    PROVE  TxInv'
<1>1. CASE WriteBlocks
  BY <1>1, TxAssump DEF WriteBlocks, TxInv, TxTypeOK, SlotsAgree, TxSent, InFlight
<1>2. CASE \E resumed \in BOOLEAN : WriteFrame(resumed)
  BY <1>2, WriteFrameInv
<1>3. CASE DmaSend
  BY <1>3, DmaSendInv
<1>4. CASE TxReclaim
  BY <1>4, TxReclaimInv
<1>5. CASE UNCHANGED txVars
  BY <1>5, TxInvStutter
<1> QED
  BY <1>1, <1>2, <1>3, <1>4, <1>5 DEF Next, TxNext, vars

\* osem, the processes it has charged and the ring indices agree in every
\* reachable state (ethwrite.c, ethhandler.c), for every size of the ring.
THEOREM TxSlots == Spec => []SlotsAgree
<1>1. Init => TxInv
  BY TxInvInit DEF Init
<1>2. TxInv /\ [Next]_vars => TxInv'
  BY TxInvNext
<1>3. TxInv => SlotsAgree
  BY DEF TxInv
<1> QED
  BY <1>1, <1>2, <1>3, PTL DEF Spec

\* ethwrite never fills a descriptor whose frame is still to be sent.
THEOREM TxNoOverwrite == Spec => []NoOverwrite
<1>1. Init => TxInv
  BY TxInvInit DEF Init
<1>2. TxInv /\ [Next]_vars => TxInv'
  BY TxInvNext
<1>3. TxInv => NoOverwrite
  <2> SUFFICES ASSUME TxInv, osem > 0 \/ woken > 0 PROVE txTail \notin txOwned
    BY DEF NoOverwrite
  <2> USE TxAssump
  <2>1. InFlight \in 0..txRingSize-1
    BY DEF TxInv, TxTypeOK, SlotsAgree, InFlight
  <2>2. Dist(txRingSize, txHead, txTail) = InFlight /\ txTail \in Descs(txRingSize)
    BY <2>1, DistAhead DEF TxInv, TxTypeOK, SlotsAgree
  <2> QED
    BY <2>1, <2>2 DEF TxInv, TxSent
<1> QED
  BY <1>1, <1>2, <1>3, PTL DEF Spec

\* Both together: the transmit ring is safe with any number of callers.
THEOREM TxSound == Spec => []TxSafe
<1>1. SlotsAgree /\ NoOverwrite => TxSafe
  BY DEF TxSafe
<1> QED
  BY <1>1, TxSlots, TxNoOverwrite, PTL

(***************************************************************************)
(* The receive ring                                                        *)
(***************************************************************************)

\* The f descriptors from rxHead on hold frames and no others do, the DMA looks
\* at the next one, and at most these f are counted.
RxHolds(f) ==
    /\ rxDma = Ahead(rxRingSize, rxHead, f)
    /\ \A j \in Descs(rxRingSize) : j \in filled <=> Dist(rxRingSize, rxHead, j) < f
    /\ Counted <= f

\* The inductive invariant of the receive half: the semaphore and its one
\* waiter agree, and until the whole ring was found filled so do ring and isem.
RxInv ==
    /\ RxTypeOK
    /\ reader = "blocked" <=> isem = -1
    /\ ~overcounted => /\ ~garbage
                       /\ 0 <= Counted /\ Counted < rxRingSize
                       /\ rxTail = Ahead(rxRingSize, rxHead, Counted)
                       /\ \E f \in 0..rxRingSize : RxHolds(f)

LEMMA RxInvInit == RxInit => RxInv
<1> SUFFICES ASSUME RxInit PROVE RxInv
  OBVIOUS
<1> USE RxAssump DEF RxInit
<1>1. Counted = 0
  BY DEF Counted
<1>2. RxTypeOK
  <2>1. overcounted \in BOOLEAN /\ garbage \in BOOLEAN
    BY Zenon
  <2>2. 0 \in Descs(rxRingSize)
    BY DEF Descs
  <2> QED
    BY <2>1, <2>2 DEF RxTypeOK
<1>3. RxHolds(0) /\ rxTail = Ahead(rxRingSize, rxHead, Counted)
  BY <1>1, DistAhead DEF RxHolds, Ahead, Dist, Descs
<1> QED
  BY <1>1, <1>2, <1>3 DEF RxInv

\* A frame goes into the first descriptor that holds none.
LEMMA DmaReceiveInv ==
    ASSUME RxInv, DmaReceive
    PROVE  RxInv'
<1> USE RxAssump DEF DmaReceive
<1>1. /\ rxHead \in Descs(rxRingSize) /\ rxDma \in Descs(rxRingSize)
      /\ Counted' = Counted /\ Counted \in Int
  BY DEF RxInv, RxTypeOK, Counted
<1>2. RxTypeOK'
  BY <1>1, AheadInRing DEF RxInv, RxTypeOK
<1>3. ASSUME ~overcounted PROVE \E f \in 0..rxRingSize : RxHolds(f)'
  <2>1. PICK f \in 0..rxRingSize : RxHolds(f)
    BY <1>3 DEF RxInv
  <2>2. f < rxRingSize
    <3> SUFFICES ASSUME f = rxRingSize PROVE FALSE
      OBVIOUS
    <3>1. Dist(rxRingSize, rxHead, rxDma) \in 0..rxRingSize-1
      BY <1>1, DistAhead
    <3> QED
      BY <1>1, <2>1, <3>1 DEF RxHolds
  <2>3. rxDma' = Ahead(rxRingSize, rxHead, f + 1)
    BY <1>1, <2>1, <2>2, StepAhead DEF RxHolds
  <2>4. ASSUME NEW j \in Descs(rxRingSize)
        PROVE  j \in filled' <=> Dist(rxRingSize, rxHead, j) < f + 1
    <3>1. j = rxDma <=> Dist(rxRingSize, rxHead, j) = f
      BY <1>1, <2>1, <2>2, DistAhead DEF RxHolds
    <3>2. Dist(rxRingSize, rxHead, j) \in Int
      BY <1>1, DistAhead
    <3> QED
      BY <2>1, <3>1, <3>2 DEF RxHolds
  <2>5. RxHolds(f + 1)'
    BY <1>1, <2>1, <2>3, <2>4 DEF RxHolds
  <2> QED
    BY <2>2, <2>5
<1> QED
  BY <1>1, <1>2, <1>3 DEF RxInv

\* The handler counts exactly the frames that are not counted yet, unless the
\* whole ring is filled.
LEMMA RxCountInv ==
    ASSUME RxInv, RxCount
    PROVE  RxInv'
<1> USE RxAssump
<1>1. PICK n \in 0..rxRingSize+1 :
        /\ Received(n)
        /\ rxTail' = Ahead(rxRingSize, rxTail, n)
        /\ isem' = isem + n
        /\ reader' = IF isem < 0 /\ n > 0 THEN "copy" ELSE reader
  BY DEF RxCount
<1>2. /\ overcounted' = (overcounted \/ filled = Descs(rxRingSize))
      /\ rxHead' = rxHead /\ filled' = filled /\ rxDma' = rxDma /\ garbage' = garbage
  BY DEF RxCount
<1>3. /\ rxHead \in Descs(rxRingSize) /\ rxTail \in Descs(rxRingSize)
      /\ isem \in Int /\ isem >= -1 /\ reader \in {"wait", "blocked", "copy", "returned"}
      /\ Counted \in Int
  BY DEF RxInv, RxTypeOK, Counted
<1>4. RxTypeOK'
  BY <1>1, <1>2, <1>3, AheadInRing DEF RxInv, RxTypeOK
<1>5. reader' = "blocked" <=> isem' = -1
  BY <1>1, <1>3 DEF RxInv
<1>6. Counted' = Counted + n
  BY <1>1, <1>3 DEF Counted, RxInv
<1>7. ASSUME ~overcounted'
      PROVE  /\ ~garbage'
             /\ 0 <= Counted' /\ Counted' < rxRingSize
             /\ rxTail' = Ahead(rxRingSize, rxHead', Counted')
             /\ \E f \in 0..rxRingSize : RxHolds(f)'
  <2>1. ~overcounted /\ filled # Descs(rxRingSize) /\ ~garbage
    BY <1>2, <1>7 DEF RxInv, RxTypeOK
  <2>2. PICK f \in 0..rxRingSize : RxHolds(f)
    BY <2>1 DEF RxInv
  <2>3. f < rxRingSize
    <3> SUFFICES ASSUME f = rxRingSize PROVE FALSE
      OBVIOUS
    <3>1. ASSUME NEW j \in Descs(rxRingSize) PROVE j \in filled
      BY <1>3, <2>2, DistAhead DEF RxHolds
    <3> QED
      BY <2>1, <3>1 DEF RxInv, RxTypeOK
  <2>4. /\ Counted \in 0..f /\ rxTail = Ahead(rxRingSize, rxHead, Counted)
    BY <1>3, <2>1, <2>2 DEF RxInv, RxHolds
  <2>5. ASSUME NEW k \in 0..f - Counted
        PROVE  Ahead(rxRingSize, rxTail, k) \in filled <=> k < f - Counted
    <3>1. Ahead(rxRingSize, rxTail, k) = Ahead(rxRingSize, rxHead, Counted + k)
      BY <1>3, <2>3, <2>4, AheadAhead
    <3>2. /\ Ahead(rxRingSize, rxHead, Counted + k) \in Descs(rxRingSize)
          /\ Dist(rxRingSize, rxHead, Ahead(rxRingSize, rxHead, Counted + k)) = Counted + k
      BY <1>3, <2>3, <2>4, AheadInRing, DistAhead
    <3> QED
      BY <1>3, <2>2, <2>3, <2>4, <3>1, <3>2 DEF RxHolds
  <2>6. n = f - Counted
    <3>1. ~(n > f - Counted)
      BY <1>1, <2>3, <2>4, <2>5 DEF Received
    <3>2. ~(n < f - Counted)
      BY <1>1, <2>3, <2>4, <2>5 DEF Received
    <3> QED
      BY <2>4, <3>1, <3>2
  <2>7. rxTail' = Ahead(rxRingSize, rxHead', Counted')
    BY <1>1, <1>2, <1>3, <1>6, <2>3, <2>4, <2>6, AheadAhead
  <2>8. RxHolds(f)'
    BY <1>2, <1>6, <2>2, <2>4, <2>6 DEF RxHolds
  <2> QED
    BY <1>2, <1>6, <2>1, <2>3, <2>4, <2>6, <2>7, <2>8
<1> QED
  BY <1>4, <1>5, <1>7 DEF RxInv

\* ethread finds a counted frame at rxHead and gives its descriptor back.
LEMMA ReadAdvanceInv ==
    ASSUME RxInv, reader = "copy", reader' \in {"wait", "returned"}, ReadAdvance,
           (rxHead \in filled /\ garbage' = garbage) \/ (rxHead \notin filled /\ garbage' = TRUE)
    PROVE  RxInv'
<1> USE RxAssump DEF ReadAdvance
<1>1. /\ rxHead \in Descs(rxRingSize) /\ isem \in Int /\ isem >= -1 /\ garbage \in BOOLEAN
      /\ Counted \in Int /\ Counted' = Counted - 1 /\ Counted >= 1
  BY DEF RxInv, RxTypeOK, Counted
<1>2. RxTypeOK'
  <2>1. garbage' \in BOOLEAN /\ overcounted' \in BOOLEAN
    BY <1>1, Zenon DEF RxInv, RxTypeOK
  <2> QED
    BY <1>1, <2>1, AheadInRing DEF RxInv, RxTypeOK
<1>3. reader' = "blocked" <=> isem' = -1
  BY DEF RxInv
<1>4. ASSUME ~overcounted
      PROVE  /\ ~garbage'
             /\ 0 <= Counted' /\ Counted' < rxRingSize
             /\ rxTail' = Ahead(rxRingSize, rxHead', Counted')
             /\ \E f \in 0..rxRingSize : RxHolds(f)'
  <2>1. PICK f \in 0..rxRingSize : RxHolds(f)
    BY <1>4 DEF RxInv
  <2>2. /\ 1 <= f /\ Counted < rxRingSize /\ rxTail = Ahead(rxRingSize, rxHead, Counted) /\ ~garbage
    BY <1>1, <1>4, <2>1 DEF RxInv, RxHolds
  <2>3. rxHead \in filled
    BY <1>1, <2>1, <2>2, DistAhead DEF RxHolds
  <2>4. rxHead' = Ahead(rxRingSize, rxHead, 1)
    BY <1>1, StepAhead
  <2>5. /\ rxTail' = Ahead(rxRingSize, rxHead', Counted - 1)
        /\ rxDma' = Ahead(rxRingSize, rxHead', f - 1)
    BY <1>1, <2>1, <2>2, <2>4, AheadAhead DEF RxHolds
  <2>6. ASSUME NEW j \in Descs(rxRingSize)
        PROVE  j \in filled' <=> Dist(rxRingSize, rxHead', j) < f - 1
    <3>1. j = rxHead <=> Dist(rxRingSize, rxHead, j) = 0
      BY <1>1 DEF Dist, Descs
    <3>2. Dist(rxRingSize, rxHead, j) \in 0..rxRingSize-1
      BY <1>1, DistAhead
    <3>3. Dist(rxRingSize, rxHead', j) = IF j = rxHead THEN rxRingSize - 1 ELSE Dist(rxRingSize, rxHead, j) - 1
      BY <1>1 DEF Dist, Descs, Step
    <3>4. j \in filled <=> Dist(rxRingSize, rxHead, j) < f
      BY <2>1 DEF RxHolds
    <3> QED
      BY <2>1, <2>2, <3>1, <3>2, <3>3, <3>4
  <2>7. RxHolds(f - 1)'
    BY <1>1, <2>1, <2>5, <2>6 DEF RxHolds
  <2>8. f - 1 \in 0..rxRingSize
    BY <2>1, <2>2
  <2> QED
    BY <1>1, <2>2, <2>3, <2>5, <2>7, <2>8
<1> QED
  BY <1>2, <1>3, <1>4 DEF RxInv

\* Waiting and coming back change who holds a count, never the ring.
LEMMA ReadWaitInv ==
    ASSUME RxInv, ReadWait \/ Reread
    PROVE  RxInv'
<1>1. /\ isem \in Int /\ isem >= -1
      /\ UNCHANGED <<rxHead, rxTail, filled, rxDma, overcounted, garbage>>
  BY DEF RxInv, RxTypeOK, ReadWait, Reread
<1>2. Counted' = Counted /\ RxTypeOK' /\ (reader' = "blocked" <=> isem' = -1)
  <2>1. CASE ReadWait
    BY <1>1, <2>1 DEF ReadWait, Counted, RxInv, RxTypeOK
  <2>2. CASE Reread
    BY <1>1, <2>2 DEF Reread, Counted, RxInv, RxTypeOK
  <2> QED
    BY <2>1, <2>2
<1> QED
  BY <1>1, <1>2 DEF RxInv, RxHolds

LEMMA RxInvNext ==
    ASSUME RxInv, [Next]_vars
    PROVE  RxInv'
<1>1. CASE DmaReceive
  BY <1>1, DmaReceiveInv
<1>2. CASE RxCount
  BY <1>2, RxCountInv
<1>3. CASE ReadDeliver \/ ReadSkip
  <2>1. reader' \in {"wait", "returned"}
    BY <1>3 DEF ReadDeliver, ReadSkip
  <2>2. reader = "copy" /\ rxHead \in filled /\ garbage' = garbage /\ ReadAdvance
    BY <1>3, Zenon DEF ReadDeliver, ReadSkip
  <2>3. (rxHead \in filled /\ garbage' = garbage) \/ (rxHead \notin filled /\ garbage' = TRUE)
    BY <2>2, Zenon
  <2> QED
    BY <2>1, <2>2, <2>3, ReadAdvanceInv
<1>4. CASE \E accepted \in BOOLEAN : ReadGarbage(accepted)
  <2>1. reader' \in {"wait", "returned"}
    BY <1>4 DEF ReadGarbage
  <2>2. reader = "copy" /\ rxHead \notin filled /\ garbage' = TRUE /\ ReadAdvance
    BY <1>4, Zenon DEF ReadGarbage
  <2> QED
    BY <2>1, <2>2, ReadAdvanceInv, Zenon
<1>5. CASE ReadWait \/ Reread
  BY <1>5, ReadWaitInv
<1>6. CASE UNCHANGED rxVars
  BY <1>6 DEF rxVars, RxInv, RxTypeOK, RxHolds, Counted
<1> QED
  BY <1>1, <1>2, <1>3, <1>4, <1>5, <1>6 DEF Next, RxNext, Reading, vars

\* Until the handler has found the whole ring filled, isem, the ring indices and
\* the descriptors agree and ethread reads only frames (ethread.c, ethhandler.c).
THEOREM RxFrames == Spec => []FramesAgree
<1>1. Init => RxInv
  BY RxInvInit DEF Init
<1>2. RxInv /\ [Next]_vars => RxInv'
  BY RxInvNext
<1>3. RxInv => FramesAgree
  <2> SUFFICES ASSUME RxInv, ~overcounted, NEW k \in 0..Counted-1
               PROVE  Ahead(rxRingSize, rxHead, k) \in filled
    BY DEF RxInv, FramesAgree
  <2> USE RxAssump
  <2>1. PICK f \in 0..rxRingSize : RxHolds(f)
    BY DEF RxInv
  <2>2. Counted \in 0..rxRingSize-1 /\ rxHead \in Descs(rxRingSize)
    BY DEF RxInv, RxTypeOK, Counted
  <2>3. /\ Ahead(rxRingSize, rxHead, k) \in Descs(rxRingSize)
        /\ Dist(rxRingSize, rxHead, Ahead(rxRingSize, rxHead, k)) = k
    BY <2>2, AheadInRing, DistAhead
  <2> QED
    BY <2>1, <2>2, <2>3 DEF RxHolds
<1> QED
  BY <1>1, <1>2, <1>3, PTL DEF Spec

\* The f descriptors from rxHead on hold frames, and the DMA looks at the next
\* one: this holds as long as ethread has read only frames, also after the
\* handler has counted a full ring once too often.
Frames(f) ==
    /\ rxDma = Ahead(rxRingSize, rxHead, f)
    /\ \A j \in Descs(rxRingSize) : j \in filled <=> Dist(rxRingSize, rxHead, j) < f

\* The frames in the ring, those counted and the place the handler has come to,
\* which is as many descriptors after rxHead as isem counts, round and round.
ForgetInv ==
    ~garbage =>
        /\ \E f \in 0..rxRingSize : Frames(f) /\ ("RI" \in sr \cup handling \/ Counted >= f)
        /\ \E q \in Int : rxHead + Counted = rxTail + q * rxRingSize

\* The DMA puts a frame into the descriptor after those that hold one.
LEMMA FramesMore ==
    ASSUME RxTypeOK, NEW f \in 0..rxRingSize, Frames(f), DmaReceive
    PROVE  f + 1 \in 0..rxRingSize /\ Frames(f + 1)'
<1> USE RxAssump DEF DmaReceive
<1>1. rxHead \in Descs(rxRingSize) /\ rxDma \in Descs(rxRingSize)
  BY DEF RxTypeOK
<1>2. f < rxRingSize
  <2> SUFFICES ASSUME f = rxRingSize PROVE FALSE
    OBVIOUS
  <2>1. Dist(rxRingSize, rxHead, rxDma) \in 0..rxRingSize-1
    BY <1>1, DistAhead
  <2> QED
    BY <1>1, <2>1 DEF Frames
<1>3. rxDma' = Ahead(rxRingSize, rxHead, f + 1)
  BY <1>1, <1>2, StepAhead DEF Frames
<1>4. ASSUME NEW j \in Descs(rxRingSize)
      PROVE  j \in filled' <=> Dist(rxRingSize, rxHead, j) < f + 1
  <2>1. j = rxDma <=> Dist(rxRingSize, rxHead, j) = f
    BY <1>1, <1>2, DistAhead DEF Frames
  <2>2. Dist(rxRingSize, rxHead, j) \in Int
    BY <1>1, DistAhead
  <2> QED
    BY <2>1, <2>2 DEF Frames
<1> QED
  BY <1>2, <1>3, <1>4 DEF Frames

\* ethread takes the frame at rxHead from the ring.
LEMMA FramesLess ==
    ASSUME RxTypeOK, NEW f \in 0..rxRingSize, Frames(f), rxHead \in filled, ReadAdvance
    PROVE  f - 1 \in 0..rxRingSize /\ Frames(f - 1)'
<1> USE RxAssump DEF ReadAdvance
<1>1. rxHead \in Descs(rxRingSize)
  BY DEF RxTypeOK
<1>2. 1 <= f
  BY <1>1, DistAhead DEF Frames
<1>3. rxHead' = Ahead(rxRingSize, rxHead, 1)
  BY <1>1, StepAhead
<1>4. rxDma' = Ahead(rxRingSize, rxHead', f - 1)
  BY <1>1, <1>2, <1>3, AheadAhead DEF Frames
<1>5. ASSUME NEW j \in Descs(rxRingSize)
      PROVE  j \in filled' <=> Dist(rxRingSize, rxHead', j) < f - 1
  <2>1. j = rxHead <=> Dist(rxRingSize, rxHead, j) = 0
    BY <1>1 DEF Dist, Descs
  <2>2. Dist(rxRingSize, rxHead, j) \in 0..rxRingSize-1
    BY <1>1, DistAhead
  <2>3. Dist(rxRingSize, rxHead', j) = IF j = rxHead THEN rxRingSize - 1 ELSE Dist(rxRingSize, rxHead, j) - 1
    BY <1>1 DEF Dist, Descs, Step
  <2>4. j \in filled <=> Dist(rxRingSize, rxHead, j) < f
    BY DEF Frames
  <2> QED
    BY <1>2, <2>1, <2>2, <2>3, <2>4
<1> QED
  BY <1>2, <1>4, <1>5 DEF Frames

\* An index that differs from another by c, up to whole turns, is c places ahead.
LEMMA TurnsAhead ==
    ASSUME NEW n \in Nat \ {0}, NEW h \in Descs(n), NEW t \in Descs(n), NEW c \in 0..n-1, NEW q \in Int,
           h + c = t + q * n
    PROVE  t = Ahead(n, h, c)
<1>1. q * n > -n /\ q * n < 2 * n
  BY DEF Descs
<1>2. ~(q <= -1)
  <2>1. ASSUME q <= -1 PROVE q * n <= -n
    BY <2>1
  <2> QED
    BY <1>1, <2>1
<1>3. ~(q >= 2)
  <2>1. ASSUME q >= 2 PROVE q * n >= 2 * n
    BY <2>1
  <2> QED
    BY <1>1, <2>1
<1>4. q = 0 \/ q = 1
  BY <1>2, <1>3
<1>5. CASE q = 0
  BY <1>5 DEF Ahead, Descs
<1>6. CASE q = 1
  BY <1>6 DEF Ahead, Descs
<1> QED
  BY <1>4, <1>5, <1>6

\* When the handler has gone through the ring there is a count for every frame.
LEMMA CountRemembers ==
    ASSUME RxInv, ForgetInv, RxCount
    PROVE  ForgetInv'
<1> USE RxAssump
<1>1. PICK n \in 0..rxRingSize+1 :
        /\ Received(n)
        /\ rxTail' = Ahead(rxRingSize, rxTail, n)
        /\ isem' = isem + n
        /\ reader' = IF isem < 0 /\ n > 0 THEN "copy" ELSE reader
  BY DEF RxCount
<1>2. UNCHANGED rxHead /\ UNCHANGED filled /\ UNCHANGED rxDma /\ (garbage <=> garbage')
  BY Zenon DEF RxCount
<1>3. /\ rxHead \in Descs(rxRingSize) /\ rxTail \in Descs(rxRingSize)
      /\ isem \in Int /\ isem >= -1 /\ reader \in {"wait", "blocked", "copy", "returned"}
      /\ Counted \in Int /\ Counted >= 0
  BY DEF RxInv, RxTypeOK, Counted
<1>4. Counted' = Counted + n
  BY <1>1, <1>3 DEF Counted, RxInv
<1>5. SUFFICES ASSUME ~garbage
               PROVE  /\ \E f \in 0..rxRingSize : Frames(f)' /\ Counted' >= f
                      /\ \E q \in Int : rxHead' + Counted' = rxTail' + q * rxRingSize
  BY <1>2 DEF ForgetInv
<1>6. PICK f \in 0..rxRingSize : Frames(f)
  BY <1>5 DEF ForgetInv
<1>7. PICK q \in Int : rxHead + Counted = rxTail + q * rxRingSize
  BY <1>5 DEF ForgetInv
<1>8. Frames(f)'
  BY <1>2, <1>6 DEF Frames
<1>9. Counted' >= f
  <2>1. CASE Counted >= f
    BY <1>1, <1>3, <1>4, <2>1
  <2>2. CASE Counted < f
    <3>1. rxTail = Ahead(rxRingSize, rxHead, Counted)
      BY <1>3, <1>7, <2>2, TurnsAhead
    <3>2. ASSUME NEW k \in 0..f - Counted - 1
          PROVE  Ahead(rxRingSize, rxTail, k) \in filled
      <4>1. Counted \in 0..f-1 /\ Counted + k \in 0..rxRingSize-1 /\ k \in 0..rxRingSize
        BY <1>3, <2>2
      <4>2. Ahead(rxRingSize, rxTail, k) = Ahead(rxRingSize, rxHead, Counted + k)
        BY <1>3, <3>1, <4>1, AheadAhead
      <4>3. /\ Ahead(rxRingSize, rxHead, Counted + k) \in Descs(rxRingSize)
            /\ Dist(rxRingSize, rxHead, Ahead(rxRingSize, rxHead, Counted + k)) = Counted + k
        BY <1>3, <4>1, AheadInRing, DistAhead
      <4> QED
        BY <1>3, <1>6, <4>1, <4>2, <4>3 DEF Frames
    <3>3. ~(n < f - Counted)
      BY <1>1, <1>3, <2>2, <3>2 DEF Received
    <3> QED
      BY <1>1, <1>3, <1>4, <3>3
  <2> QED
    BY <1>3, <2>1, <2>2
<1>10. \E p \in Int : rxHead' + Counted' = rxTail' + p * rxRingSize
  <2>1. rxTail' \in {rxTail + n, rxTail + n - rxRingSize, rxTail + n - 2 * rxRingSize}
    BY <1>1, <1>3 DEF Ahead
  <2>2. PICK d \in {0, 1, 2} : rxTail' = rxTail + n - d * rxRingSize
    BY <1>3, <2>1 DEF Descs
  <2>3. (q + d) * rxRingSize = q * rxRingSize + d * rxRingSize
    OBVIOUS
  <2>4. rxHead' + Counted' = rxTail' + (q + d) * rxRingSize
    BY <1>1, <1>2, <1>3, <1>4, <1>7, <2>2, <2>3 DEF Descs
  <2>5. q + d \in Int
    OBVIOUS
  <2> QED
    BY <2>4, <2>5
<1> QED
  BY <1>6, <1>8, <1>9, <1>10

\* The steps that leave the ring alone leave the pending interrupt alone too.
LEMMA RingRests ==
    ASSUME ForgetInv, UNCHANGED rxHead, UNCHANGED rxTail, UNCHANGED filled, UNCHANGED rxDma,
           Counted' = Counted, garbage <=> garbage',
           "RI" \in sr \cup handling => "RI" \in sr' \cup handling'
    PROVE  ForgetInv'
<1>1. \A f \in 0..rxRingSize : Frames(f) => Frames(f)'
  BY DEF Frames
<1> QED
  BY <1>1 DEF ForgetInv

\* Every step keeps ForgetInv.
LEMMA ForgetNext ==
    ASSUME RxInv, ForgetInv, [Next]_vars
    PROVE  ForgetInv'
<1> USE RxAssump
<1>0. /\ RxTypeOK /\ rxHead \in Descs(rxRingSize) /\ rxTail \in Descs(rxRingSize)
      /\ isem \in Int /\ Counted \in Int
  BY DEF RxInv, RxTypeOK, Counted
<1>1. CASE DmaReceive
  <2>1. /\ UNCHANGED rxHead /\ UNCHANGED rxTail /\ Counted' = Counted /\ "RI" \in sr'
        /\ (garbage <=> garbage')
    <3>1. UNCHANGED rxHead /\ UNCHANGED rxTail /\ UNCHANGED isem /\ UNCHANGED reader /\ "RI" \in sr'
      BY <1>1 DEF DmaReceive
    <3>2. garbage <=> garbage'
      BY <1>1, Zenon DEF DmaReceive
    <3> QED
      BY <3>1, <3>2 DEF Counted
  <2> QED
    BY <1>0, <1>1, <2>1, FramesMore DEF ForgetInv
<1>2. CASE RxCount
  BY <1>2, CountRemembers
<1>3. CASE ReadDeliver \/ ReadSkip
  <2>1. /\ reader = "copy" /\ reader' \in {"wait", "returned"} /\ rxHead \in filled
        /\ ReadAdvance /\ (garbage <=> garbage')
    <3>1. reader = "copy" /\ reader' \in {"wait", "returned"} /\ rxHead \in filled
      BY <1>3 DEF ReadDeliver, ReadSkip
    <3>2. ReadAdvance /\ garbage' = garbage
      BY <1>3, Zenon DEF ReadDeliver, ReadSkip
    <3>3. garbage <=> garbage'
      BY <3>2, Zenon
    <3> QED
      BY <3>1, <3>2, <3>3
  <2>2. /\ rxHead' = Step(rxRingSize, rxHead) /\ UNCHANGED sr /\ UNCHANGED handling /\ UNCHANGED rxTail
        /\ UNCHANGED isem
    BY <2>1 DEF ReadAdvance
  <2>3. Counted' = Counted - 1
    BY <1>0, <2>1, <2>2 DEF Counted
  <2>4. SUFFICES ASSUME ~garbage
                 PROVE  /\ \E f \in 0..rxRingSize : Frames(f)' /\ ("RI" \in sr \cup handling \/ Counted' >= f)
                        /\ \E q \in Int : rxHead' + Counted' = rxTail' + q * rxRingSize
    BY <2>1, <2>2 DEF ForgetInv
  <2>5. PICK f \in 0..rxRingSize : Frames(f) /\ ("RI" \in sr \cup handling \/ Counted >= f)
    BY <2>4 DEF ForgetInv
  <2>6. f - 1 \in 0..rxRingSize /\ Frames(f - 1)'
    BY <1>0, <2>1, <2>5, FramesLess
  <2>7. PICK q \in Int : rxHead + Counted = rxTail + q * rxRingSize
    BY <2>4 DEF ForgetInv
  <2>8. PICK d \in {0, 1} : rxHead' = rxHead + 1 - d * rxRingSize
    BY <1>0, <2>2 DEF Step, Descs
  <2>9. (q - d) * rxRingSize = q * rxRingSize - d * rxRingSize
    OBVIOUS
  <2>10. rxHead' + Counted' = rxTail' + (q - d) * rxRingSize
    BY <1>0, <2>2, <2>3, <2>7, <2>8, <2>9 DEF Descs
  <2>11. Counted >= f => Counted' >= f - 1
    BY <1>0, <2>3
  <2>12. q - d \in Int
    OBVIOUS
  <2> QED
    BY <2>5, <2>6, <2>10, <2>11, <2>12
<1>4. CASE \E accepted \in BOOLEAN : ReadGarbage(accepted)
  <2>1. garbage' = TRUE
    BY <1>4, Zenon DEF ReadGarbage
  <2> QED
    BY <2>1, Zenon DEF ForgetInv
<1>5. CASE ReadWait \/ Reread
  <2>1. UNCHANGED rxHead /\ UNCHANGED rxTail /\ UNCHANGED filled /\ UNCHANGED rxDma
    BY <1>5 DEF ReadWait, Reread
  <2>2. UNCHANGED sr /\ UNCHANGED handling /\ Counted' = Counted
    BY <1>0, <1>5 DEF ReadWait, Reread, Counted, RxTypeOK
  <2>3. garbage <=> garbage'
    <3>1. CASE ReadWait
      BY <3>1, Zenon DEF ReadWait
    <3>2. CASE Reread
      BY <3>2, Zenon DEF Reread
    <3> QED
      BY <1>5, <3>1, <3>2
  <2> QED
    BY <2>1, <2>2, <2>3, RingRests
<1>6. ASSUME UNCHANGED rxVars, "RI" \in sr \cup handling => "RI" \in sr' \cup handling'
      PROVE  ForgetInv'
  <2>1. UNCHANGED rxHead /\ UNCHANGED rxTail /\ UNCHANGED filled /\ UNCHANGED rxDma /\ Counted' = Counted
    BY <1>6 DEF rxVars, Counted
  <2>2. garbage <=> garbage'
    BY <1>6, Zenon DEF rxVars
  <2> QED
    BY <1>6, <2>1, <2>2, RingRests
<1>7. CASE HandlerEnter /\ UNCHANGED <<txVars, rxVars>>
  BY <1>6, <1>7 DEF HandlerEnter, NoHandler
<1>8. CASE TxNext /\ UNCHANGED rxVars
  BY <1>6, <1>8 DEF TxNext, WriteBlocks, WriteFrame, DmaSend, TxReclaim
<1>9. CASE UNCHANGED vars
  BY <1>6, <1>9 DEF vars
<1> QED
  BY <1>1, <1>2, <1>3, <1>4, <1>5, <1>7, <1>8, <1>9 DEF Next, RxNext, Reading

\* As many descriptors hold a frame as there are places from rxHead to rxDma.
LEMMA FramesCount ==
    ASSUME RxTypeOK, NEW f \in 0..rxRingSize, Frames(f)
    PROVE  Cardinality(filled) <= f
<1> USE RxAssump
<1>1. rxHead \in Descs(rxRingSize) /\ filled \subseteq Descs(rxRingSize)
  BY DEF RxTypeOK
<1> DEFINE g == [j \in filled |-> Dist(rxRingSize, rxHead, j)]
<1>2. \A j \in filled : g[j] \in 0..f-1
  BY <1>1, DistAhead DEF Frames
<1>3. \A j, k \in filled : g[j] = g[k] => j = k
  BY <1>1, DistAhead
<1>4. g \in Injection(filled, 0..f-1)
  BY <1>2, <1>3 DEF Injection, IsInjective
<1>5. IsFiniteSet(0..f-1) /\ Cardinality(0..f-1) = f
  BY FS_Interval
<1> QED
  BY <1>4, <1>5, FS_Injection DEF ExistsInjection

\* ethhandler and ethread: once the receive interrupt has been handled isem has a
\* count for every frame in the ring, also after the ring was full, until ethread
\* reads a descriptor that holds none.
THEOREM RxRemembers == Spec => []NoFrameForgotten
<1>1. Init => RxInv
  BY RxInvInit DEF Init
<1>2. Init => ForgetInv
  <2> SUFFICES ASSUME Init PROVE ForgetInv
    OBVIOUS
  <2> USE RxAssump DEF Init, RxInit
  <2>1. Counted = 0 /\ rxHead = 0 /\ rxTail = 0
    BY DEF Counted
  <2>2. Frames(0)
    BY DistAhead DEF Frames, Ahead, Dist, Descs
  <2>3. rxHead + Counted = rxTail + 0 * rxRingSize
    BY <2>1
  <2> QED
    BY <2>1, <2>2, <2>3 DEF ForgetInv
<1>3. RxInv /\ [Next]_vars => RxInv'
  BY RxInvNext
<1>4. RxInv /\ ForgetInv /\ [Next]_vars => ForgetInv'
  BY ForgetNext
<1>5. RxInv /\ ForgetInv => NoFrameForgotten
  <2> SUFFICES ASSUME RxInv, ForgetInv, "RI" \notin sr \cup handling, ~garbage
               PROVE  Counted >= Cardinality(filled)
    BY DEF NoFrameForgotten
  <2>1. PICK f \in 0..rxRingSize : Frames(f) /\ Counted >= f
    BY DEF ForgetInv
  <2>2. Cardinality(filled) <= f
    BY <2>1, FramesCount DEF RxInv
  <2>3. IsFiniteSet(filled)
    <3>1. filled \subseteq 0..rxRingSize-1 /\ IsFiniteSet(0..rxRingSize-1)
      BY RxAssump, FS_Interval DEF RxInv, RxTypeOK, Descs
    <3> QED
      BY <3>1, FS_Subset
  <2>4. Cardinality(filled) \in Nat /\ Counted \in Int
    BY <2>3, FS_CardinalityType DEF RxInv, RxTypeOK, Counted
  <2> QED
    BY <2>1, <2>2, <2>4
<1> QED
  BY <1>1, <1>2, <1>3, <1>4, <1>5, PTL DEF Spec

\* Both together: ethread reads frames only, and none is forgotten.
THEOREM RxSound == Spec => []RxSafe
<1>1. FramesAgree /\ NoFrameForgotten => RxSafe
  BY DEF RxSafe
<1> QED
  BY <1>1, RxFrames, RxRemembers, PTL

\* The driver is type correct for every size of its rings.
THEOREM DriverTypeCorrect == Spec => []TypeOK
<1> DEFINE Inv == sr \subseteq {"TI", "RI"} /\ handling \subseteq {"TI", "RI"} /\ TxInv /\ RxInv
<1>1. Init => Inv
  BY TxInvInit, RxInvInit DEF Init
<1>2. Inv /\ [Next]_vars => Inv'
  <2> SUFFICES ASSUME Inv, [Next]_vars PROVE Inv'
    OBVIOUS
  <2>1. TxInv' /\ RxInv'
    BY TxInvNext, RxInvNext
  <2>2. sr' \subseteq {"TI", "RI"} /\ handling' \subseteq {"TI", "RI"}
    BY DEF Next, vars, HandlerEnter, TxNext, WriteBlocks, WriteFrame, DmaSend, TxReclaim,
       RxNext, DmaReceive, RxCount, Reading, ReadWait, ReadDeliver, ReadSkip, ReadGarbage,
       ReadAdvance, Reread
  <2> QED
    BY <2>1, <2>2
<1>3. Inv => TypeOK
  BY DEF TypeOK, TxInv, RxInv
<1> QED
  BY <1>1, <1>2, <1>3, PTL DEF Spec

-----------------------------------------------------------------------------
(***************************************************************************)
(* Setting up the device (EthSetup)                                        *)
(***************************************************************************)

EtherSpec == EthInit0 /\ [][EthSetupNext]_evars

Parts(ring) == {<<ring, "ring">>, <<ring, "bufs">>, <<ring, "sem">>}
StepNames == {"reset", "waitreset", "autoneg", "link", "mac", "waitmac", "tx", "rx", "start", "done"}

HwTypes == [reset : BOOLEAN, negotiated : BOOLEAN, link : BOOLEAN, macbusy : BOOLEAN, running : BOOLEAN]
InitTypes == [at : StepNames \cup {"failed"}, retries : 0..MAX_RETRIES,
              mem : SUBSET ({"tx", "rx"} \X {"ring", "bufs", "sem"}), sawlink : BOOLEAN]

\* What each step of ethinit has behind it: the device runs only after the last.
Reached ==
    /\ hw \in HwTypes /\ init \in InitTypes
    /\ init.at \in {"mac", "waitmac", "tx", "rx", "start", "done"} => init.sawlink
    /\ init.at \in {"tx", "rx", "start", "done"} => ~hw.macbusy
    /\ init.at \in {"rx", "start", "done"} => Parts("tx") \subseteq init.mem
    /\ init.at \in {"start", "done"} => Parts("rx") \subseteq init.mem
    /\ hw.running => init.at = "done"

\* The list and its history, which have the same length and the same addresses.
ListInv ==
    /\ mcast \in [mca : [0..ETH_NUM_MCAST -> Macs \cup {Empty}], mcc : 0..ETH_NUM_MCAST]
    /\ members \in Seq(Macs)
    /\ mcast.mcc = Len(members)
    /\ \A i \in 1..Len(members) : mcast.mca[i - 1] = members[i]

-----------------------------------------------------------------------------
LEMMA NextSteps ==
    /\ NextStep("reset") = "waitreset" /\ NextStep("waitreset") = "autoneg"
    /\ NextStep("autoneg") = "link" /\ NextStep("link") = "mac" /\ NextStep("mac") = "waitmac"
    /\ NextStep("waitmac") = "tx" /\ NextStep("tx") = "rx" /\ NextStep("rx") = "start"
    /\ NextStep("start") = "done"
<1>1. /\ DOMAIN Steps = 1..10
      /\ Steps[1] = "reset" /\ Steps[2] = "waitreset" /\ Steps[3] = "autoneg" /\ Steps[4] = "link"
      /\ Steps[5] = "mac" /\ Steps[6] = "waitmac" /\ Steps[7] = "tx" /\ Steps[8] = "rx"
      /\ Steps[9] = "start" /\ Steps[10] = "done"
  BY DEF Steps
<1>2. \A i, j \in 1..10 : Steps[i] = Steps[j] => i = j
  BY <1>1
<1>3. \A i \in 1..9 : NextStep(Steps[i]) = Steps[i + 1]
  <2> TAKE i \in 1..9
  <2>1. (CHOOSE j \in DOMAIN Steps : Steps[j] = Steps[i]) = i
    BY <1>1, <1>2
  <2> QED
    BY <2>1 DEF NextStep
<1> QED
  BY <1>1, <1>3

LEMMA StepsAre == {Steps[i] : i \in DOMAIN Steps} = StepNames
  BY DEF Steps, StepNames

\* A function on 1..n is a sequence of length n.
LEMMA SequenceOf ==
    ASSUME NEW S, NEW n \in Nat, NEW f \in [1..n -> S]
    PROVE  f \in Seq(S) /\ Len(f) = n
  OBVIOUS

\* The two ways a step ends: in the next one, or in another turn of its loop.
LEMMA Advances ==
    ASSUME init \in InitTypes, NEW b \in StepNames, NextStep(init.at) = b, Advance
    PROVE  init' \in InitTypes /\ init'.at = b /\ init'.mem = init.mem /\ init'.sawlink = init.sawlink
<1>1. init' = [init EXCEPT !.at = b, !.retries = 0]
  BY DEF Advance
<1>2. 0 \in 0..MAX_RETRIES /\ b \in StepNames \cup {"failed"}
  BY EthSetupAssump
<1> QED
  BY <1>1, <1>2 DEF InitTypes

LEMMA TriesAgain ==
    ASSUME init \in InitTypes, TryAgain
    PROVE  /\ init' \in InitTypes /\ init'.mem = init.mem /\ init'.sawlink = init.sawlink
           /\ init'.at \in {init.at, "failed"}
<1>1. CASE init' = [init EXCEPT !.at = "failed"]
  BY <1>1 DEF InitTypes
<1>2. CASE init.retries + 1 <= MAX_RETRIES /\ init' = [init EXCEPT !.retries = init.retries + 1]
  BY <1>2, EthSetupAssump DEF InitTypes
<1>3. init.retries \in 0..MAX_RETRIES
  BY DEF InitTypes
<1> QED
  BY <1>1, <1>2, <1>3, EthSetupAssump DEF TryAgain

\* An action that moves one step on keeps what the steps before have reached.
LEMMA ReachedNext == Reached /\ [EthSetupNext]_evars => Reached'
<1> SUFFICES ASSUME Reached, [EthSetupNext]_evars PROVE Reached'
  OBVIOUS
<1>0. hw \in HwTypes /\ init \in InitTypes
  BY DEF Reached
<1>1. CASE ResetPhy
  <2>1. init' \in InitTypes /\ init'.at = "waitreset"
    BY <1>0, <1>1, NextSteps, Advances DEF ResetPhy, StepNames
  <2>2. hw' \in HwTypes /\ hw'.running = hw.running
    BY <1>0, <1>1 DEF ResetPhy, HwTypes
  <2> QED
    BY <1>1, <2>1, <2>2 DEF Reached, ResetPhy
<1>2. CASE WaitReset
  <2>1. CASE TryAgain
    BY <1>0, <1>2, <2>1, TriesAgain DEF Reached, WaitReset
  <2>2. CASE Advance
    <3>1. init' \in InitTypes /\ init'.at = "autoneg"
      BY <1>0, <1>2, <2>2, NextSteps, Advances DEF WaitReset, StepNames
    <3> QED
      BY <1>2, <3>1 DEF Reached, WaitReset
  <2> QED
    BY <1>2, <2>1, <2>2 DEF WaitReset
<1>3. CASE AutonegNotCapable \/ Autoneg
  <2>1. CASE TryAgain
    BY <1>0, <1>3, <2>1, TriesAgain DEF Reached, Autoneg, AutonegNotCapable
  <2>2. CASE Advance
    <3>1. init' \in InitTypes /\ init'.at = "link"
      BY <1>0, <1>3, <2>2, NextSteps, Advances DEF Autoneg, AutonegNotCapable, StepNames
    <3> QED
      BY <1>3, <3>1 DEF Reached, Autoneg, AutonegNotCapable
  <2> QED
    BY <1>3, <2>1, <2>2 DEF Autoneg, AutonegNotCapable
<1>4. CASE WaitLink
  <2>1. CASE TryAgain
    BY <1>0, <1>4, <2>1, TriesAgain DEF Reached, WaitLink
  <2>2. CASE init' = [init EXCEPT !.at = NextStep(init.at), !.retries = 0, !.sawlink = TRUE]
    <3>1. init' = [init EXCEPT !.at = "mac", !.retries = 0, !.sawlink = TRUE]
      BY <1>4, <2>2, NextSteps DEF WaitLink
    <3>2. 0 \in 0..MAX_RETRIES /\ "mac" \in StepNames \cup {"failed"}
      BY EthSetupAssump DEF StepNames
    <3>3. init' \in InitTypes /\ init'.at = "mac" /\ init'.sawlink
      BY <1>0, <3>1, <3>2 DEF InitTypes
    <3> QED
      BY <1>4, <3>3 DEF Reached, WaitLink
  <2> QED
    BY <1>4, <2>1, <2>2 DEF WaitLink
<1>5. CASE ResetMac
  <2>1. init' \in InitTypes /\ init'.at = "waitmac" /\ init'.sawlink = init.sawlink
    BY <1>0, <1>5, NextSteps, Advances DEF ResetMac, StepNames
  <2>2. hw' \in HwTypes /\ hw'.running = hw.running
    BY <1>0, <1>5 DEF ResetMac, HwTypes
  <2> QED
    BY <1>5, <2>1, <2>2 DEF Reached, ResetMac
<1>6. CASE WaitMac
  <2>1. CASE TryAgain
    BY <1>0, <1>6, <2>1, TriesAgain DEF Reached, WaitMac
  <2>2. CASE ~hw.macbusy /\ Advance
    <3>1. init' \in InitTypes /\ init'.at = "tx" /\ init'.sawlink = init.sawlink
      BY <1>0, <1>6, <2>2, NextSteps, Advances DEF WaitMac, StepNames
    <3> QED
      BY <1>6, <2>2, <3>1 DEF Reached, WaitMac
  <2> QED
    BY <1>6, <2>1, <2>2 DEF WaitMac
<1>7. ASSUME NEW ring \in {"tx", "rx"}, Allocate(ring)
      PROVE  Reached'
  <2>1. CASE init' = [init EXCEPT !.at = NextStep(init.at), !.mem = init.mem \cup {<<ring, "ring">>, <<ring, "bufs">>, <<ring, "sem">>}]
    <3>1. init.at = ring /\ hw' = hw
      BY <1>7 DEF Allocate
    <3>2. PICK b \in {"rx", "start"} : b = NextStep(init.at) /\ (ring = "tx" <=> b = "rx")
      BY <3>1, NextSteps
    <3>3. init.mem \subseteq {"tx", "rx"} \X {"ring", "bufs", "sem"} /\ Parts(ring) \subseteq {"tx", "rx"} \X {"ring", "bufs", "sem"}
      BY <1>0 DEF InitTypes, Parts
    <3>4. init' = [init EXCEPT !.at = b, !.mem = init.mem \cup Parts(ring)]
      BY <2>1, <3>2 DEF Parts
    <3>5. init' \in InitTypes /\ init'.at = b /\ init'.sawlink = init.sawlink /\ init'.mem = init.mem \cup Parts(ring)
      BY <1>0, <3>3, <3>4 DEF InitTypes, StepNames
    <3> QED
      BY <3>1, <3>2, <3>5 DEF Reached
  <2>2. ASSUME NEW part \in {{}, {<<ring, "ring">>}, {<<ring, "ring">>, <<ring, "bufs">>}},
               init' = [init EXCEPT !.at = "failed", !.mem = init.mem \cup part]
        PROVE  Reached'
    <3>1. init.mem \cup part \subseteq {"tx", "rx"} \X {"ring", "bufs", "sem"}
      BY <1>0 DEF InitTypes
    <3>2. init' \in InitTypes /\ init'.at = "failed"
      BY <1>0, <2>2, <3>1 DEF InitTypes
    <3>3. hw' = hw /\ init.at = ring
      BY <1>7 DEF Allocate
    <3> QED
      BY <3>2, <3>3 DEF Reached
  <2> QED
    BY <1>7, <2>1, <2>2 DEF Allocate
<1>8. CASE StartDma
  <2>1. init' \in InitTypes /\ init'.at = "done" /\ init'.sawlink = init.sawlink /\ init'.mem = init.mem
    BY <1>0, <1>8, NextSteps, Advances DEF StartDma, StepNames
  <2>2. hw' \in HwTypes /\ hw'.macbusy = hw.macbusy
    BY <1>0, <1>8 DEF StartDma, HwTypes
  <2> QED
    BY <1>8, <2>1, <2>2 DEF Reached, StartDma
<1>9. CASE PhyResets \/ PhyNegotiates \/ LinkChanges \/ MacResets
  <2>1. hw' \in HwTypes /\ hw'.running = hw.running /\ (hw'.macbusy => hw.macbusy) /\ init' = init
    BY <1>0, <1>9 DEF PhyResets, PhyNegotiates, LinkChanges, MacResets, HwTypes
  <2> QED
    BY <2>1 DEF Reached
<1>10. ASSUME NEW a \in Macs, McastAdd(a) \/ McastRemove(a)
       PROVE  Reached'
  BY <1>10 DEF McastAdd, McastRemove, Control, Reached
<1>11. CASE UNCHANGED evars
  BY <1>11 DEF evars, Reached
<1> QED
  BY <1>1, <1>2, <1>3, <1>4, <1>5, <1>6, <1>7, <1>8, <1>9, <1>10, <1>11 DEF EthSetupNext, EthSetupStep

\* ethmcast_add and ethmcast_remove keep list and history together.
LEMMA AddKeeps ==
    ASSUME ListInv, NEW a \in Macs, McastAdd(a)
    PROVE  ListInv'
<1> USE EthSetupAssump
<1>1. CASE mcast.mcc >= ETH_NUM_MCAST
  BY <1>1 DEF McastAdd, Control, ListInv
<1>2. CASE mcast.mcc < ETH_NUM_MCAST
  <2>1. /\ mcast'.mca = [mcast.mca EXCEPT ![mcast.mcc] = a] /\ mcast'.mcc = mcast.mcc + 1
        /\ members' = Append(members, a)
        /\ mcast' = [mca |-> [mcast.mca EXCEPT ![mcast.mcc] = a], mcc |-> mcast.mcc + 1]
    BY <1>2 DEF McastAdd
  <2>2. mcast' \in [mca : [0..ETH_NUM_MCAST -> Macs \cup {Empty}], mcc : 0..ETH_NUM_MCAST]
    BY <1>2, <2>1 DEF ListInv
  <2>3. /\ members' \in Seq(Macs) /\ Len(members') = Len(members) + 1
        /\ \A i \in 1..Len(members) : members'[i] = members[i]
        /\ members'[Len(members) + 1] = a
    BY <2>1 DEF ListInv
  <2>4. \A i \in 1..Len(members') : mcast'.mca[i - 1] = members'[i]
    BY <1>2, <2>1, <2>3 DEF ListInv
  <2> QED
    BY <2>1, <2>2, <2>3, <2>4 DEF ListInv
<1> QED
  BY <1>1, <1>2 DEF ListInv

LEMMA RemoveKeeps ==
    ASSUME ListInv, NEW a \in Macs, McastRemove(a)
    PROVE  ListInv'
<1> USE EthSetupAssump
<1>1. CASE Listed(a) = {}
  BY <1>1 DEF McastRemove, Control, ListInv
<1>2. ASSUME NEW k \in Listed(a),
             mcast' = [mca |-> [j \in DOMAIN mcast.mca |->
                                  IF j < k \/ j > mcast.mcc THEN mcast.mca[j]
                                  ELSE IF j = mcast.mcc THEN Empty ELSE mcast.mca[j + 1]],
                       mcc |-> mcast.mcc - 1],
             members' = Without(members, k + 1)
      PROVE  ListInv'
  <2> DEFINE n == Len(members)
  <2>1. n \in Nat /\ mcast.mcc = n /\ n <= ETH_NUM_MCAST /\ k \in 0..(n - 1)
    BY DEF Listed, ListInv
  <2>2. DOMAIN mcast.mca = 0..ETH_NUM_MCAST /\ members \in [1..n -> Macs]
    BY DEF ListInv
  <2>3. members' = [i \in 1..(n - 1) |-> IF i < k + 1 THEN members[i] ELSE members[i + 1]]
    BY <1>2 DEF Without
  <2>4. members' \in [1..(n - 1) -> Macs]
    BY <2>1, <2>2, <2>3
  <2>5. members' \in Seq(Macs) /\ Len(members') = n - 1
    BY <2>1, <2>4, SequenceOf
  <2>6. \A j \in 0..ETH_NUM_MCAST :
          mcast'.mca[j] = IF j < k \/ j > n THEN mcast.mca[j] ELSE IF j = n THEN Empty ELSE mcast.mca[j + 1]
    BY <1>2, <2>1, <2>2
  <2>7. mcast'.mcc = n - 1 /\ DOMAIN mcast' = {"mca", "mcc"}
    BY <1>2, <2>1
  <2>8. mcast' \in [mca : [0..ETH_NUM_MCAST -> Macs \cup {Empty}], mcc : 0..ETH_NUM_MCAST]
    <3>1. \A j \in 0..ETH_NUM_MCAST : mcast.mca[j] \in Macs \cup {Empty}
      BY DEF ListInv
    <3>2. \A j \in 0..ETH_NUM_MCAST : j < n => mcast.mca[j + 1] \in Macs \cup {Empty}
      BY <2>1, <3>1
    <3>3. mcast'.mca \in [0..ETH_NUM_MCAST -> Macs \cup {Empty}]
      <4> DEFINE f == [j \in DOMAIN mcast.mca |->
                         IF j < k \/ j > mcast.mcc THEN mcast.mca[j]
                         ELSE IF j = mcast.mcc THEN Empty ELSE mcast.mca[j + 1]]
      <4>1. \A j \in 0..ETH_NUM_MCAST : f[j] \in Macs \cup {Empty}
        <5> TAKE j \in 0..ETH_NUM_MCAST
        <5>1. f[j] = IF j < k \/ j > n THEN mcast.mca[j] ELSE IF j = n THEN Empty ELSE mcast.mca[j + 1]
          BY <2>1, <2>2
        <5>2. CASE j < k \/ j >= n
          BY <2>1, <3>1, <5>1, <5>2
        <5>3. CASE ~(j < k \/ j >= n)
          BY <2>1, <3>2, <5>1, <5>3
        <5> QED
          BY <5>2, <5>3
      <4>2. f = [j \in 0..ETH_NUM_MCAST |-> f[j]]
        BY <2>2
      <4>3. mcast'.mca = f
        BY <1>2
      <4> QED
        BY <4>1, <4>2, <4>3
    <3> QED
      BY <1>2, <2>1, <3>3
  <2>9. \A i \in 1..(n - 1) : mcast'.mca[i - 1] = members'[i]
    <3> TAKE i \in 1..(n - 1)
    <3>1. mcast.mca[i - 1] = members[i] /\ mcast.mca[i] = members[i + 1]
      BY <2>1 DEF ListInv
    <3>2. i - 1 \in 0..ETH_NUM_MCAST /\ i - 1 < n
      BY <2>1
    <3>3. CASE i < k + 1
      BY <2>1, <2>3, <2>6, <3>1, <3>2, <3>3
    <3>4. CASE i >= k + 1
      BY <2>1, <2>3, <2>6, <3>1, <3>2, <3>4
    <3> QED
      BY <2>1, <3>3, <3>4
  <2> QED
    BY <2>1, <2>5, <2>7, <2>8, <2>9 DEF ListInv
<1> QED
  BY <1>1, <1>2 DEF McastRemove

LEMMA ListNext == ListInv /\ [EthSetupNext]_evars => ListInv'
<1> SUFFICES ASSUME ListInv, [EthSetupNext]_evars PROVE ListInv'
  OBVIOUS
<1>1. CASE Setting
  BY <1>1 DEF Setting, ListInv
<1>2. CASE UNCHANGED evars
  BY <1>2 DEF evars, ListInv
<1>3. ASSUME NEW a \in Macs, McastAdd(a) \/ McastRemove(a)
      PROVE  ListInv'
  BY <1>3, AddKeeps, RemoveKeeps
<1>4. EthSetupStep \/ PhyResets \/ PhyNegotiates \/ LinkChanges \/ MacResets => Setting
  BY DEF EthSetupStep, ResetPhy, WaitReset, AutonegNotCapable, Autoneg, WaitLink, ResetMac, WaitMac,
     Allocate, StartDma, PhyResets, PhyNegotiates, LinkChanges, MacResets
<1> QED
  BY <1>1, <1>2, <1>3, <1>4 DEF EthSetupNext

LEMMA EtherInitially == EthInit0 => Reached /\ ListInv
  BY EthSetupAssump DEF EthInit0, Reached, HwTypes, InitTypes, StepNames, ListInv

\* For any number of retries, whatever the hardware answers and whenever, and for a multicast
\* list of any size: ethinit starts the device only when it is ready, and ethcontrol keeps the
\* list that was asked for.
THEOREM EthernetReady == EtherSpec => []EtherRight
<1>1. Reached /\ ListInv => EtherRight
  <2> SUFFICES ASSUME Reached, ListInv PROVE EtherRight
    OBVIOUS
  <2> USE EthSetupAssump
  <2>1. EthSetupTypeOK
    BY StepsAre DEF Reached, InitTypes, ListInv, EthSetupTypeOK
  <2>2. StartedReady
    BY DEF Reached, Parts, StartedReady
  <2>3. MembersListed
    BY DEF ListInv, MembersListed
  <2> QED
    BY <2>1, <2>2, <2>3 DEF EtherRight
<1> QED
  BY <1>1, EtherInitially, ReachedNext, ListNext, PTL DEF EtherSpec
=============================================================================
