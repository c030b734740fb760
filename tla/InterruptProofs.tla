--------------------------- MODULE InterruptProofs ---------------------------
(***************************************************************************)
(* What interrupt handlers and processes share.  The frame queues of the   *)
(* packet input path are sound and lose no order, for every number of      *)
(* interfaces, slots and buffers.  The console's input is a line that can  *)
(* be edited until it is entered, and read once and in order; its output   *)
(* is shown once and in order; for rings of every size and any number of   *)
(* readers and writers.                                                    *)
(***************************************************************************)
EXTENDS NetInput, Tty, DataLemmas

-----------------------------------------------------------------------------
(* The packet input path *)

\* What the safety of the input path rests on, whatever the frames do.
RingInv ==
    /\ TypeOK
    /\ SemCountsQueue
    /\ rpc = "getbuf" <=> rpkt = NoPkt
    /\ \A i \in Ifaces : npc[i] = "blocked" <=> if_sem[i] = -1
    /\ \A i \in Ifaces : npc[i] = "work" <=> npkt[i] # NoPkt
    /\ \A i \in Ifaces, j \in Slots : Live(i, j) => if_queue[i][j] \in Buffers

\* Arithmetic of the ring: where the indices are and what is live.
LEMMA RingArith ==
    ASSUME RingInv, NEW k \in Ifaces
    PROVE  /\ Pending(k) \in 0..(IF_QUEUESIZE + 1)
           /\ if_head[k] \in Slots /\ if_tail[k] \in Slots
           /\ if_tail[k] \in Around(if_head[k] + Pending(k))
  BY ConstAssump DEF RingInv, TypeOK, SemCountsQueue, Pending

LEMMA RingInvInit == Init => RingInv
<1> SUFFICES ASSUME Init PROVE RingInv
  OBVIOUS
<1> USE ConstAssump DEF Init
<1>1. \A i \in Ifaces : Pending(i) = 0
  BY DEF Pending
<1>2. if_queue \in [Ifaces -> [Slots -> Buffers \cup {NoPkt}]]
  OBVIOUS
<1>3. /\ if_head \in [Ifaces -> Slots] /\ if_tail \in [Ifaces -> Slots]
      /\ if_sem \in [Ifaces -> -1..IF_QUEUESIZE]
  BY DEF Slots
<1>4. TypeOK
  BY <1>2, <1>3 DEF TypeOK
<1>5. \A i \in Ifaces, j \in Slots : ~Live(i, j)
  BY <1>1 DEF Live, Dist, Slots
<1> QED
  BY <1>1, <1>4, <1>5 DEF RingInv, SemCountsQueue, Around

LEMMA RingInvNext == RingInv /\ [Next]_vars => RingInv'
<1> SUFFICES ASSUME RingInv, [Next]_vars PROVE RingInv'
  OBVIOUS
<1>0. up' = up
  BY DEF Next, vars
<1> USE ConstAssump, <1>0
<1>1. CASE UNCHANGED vars
  BY <1>1 DEF vars, RingInv, TypeOK, SemCountsQueue, Live, Dist, Pending
<1>2. CASE RawinGetbuf
  BY <1>2 DEF RawinGetbuf, ringVars, RingInv, TypeOK, SemCountsQueue, Live, Dist, Pending
<1>3. ASSUME NEW i \in Ifaces, NEW d \in Data,
             RawinIgnore(i, d) \/ RawinDrop(i, d) \/ RawinExit(i, d)
      PROVE  RingInv'
  BY <1>3 DEF RawinIgnore, RawinDrop, RawinExit, Frame, ringVars,
     RingInv, TypeOK, SemCountsQueue, Live, Dist, Pending
<1>4. ASSUME NEW i \in Ifaces, NEW d \in Data, RawinEnqueue(i, d)
      PROVE  RingInv'
  <2>1. TypeOK'
    BY <1>4 DEF RawinEnqueue, Frame, Signal, Wrap, Overflow, RingInv, TypeOK, Slots
  <2>2. \A k \in Ifaces : npc'[k] = "blocked" <=> if_sem'[k] = -1
    BY <1>4 DEF RawinEnqueue, Frame, Signal, RingInv, TypeOK
  <2>3. \A k \in Ifaces : Pending(k)' = IF k = i THEN Pending(k) + 1 ELSE Pending(k)
    BY <1>4 DEF RawinEnqueue, Frame, Signal, RingInv, TypeOK, Pending
  <2>4. SemCountsQueue'
    <3> SUFFICES ASSUME NEW k \in Ifaces
                 PROVE  /\ Pending(k)' >= 0
                        /\ if_tail'[k] \in Around(if_head'[k] + Pending(k)')
      BY DEF SemCountsQueue, Around
    <3>1. /\ if_head'[k] = if_head[k]
          /\ if_tail'[k] = IF k = i THEN Wrap(if_tail[k] + 1) ELSE if_tail[k]
      BY <1>4 DEF RawinEnqueue, RingInv, TypeOK
    <3>2. k = i => Pending(k) <= IF_QUEUESIZE
      BY <1>4 DEF RawinEnqueue, Overflow, Pending, RingInv, TypeOK
    <3> QED
      BY <2>3, <3>1, <3>2, RingArith DEF Wrap, Around, Slots
  <2>5. \A k \in Ifaces, j \in Slots : Live(k, j)' => if_queue'[k][j] \in Buffers
    <3> SUFFICES ASSUME NEW k \in Ifaces, NEW j \in Slots, Live(k, j)'
                 PROVE  if_queue'[k][j] \in Buffers
      OBVIOUS
    <3>1. CASE k = i /\ j = if_tail[i]
      BY <1>4, <3>1 DEF RawinEnqueue, Frame, RingInv, TypeOK
    <3>2. CASE ~(k = i /\ j = if_tail[i])
      <4>1. if_queue'[k][j] = if_queue[k][j]
        BY <1>4, <3>2 DEF RawinEnqueue, RingInv, TypeOK
      <4>2. if_head'[k] = if_head[k]
        BY <1>4 DEF RawinEnqueue
      <4>3. Live(k, j)
        BY <2>3, <3>2, <4>2, RingArith DEF Around, Slots, Live, Dist
      <4> QED BY <4>1, <4>3 DEF RingInv
    <3> QED BY <3>1, <3>2
  <2> QED
    BY <1>4, <2>1, <2>2, <2>4, <2>5 DEF RawinEnqueue, Frame, Signal, RingInv, TypeOK
<1>5. ASSUME NEW i \in Ifaces, NetinWait(i)
      PROVE  RingInv'
  <2>1. \A k \in Ifaces : Pending(k)' = Pending(k)
    BY <1>5 DEF NetinWait, RingInv, TypeOK, Pending
  <2>2. /\ if_sem' \in [Ifaces -> -1..IF_QUEUESIZE]
        /\ \A k \in Ifaces : npc'[k] = "blocked" <=> if_sem'[k] = -1
    <3>1. if_sem[i] \in 0..IF_QUEUESIZE
      BY <1>5 DEF NetinWait, RingInv, TypeOK
    <3>2. if_sem' = [if_sem EXCEPT ![i] = if_sem[i] - 1] /\ if_sem[i] - 1 \in -1..IF_QUEUESIZE
      BY <1>5, <3>1 DEF NetinWait
    <3>3. if_sem' \in [Ifaces -> -1..IF_QUEUESIZE]
      BY <3>2 DEF RingInv, TypeOK
    <3>4. ASSUME NEW k \in Ifaces
          PROVE  npc'[k] = "blocked" <=> if_sem'[k] = -1
      <4>1. CASE k = i
        BY <1>5, <3>1, <3>2, <4>1 DEF NetinWait, RingInv, TypeOK
      <4>2. CASE k # i
        BY <1>5, <4>2 DEF NetinWait, RingInv, TypeOK
      <4> QED BY <4>1, <4>2
    <3> QED
      BY <3>3, <3>4
  <2>3. TypeOK'
    BY <1>5, <2>2 DEF NetinWait, RingInv, TypeOK
  <2> QED
    BY <1>5, <2>1, <2>2, <2>3 DEF NetinWait, RingInv, TypeOK, SemCountsQueue, Live, Dist
<1>6. ASSUME NEW i \in Ifaces, NetinTake(i)
      PROVE  RingInv'
  <2>1. \A k \in Ifaces : Pending(k)' = IF k = i THEN Pending(k) - 1 ELSE Pending(k)
    BY <1>6 DEF NetinTake, RingInv, TypeOK, Pending
  <2>2. Live(i, if_head[i]) /\ Pending(i) >= 1
    BY <1>6 DEF NetinTake, RingInv, TypeOK, Live, Dist, Pending, Slots
  <2>3. TypeOK'
    BY <1>6 DEF NetinTake, RingInv, TypeOK, Wrap, Slots
  <2>4. SemCountsQueue'
    <3> SUFFICES ASSUME NEW k \in Ifaces
                 PROVE  /\ Pending(k)' >= 0
                        /\ if_tail'[k] \in Around(if_head'[k] + Pending(k)')
      BY DEF SemCountsQueue, Around
    <3>1. /\ if_tail'[k] = if_tail[k]
          /\ if_head'[k] = IF k = i THEN Wrap(if_head[k] + 1) ELSE if_head[k]
      BY <1>6 DEF NetinTake, RingInv, TypeOK
    <3> QED
      BY <2>1, <2>2, <3>1, RingArith DEF Wrap, Around, Slots
  <2>5. ASSUME NEW k \in Ifaces, NEW j \in Slots, Live(k, j)'
        PROVE  Live(k, j)
    <3>1. Pending(k) \in Int /\ if_head[k] \in Slots /\ if_head'[k] \in Slots
      BY <2>3 DEF RingInv, TypeOK, Pending
    <3>2. if_head'[k] = IF k = i THEN Wrap(if_head[k] + 1) ELSE if_head[k]
      BY <1>6 DEF NetinTake, RingInv, TypeOK
    <3> QED
      BY <2>1, <2>2, <2>5, <3>1, <3>2, RingArith DEF Live, Dist, Wrap, Slots
  <2> QED
    BY <1>6, <2>2, <2>3, <2>4, <2>5 DEF NetinTake, RingInv, TypeOK
<1>7. ASSUME NEW i \in Ifaces, NetinFinish(i)
      PROVE  RingInv'
  BY <1>7 DEF NetinFinish, ringVars, RingInv, TypeOK, SemCountsQueue, Live, Dist, Pending
<1> QED
  <2>1. \A dst \in Ifaces : Demux(dst) \in Ifaces
    BY DEF Demux, Ifaces
  <2> QED
    BY <1>1, <1>2, <1>3, <1>4, <1>5, <1>6, <1>7, <2>1 DEF Next, Rawin, Netin

\* The ring indices, the semaphore and the processes always agree.
THEOREM SemaphoreAgreement == Spec => []SemCountsQueue
<1>1. RingInv => SemCountsQueue
  BY DEF RingInv
<1> QED
  BY <1>1, RingInvInit, RingInvNext, PTL DEF Spec

\* The state of the input path keeps its types.
THEOREM TypeCorrect == Spec => []TypeOK
<1>1. RingInv => TypeOK
  BY DEF RingInv
<1> QED
  BY <1>1, RingInvInit, RingInvNext, PTL DEF Spec

\* However fast frames arrive, a ring is overrun by one packet at most.
THEOREM OverrunBound == Spec => []OverrunAtMostOne
<1>1. RingInv => OverrunAtMostOne
  BY ConstAssump DEF RingInv, TypeOK, OverrunAtMostOne, Pending
<1> QED
  BY <1>1, RingInvInit, RingInvNext, PTL DEF Spec

-----------------------------------------------------------------------------
(***************************************************************************)
(* Buffer ownership.  It holds while no more frames are outstanding on an  *)
(* interface than its ring has slots; the run netin_overrun shows that it  *)
(* is lost one frame later.                                                *)
(***************************************************************************)
PacedInv ==
    /\ RingInv
    /\ \A i \in Ifaces : Outstanding(i) <= MaxBurst
    /\ OneOwner
    /\ NoLeak

LEMMA PacedInvInit == Init => PacedInv
<1> SUFFICES ASSUME Init PROVE PacedInv
  OBVIOUS
<1>1. RingInv
  BY RingInvInit
<1>2. \A i \in Ifaces : Pending(i) = 0
  BY DEF Init, Pending
<1>3. \A i \in Ifaces, j \in Slots : ~Live(i, j)
  BY <1>2, ConstAssump DEF Live, Dist, Init, Slots
<1> QED
  BY <1>1, <1>2, <1>3, ConstAssump
  DEF Init, PacedInv, Outstanding, OneOwner, NoLeak

\* Enqueueing makes the slot at if_tail live, and no other.
LEMMA EnqueueLive ==
    ASSUME MaxBurst <= IF_QUEUESIZE, PacedInv,
           NEW i \in Ifaces, NEW d \in Data, RawinEnqueue(i, d)
    PROVE  /\ ~Live(i, if_tail[i])
           /\ \A k \in Ifaces : Pending(k)' = IF k = i THEN Pending(k) + 1 ELSE Pending(k)
           /\ \A k \in Ifaces, j \in Slots :
                 Live(k, j)' <=> Live(k, j) \/ (k = i /\ j = if_tail[i])
<1> USE ConstAssump
<1>1. \A k \in Ifaces : Pending(k)' = IF k = i THEN Pending(k) + 1 ELSE Pending(k)
  BY DEF RawinEnqueue, Frame, Signal, PacedInv, RingInv, TypeOK, Pending
<1>2. Pending(i) < IF_QUEUESIZE
  BY RingArith DEF RawinEnqueue, Frame, Outstanding, PacedInv
<1>3. if_head' = if_head
  BY DEF RawinEnqueue
<1>4. ~Live(i, if_tail[i])
  BY <1>2, RingArith DEF PacedInv, Around, Slots, Live, Dist
<1>5. ASSUME NEW k \in Ifaces, NEW j \in Slots
      PROVE  Live(k, j)' <=> Live(k, j) \/ (k = i /\ j = if_tail[i])
  <2>1. CASE k = i
    BY <1>1, <1>2, <1>3, <2>1, RingArith DEF PacedInv, Around, Slots, Live, Dist
  <2>2. CASE k # i
    BY <1>1, <1>3, <2>2 DEF Live, Dist
  <2> QED BY <2>1, <2>2
<1> QED BY <1>1, <1>4, <1>5

\* Taking a packet ends the life of the slot at if_head, and of no other.
LEMMA TakeLive ==
    ASSUME MaxBurst <= IF_QUEUESIZE, PacedInv,
           NEW i \in Ifaces, NetinTake(i)
    PROVE  /\ Live(i, if_head[i])
           /\ \A k \in Ifaces : Pending(k)' = IF k = i THEN Pending(k) - 1 ELSE Pending(k)
           /\ \A k \in Ifaces, j \in Slots :
                 Live(k, j)' <=> Live(k, j) /\ ~(k = i /\ j = if_head[i])
<1> USE ConstAssump
<1>1. \A k \in Ifaces : Pending(k)' = IF k = i THEN Pending(k) - 1 ELSE Pending(k)
  BY DEF NetinTake, PacedInv, RingInv, TypeOK, Pending
<1>2. Pending(i) >= 1 /\ Pending(i) <= IF_QUEUESIZE
  <2>1. Pending(i) >= 1
    BY DEF NetinTake, PacedInv, RingInv, TypeOK, Pending
  <2> QED
    BY <2>1, RingArith DEF PacedInv, Outstanding
<1>3. /\ if_head'[i] = Wrap(if_head[i] + 1)
      /\ \A k \in Ifaces : k # i => if_head'[k] = if_head[k]
  BY DEF NetinTake, PacedInv, RingInv, TypeOK
<1>4. Live(i, if_head[i])
  BY <1>2, RingArith DEF PacedInv, Slots, Live, Dist
<1>5. ASSUME NEW k \in Ifaces, NEW j \in Slots
      PROVE  Live(k, j)' <=> Live(k, j) /\ ~(k = i /\ j = if_head[i])
  <2>1. CASE k = i
    BY <1>1, <1>2, <1>3, <2>1, RingArith DEF PacedInv, Wrap, Slots, Live, Dist
  <2>2. CASE k # i
    BY <1>1, <1>3, <2>2 DEF Live, Dist
  <2> QED BY <2>1, <2>2
<1> QED BY <1>1, <1>4, <1>5

LEMMA PacedInvNext ==
    ASSUME MaxBurst <= IF_QUEUESIZE
    PROVE  PacedInv /\ [Next]_vars => PacedInv'
<1> SUFFICES ASSUME PacedInv, [Next]_vars PROVE PacedInv'
  OBVIOUS
<1> USE ConstAssump
<1>0. RingInv'
  BY RingInvNext DEF PacedInv
<1>1. CASE UNCHANGED vars
  BY <1>0, <1>1
  DEF vars, PacedInv, Outstanding, Pending, OneOwner, NoLeak, Live, Dist
<1>2. CASE RawinGetbuf
  <2>1. /\ \A i \in Ifaces : Outstanding(i)' = Outstanding(i)
        /\ \A i \in Ifaces, j \in Slots : Live(i, j)' <=> Live(i, j)
    BY <1>2 DEF RawinGetbuf, ringVars, Outstanding, Pending, Live, Dist
  <2>2. PICK b \in free : rpkt' = b /\ free' = free \ {b}
    BY <1>2 DEF RawinGetbuf
  <2>3. b \in Buffers /\ b # NoPkt /\ rpkt = NoPkt
    BY <1>2, <2>2 DEF RawinGetbuf, PacedInv, RingInv, TypeOK
  <2>4. OneOwner' /\ NoLeak'
    BY <1>2, <2>1, <2>2, <2>3 DEF RawinGetbuf, ringVars, PacedInv, OneOwner, NoLeak
  <2> QED
    BY <1>0, <2>1, <2>4 DEF PacedInv
<1>3. ASSUME NEW i \in Ifaces, NEW d \in Data,
             RawinIgnore(i, d) \/ RawinDrop(i, d) \/ RawinExit(i, d)
      PROVE  PacedInv'
  BY <1>0, <1>3 DEF RawinIgnore, RawinDrop, RawinExit, Frame, ringVars,
     PacedInv, Outstanding, Pending, OneOwner, NoLeak, Live, Dist
<1>4. ASSUME NEW i \in Ifaces, NEW d \in Data, RawinEnqueue(i, d)
      PROVE  PacedInv'
  <2> USE <1>4, EnqueueLive DEF PacedInv
  <2>1. \A k \in Ifaces : Outstanding(k)' <= MaxBurst
    <3> SUFFICES ASSUME NEW k \in Ifaces PROVE Outstanding(k)' <= MaxBurst
      OBVIOUS
    <3>1. Pending(k)' = IF k = i THEN Pending(k) + 1 ELSE Pending(k)
      OBVIOUS
    <3>2. npkt' = npkt /\ Outstanding(i) < MaxBurst /\ Outstanding(k) <= MaxBurst
      BY DEF RawinEnqueue, Frame
    <3>3. Pending(k) \in Int
      BY RingArith
    <3> QED
      BY <3>1, <3>2, <3>3 DEF Outstanding
  <2>2. /\ rpkt \in Buffers /\ rpkt' = NoPkt /\ npkt' = npkt
        /\ free' = free /\ fault' = fault
    BY DEF RawinEnqueue, Frame, RingInv, TypeOK
  <2>3. \A k \in Ifaces, j \in Slots :
           if_queue'[k][j] = IF k = i /\ j = if_tail[i] THEN rpkt ELSE if_queue[k][j]
    BY DEF RawinEnqueue, RingInv, TypeOK
  <2>4. OneOwner'
    BY <2>2, <2>3 DEF OneOwner, RingInv, TypeOK
  <2>5. NoLeak'
    BY <2>2, <2>3, RingArith DEF NoLeak
  <2> QED
    BY <1>0, <2>1, <2>4, <2>5
<1>5. ASSUME NEW i \in Ifaces, NetinWait(i)
      PROVE  PacedInv'
  <2>1. \A k \in Ifaces : Pending(k)' = Pending(k)
    BY <1>5 DEF NetinWait, PacedInv, RingInv, TypeOK, Pending
  <2> QED
    BY <1>0, <1>5, <2>1
    DEF NetinWait, PacedInv, Outstanding, OneOwner, NoLeak, Live, Dist
<1>6. ASSUME NEW i \in Ifaces, NetinTake(i)
      PROVE  PacedInv'
  <2> USE <1>6, TakeLive DEF PacedInv
  <2>1. /\ if_queue' = if_queue /\ rpkt' = rpkt /\ free' = free /\ fault' = fault
        /\ npkt[i] = NoPkt
    BY DEF NetinTake, RingInv, TypeOK
  <2>2. /\ npkt'[i] = if_queue[i][if_head[i]] /\ npkt'[i] \in Buffers
        /\ \A k \in Ifaces : k # i => npkt'[k] = npkt[k]
    BY RingArith DEF NetinTake, RingInv, TypeOK
  <2>3. \A k \in Ifaces : Outstanding(k)' <= MaxBurst
    BY <2>1, <2>2, RingArith DEF Outstanding
  <2>4. OneOwner'
    BY <2>1, <2>2, RingArith DEF OneOwner, RingInv, TypeOK
  <2>5. NoLeak'
    BY <2>1, <2>2 DEF NoLeak
  <2> QED
    BY <1>0, <2>3, <2>4, <2>5
<1>7. ASSUME NEW i \in Ifaces, NetinFinish(i)
      PROVE  PacedInv'
  <2>1. /\ \A k \in Ifaces : Pending(k)' = Pending(k)
        /\ \A k \in Ifaces, j \in Slots : Live(k, j)' <=> Live(k, j)
    BY <1>7 DEF NetinFinish, ringVars, PacedInv, RingInv, TypeOK, Pending, Live, Dist
  <2>2. /\ npkt[i] \in Buffers /\ npkt'[i] = NoPkt
        /\ \A k \in Ifaces : k # i => npkt'[k] = npkt[k]
    BY <1>7 DEF NetinFinish, PacedInv, RingInv, TypeOK
  <2>3. \A k \in Ifaces : Outstanding(k)' <= MaxBurst
    BY <2>1, <2>2, RingArith DEF PacedInv, Outstanding
  <2>4. OneOwner'
    BY <1>7, <2>1, <2>2 DEF NetinFinish, ringVars, PacedInv, OneOwner, RingInv, TypeOK
  <2>5. NoLeak'
    BY <1>7, <2>1, <2>2 DEF NetinFinish, ringVars, PacedInv, NoLeak
  <2> QED
    BY <1>0, <2>3, <2>4, <2>5 DEF PacedInv
<1> QED
  <2>1. \A dst \in Ifaces : Demux(dst) \in Ifaces
    BY DEF Demux, Ifaces
  <2> QED
    BY <1>1, <1>2, <1>3, <1>4, <1>5, <1>6, <1>7, <2>1 DEF Next, Rawin, Netin

\* As long as no interface has more frames outstanding than ring slots, every
\* packet buffer has one owner: no double free, no packet overwritten in use.
THEOREM PacedOwnership ==
    ASSUME MaxBurst <= IF_QUEUESIZE
    PROVE  Spec => []OneOwner
<1>1. PacedInv => OneOwner
  BY DEF PacedInv
<1> QED
  BY <1>1, PacedInvInit, PacedInvNext, PTL DEF Spec

\* Under the same bound no packet buffer is ever lost.
THEOREM PacedNoLeak ==
    ASSUME MaxBurst <= IF_QUEUESIZE
    PROVE  Spec => []NoLeak
<1>1. PacedInv => NoLeak
  BY DEF PacedInv
<1> QED
  BY <1>1, PacedInvInit, PacedInvNext, PTL DEF Spec

\* Both together: each packet buffer has exactly one owner (getbuf, freebuf).
THEOREM PacedBuffers ==
    ASSUME MaxBurst <= IF_QUEUESIZE
    PROVE  Spec => []OwnedOnce
<1>1. OneOwner /\ NoLeak => OwnedOnce
  BY DEF OwnedOnce
<1> QED
  BY <1>1, PacedOwnership, PacedNoLeak, PTL

-----------------------------------------------------------------------------
(***************************************************************************)
(* The refinement: under the same bound the rings are first-in first-out   *)
(* queues (PacketQueue).                                                   *)
(***************************************************************************)

\* What is on a ring or being handled is a frame.
DataInv ==
    /\ \A i \in Ifaces : npkt[i] # NoPkt => content[npkt[i]] \in Data
    /\ \A i \in Ifaces, j \in Slots : Live(i, j) => content[if_queue[i][j]] \in Data

OrderInv == PacedInv /\ DataInv

LEMMA OrderInvInit == Init => OrderInv
<1> SUFFICES ASSUME Init PROVE OrderInv
  OBVIOUS
<1>1. PacedInv
  BY PacedInvInit
<1>2. \A i \in Ifaces : Pending(i) = 0
  BY DEF Init, Pending
<1>3. \A i \in Ifaces, j \in Slots : ~Live(i, j)
  BY <1>2, ConstAssump DEF Live, Dist, Init, Slots
<1> QED
  BY <1>1, <1>3 DEF Init, OrderInv, DataInv

\* A frame that arrives goes into a buffer that nobody else has.
LEMMA FrameApart ==
    ASSUME PacedInv, NEW i \in Ifaces, NEW d \in Data, Frame(i, d)
    PROVE  /\ rpkt \in Buffers /\ content' = [content EXCEPT ![rpkt] = d]
           /\ \A k \in Ifaces : npkt[k] # NoPkt => content'[npkt[k]] = content[npkt[k]]
           /\ \A k \in Ifaces, j \in Slots : Live(k, j) => content'[if_queue[k][j]] = content[if_queue[k][j]]
<1>1. rpkt \in Buffers /\ content' = [content EXCEPT ![rpkt] = d] /\ content \in [Buffers -> Data \cup {NoPkt}]
  BY DEF Frame, PacedInv, RingInv, TypeOK
<1>2. ASSUME NEW k \in Ifaces, npkt[k] # NoPkt PROVE npkt[k] # rpkt /\ npkt[k] \in Buffers
  BY <1>2 DEF PacedInv, OneOwner, RingInv, TypeOK
<1>3. ASSUME NEW k \in Ifaces, NEW j \in Slots, Live(k, j)
      PROVE  if_queue[k][j] # rpkt /\ if_queue[k][j] \in Buffers
  BY <1>3 DEF PacedInv, OneOwner
<1> QED
  BY <1>1, <1>2, <1>3

LEMMA OrderInvNext ==
    ASSUME MaxBurst <= IF_QUEUESIZE, OrderInv, [Next]_vars
    PROVE  OrderInv'
<1>0. PacedInv /\ PacedInv' /\ DataInv /\ up' = up
  BY PacedInvNext DEF OrderInv, Next, vars
<1>1. CASE UNCHANGED vars
  BY <1>0, <1>1 DEF vars, OrderInv, DataInv, Live, Dist, Pending
<1>2. CASE RawinGetbuf
  BY <1>0, <1>2 DEF RawinGetbuf, ringVars, OrderInv, DataInv, Live, Dist, Pending
<1>3. ASSUME NEW i \in Ifaces, NEW d \in Data,
             RawinIgnore(i, d) \/ RawinDrop(i, d) \/ RawinExit(i, d)
      PROVE  OrderInv'
  <2>1. Frame(i, d) /\ UNCHANGED ringVars /\ UNCHANGED npc /\ UNCHANGED npkt
    BY <1>3 DEF RawinIgnore, RawinDrop, RawinExit
  <2>2. \A k \in Ifaces, j \in Slots : Live(k, j)' <=> Live(k, j)
    BY <2>1 DEF ringVars, Live, Dist, Pending
  <2> QED
    BY <1>0, <2>1, <2>2, FrameApart DEF ringVars, OrderInv, DataInv
<1>4. ASSUME NEW i \in Ifaces, NEW d \in Data, RawinEnqueue(i, d)
      PROVE  OrderInv'
  <2>1. Frame(i, d) /\ if_queue' = [if_queue EXCEPT ![i][if_tail[i]] = rpkt] /\ UNCHANGED npkt
    BY <1>4 DEF RawinEnqueue
  <2>2. \A k \in Ifaces, j \in Slots : Live(k, j)' <=> Live(k, j) \/ (k = i /\ j = if_tail[i])
    BY <1>0, <1>4, EnqueueLive
  <2>3. \A k \in Ifaces, j \in Slots :
           if_queue'[k][j] = IF k = i /\ j = if_tail[i] THEN rpkt ELSE if_queue[k][j]
    BY <1>0, <2>1 DEF PacedInv, RingInv, TypeOK
  <2>4. content'[rpkt] = d
    BY <1>0, <2>1, FrameApart DEF PacedInv, RingInv, TypeOK
  <2>5. ASSUME NEW k \in Ifaces, npkt'[k] # NoPkt PROVE content'[npkt'[k]] \in Data
    BY <1>0, <2>1, <2>5, FrameApart DEF DataInv
  <2>6. ASSUME NEW k \in Ifaces, NEW j \in Slots, Live(k, j)' PROVE content'[if_queue'[k][j]] \in Data
    BY <1>0, <2>1, <2>2, <2>3, <2>4, <2>6, FrameApart DEF DataInv
  <2> QED
    BY <1>0, <2>5, <2>6 DEF OrderInv, DataInv
<1>5. ASSUME NEW i \in Ifaces, NetinWait(i)
      PROVE  OrderInv'
  <2>1. \A k \in Ifaces : Pending(k)' = Pending(k)
    BY <1>0, <1>5 DEF NetinWait, PacedInv, RingInv, TypeOK, Pending
  <2> QED
    BY <1>0, <1>5, <2>1 DEF NetinWait, OrderInv, DataInv, Live, Dist
<1>6. ASSUME NEW i \in Ifaces, NetinTake(i)
      PROVE  OrderInv'
  <2>1. UNCHANGED if_queue /\ UNCHANGED content
    BY <1>6 DEF NetinTake
  <2>2. /\ npkt'[i] = if_queue[i][if_head[i]]
        /\ \A k \in Ifaces : k # i => npkt'[k] = npkt[k]
    BY <1>0, <1>6 DEF NetinTake, PacedInv, RingInv, TypeOK
  <2>3. if_head[i] \in Slots
    BY <1>0 DEF PacedInv, RingInv, TypeOK
  <2> QED
    BY <1>0, <1>6, <2>1, <2>2, <2>3, TakeLive DEF OrderInv, DataInv
<1>7. ASSUME NEW i \in Ifaces, NetinFinish(i)
      PROVE  OrderInv'
  <2>1. \A k \in Ifaces, j \in Slots : Live(k, j)' <=> Live(k, j)
    BY <1>0, <1>7 DEF NetinFinish, ringVars, PacedInv, RingInv, TypeOK, Pending, Live, Dist
  <2>2. UNCHANGED if_queue /\ UNCHANGED content /\ \A k \in Ifaces : npkt'[k] # NoPkt => npkt'[k] = npkt[k]
    BY <1>0, <1>7 DEF NetinFinish, ringVars, PacedInv, RingInv, TypeOK
  <2> QED
    BY <1>0, <2>1, <2>2 DEF OrderInv, DataInv
<1> QED
  <2>1. \A dst \in Ifaces : Demux(dst) \in Ifaces
    BY ConstAssump DEF Demux, Ifaces
  <2> QED
    BY <1>1, <1>2, <1>3, <1>4, <1>5, <1>6, <1>7, <2>1 DEF Next, Rawin, Netin

\* The slots of the packets still to be read.
LEMMA SlotLive ==
    ASSUME MaxBurst <= IF_QUEUESIZE, PacedInv, NEW i \in Ifaces
    PROVE  /\ Pending(i) \in 0..IF_QUEUESIZE
           /\ \A k \in 1..Pending(i) : Slot(i, k) \in Slots /\ Live(i, Slot(i, k))
<1> USE ConstAssump
<1>1. Pending(i) \in 0..IF_QUEUESIZE
  BY RingArith DEF PacedInv, Outstanding
<1>2. ASSUME NEW k \in 1..Pending(i) PROVE Slot(i, k) \in Slots /\ Live(i, Slot(i, k))
  BY <1>1, <1>2, RingArith DEF PacedInv, Slot, Slots, Live, Dist
<1> QED
  BY <1>1, <1>2

\* Frames counted from 1 are a sequence.
LEMMA FramesAreSeq ==
    ASSUME NEW S, NEW n \in Nat, NEW f \in [1..n -> S]
    PROVE  f \in Seq(S) /\ Len(f) = n
  BY LenProperties

\* The frames on ring i are a sequence.
LEMMA QueuedIs ==
    ASSUME MaxBurst <= IF_QUEUESIZE, OrderInv, NEW i \in Ifaces
    PROVE  /\ queued[i] \in Seq(Data) /\ Len(queued[i]) = Pending(i)
           /\ \A k \in 1..Pending(i) : queued[i][k] = content[if_queue[i][Slot(i, k)]]
<1>1. Pending(i) \in Nat
  BY SlotLive DEF OrderInv
<1>2. \A k \in 1..Pending(i) : content[if_queue[i][Slot(i, k)]] \in Data
  BY SlotLive DEF OrderInv, DataInv
<1>3. queued[i] = [k \in 1..Pending(i) |-> content[if_queue[i][Slot(i, k)]]]
  BY DEF queued
<1>4. queued[i] \in Seq(Data) /\ Len(queued[i]) = Pending(i)
  BY <1>1, <1>2, <1>3, IsASeq, LenProperties
<1> QED
  BY <1>3, <1>4

\* The rings look the same when their live slots hold the same frames.
LEMMA QueuesSame ==
    ASSUME MaxBurst <= IF_QUEUESIZE, OrderInv, UNCHANGED if_head,
           \A k \in Ifaces : Pending(k)' = Pending(k),
           \A k \in Ifaces, j \in Slots :
               Live(k, j) => content'[if_queue'[k][j]] = content[if_queue[k][j]]
    PROVE  queued' = queued
<1>1. ASSUME NEW k \in Ifaces, NEW n \in 1..Pending(k)
      PROVE  content'[if_queue'[k][Slot(k, n)']] = content[if_queue[k][Slot(k, n)]]
  <2>1. Slot(k, n)' = Slot(k, n)
    BY DEF Slot
  <2> QED
    BY <2>1, SlotLive DEF OrderInv
<1> QED
  BY <1>1 DEF queued

\* What is being handled stays what it is.
LEMMA HandledSame ==
    ASSUME UNCHANGED npkt,
           \A k \in Ifaces : npkt[k] # NoPkt => content'[npkt[k]] = content[npkt[k]]
    PROVE  handled' = handled
  BY DEF handled

LEMMA FifoInit == Init => Fifo!Init
<1> SUFFICES ASSUME Init PROVE Fifo!Init
  OBVIOUS
<1>1. ASSUME NEW i \in Ifaces PROVE Pending(i) = 0
  BY DEF Init, Pending
<1>2. \A i \in Ifaces : queued[i] = << >>
  BY <1>1 DEF queued
<1>3. queued = [i \in Ifaces |-> << >>]
  BY <1>2 DEF queued
<1>4. handled = [i \in Ifaces |-> NoPkt]
  BY DEF handled, Init
<1> QED
  BY <1>3, <1>4 DEF Fifo!Init

\* Enqueueing a frame appends it to the queue of its interface.
LEMMA EnqueueAccepts ==
    ASSUME MaxBurst <= IF_QUEUESIZE, OrderInv,
           NEW i \in Ifaces, NEW d \in Data, RawinEnqueue(i, d)
    PROVE  Fifo!Accept(i, d)
<1>1. Frame(i, d) /\ if_queue' = [if_queue EXCEPT ![i][if_tail[i]] = rpkt]
      /\ UNCHANGED npkt /\ UNCHANGED if_head
  BY DEF RawinEnqueue
<1>2. /\ \A k \in Ifaces : npkt[k] # NoPkt => content'[npkt[k]] = content[npkt[k]]
      /\ \A k \in Ifaces, j \in Slots : Live(k, j) => content'[if_queue[k][j]] = content[if_queue[k][j]]
  BY <1>1, FrameApart DEF OrderInv
<1>3. handled' = handled
  BY <1>1, <1>2, HandledSame
<1>4. /\ ~Live(i, if_tail[i])
      /\ \A k \in Ifaces : Pending(k)' = IF k = i THEN Pending(k) + 1 ELSE Pending(k)
  BY EnqueueLive DEF OrderInv
<1>5. /\ \A k \in Ifaces, j \in Slots :
           if_queue'[k][j] = IF k = i /\ j = if_tail[i] THEN rpkt ELSE if_queue[k][j]
      /\ content'[rpkt] = d
  BY <1>1, FrameApart DEF OrderInv, PacedInv, RingInv, TypeOK
<1>6. ASSUME NEW k \in Ifaces, NEW n \in 1..Pending(k)
      PROVE  content'[if_queue'[k][Slot(k, n)']] = content[if_queue[k][Slot(k, n)]]
  <2>1. Slot(k, n)' = Slot(k, n)
    BY <1>1 DEF Slot
  <2>2. Slot(k, n) \in Slots /\ Live(k, Slot(k, n))
    BY SlotLive DEF OrderInv
  <2> QED
    BY <1>2, <1>4, <1>5, <2>1, <2>2
<1>7. ASSUME NEW k \in Ifaces, k # i PROVE queued'[k] = queued[k]
  BY <1>4, <1>6, <1>7 DEF queued
<1>8. Pending(i) \in Nat /\ Pending(i) < IF_QUEUESIZE /\ Pending(i)' = Pending(i) + 1
  <2>1. Pending(i) \in Nat
    BY SlotLive DEF OrderInv
  <2>2. Outstanding(i) < MaxBurst
    BY <1>1 DEF Frame
  <2> QED
    BY <1>4, <2>1, <2>2, ConstAssump DEF Outstanding
<1>9. ASSUME NEW n \in Nat, n = Pending(i) + 1 PROVE Slot(i, n)' = if_tail[i]
  <2>1. if_tail[i] \in Around(if_head[i] + Pending(i)) /\ if_head[i] \in Slots /\ if_tail[i] \in Slots
    BY RingArith DEF OrderInv, PacedInv
  <2> QED
    BY <1>1, <1>8, <1>9, <2>1, ConstAssump DEF Slot, Around, Slots
<1>10. queued'[i] = Append(queued[i], d)
  <2>1. /\ queued[i] \in Seq(Data) /\ Len(queued[i]) = Pending(i)
        /\ \A k \in 1..Pending(i) : queued[i][k] = content[if_queue[i][Slot(i, k)]]
    BY QueuedIs
  <2>2. queued'[i] = [k \in 1..Pending(i) + 1 |-> content'[if_queue'[i][Slot(i, k)']]]
    BY <1>8 DEF queued
  <2>3. ASSUME NEW n \in Nat, n = Pending(i) + 1 PROVE queued'[i][n] = d
    <3>1. if_tail[i] \in Slots
      BY RingArith DEF OrderInv, PacedInv
    <3>2. Slot(i, n)' = if_tail[i] /\ n \in 1..Pending(i) + 1
      BY <1>8, <1>9, <2>3
    <3> QED
      BY <1>5, <2>2, <3>1, <3>2
  <2>4. \A k \in 1..Pending(i) : queued'[i][k] = queued[i][k]
    BY <1>6, <1>8, <2>1, <2>2
  <2>5. queued'[i][Pending(i) + 1] = d
    BY <1>8, <2>3
  <2>6. \A k \in 1..Pending(i) + 1 : queued'[i][k] \in Data
    BY <1>8, <2>1, <2>4, <2>5, ElementOfSeq
  <2>7. queued'[i] \in [1..Pending(i) + 1 -> Data]
    BY <2>2, <2>6
  <2>8. queued'[i] \in Seq(Data) /\ Len(queued'[i]) = Pending(i) + 1
    BY <1>8, <2>7, FramesAreSeq
  <2> QED
    BY <1>8, <2>1, <2>4, <2>5, <2>8, AppendProperties, SeqEqual
<1>11. queued' = [queued EXCEPT ![i] = Append(@, d)]
  BY <1>7, <1>10 DEF queued
<1> QED
  BY <1>3, <1>11 DEF Fifo!Accept

\* netin takes the oldest frame of its ring.
LEMMA TakeTakes ==
    ASSUME MaxBurst <= IF_QUEUESIZE, OrderInv,
           NEW i \in Ifaces, NetinTake(i)
    PROVE  Fifo!Take(i)
<1>1. UNCHANGED if_queue /\ UNCHANGED content
  BY DEF NetinTake
<1>2. /\ \A k \in Ifaces : npkt'[k] = IF k = i THEN if_queue[i][if_head[i]] ELSE npkt[k]
      /\ \A k \in Ifaces : if_head'[k] = IF k = i THEN Wrap(if_head[i] + 1) ELSE if_head[k]
      /\ npkt[i] = NoPkt
  BY DEF NetinTake, OrderInv, PacedInv, RingInv, TypeOK
<1>3. \A k \in Ifaces : Pending(k)' = IF k = i THEN Pending(k) - 1 ELSE Pending(k)
  BY TakeLive DEF OrderInv
<1>4. /\ Pending(i) \in 1..IF_QUEUESIZE /\ if_head[i] \in Slots
      /\ Live(i, if_head[i])
  <2>1. Pending(i) \in 0..IF_QUEUESIZE
    BY SlotLive DEF OrderInv
  <2>2. Pending(i) # 0
    BY DEF NetinTake, OrderInv, PacedInv, RingInv, TypeOK, Pending
  <2> QED
    BY <2>1, <2>2, TakeLive, RingArith, ConstAssump DEF OrderInv, PacedInv
<1>5. Slot(i, 1) = if_head[i]
  BY <1>4, ConstAssump DEF Slot, Slots
<1>6. \A n \in 1..Pending(i)' : Slot(i, n)' = Slot(i, n + 1)
  <2> DEFINE h == if_head[i]
             p == Pending(i)
  <2>1. h \in 0..(IF_QUEUESIZE - 1) /\ p \in 1..IF_QUEUESIZE /\ IF_QUEUESIZE \in Nat
        /\ if_head'[i] = Wrap(h + 1) /\ Pending(i)' = p - 1
    BY <1>2, <1>3, <1>4, ConstAssump DEF Slots
  <2> DEFINE g == if_head'[i]
  <2>2. g \in Int /\ g = Wrap(h + 1)
    BY <2>1 DEF Wrap
  <2>3. \A n \in Int : Slot(i, n)' = IF g + n - 1 < IF_QUEUESIZE THEN g + n - 1 ELSE g + n - 1 - IF_QUEUESIZE
    BY <2>1, <2>2 DEF Slot
  <2>4. \A n \in Int : Slot(i, n + 1) = IF h + n < IF_QUEUESIZE THEN h + n ELSE h + n - IF_QUEUESIZE
    BY <2>1 DEF Slot
  <2> HIDE DEF g, h, p
  <2> QED
    BY <2>1, <2>2, <2>3, <2>4 DEF Wrap
<1>7. /\ queued[i] \in Seq(Data) /\ Len(queued[i]) = Pending(i)
      /\ \A k \in 1..Pending(i) : queued[i][k] = content[if_queue[i][Slot(i, k)]]
  BY QueuedIs
<1>8. queued'[i] = [k \in 1..Pending(i) - 1 |-> content'[if_queue'[i][Slot(i, k)']]]
  BY <1>3 DEF queued
<1>9. queued[i] # << >> /\ Head(queued[i]) = content[if_queue[i][if_head[i]]]
  BY <1>4, <1>5, <1>7, HeadTailProperties, EmptySeq
<1>10. queued'[i] = Tail(queued[i])
  <2>1. /\ Tail(queued[i]) \in Seq(Data) /\ Len(Tail(queued[i])) = Pending(i) - 1
        /\ \A k \in 1..Pending(i) - 1 : Tail(queued[i])[k] = queued[i][k + 1]
    BY <1>7, <1>9, HeadTailProperties
  <2>2. ASSUME NEW k \in 1..Pending(i) - 1 PROVE queued'[i][k] = queued[i][k + 1]
    <3>1. k + 1 \in 1..Pending(i) /\ Slot(i, k)' = Slot(i, k + 1)
      BY <1>3, <1>4, <1>6
    <3> QED
      BY <1>1, <1>7, <1>8, <3>1
  <2>3. \A k \in 1..Pending(i) - 1 : queued'[i][k] \in Data
    BY <2>1, <2>2, ElementOfSeq
  <2>4. queued'[i] \in Seq(Data) /\ Len(queued'[i]) = Pending(i) - 1
    <3>1. queued'[i] \in [1..Pending(i) - 1 -> Data]
      BY <1>8, <2>3
    <3> QED
      BY <1>4, <3>1, FramesAreSeq
  <2> DEFINE a == queued'[i]
             b == Tail(queued[i])
             n == Pending(i) - 1
  <2>5. /\ a \in Seq(Data) /\ b \in Seq(Data) /\ Len(a) = n /\ Len(b) = n
        /\ \A k \in 1..n : a[k] = b[k]
    BY <2>1, <2>2, <2>4
  <2> HIDE DEF a, b, n
  <2>6. a = b
    BY <2>5, SeqEqual
  <2> QED
    BY <2>6 DEF a, b
<1>11. ASSUME NEW k \in Ifaces, k # i PROVE queued'[k] = queued[k]
  <2>1. if_head'[k] = if_head[k] /\ Pending(k)' = Pending(k)
    BY <1>2, <1>3, <1>11
  <2>2. \A n \in 1..Pending(k) : Slot(k, n)' = Slot(k, n)
    BY <2>1 DEF Slot
  <2> QED
    BY <1>1, <2>1, <2>2 DEF queued
<1>12. queued' = [queued EXCEPT ![i] = Tail(@)]
  BY <1>10, <1>11 DEF queued
<1>13. handled[i] = NoPkt /\ handled' = [handled EXCEPT ![i] = Head(queued[i])]
  <2>1. if_queue[i][if_head[i]] \in Buffers
    BY <1>4 DEF OrderInv, PacedInv, RingInv
  <2>2. \A k \in Ifaces : handled'[k] = IF k = i THEN Head(queued[i]) ELSE handled[k]
    BY <1>1, <1>2, <1>9, <2>1, ConstAssump DEF handled
  <2> QED
    BY <1>2, <2>2 DEF handled
<1> QED
  BY <1>9, <1>12, <1>13 DEF Fifo!Take

\* Each step of the input path is a step of the queues, or leaves them alone.
LEMMA FifoStep ==
    ASSUME MaxBurst <= IF_QUEUESIZE
    PROVE  OrderInv /\ [Next]_vars => [Fifo!Next]_<<queued, handled>>
<1> SUFFICES ASSUME OrderInv, [Next]_vars PROVE [Fifo!Next]_<<queued, handled>>
  OBVIOUS
<1>1. CASE UNCHANGED vars
  BY <1>1 DEF vars, queued, handled, Pending, Slot
<1>2. CASE RawinGetbuf
  BY <1>2 DEF RawinGetbuf, ringVars, queued, handled, Pending, Slot
<1>3. ASSUME NEW i \in Ifaces, NEW d \in Data,
             RawinIgnore(i, d) \/ RawinDrop(i, d) \/ RawinExit(i, d)
      PROVE  UNCHANGED queued /\ UNCHANGED handled
  <2>1. Frame(i, d) /\ UNCHANGED ringVars /\ UNCHANGED npc /\ UNCHANGED npkt
    BY <1>3 DEF RawinIgnore, RawinDrop, RawinExit
  <2>2. UNCHANGED if_queue /\ UNCHANGED if_head /\ \A k \in Ifaces : Pending(k)' = Pending(k)
    BY <2>1 DEF ringVars, Pending
  <2>3. queued' = queued
    BY <2>1, <2>2, FrameApart, QueuesSame DEF OrderInv
  <2>4. handled' = handled
    BY <2>1, FrameApart, HandledSame DEF OrderInv
  <2> QED
    BY <2>3, <2>4
<1>4. ASSUME NEW i \in Ifaces, NEW d \in Data, RawinEnqueue(i, d)
      PROVE  Fifo!Next
  BY <1>4, EnqueueAccepts DEF Fifo!Next
<1>5. ASSUME NEW i \in Ifaces, NetinWait(i)
      PROVE  UNCHANGED queued /\ UNCHANGED handled
  <2>1. \A k \in Ifaces : Pending(k)' = Pending(k)
    BY <1>5 DEF NetinWait, OrderInv, PacedInv, RingInv, TypeOK, Pending
  <2>2. UNCHANGED if_queue /\ UNCHANGED if_head /\ UNCHANGED content /\ UNCHANGED npkt
    BY <1>5 DEF NetinWait
  <2> QED
    BY <2>1, <2>2, QueuesSame, HandledSame
<1>6. ASSUME NEW i \in Ifaces, NetinTake(i)
      PROVE  Fifo!Next
  BY <1>6, TakeTakes DEF Fifo!Next
<1>7. ASSUME NEW i \in Ifaces, NetinFinish(i)
      PROVE  Fifo!Next
  <2>1. UNCHANGED ringVars /\ UNCHANGED content
    BY <1>7 DEF NetinFinish
  <2>2. \A k \in Ifaces : Pending(k)' = Pending(k)
    BY <1>7 DEF NetinFinish, ringVars, OrderInv, PacedInv, RingInv, TypeOK, Pending
  <2>3. queued' = queued
    BY <2>1, <2>2, QueuesSame DEF ringVars
  <2>4. /\ npkt[i] # NoPkt
        /\ \A k \in Ifaces : npkt'[k] = IF k = i THEN NoPkt ELSE npkt[k]
    BY <1>7 DEF NetinFinish, OrderInv, PacedInv, RingInv, TypeOK
  <2>5. handled[i] # NoPkt
    BY <2>4, ConstAssump DEF handled, OrderInv, DataInv
  <2>6. handled' = [handled EXCEPT ![i] = NoPkt]
    BY <2>1, <2>4 DEF handled
  <2> QED
    BY <2>3, <2>5, <2>6 DEF Fifo!Next, Fifo!Finish
<1> QED
  <2>1. \A dst \in Ifaces : Demux(dst) \in Ifaces
    BY ConstAssump DEF Demux, Ifaces
  <2> QED
    BY <1>1, <1>2, <1>3, <1>4, <1>5, <1>6, <1>7, <2>1 DEF Next, Rawin, Netin

\* As long as no interface has more frames outstanding than ring slots, netin
\* handles every frame rawin accepts, once, unchanged, in the order of arrival.
THEOREM PacedInOrder ==
    ASSUME MaxBurst <= IF_QUEUESIZE
    PROVE  Spec => FramesInOrder
<1>1. OrderInv /\ [Next]_vars => OrderInv'
  BY OrderInvNext
<1> QED
  BY <1>1, OrderInvInit, FifoInit, FifoStep, PTL DEF Spec, Fifo!Spec, FramesInOrder

-----------------------------------------------------------------------------
(* Who waits at a semaphore, and who was let through *)

\* Nobody waits twice; who waits, or is let through, still wants something (l). q and s are the
\* queue and the count, g are those let through.
Waiting(q, g, s, l) ==
  /\ \A i, j \in DOMAIN q : i # j => q[i] # q[j]
  /\ \A i \in DOMAIN q : q[i] \notin g /\ l[q[i]] > 0
  /\ \A w \in g : l[w] > 0
  /\ Len(q) = Positive(0 - s)

\* What a process does that takes m, its own grant among them, and waits for more or does not.
Takes(P, q, g, s, l, w, own, m, more, q2, s2, l2) ==
  /\ q \in Seq(P) /\ g \in SUBSET P /\ s \in Int /\ Waiting(q, g, s, l) /\ w \in P /\ own \in {0, 1}
  /\ (own = 1 <=> w \in g) /\ (own = 0 => l[w] = 0) /\ m \in Nat /\ m <= own + Positive(s)
  /\ more \in BOOLEAN /\ (more => m = own + Positive(s)) /\ (~more => m > 0)
  /\ q2 = (IF more THEN Append(q, w) ELSE q) /\ s2 = s - (m - own) - (IF more THEN 1 ELSE 0)
  /\ (more => l2[w] > 0) /\ \A p \in P : p # w => l2[p] = l[p]
StillTakes(P, g, s, w, own, m, q2, s2, l2) ==
  /\ Waiting(q2, g \ {w}, s2, l2) /\ q2 \in Seq(P) /\ s2 \in Int
  /\ Positive(s2) = Positive(s) - (m - own)

LEMMA WaitingTakes ==
  ASSUME NEW P, NEW q, NEW g, NEW s, NEW l, NEW w, NEW own, NEW m, NEW more, NEW q2, NEW s2, NEW l2,
         Takes(P, q, g, s, l, w, own, m, more, q2, s2, l2)
  PROVE  StillTakes(P, g, s, w, own, m, q2, s2, l2)
<1> USE DEF Takes, StillTakes
<1> DEFINE L == Len(q)
<1>1. q \in Seq(P) /\ L \in Nat /\ DOMAIN q = 1..L /\ \A i \in 1..L : q[i] \in P
  BY ElementOfSeq
<1>2. /\ \A i \in 1..L : q[i] # w /\ q[i] \notin g /\ l[q[i]] > 0
      /\ \A i, j \in 1..L : i # j => q[i] # q[j]
      /\ \A p \in g : l[p] > 0
      /\ L = IF 0 - s > 0 THEN 0 - s ELSE 0
  BY <1>1 DEF Waiting, Positive
<1>3. own \in Nat /\ m \in Nat /\ s \in Int
  OBVIOUS
<1> DEFINE v == IF s > 0 THEN s ELSE 0
<1>4. v \in Nat /\ m <= own + v /\ (more => m = own + v) /\ v = Positive(s)
  BY DEF Positive
<1> HIDE DEF v
<1>5. ASSUME NEW p \in g \ {w} PROVE l2[p] > 0
  BY <1>2, <1>5
<1>6. CASE more
  <2>1. s2 = s - (m - own) - 1 /\ q2 = Append(q, w)
    BY <1>6
  <2>2. s2 = s - v - 1
    <3>1. m = own + v
      BY <1>4, <1>6
    <3> QED
      BY ONLY <1>3, <1>4, <2>1, <3>1
  <2>3. s2 \in Int /\ (IF 0 - s2 > 0 THEN 0 - s2 ELSE 0) = L + 1 /\ ~(s2 > 0) /\ v - (m - own) = 0
    BY <1>2, <1>3, <1>4, <1>6, <2>2 DEF v
  <2>4. /\ q2 \in Seq(P) /\ Len(q2) = L + 1 /\ q2[L + 1] = w /\ \A i \in 1..L : q2[i] = q[i]
    BY <1>1, <2>1, AppendProperties
  <2>5. DOMAIN q2 = 1..(L + 1)
    BY <2>4, LenProperties
  <2> HIDE DEF L
  <2>6. \A i \in 1..(L + 1) : i \in 1..L \/ i = L + 1
    BY <1>1
  <2>7. \A i, j \in 1..(L + 1) : i # j => q2[i] # q2[j]
    BY <1>2, <2>4, <2>6
  <2>8. ASSUME NEW i \in 1..(L + 1) PROVE q2[i] \notin g \ {w} /\ l2[q2[i]] > 0
    <3>1. CASE i = L + 1
      BY <1>6, <2>4, <3>1
    <3>2. CASE i \in 1..L
      BY <1>1, <1>2, <2>4, <3>2
    <3> QED
      BY <2>6, <3>1, <3>2
  <2> QED
    BY <1>4, <1>5, <2>3, <2>4, <2>5, <2>7, <2>8 DEF Waiting, Positive
<1>7. CASE ~more
  <2>1. s2 = s - (m - own) /\ q2 = q
    <3>1. s2 = s - (m - own) - 0 /\ q2 = q
      BY <1>7
    <3> QED
      BY <1>3, <3>1
  <2>2. m > 0 /\ (s > 0 \/ m = own)
    BY <1>3, <1>4, <1>7 DEF v
  <2>3. /\ s2 \in Int /\ (IF 0 - s2 > 0 THEN 0 - s2 ELSE 0) = (IF 0 - s > 0 THEN 0 - s ELSE 0)
        /\ (IF s2 > 0 THEN s2 ELSE 0) = v - (m - own)
    BY <1>3, <1>4, <2>1, <2>2 DEF v
  <2>4. \A i \in 1..L : q[i] \notin g \ {w} /\ l2[q[i]] > 0
    BY <1>1, <1>2
  <2> HIDE DEF L
  <2> QED
    BY <1>1, <1>2, <1>4, <1>5, <2>1, <2>3, <2>4 DEF Waiting, Positive
<1> QED
  BY <1>6, <1>7

\* signaln lets the first k of the queue through: q, g and s become q2, g2 and s2.
LetThrough(P, q, g, s, l, n, k, q2, g2, s2) ==
  /\ q \in Seq(P) /\ g \in SUBSET P /\ IsFiniteSet(g) /\ s \in Int /\ Waiting(q, g, s, l) /\ n \in Nat
  /\ k = Lesser(n, Len(q)) /\ q2 = SubSeq(q, k + 1, Len(q)) /\ s2 = s + n
  /\ \A p : p \in g2 <=> p \in g \/ \E i \in 1..k : p = q[i]
StillWaiting(P, q, g, s, l, n, k, q2, g2, s2) ==
  /\ Waiting(q2, g2, s2, l) /\ q2 \in Seq(P) /\ g2 \in SUBSET P /\ IsFiniteSet(g2) /\ s2 \in Int
  /\ k \in 0..Len(q) /\ Len(q2) = Len(q) - k /\ Cardinality(g2) = Cardinality(g) + k
  /\ Cardinality(g) \in Nat /\ Positive(s2) + k = Positive(s) + n

LEMMA WaitingSignals ==
  ASSUME NEW P, NEW q, NEW g, NEW s, NEW l, NEW n, NEW k, NEW q2, NEW g2, NEW s2,
         LetThrough(P, q, g, s, l, n, k, q2, g2, s2)
  PROVE  StillWaiting(P, q, g, s, l, n, k, q2, g2, s2)
<1> USE DEF LetThrough
<1> DEFINE L == Len(q)
           F == {q[i] : i \in 1..k}
<1>0. g2 = g \cup F
  OBVIOUS
<1>1. q \in Seq(P) /\ L \in Nat /\ DOMAIN q = 1..L /\ \A i \in 1..L : q[i] \in P
  BY ElementOfSeq
<1>2. /\ \A i \in 1..L : q[i] \notin g /\ l[q[i]] > 0
      /\ \A i, j \in 1..L : i # j => q[i] # q[j]
      /\ \A p \in g : l[p] > 0
      /\ L = IF 0 - s > 0 THEN 0 - s ELSE 0
  BY <1>1 DEF Waiting, Positive
<1>3. k \in 0..L /\ k = IF n < L THEN n ELSE L
  <2>1. k = Lesser(n, L) /\ L \in Nat /\ n \in Nat
    BY <1>1
  <2> HIDE DEF L
  <2> QED
    BY ONLY <2>1 DEF Lesser
<1>4. q2 \in Seq(P) /\ Len(q2) = L - k /\ \A i \in 1..L-k : q2[i] = q[k + i]
  BY <1>1, <1>3, SuffixIs, Zenon
<1>5. DOMAIN q2 = 1..(L - k)
  BY <1>4, LenProperties
<1> HIDE DEF L
<1>6. \A i \in 1..(L - k) : k + i \in 1..L /\ ~(k + i \in 1..k)
  BY <1>1, <1>3
<1>7. \A i \in 1..k : i \in 1..L
  BY <1>1, <1>3
<1>8. F \subseteq P /\ F \cap g = {} /\ \A p \in F : l[p] > 0
  BY <1>1, <1>2, <1>7
<1>9. g2 \in SUBSET P /\ \A p \in g2 : l[p] > 0
  BY <1>0, <1>2, <1>8
<1>10. ASSUME NEW i \in 1..(L - k), NEW j \in 1..(L - k), i # j PROVE q2[i] # q2[j]
  <2>1. k + i # k + j
    BY <1>1, <1>3, <1>10
  <2>2. q2[i] = q[k + i] /\ q2[j] = q[k + j] /\ k + i \in 1..L /\ k + j \in 1..L
    BY <1>4, <1>6
  <2> QED
    BY ONLY <1>2, <2>1, <2>2
<1>11. ASSUME NEW i \in 1..(L - k) PROVE q2[i] \notin g2 /\ l[q2[i]] > 0
  <2>1. q2[i] = q[k + i] /\ k + i \in 1..L /\ \A j \in 1..k : j # k + i
    BY <1>4, <1>6
  <2> QED
    BY <1>2, <1>7, <2>1
<1>12. IsFiniteSet(F) /\ Cardinality(F) = k
  <2>1. IsFiniteSet(1..k) /\ Cardinality(1..k) = k
    <3>1. k \in Nat
      BY <1>1, <1>3
    <3> QED
      BY ONLY <3>1, FS_Interval
  <2>2. (\A i, j \in 1..k : q[i] = q[j] => i = j) /\ \A p : p \in F <=> \E i \in 1..k : p = q[i]
    BY <1>2, <1>7
  <2> HIDE DEF F
  <2> QED
    BY ONLY <2>1, <2>2, ImageCount
<1> HIDE DEF F
<1>13. IsFiniteSet(g2) /\ Cardinality(g2) = Cardinality(g) + k
  <2>1. g2 = g \cup F /\ g \cap F = {}
    BY <1>0, <1>8
  <2>2. IsFiniteSet(g)
    OBVIOUS
  <2> HIDE DEF F
  <2> QED
    BY ONLY <1>12, <2>1, <2>2, ApartCount
<1>14. Cardinality(g) \in Nat
  BY FS_CardinalityType
<1>15. /\ s2 \in Int /\ (IF 0 - s2 > 0 THEN 0 - s2 ELSE 0) = L - k
       /\ (IF s2 > 0 THEN s2 ELSE 0) + k = (IF s > 0 THEN s ELSE 0) + n
  BY <1>1, <1>2, <1>3
<1>16. Waiting(q2, g2, s2, l)
  <2>1. Len(q2) = Positive(0 - s2)
    BY ONLY <1>4, <1>15 DEF Positive
  <2> QED
    BY ONLY <1>5, <1>9, <1>10, <1>11, <2>1 DEF Waiting
<1> QED
  BY <1>3, <1>4, <1>9, <1>13, <1>14, <1>15, <1>16, ZenonT(60) DEF Positive, L, StillWaiting

-----------------------------------------------------------------------------
(* The console's output *)

\* The types of what belongs to the output, in the mode the terminal starts with.
OutPlaces == 0..(TY_OBUFLEN - 1)
OutType ==
  /\ out \in [buf : [OutPlaces -> Nat], head : OutPlaces, tail : OutPlaces, sem : Int, q : Seq(Writers), go : SUBSET Writers]
  /\ IsFiniteSet(out.go)
  /\ echo \in [head : 0..(TY_EBUFLEN - 1), tail : 0..(TY_EBUFLEN - 1)]
  /\ uart \in [busy : BOOLEAN, irq : BOOLEAN, etbei : BOOLEAN]
  /\ left \in [Readers \cup Writers -> Nat] /\ shown \in Nat /\ wrote \in Nat
  /\ oheld \in BOOLEAN /\ silent \in BOOLEAN /\ stale \in BOOLEAN /\ iecho \in BOOLEAN /\ imode = "cooked"
\* Who waits for a place, or is let through, still has characters to store.
WritersInv == Waiting(out.q, out.go, out.sem, left)
\* tyosem counts the free places but for those that writers have been granted or wait for.
PlacesInv == wrote - shown + Cardinality(out.go) + Len(out.q) = TY_OBUFLEN - out.sem
\* The ring holds the characters that have been written and not shown, in order.
CharsInv ==
  /\ \A i \in OutPlaces : out.buf[i] <= wrote
  /\ ~stale => /\ shown <= wrote
               /\ out.tail = (out.head + (wrote - shown)) % TY_OBUFLEN
               /\ \A i \in 1..(wrote - shown) : out.buf[(out.head + i - 1) % TY_OBUFLEN] = shown + i
\* An enabled interrupt comes when the device is idle.
DeviceInv ==
  /\ uart.irq => uart.etbei /\ ~uart.busy
  /\ uart.busy => uart.etbei
  /\ OutputGoesOn
OutInv == OutType /\ WritersInv /\ PlacesInv /\ CharsInv /\ DeviceInv

OutEntry == [buf : [OutPlaces -> Nat], head : OutPlaces, tail : OutPlaces, sem : Int, q : Seq(Writers), go : SUBSET Writers]

LEMMA OutIs ==
  ASSUME OutType
  PROVE  /\ out.buf \in [OutPlaces -> Nat] /\ out.head \in OutPlaces /\ out.tail \in OutPlaces /\ out.sem \in Int
         /\ out.q \in Seq(Writers) /\ Len(out.q) \in Nat /\ DOMAIN out.q = 1..Len(out.q)
         /\ out.go \subseteq Writers /\ IsFiniteSet(out.go) /\ Cardinality(out.go) \in Nat
         /\ \A i \in 1..Len(out.q) : out.q[i] \in Writers
<1>1. out.q \in Seq(Writers) /\ IsFiniteSet(out.go)
  BY DEF OutType
<1>2. Cardinality(out.go) \in Nat /\ \A i \in 1..Len(out.q) : out.q[i] \in Writers
  BY <1>1, FS_CardinalityType, ElementOfSeq
<1> QED
  BY <1>1, <1>2, LenProperties DEF OutType

\* The ring's fields, with new values.
WithOut(o, b, t, g, s, r) == [o EXCEPT !.buf = b, !.tail = t, !.go = g, !.sem = s, !.q = r]
LEMMA WithOutIs ==
  ASSUME NEW o \in OutEntry, NEW b \in [OutPlaces -> Nat], NEW t \in OutPlaces, NEW g \in SUBSET Writers, NEW s \in Int,
         NEW r \in Seq(Writers)
  PROVE  /\ WithOut(o, b, t, g, s, r) \in OutEntry
         /\ WithOut(o, b, t, g, s, r).buf = b /\ WithOut(o, b, t, g, s, r).tail = t
         /\ WithOut(o, b, t, g, s, r).go = g /\ WithOut(o, b, t, g, s, r).sem = s
         /\ WithOut(o, b, t, g, s, r).q = r /\ WithOut(o, b, t, g, s, r).head = o.head
  BY DEF WithOut, OutEntry

\* Cell i after m characters have been stored.
Cell(i, m) == LET k == (i - out.tail) % TY_OBUFLEN IN IF k < m THEN wrote + 1 + k ELSE out.buf[i]

\* What ttyputc does with the ring: m of the n characters w wants to store are stored.
StoredIn(w, own, n, m) ==
  /\ out' \in OutEntry /\ out'.head = out.head /\ out'.tail = (out.tail + m) % TY_OBUFLEN
  /\ out'.go = out.go \ {w} /\ out'.sem = out.sem - (m - own) - (IF n > m THEN 1 ELSE 0)
  /\ out'.q = IF n > m THEN Append(out.q, w) ELSE out.q
  /\ out'.buf = [i \in OutPlaces |-> Cell(i, m)]

LEMMA CellIs ==
  ASSUME OutType, NEW i \in OutPlaces, NEW m \in Nat
  PROVE  Cell(i, m) \in Nat
<1> DEFINE k == (i - out.tail) % TY_OBUFLEN
<1>1. k \in Nat /\ wrote \in Nat /\ out.buf[i] \in Nat
  <2>1. out.tail \in Int /\ i \in Int /\ TY_OBUFLEN \in Nat \ {0}
    BY TtyAssump, OutIs DEF OutPlaces
  <2>2. out.buf[i] \in Nat /\ wrote \in Nat
    BY OutIs DEF OutType
  <2> QED
    BY <2>1, <2>2
<1>2. Cell(i, m) = IF k < m THEN wrote + 1 + k ELSE out.buf[i]
  BY DEF Cell
<1> HIDE DEF k
<1>3. wrote + 1 + k \in Nat
  BY <1>1
<1> QED
  BY <1>1, <1>2, <1>3

LEMMA StoresIs ==
  ASSUME OutType, NEW w \in Writers, NEW own \in {0, 1}, NEW n \in Nat, Stores(w, own, n),
         NEW m, m = Lesser(n, own + Positive(out.sem))
  PROVE  m \in Nat /\ m <= n /\ m <= own + Positive(out.sem) /\ (m = n \/ m = own + Positive(out.sem))
         /\ StoredIn(w, own, n, m)
<1> USE TtyAssump
<1>1. m \in Nat /\ m <= n /\ m <= own + Positive(out.sem) /\ (m = n \/ m = own + Positive(out.sem))
  <2>1. own \in Nat /\ out.sem \in Int
    BY OutIs
  <2>2. Positive(out.sem) \in Nat
    BY <2>1 DEF Positive
  <2> DEFINE c == own + Positive(out.sem)
  <2>3. c \in Nat /\ m = Lesser(n, c)
    BY <2>1, <2>2
  <2> HIDE DEF c
  <2>4. m \in Nat /\ m <= n /\ m <= c /\ (m = n \/ m = c)
    BY <2>3 DEF Lesser
  <2> QED
    BY <2>4 DEF c
<1> DEFINE b == [i \in OutPlaces |-> Cell(i, m)]
           t == (out.tail + m) % TY_OBUFLEN
           g == out.go \ {w}
           s == out.sem - (m - own) - (IF n > m THEN 1 ELSE 0)
           r == IF n > m THEN Append(out.q, w) ELSE out.q
<1>2. out' = WithOut(out, b, t, g, s, r)
  <2>1. DOMAIN out.buf = OutPlaces
    BY OutIs
  <2> QED
    BY <2>1 DEF Stores, WithOut, Cell
<1>3. b \in [OutPlaces -> Nat]
  BY <1>1, CellIs
<1>4. t \in OutPlaces /\ g \in SUBSET Writers /\ s \in Int /\ r \in Seq(Writers)
  <2>1. out.tail + m \in Int /\ out.sem \in Int /\ out.q \in Seq(Writers) /\ out.go \subseteq Writers
    BY <1>1, OutIs DEF OutPlaces
  <2>2. t \in OutPlaces
    BY <2>1 DEF OutPlaces
  <2>3. s \in Int
    BY <1>1, <2>1
  <2>4. r \in Seq(Writers)
    BY <2>1, AppendProperties
  <2> QED
    BY <2>1, <2>2, <2>3, <2>4
<1>5. out \in OutEntry
  BY DEF OutType, OutEntry
<1> HIDE DEF b, t, g, s, r
<1>6. out' \in OutEntry /\ out'.buf = b /\ out'.tail = t /\ out'.go = g /\ out'.sem = s /\ out'.q = r /\ out'.head = out.head
  BY <1>2, <1>3, <1>4, <1>5, WithOutIs
<1> QED
  BY <1>1, <1>6 DEF StoredIn, b, t, g, s, r

\* What the interrupt handler does with the ring: o characters are sent, k writers let through.
SentFrom(o, k) ==
  /\ out' \in OutEntry /\ out'.head = (out.head + o) % TY_OBUFLEN /\ out'.tail = out.tail /\ out'.buf = out.buf
  /\ out'.sem = out.sem + o /\ out'.q = SubSeq(out.q, k + 1, Len(out.q))
  /\ out'.go = out.go \cup {out.q[i] : i \in 1..k}

WithSent(r, h, x, y, z) == [[r EXCEPT !.head = h] EXCEPT !.sem = x, !.q = y, !.go = z]
LEMMA WithSentIs ==
  ASSUME NEW r \in OutEntry, NEW h \in OutPlaces, NEW x \in Int, NEW y \in Seq(Writers), NEW z \in SUBSET Writers
  PROVE  /\ WithSent(r, h, x, y, z) \in OutEntry
         /\ WithSent(r, h, x, y, z).head = h /\ WithSent(r, h, x, y, z).sem = x /\ WithSent(r, h, x, y, z).q = y
         /\ WithSent(r, h, x, y, z).go = z /\ WithSent(r, h, x, y, z).tail = r.tail
         /\ WithSent(r, h, x, y, z).buf = r.buf
  BY DEF WithSent, OutEntry

LEMMA SignalnIs ==
  ASSUME OutType, NEW o \in Nat, out' = Signaln([out EXCEPT !.head = (@ + o) % TY_OBUFLEN], o)
  PROVE  SentFrom(o, Lesser(o, Len(out.q))) /\ Lesser(o, Len(out.q)) \in 0..Len(out.q)
<1> DEFINE k == Lesser(o, Len(out.q))
           h == (out.head + o) % TY_OBUFLEN
           x == out.sem + o
           y == SubSeq(out.q, k + 1, Len(out.q))
           z == out.go \cup {out.q[i] : i \in 1..k}
<1>1. k \in 0..Len(out.q)
  BY OutIs DEF Lesser
<1>2. out \in OutEntry
  BY DEF OutType, OutEntry
<1>3. h \in OutPlaces
  <2>1. out.head + o \in Int /\ TY_OBUFLEN \in Nat \ {0}
    BY TtyAssump, OutIs DEF OutPlaces
  <2> QED
    BY <2>1 DEF OutPlaces
<1>4. x \in Int /\ y \in Seq(Writers)
  <2>1. out.q \in Seq(Writers) /\ out.sem \in Int
    BY OutIs
  <2>2. SubSeq(out.q, k + 1, Len(out.q)) \in Seq(Writers)
    BY <1>1, <2>1, SuffixIs
  <2> QED
    BY <2>1, <2>2
<1>5. z \in SUBSET Writers
  <2> HIDE DEF k
  <2>1. \A i \in 1..k : i \in 1..Len(out.q)
    BY <1>1, OutIs
  <2> QED
    BY <2>1, OutIs
<1>6. out' = WithSent(out, h, x, y, z)
  BY <1>2 DEF Signaln, WithSent, OutEntry
<1> HIDE DEF k, h, x, y, z
<1>7. /\ out' \in OutEntry /\ out'.head = h /\ out'.sem = x /\ out'.q = y /\ out'.go = z /\ out'.tail = out.tail
      /\ out'.buf = out.buf
  BY <1>2, <1>3, <1>4, <1>5, <1>6, WithSentIs
<1>8. SentFrom(o, k)
  BY <1>7 DEF SentFrom, h, x, y, z
<1> QED
  BY <1>1, <1>8 DEF k

\* Writers
LEMMA WritersStore ==
  ASSUME OutType, WritersInv, NEW w \in Writers, NEW own \in {0, 1}, NEW n \in Nat, n > 0,
         own = 1 <=> w \in out.go, own = 0 => left[w] = 0,
         NEW m \in Nat, m <= n, m <= own + Positive(out.sem), m = n \/ m = own + Positive(out.sem),
         StoredIn(w, own, n, m), left' = [left EXCEPT ![w] = n - m]
  PROVE  WritersInv'
<1> DEFINE more == n > m
           q == out.q
           g == out.go
           s == out.sem
           l == left
           r == out'.q
           t == out'.sem
           k == left'
<1>1. q \in Seq(Writers) /\ g \in SUBSET Writers /\ s \in Int /\ Waiting(q, g, s, l)
  BY OutIs DEF WritersInv
<1>2. more \in BOOLEAN /\ (more => m = own + Positive(s)) /\ (~more => m > 0) /\ (more => n - m > 0)
  OBVIOUS
<1>3. /\ r = (IF more THEN Append(q, w) ELSE q) /\ t = s - (m - own) - (IF more THEN 1 ELSE 0)
      /\ out'.go = g \ {w}
  BY DEF StoredIn
<1>4. \A p \in Writers : k[p] = IF p = w THEN n - m ELSE l[p]
  BY DEF OutType
<1>5. (own = 1 <=> w \in g) /\ (own = 0 => l[w] = 0) /\ m <= own + Positive(s)
  OBVIOUS
<1> HIDE DEF more, q, g, s, l, r, t, k
<1>6. (more => k[w] > 0) /\ \A p \in Writers : p # w => k[p] = l[p]
  BY <1>2, <1>4
<1>7. Takes(Writers, q, g, s, l, w, own, m, more, r, t, k)
  BY <1>1, <1>2, <1>3, <1>5, <1>6 DEF Takes
<1>8. StillTakes(Writers, g, s, w, own, m, r, t, k)
  BY ONLY <1>7, WaitingTakes
<1>9. Waiting(r, g \ {w}, t, k)
  BY <1>8 DEF StillTakes
<1> QED
  BY <1>3, <1>9 DEF WritersInv, r, t, k

LEMMA WritersSent ==
  ASSUME OutType, WritersInv, NEW o \in Nat, NEW k, k = Lesser(o, Len(out.q)), k \in 0..Len(out.q), SentFrom(o, k),
         left' = left
  PROVE  WritersInv' /\ IsFiniteSet(out'.go)
         /\ Cardinality(out'.go) + Len(out'.q) = Cardinality(out.go) + Len(out.q)
<1> DEFINE q == out.q
           g == out.go
           s == out.sem
           l == left
           r == out'.q
           h == out'.go
           t == out'.sem
<1>1. q \in Seq(Writers) /\ g \in SUBSET Writers /\ IsFiniteSet(g) /\ s \in Int /\ Waiting(q, g, s, l) /\ Len(q) \in Nat
  BY OutIs DEF WritersInv
<1>2. r = SubSeq(q, k + 1, Len(q)) /\ t = s + o /\ h = g \cup {q[i] : i \in 1..k}
  BY DEF SentFrom
<1>3. k = Lesser(o, Len(q)) /\ left' = l
  OBVIOUS
<1> HIDE DEF q, g, s, l, r, h, t
<1>4. \A p : p \in h <=> p \in g \/ \E i \in 1..k : p = q[i]
  BY <1>2
<1>5. LetThrough(Writers, q, g, s, l, o, k, r, h, t)
  BY <1>1, <1>2, <1>3, <1>4 DEF LetThrough
<1>6. StillWaiting(Writers, q, g, s, l, o, k, r, h, t)
  BY ONLY <1>5, WaitingSignals
<1>7. /\ Waiting(r, h, t, l) /\ IsFiniteSet(h) /\ k \in 0..Len(q) /\ Len(r) = Len(q) - k
      /\ Cardinality(h) = Cardinality(g) + k /\ Cardinality(g) \in Nat
  BY <1>6 DEF StillWaiting
<1>8. Cardinality(h) + Len(r) = Cardinality(g) + Len(q)
  <2> DEFINE a == Cardinality(h)
             b == Cardinality(g)
             c == Len(r)
             d == Len(q)
  <2>1. a = b + k /\ b \in Nat /\ c = d - k /\ d \in Nat /\ k \in 0..d
    BY <1>1, <1>7
  <2> HIDE DEF a, b, c, d
  <2>2. a + c = b + d
    BY <2>1
  <2> QED
    BY <2>2 DEF a, b, c, d
<1> QED
  BY <1>3, <1>7, <1>8 DEF WritersInv, q, g, r, h, t

\* Places
LEMMA PlacesStore ==
  ASSUME OutType, WritersInv, PlacesInv, NEW w \in Writers, NEW own \in {0, 1}, NEW n \in Nat, n > 0,
         own = 1 <=> w \in out.go, NEW m \in Nat, StoredIn(w, own, n, m), wrote' = wrote + m, shown' = shown
  PROVE  PlacesInv' /\ IsFiniteSet(out'.go)
<1>1. /\ out.q \in Seq(Writers) /\ Len(out.q) \in Nat /\ out.sem \in Int /\ IsFiniteSet(out.go)
      /\ Cardinality(out.go) \in Nat
  BY OutIs
<1>2. /\ out'.go = out.go \ {w} /\ out'.sem = out.sem - (m - own) - (IF n > m THEN 1 ELSE 0)
      /\ out'.q = IF n > m THEN Append(out.q, w) ELSE out.q
  BY DEF StoredIn
<1>3. IsFiniteSet(out'.go) /\ Cardinality(out'.go) = Cardinality(out.go) - own
  <2> DEFINE g == out.go
  <2>1. IsFiniteSet(g) /\ Cardinality(g) \in Nat
    BY <1>1
  <2>2. out'.go = g \ {w}
    BY <1>2
  <2>3. w \in g => own = 1
    OBVIOUS
  <2>4. w \notin g => own = 0
    OBVIOUS
  <2> HIDE DEF g
  <2>5. IsFiniteSet(g \ {w}) /\ Cardinality(g \ {w}) = IF w \in g THEN Cardinality(g) - 1 ELSE Cardinality(g)
    BY <2>1, FS_RemoveElement
  <2> QED
    BY <2>1, <2>2, <2>3, <2>4, <2>5 DEF g
<1>4. Len(out'.q) = Len(out.q) + (IF n > m THEN 1 ELSE 0)
  <2>1. CASE n > m
    BY <1>1, <1>2, <2>1, AppendProperties
  <2>2. CASE ~(n > m)
    BY <1>1, <1>2, <2>2
  <2> QED
    BY <2>1, <2>2
<1> DEFINE a == IF n > m THEN 1 ELSE 0
           c == Cardinality(out.go)
           d == Cardinality(out'.go)
           k == Len(out.q)
           l == Len(out'.q)
<1>5. /\ a \in Nat /\ c \in Nat /\ k \in Nat /\ out.sem \in Int /\ own \in Nat /\ wrote \in Nat /\ shown \in Nat
      /\ TY_OBUFLEN \in Nat /\ d = c - own /\ l = k + a /\ out'.sem = out.sem - (m - own) - a
  BY <1>1, <1>2, <1>3, <1>4, TtyAssump DEF OutType
<1>6. wrote - shown + c + k = TY_OBUFLEN - out.sem
  BY DEF PlacesInv
<1> HIDE DEF a, c, d, k, l
<1>7. (wrote + m) - shown + d + l = TY_OBUFLEN - out'.sem
  BY <1>5, <1>6
<1> QED
  BY <1>3, <1>7 DEF PlacesInv, d, l

LEMMA PlacesSent ==
  ASSUME OutType, PlacesInv, NEW o \in Nat, out'.sem = out.sem + o, shown' = shown + o, wrote' = wrote,
         Cardinality(out'.go) + Len(out'.q) = Cardinality(out.go) + Len(out.q),
         Cardinality(out'.go) \in Nat, Len(out'.q) \in Nat
  PROVE  PlacesInv'
<1> DEFINE c == Cardinality(out.go)
           d == Cardinality(out'.go)
           k == Len(out.q)
           l == Len(out'.q)
<1>1. /\ c \in Nat /\ d \in Nat /\ k \in Nat /\ l \in Nat /\ out.sem \in Int /\ wrote \in Nat /\ shown \in Nat
      /\ TY_OBUFLEN \in Nat /\ d + l = c + k /\ out'.sem = out.sem + o
  BY OutIs, TtyAssump DEF OutType
<1>2. wrote - shown + c + k = TY_OBUFLEN - out.sem
  BY DEF PlacesInv
<1> DEFINE x == out.sem
           y == out'.sem
<1>4. /\ c \in Nat /\ d \in Nat /\ k \in Nat /\ l \in Nat /\ x \in Int /\ wrote \in Nat /\ shown \in Nat
      /\ TY_OBUFLEN \in Nat /\ d + l = c + k /\ y = x + o /\ wrote - shown + c + k = TY_OBUFLEN - x
  BY <1>1, <1>2
<1> HIDE DEF c, d, k, l, x, y
<1>3. wrote - (shown + o) + d + l = TY_OBUFLEN - y
  BY <1>4
<1> QED
  BY <1>3 DEF PlacesInv, d, l, y

\* There are no more characters than places; all that are charged are there unless a writer
\* has been granted a place.
LEMMA PlacesBound ==
  ASSUME OutType, WritersInv, PlacesInv
  PROVE  /\ wrote - shown <= TY_OBUFLEN
         /\ out.go = {} /\ shown <= wrote => wrote - shown = TY_OBUFLEN \/ wrote - shown = Charged
<1> DEFINE c == Cardinality(out.go)
           k == Len(out.q)
<1>1. c \in Nat /\ k \in Nat /\ out.sem \in Int /\ wrote \in Nat /\ shown \in Nat /\ TY_OBUFLEN \in Nat
  BY OutIs, TtyAssump DEF OutType
<1>2. wrote - shown + c + k = TY_OBUFLEN - out.sem /\ k = (IF out.sem < 0 THEN 0 - out.sem ELSE 0)
  BY <1>1 DEF PlacesInv, WritersInv, Waiting, Positive
<1>3. out.go = {} => c = 0
  BY FS_EmptySet
<1>4. Charged = IF TY_OBUFLEN - out.sem > 0 THEN TY_OBUFLEN - out.sem ELSE 0
  BY DEF Charged, Positive
<1> DEFINE x == out.sem
<1> HIDE DEF c, k, x
<1>5. wrote - shown <= TY_OBUFLEN
  BY <1>1, <1>2 DEF x
<1>6. c = 0 /\ shown <= wrote => wrote - shown = TY_OBUFLEN \/ wrote - shown = Charged
  BY <1>1, <1>2, <1>4 DEF x
<1> QED
  BY <1>3, <1>5, <1>6

LEMMA PlacesBoundNext == (OutType /\ WritersInv /\ PlacesInv)' => (wrote - shown <= TY_OBUFLEN)'
<1>1. OutType /\ WritersInv /\ PlacesInv => wrote - shown <= TY_OBUFLEN
  BY PlacesBound
<1> QED
  BY <1>1, PTL

\* Characters
LEMMA PlaceIs ==
  ASSUME NEW x \in Int, 0 - TY_OBUFLEN <= x, x < 2 * TY_OBUFLEN
  PROVE  /\ x % TY_OBUFLEN \in OutPlaces
         /\ x % TY_OBUFLEN = IF x < 0 THEN x + TY_OBUFLEN ELSE IF x < TY_OBUFLEN THEN x ELSE x - TY_OBUFLEN
<1> DEFINE r == IF x < 0 THEN x + TY_OBUFLEN ELSE IF x < TY_OBUFLEN THEN x ELSE x - TY_OBUFLEN
<1>1. TY_OBUFLEN \in Nat \ {0}
  BY TtyAssump
<1>2. r \in 0..(TY_OBUFLEN - 1) /\ (x = r \/ x = r + TY_OBUFLEN \/ x = r - TY_OBUFLEN)
  BY <1>1
<1> HIDE DEF r
<1>3. x % TY_OBUFLEN = r
  BY <1>1, <1>2, TurnIs
<1> QED
  BY <1>2, <1>3 DEF r, OutPlaces

\* The characters in the ring, without the variables.
Holds(b, h, t, s, w) ==
  /\ s <= w /\ t = (h + (w - s)) % TY_OBUFLEN
  /\ \A i \in 1..(w - s) : b[(h + i - 1) % TY_OBUFLEN] = s + i

LEMMA HoldsMore ==
  ASSUME NEW b \in [OutPlaces -> Nat], NEW h \in OutPlaces, NEW t \in OutPlaces, NEW s \in Nat, NEW w \in Nat, Holds(b, h, t, s, w),
         NEW m \in Nat, w + m - s <= TY_OBUFLEN,
         NEW c, c = [i \in OutPlaces |-> LET k == (i - t) % TY_OBUFLEN IN IF k < m THEN w + 1 + k ELSE b[i]]
  PROVE  Holds(c, h, (t + m) % TY_OBUFLEN, s, w + m)
<1> DEFINE N == TY_OBUFLEN
           L == w - s
<1>1. N \in Nat \ {0} /\ h \in 0..(N - 1) /\ t \in 0..(N - 1)
  BY TtyAssump DEF OutPlaces
<1>2. s <= w /\ t = (h + L) % N /\ \A i \in 1..L : b[(h + i - 1) % N] = s + i
  BY DEF Holds
<1>3. L \in Nat /\ L + m <= N
  BY <1>2
<1>4. t = IF h + L < N THEN h + L ELSE h + L - N
  <2> DEFINE x == h + L
  <2>1. x \in Int /\ 0 - N <= x /\ x < 2 * N /\ ~(x < 0) /\ t = x % N
    BY <1>1, <1>2, <1>3
  <2> HIDE DEF x
  <2>2. x % N = IF x < 0 THEN x + N ELSE IF x < N THEN x ELSE x - N
    BY <2>1, PlaceIs
  <2>3. t = IF x < N THEN x ELSE x - N
    BY <2>1, <2>2
  <2> QED
    BY <1>1, <1>3, <2>1, <2>3 DEF x
<1>5. (t + m) % N = (h + (L + m)) % N
  <2> DEFINE x == h + (L + m)
             y == t + m
  <2>1. x \in Int /\ y \in Int /\ 0 <= x /\ 0 <= y /\ x < 2 * N /\ y < 2 * N /\ (y = x \/ y = x - N) /\ 0 - N <= x /\ 0 - N <= y
    BY <1>1, <1>3, <1>4
  <2> HIDE DEF x, y
  <2>2. x % N = IF x < 0 THEN x + N ELSE IF x < N THEN x ELSE x - N
    BY <2>1, PlaceIs
  <2>3. y % N = IF y < 0 THEN y + N ELSE IF y < N THEN y ELSE y - N
    BY <2>1, PlaceIs
  <2>4. x % N = y % N
    BY <1>1, <2>1, <2>2, <2>3
  <2> QED
    BY <2>4 DEF x, y
<1>6. ASSUME NEW i \in 1..(L + m)
      PROVE  c[(h + i - 1) % N] = s + i
  <2> DEFINE z == h + i - 1
             p == z % N
             y == p - t
             k == y % N
  <2>1. z \in Int /\ 0 <= z /\ z < 2 * N /\ 0 - N <= z /\ i \in Int /\ 1 <= i /\ i <= L + m
    BY <1>1, <1>3
  <2> HIDE DEF z
  <2>2. p \in OutPlaces /\ p = IF z < 0 THEN z + N ELSE IF z < N THEN z ELSE z - N
    BY <2>1, PlaceIs
  <2>3. p \in Nat /\ p < N /\ (p = z \/ p = z - N)
    BY <1>1, <2>1, <2>2 DEF OutPlaces
  <2> HIDE DEF p
  <2>4. y \in Int /\ 0 - N <= y /\ y < N /\ y < 2 * N
    BY <1>1, <2>3
  <2> HIDE DEF y
  <2>5. k = IF y < 0 THEN y + N ELSE IF y < N THEN y ELSE y - N
    BY <2>4, PlaceIs
  <2>6. k = IF y < 0 THEN y + N ELSE y
    BY <2>4, <2>5
  <2>7. c[p] = IF k < m THEN w + 1 + k ELSE b[p]
    BY <2>2 DEF k, y
  <2> HIDE DEF k
  <2>8. CASE i <= L
    <3>1. k = i - 1 - L + N
      BY <1>1, <1>3, <1>4, <2>1, <2>3, <2>6, <2>8 DEF z, y
    <3>2. ~(k < m)
      BY <1>1, <1>3, <2>1, <2>8, <3>1
    <3>3. b[p] = s + i
      <4>1. i \in 1..L
        BY <1>3, <2>1, <2>8
      <4>2. b[(h + i - 1) % N] = s + i
        BY <1>2, <4>1
      <4> QED
        BY <4>2 DEF p, z
    <3> QED
      BY <2>7, <3>2, <3>3 DEF p, z
  <2>9. CASE L < i
    <3>1. k = i - 1 - L
      BY <1>1, <1>3, <1>4, <2>1, <2>3, <2>6, <2>9 DEF z, y
    <3>2. k < m /\ w + 1 + k = s + i
      BY <1>1, <1>3, <2>1, <2>9, <3>1
    <3> QED
      BY <2>7, <3>2 DEF p, z
  <2> QED
    BY <1>3, <2>1, <2>8, <2>9
<1>7. s <= w + m /\ (w + m) - s = L + m
  BY <1>2
<1> QED
  BY <1>5, <1>6, <1>7 DEF Holds

LEMMA HoldsLess ==
  ASSUME NEW b \in [OutPlaces -> Nat], NEW h \in OutPlaces, NEW t, NEW s \in Nat, NEW w \in Nat, Holds(b, h, t, s, w),
         w - s <= TY_OBUFLEN, NEW o \in Nat, s + o <= w
  PROVE  Holds(b, (h + o) % TY_OBUFLEN, t, s + o, w)
<1> DEFINE N == TY_OBUFLEN
           L == w - s
           x == h + o
           g == x % N
<1>1. N \in Nat \ {0} /\ h \in 0..(N - 1)
  BY TtyAssump DEF OutPlaces
<1>2. s <= w /\ t = (h + L) % N /\ \A i \in 1..L : b[(h + i - 1) % N] = s + i
  BY DEF Holds
<1>3. L \in Nat /\ L <= N /\ o <= L
  BY <1>2
<1>4. x \in Int /\ 0 <= x /\ 0 - N <= x /\ x < 2 * N
  BY <1>1, <1>3
<1> HIDE DEF x
<1>5. g = IF x < 0 THEN x + N ELSE IF x < N THEN x ELSE x - N
  BY <1>4, PlaceIs
<1>6. g \in Int /\ 0 <= g /\ (g = x \/ g = x - N) /\ g < N
  BY <1>1, <1>4, <1>5
<1> HIDE DEF g
<1>7. ASSUME NEW j \in Nat, o + j <= N
      PROVE  (g + j) % N = (h + (o + j)) % N
  <2> DEFINE y == g + j
             z == h + (o + j)
  <2>1. y \in Int /\ z \in Int /\ 0 <= y /\ 0 <= z /\ y < 2 * N /\ z < 2 * N /\ (y = z \/ y = z - N) /\ 0 - N <= y /\ 0 - N <= z
    BY <1>1, <1>4, <1>6, <1>7 DEF x
  <2> HIDE DEF y, z
  <2>2. y % N = IF y < 0 THEN y + N ELSE IF y < N THEN y ELSE y - N
    BY <2>1, PlaceIs
  <2>3. z % N = IF z < 0 THEN z + N ELSE IF z < N THEN z ELSE z - N
    BY <2>1, PlaceIs
  <2>4. y % N = z % N
    BY <1>1, <2>1, <2>2, <2>3
  <2> QED
    BY <2>4 DEF y, z
<1>8. t = (g + (L - o)) % N
  <2> DEFINE j == L - o
  <2>1. j \in Nat /\ o + j <= N /\ h + (o + j) = h + L
    BY <1>1, <1>3
  <2> HIDE DEF j
  <2>2. (g + j) % N = (h + (o + j)) % N
    BY <1>7, <2>1
  <2> QED
    BY <1>2, <2>1, <2>2 DEF j
<1>9. ASSUME NEW i \in 1..(L - o)
      PROVE  b[(g + i - 1) % N] = (s + o) + i
  <2> DEFINE j == i - 1
             q == o + i
  <2>1. j \in Nat /\ o + j <= N /\ h + (o + j) = h + q - 1 /\ q \in 1..L /\ g + j = g + i - 1 /\ s + q = (s + o) + i
    BY <1>1, <1>3, <1>6
  <2> HIDE DEF j, q
  <2>2. (g + j) % N = (h + (o + j)) % N
    BY <1>7, <2>1
  <2>3. b[(h + q - 1) % N] = s + q
    BY <1>2, <2>1
  <2> QED
    BY <2>1, <2>2, <2>3
<1>10. s + o \in Nat /\ w - (s + o) = L - o
  BY <1>3
<1> QED
  BY <1>3, <1>8, <1>9, <1>10 DEF Holds, g, x

LEMMA CharsAre ==
  ASSUME TRUE
  PROVE  CharsInv <=> /\ \A i \in OutPlaces : out.buf[i] <= wrote
                      /\ ~stale => Holds(out.buf, out.head, out.tail, shown, wrote)
BY DEF CharsInv, Holds

LEMMA CharsStore ==
  ASSUME OutType, OutType', WritersInv', PlacesInv', CharsInv, NEW w \in Writers, NEW own \in {0, 1}, NEW n \in Nat,
         NEW m \in Nat, StoredIn(w, own, n, m), wrote' = wrote + m, shown' = shown, stale' = stale
  PROVE  CharsInv'
<1> DEFINE b == out.buf
           c == out'.buf
<1>1. b \in [OutPlaces -> Nat] /\ out.head \in OutPlaces /\ out.tail \in OutPlaces /\ shown \in Nat /\ wrote \in Nat
  BY OutIs DEF OutType
<1>2. /\ out'.head = out.head /\ out'.tail = (out.tail + m) % TY_OBUFLEN
      /\ c = [i \in OutPlaces |-> LET k == (i - out.tail) % TY_OBUFLEN IN IF k < m THEN wrote + 1 + k ELSE b[i]]
  BY DEF StoredIn, Cell
<1>3. ASSUME NEW i \in OutPlaces PROVE c[i] <= wrote'
  <2> DEFINE k == (i - out.tail) % TY_OBUFLEN
  <2>1. c[i] = IF k < m THEN wrote + 1 + k ELSE b[i]
    BY <1>2
  <2>2. k \in Nat
    <3>1. i - out.tail \in Int /\ TY_OBUFLEN \in Nat \ {0}
      BY <1>1, TtyAssump DEF OutPlaces
    <3> QED
      BY <3>1
  <2>3. b[i] \in Nat /\ b[i] <= wrote
    BY <1>1 DEF CharsInv
  <2> HIDE DEF k, b
  <2> QED
    BY <1>1, <2>1, <2>2, <2>3
<1>4. wrote' - shown' <= TY_OBUFLEN
  BY PlacesBoundNext
<1>5. ASSUME ~stale' PROVE Holds(c, out'.head, out'.tail, shown', wrote')
  <2>1. Holds(b, out.head, out.tail, shown, wrote)
    BY <1>5, CharsAre
  <2>2. wrote + m - shown <= TY_OBUFLEN
    BY <1>1, <1>4
  <2> HIDE DEF b, c
  <2>3. Holds(c, out.head, (out.tail + m) % TY_OBUFLEN, shown, wrote + m)
    BY <1>1, <1>2, <2>1, <2>2, HoldsMore
  <2> QED
    BY <1>2, <2>3
<1> QED
  BY <1>3, <1>5 DEF CharsInv, Holds

\* The characters the interrupt takes are those written unless a writer was let through and has
\* not stored its own.
LEMMA CharsSent ==
  ASSUME OutType, WritersInv, PlacesInv, CharsInv, NEW o \in Nat, o <= TY_OBUFLEN, o <= Charged, NEW k, SentFrom(o, k),
         wrote' = wrote, shown' = shown + o,
         stale' <=> stale \/ \E i \in 1..o : out.buf[(out.head + i - 1) % TY_OBUFLEN] # shown + i
  PROVE  CharsInv' /\ (~stale /\ stale' => out.go # {})
<1> DEFINE L == wrote - shown
           b == out.buf
           h == out.head
<1>1. /\ b \in [OutPlaces -> Nat] /\ h \in OutPlaces /\ shown \in Nat /\ wrote \in Nat /\ TY_OBUFLEN \in Nat \ {0}
      /\ h \in 0..(TY_OBUFLEN - 1)
  BY OutIs, TtyAssump DEF OutType, OutPlaces
<1>2. out'.head = (h + o) % TY_OBUFLEN /\ out'.tail = out.tail /\ out'.buf = b
  BY DEF SentFrom
<1>3. L <= TY_OBUFLEN /\ (out.go = {} /\ shown <= wrote => L = TY_OBUFLEN \/ L = Charged)
  BY PlacesBound
<1>4. ~stale => Holds(b, h, out.tail, shown, wrote)
  BY CharsAre
<1>5. ~stale => shown <= wrote /\ \A i \in 1..L : b[(h + i - 1) % TY_OBUFLEN] = shown + i
  BY <1>4 DEF Holds
<1>6. \A i \in OutPlaces : b[i] <= wrote /\ b[i] \in Nat
  BY <1>1 DEF CharsInv
<1> HIDE DEF b, h
<1>7. ASSUME ~stale, stale' PROVE out.go # {}
  <2> SUFFICES ASSUME out.go = {} PROVE FALSE
    OBVIOUS
  <2>1. PICK i \in 1..o : b[(h + i - 1) % TY_OBUFLEN] # shown + i
    BY <1>7 DEF b, h
  <2>2. o <= L
    BY <1>3, <1>5, <1>7
  <2>3. i \in 1..L
    BY <1>1, <2>2
  <2> QED
    BY <1>5, <1>7, <2>1, <2>3
<1>8. ASSUME ~stale' PROVE Holds(b, (h + o) % TY_OBUFLEN, out.tail, shown + o, wrote)
  <2>1. ~stale /\ \A i \in 1..o : b[(h + i - 1) % TY_OBUFLEN] = shown + i
    BY <1>8 DEF b, h
  <2>2. shown + o <= wrote
    <3> SUFFICES ASSUME ~(shown + o <= wrote) PROVE FALSE
      OBVIOUS
    <3> DEFINE i == L + 1
               x == h + i - 1
    <3>1. i \in 1..o /\ shown + i = wrote + 1 /\ x = h + L
      BY <1>1, <1>5, <2>1
    <3>2. x \in Int /\ 0 - TY_OBUFLEN <= x /\ x < 2 * TY_OBUFLEN
      BY <1>1, <1>3, <1>5, <2>1, <3>1
    <3> HIDE DEF x, i
    <3>3. x % TY_OBUFLEN \in OutPlaces
      BY <3>2, PlaceIs
    <3>4. b[x % TY_OBUFLEN] = wrote + 1
      BY <2>1, <3>1 DEF x
    <3>5. PICK p \in OutPlaces : b[p] = wrote + 1
      BY <3>3, <3>4
    <3> QED
      BY ONLY <1>1, <1>6, <3>5
  <2>3. Holds(b, h, out.tail, shown, wrote)
    BY <1>4, <2>1
  <2> QED
    BY <1>1, <1>3, <2>2, <2>3, HoldsLess
<1>9. (\A i \in OutPlaces : out.buf[i] <= wrote)' /\ (~stale' => Holds(out.buf, out.head, out.tail, shown, wrote)')
  BY <1>2, <1>6, <1>8
<1> QED
  BY <1>7, <1>9 DEF CharsInv, Holds

\* The device
LEMMA OwedIs ==
  ASSUME OutType
  PROVE  /\ Owed \in 0..(TY_EBUFLEN - 1)
         /\ \A n \in Nat : (echo.tail + n) % TY_EBUFLEN \in 0..(TY_EBUFLEN - 1)
         /\ \A n \in Nat : (echo.head + n) % TY_EBUFLEN \in 0..(TY_EBUFLEN - 1)
         /\ (echo.tail + 0) % TY_EBUFLEN = echo.tail
         /\ Charged \in Nat
<1>1. echo.tail \in 0..(TY_EBUFLEN - 1) /\ echo.head \in 0..(TY_EBUFLEN - 1) /\ TY_EBUFLEN \in Nat \ {0}
  BY TtyAssump DEF OutType
<1>2. Owed = (echo.tail - echo.head) % TY_EBUFLEN
  BY DEF Owed
<1> DEFINE t == echo.tail
           h == echo.head
<1>3. t \in 0..(TY_EBUFLEN - 1) /\ h \in 0..(TY_EBUFLEN - 1)
  BY <1>1
<1>4. Charged \in Nat
  BY OutIs, TtyAssump DEF Charged, Positive
<1> HIDE DEF t, h
<1>5. t + 0 = t /\ t \in Int
  BY <1>3
<1>6. t % TY_EBUFLEN = t
  BY <1>1, <1>3, <1>5, TurnIs
<1>7. (t - h) % TY_EBUFLEN \in 0..(TY_EBUFLEN - 1) /\ (\A n \in Nat : (t + n) % TY_EBUFLEN \in 0..(TY_EBUFLEN - 1))
      /\ \A n \in Nat : (h + n) % TY_EBUFLEN \in 0..(TY_EBUFLEN - 1)
  BY <1>1, <1>3
<1> QED
  BY <1>2, <1>4, <1>5, <1>6, <1>7 DEF t, h

\* eputc for n characters, by a handler that releases output.
LEMMA DeviceEchoes ==
  ASSUME OutType, DeviceInv, NEW n \in Nat, Echoes(n), oheld' = FALSE, out' = out
  PROVE  DeviceInv' /\ echo' \in [head : 0..(TY_EBUFLEN - 1), tail : 0..(TY_EBUFLEN - 1)]
         /\ uart' \in [busy : BOOLEAN, irq : BOOLEAN, etbei : BOOLEAN] /\ silent' \in BOOLEAN
<1>1. uart \in [busy : BOOLEAN, irq : BOOLEAN, etbei : BOOLEAN] /\ silent \in BOOLEAN /\ oheld \in BOOLEAN
      /\ echo \in [head : 0..(TY_EBUFLEN - 1), tail : 0..(TY_EBUFLEN - 1)]
  BY DEF OutType
<1>2. /\ echo' \in [head : 0..(TY_EBUFLEN - 1), tail : 0..(TY_EBUFLEN - 1)]
      /\ echo'.head = echo.head /\ echo'.tail = (echo.tail + n) % TY_EBUFLEN
  BY <1>1, OwedIs DEF Echoes
<1>3. silent' = ((silent \/ oheld) /\ n = 0) /\ silent' \in BOOLEAN
  BY DEF Echoes
<1>4. CASE n = 0
  <2>1. uart' = uart /\ echo'.tail = echo.tail
    BY <1>2, <1>4, OwedIs DEF Echoes
  <2>2. Owed' = Owed /\ Charged' = Charged
    BY <1>2, <2>1 DEF Owed, Charged
  <2>3. ~silent' => ~silent /\ ~oheld
    BY <1>3, <1>4
  <2> QED
    BY <1>1, <1>2, <1>3, <2>1, <2>2, <2>3 DEF DeviceInv, OutputGoesOn
<1>5. CASE n # 0
  <2>1. uart' = [uart EXCEPT !.etbei = TRUE, !.irq = @ \/ ~uart.busy]
    BY <1>5 DEF Echoes, Kicked
  <2>2. /\ uart' \in [busy : BOOLEAN, irq : BOOLEAN, etbei : BOOLEAN]
        /\ uart'.etbei /\ uart'.busy = uart.busy /\ uart'.irq = (uart.irq \/ ~uart.busy)
    BY <1>1, <2>1
  <2>3. (uart.irq => ~uart.busy)
    BY DEF DeviceInv
  <2> QED
    BY <1>1, <1>2, <1>3, <2>2, <2>3 DEF DeviceInv, OutputGoesOn
<1> QED
  BY <1>4, <1>5

LEMMA DeviceFlow ==
  ASSUME OutType, DeviceInv, NEW ch, FlowControl(ch), ch \in {"stop", "start"}, out' = out
  PROVE  DeviceInv' /\ uart' \in [busy : BOOLEAN, irq : BOOLEAN, etbei : BOOLEAN] /\ echo' = echo
         /\ silent' \in BOOLEAN /\ oheld' \in BOOLEAN
<1>1. uart \in [busy : BOOLEAN, irq : BOOLEAN, etbei : BOOLEAN]
  BY DEF OutType
<1>2. echo' = echo /\ silent' = FALSE /\ oheld' = (ch = "stop")
  BY DEF FlowControl
<1>3. CASE ch = "start"
  <2>1. uart' = [uart EXCEPT !.etbei = TRUE, !.irq = @ \/ ~uart.busy]
    BY <1>3 DEF FlowControl, Kicked
  <2>2. /\ uart' \in [busy : BOOLEAN, irq : BOOLEAN, etbei : BOOLEAN]
        /\ uart'.etbei /\ uart'.busy = uart.busy /\ uart'.irq = (uart.irq \/ ~uart.busy)
    BY <1>1, <2>1
  <2>3. (uart.irq => ~uart.busy)
    BY DEF DeviceInv
  <2> QED
    BY <1>1, <1>2, <2>2, <2>3 DEF DeviceInv, OutputGoesOn
<1>4. CASE ch = "stop"
  <2>1. uart' = uart /\ oheld'
    BY <1>2, <1>4 DEF FlowControl
  <2> QED
    BY <1>1, <1>2, <2>1 DEF DeviceInv, OutputGoesOn
<1> QED
  BY <1>3, <1>4

LEMMA OutputHandleIn ==
  ASSUME OutInv, NEW ch \in {"a", "erase", "stop", "start"}, TtyhandleIn(ch)
  PROVE  OutInv' /\ stale' = stale
<1>1. /\ imode' = imode /\ iecho' = iecho /\ out' = out /\ left' = left /\ shown' = shown /\ wrote' = wrote
      /\ stale' = stale /\ imode = "cooked" /\ OutType /\ DeviceInv
  BY DEF TtyhandleIn, OutInv, OutType
<1>2. /\ DeviceInv' /\ echo' \in [head : 0..(TY_EBUFLEN - 1), tail : 0..(TY_EBUFLEN - 1)]
      /\ uart' \in [busy : BOOLEAN, irq : BOOLEAN, etbei : BOOLEAN] /\ silent' \in BOOLEAN /\ oheld' \in BOOLEAN
  <2>1. CASE ch \in {"stop", "start"}
    <3>1. FlowControl(ch)
      BY <1>1, <2>1 DEF TtyhandleIn
    <3>2. echo \in [head : 0..(TY_EBUFLEN - 1), tail : 0..(TY_EBUFLEN - 1)]
      BY <1>1 DEF OutType
    <3> QED
      BY <1>1, <2>1, <3>1, <3>2, DeviceFlow
  <2>2. CASE ch \in {"a", "erase"}
    <3>1. oheld' = FALSE /\ Cooked(ch)
      BY <1>1, <2>2 DEF TtyhandleIn
    <3>2. \E n \in Nat : Echoes(n)
      <4>1. CASE ch = "erase"
        <5>1. EraseOne
          BY <3>1, <4>1 DEF Cooked
        <5>2. CASE in.cursor = 0
          BY <5>1, <5>2 DEF EraseOne
        <5>3. CASE in.cursor # 0
          <6>1. PICK n : n \in {0, 3, 6} /\ Echoes(n)
            <7> DEFINE t == Back(1)
                       n == CASE ~iecho -> 0 [] iecho /\ in.buf[t] \in Ctl -> 6 [] OTHER -> 3
            <7>1. Echoes(n)
              BY <5>1, <5>3 DEF EraseOne
            <7>2. n \in {0, 3, 6}
              OBVIOUS
            <7> HIDE DEF n
            <7> QED
              BY <7>1, <7>2
          <6> QED
            BY <6>1
        <5> QED
          BY <5>2, <5>3
      <4>2. CASE ch = "a"
        <5>1. Bell \/ EndOfFile \/ Letter(ch)
          BY <3>1, <4>2 DEF Cooked
        <5>2. CASE Bell
          BY <5>2 DEF Bell
        <5>3. ASSUME NEW c, Echoch(c) PROVE \E n \in Nat : Echoes(n)
          <6> DEFINE n == IF iecho THEN EchoLen(c) ELSE 0
          <6>1. n \in Nat /\ Echoes(n)
            BY <5>3 DEF Echoch, EchoLen
          <6> HIDE DEF n
          <6> QED
            BY <6>1
        <5> QED
          BY <5>1, <5>2, <5>3 DEF EndOfFile, Letter
      <4> QED
        BY <2>2, <4>1, <4>2
    <3> QED
      BY <1>1, <3>1, <3>2, DeviceEchoes
  <2> QED
    BY <2>1, <2>2
<1>3. OutType'
  BY <1>1, <1>2 DEF OutType
<1>4. WritersInv' /\ PlacesInv' /\ CharsInv'
  BY <1>1 DEF OutInv, WritersInv, PlacesInv, CharsInv
<1> QED
  BY <1>1, <1>2, <1>3, <1>4 DEF OutInv

LEMMA OutputStores ==
  ASSUME OutInv, NEW w \in Writers, NEW own \in {0, 1}, NEW n \in Nat, n > 0, Stores(w, own, n),
         own = 1 <=> w \in out.go, own = 0 => left[w] = 0
  PROVE  OutInv' /\ stale' = stale
<1> DEFINE m == Lesser(n, own + Positive(out.sem))
<1>1. OutType /\ WritersInv /\ PlacesInv /\ CharsInv /\ DeviceInv
  BY DEF OutInv
<1>2. /\ wrote' = wrote + m /\ left' = [left EXCEPT ![w] = n - m] /\ uart' = IF m > 0 THEN Kicked ELSE uart
      /\ silent' = (silent /\ m = 0) /\ shown' = shown /\ stale' = stale /\ imode' = imode /\ iecho' = iecho
      /\ echo' = echo /\ oheld' = oheld
  BY DEF Stores
<1> HIDE DEF m
<1>3. m \in Nat /\ m <= n /\ m <= own + Positive(out.sem) /\ (m = n \/ m = own + Positive(out.sem)) /\ StoredIn(w, own, n, m)
  BY <1>1, StoresIs DEF m
<1>4. WritersInv'
  BY <1>1, <1>2, <1>3, WritersStore
<1>5. PlacesInv' /\ IsFiniteSet(out'.go)
  BY <1>1, <1>2, <1>3, PlacesStore
<1>6. uart \in [busy : BOOLEAN, irq : BOOLEAN, etbei : BOOLEAN]
  BY <1>1 DEF OutType
<1>7. ASSUME m = 0 PROVE DeviceInv' /\ uart' \in [busy : BOOLEAN, irq : BOOLEAN, etbei : BOOLEAN] /\ silent' \in BOOLEAN
  <2>1. uart' = uart /\ silent' = silent
    BY <1>1, <1>2, <1>7 DEF OutType
  <2>2. own = 0 /\ ~(out.sem > 0)
    <3>1. own \in Nat /\ out.sem \in Int
      BY <1>1, OutIs
    <3> QED
      BY <1>3, <1>7, <3>1 DEF Positive
  <2>3. Charged > 0
    BY <1>1, <2>2, OutIs, TtyAssump DEF Charged, Positive
  <2>4. Owed' = Owed
    BY <1>2 DEF Owed
  <2> QED
    BY <1>1, <1>2, <1>6, <2>1, <2>3, <2>4 DEF DeviceInv, OutputGoesOn, OutType
<1>8. ASSUME m # 0 PROVE DeviceInv' /\ uart' \in [busy : BOOLEAN, irq : BOOLEAN, etbei : BOOLEAN] /\ silent' \in BOOLEAN
  <2>1. uart' = [uart EXCEPT !.etbei = TRUE, !.irq = @ \/ ~uart.busy]
    BY <1>2, <1>3, <1>8 DEF Kicked
  <2>2. /\ uart' \in [busy : BOOLEAN, irq : BOOLEAN, etbei : BOOLEAN]
        /\ uart'.etbei /\ uart'.busy = uart.busy /\ uart'.irq = (uart.irq \/ ~uart.busy)
    BY <1>6, <2>1
  <2>3. (uart.irq => ~uart.busy)
    BY <1>1 DEF DeviceInv
  <2> QED
    BY <1>1, <1>2, <1>8, <2>2, <2>3 DEF DeviceInv, OutputGoesOn, OutType
<1>9. DeviceInv' /\ uart' \in [busy : BOOLEAN, irq : BOOLEAN, etbei : BOOLEAN] /\ silent' \in BOOLEAN
  BY <1>7, <1>8
<1>10. wrote' \in Nat /\ left' \in [Readers \cup Writers -> Nat]
  <2>1. wrote \in Nat /\ left \in [Readers \cup Writers -> Nat] /\ n - m \in Nat
    BY <1>1, <1>3 DEF OutType
  <2> QED
    BY <1>2, <1>3, <2>1
<1>11. OutType'
  <2>1. out' \in OutEntry
    BY <1>3 DEF StoredIn
  <2> QED
    BY <1>1, <1>2, <1>5, <1>9, <1>10, <2>1 DEF OutType, OutEntry
<1>12. CharsInv'
  BY <1>1, <1>2, <1>3, <1>4, <1>5, <1>11, CharsStore
<1> QED
  BY <1>2, <1>4, <1>5, <1>9, <1>11, <1>12 DEF OutInv

LEMMA OutputSends ==
  ASSUME OutInv, TtyhandleOut
  PROVE  OutInv' /\ (~stale /\ stale' => out.go # {})
<1> DEFINE e == Lesser(UART_FIFO_SIZE, Owed)
           o == Lesser(UART_FIFO_SIZE - e, Charged)
<1>1. OutType /\ WritersInv /\ PlacesInv /\ CharsInv /\ DeviceInv
  BY DEF OutInv
<1>2. /\ imode' = imode /\ iecho' = iecho /\ oheld' = oheld /\ left' = left /\ wrote' = wrote /\ silent' = silent
      /\ uart \in [busy : BOOLEAN, irq : BOOLEAN, etbei : BOOLEAN] /\ uart.irq
  BY <1>1 DEF TtyhandleOut, OutType
<1>3. CASE /\ uart' = [uart EXCEPT !.irq = FALSE] /\ oheld /\ UNCHANGED <<echo, out, shown, stale>>
  <2>1. uart' \in [busy : BOOLEAN, irq : BOOLEAN, etbei : BOOLEAN] /\ ~uart'.irq /\ uart'.busy = uart.busy /\ uart'.etbei = uart.etbei
    BY <1>2, <1>3
  <2>2. DeviceInv'
    BY <1>1, <1>2, <1>3, <2>1 DEF DeviceInv, OutputGoesOn
  <2>3. OutType'
    BY <1>1, <1>2, <1>3, <2>1 DEF OutType
  <2>4. WritersInv' /\ PlacesInv' /\ CharsInv'
    BY <1>1, <1>2, <1>3 DEF WritersInv, PlacesInv, CharsInv
  <2> QED
    BY <1>3, <2>2, <2>3, <2>4 DEF OutInv
<1>4. CASE /\ ~oheld /\ Owed = 0 /\ out.sem >= TY_OBUFLEN
           /\ uart' = [uart EXCEPT !.irq = FALSE, !.etbei = FALSE] /\ UNCHANGED <<echo, out, shown, stale>>
  <2>1. uart' \in [busy : BOOLEAN, irq : BOOLEAN, etbei : BOOLEAN] /\ ~uart'.irq /\ uart'.busy = uart.busy
    BY <1>2, <1>4
  <2>2. Owed' = 0 /\ Charged' = 0
    <3>1. Charged = 0
      BY <1>1, <1>4, OutIs, TtyAssump DEF Charged, Positive
    <3> QED
      BY <1>4, <3>1 DEF Owed, Charged
  <2>3. DeviceInv'
    BY <1>1, <1>2, <2>1, <2>2 DEF DeviceInv, OutputGoesOn
  <2>4. OutType'
    BY <1>1, <1>2, <1>4, <2>1 DEF OutType
  <2>5. WritersInv' /\ PlacesInv' /\ CharsInv'
    BY <1>1, <1>2, <1>4 DEF WritersInv, PlacesInv, CharsInv
  <2> QED
    BY <1>4, <2>3, <2>4, <2>5 DEF OutInv
<1>5. CASE /\ uart' = [uart EXCEPT !.irq = FALSE, !.busy = TRUE]
           /\ echo' = [echo EXCEPT !.head = (@ + e) % TY_EBUFLEN]
           /\ out' = Signaln([out EXCEPT !.head = (@ + o) % TY_OBUFLEN], o)
           /\ shown' = shown + o
           /\ stale' = (stale \/ \E i \in 1..o : out.buf[(out.head + i - 1) % TY_OBUFLEN] # shown + i)
  <2>1. e \in Nat /\ e <= UART_FIFO_SIZE
    BY <1>1, OwedIs, TtyAssump DEF Lesser
  <2>2. o \in Nat /\ o <= TY_OBUFLEN /\ o <= Charged
    <3> HIDE DEF e
    <3>1. UART_FIFO_SIZE - e \in Nat /\ UART_FIFO_SIZE - e <= TY_OBUFLEN /\ Charged \in Nat /\ TY_OBUFLEN \in Nat
      BY <1>1, <2>1, OwedIs, TtyAssump
    <3> QED
      BY <3>1 DEF Lesser
  <2> DEFINE k == Lesser(o, Len(out.q))
  <2>3. uart' \in [busy : BOOLEAN, irq : BOOLEAN, etbei : BOOLEAN] /\ ~uart'.irq /\ uart'.busy /\ uart'.etbei = uart.etbei
    BY <1>2, <1>5
  <2>4. echo' \in [head : 0..(TY_EBUFLEN - 1), tail : 0..(TY_EBUFLEN - 1)]
    <3> HIDE DEF e
    <3>1. echo \in [head : 0..(TY_EBUFLEN - 1), tail : 0..(TY_EBUFLEN - 1)] /\ (echo.head + e) % TY_EBUFLEN \in 0..(TY_EBUFLEN - 1)
      BY <1>1, <2>1, OwedIs DEF OutType
    <3> QED
      BY <1>5, <3>1
  <2>5. uart.etbei
    BY <1>1, <1>2 DEF DeviceInv
  <2>6. DeviceInv'
    BY <2>3, <2>5 DEF DeviceInv, OutputGoesOn
  <2> HIDE DEF e, o
  <2>7. SentFrom(o, k) /\ k \in 0..Len(out.q)
    BY <1>1, <1>5, <2>2, SignalnIs
  <2>8. stale' \in BOOLEAN /\ shown' \in Nat
    BY <1>1, <1>5, <2>2 DEF OutType
  <2>9. stale' <=> stale \/ \E i \in 1..o : out.buf[(out.head + i - 1) % TY_OBUFLEN] # shown + i
    BY <1>1, <1>5 DEF OutType
  <2>10. WritersInv' /\ IsFiniteSet(out'.go)
         /\ Cardinality(out'.go) + Len(out'.q) = Cardinality(out.go) + Len(out.q)
    BY <1>1, <1>2, <2>2, <2>7, WritersSent
  <2>11. out' \in OutEntry /\ out'.sem = out.sem + o
    BY <2>7 DEF SentFrom
  <2>12. OutType'
    BY <1>1, <1>2, <2>3, <2>4, <2>8, <2>10, <2>11 DEF OutType, OutEntry
  <2>13. Cardinality(out'.go) \in Nat /\ Len(out'.q) \in Nat
    BY <2>10, <2>11, FS_CardinalityType DEF OutEntry
  <2>14. PlacesInv'
    BY <1>1, <1>2, <1>5, <2>2, <2>10, <2>11, <2>13, PlacesSent
  <2>15. CharsInv' /\ (~stale /\ stale' => out.go # {})
    BY <1>1, <1>2, <1>5, <2>2, <2>7, <2>9, CharsSent
  <2> QED
    BY <2>6, <2>10, <2>12, <2>14, <2>15 DEF OutInv
<1> QED
  BY <1>3, <1>4, <1>5 DEF TtyhandleOut

LEMMA OutputEmpties ==
  ASSUME OutInv, UartEmpties
  PROVE  OutInv' /\ stale' = stale
<1>1. /\ imode' = imode /\ iecho' = iecho /\ oheld' = oheld /\ left' = left /\ wrote' = wrote /\ silent' = silent
      /\ out' = out /\ echo' = echo /\ shown' = shown /\ stale' = stale /\ uart.busy
      /\ uart' = [uart EXCEPT !.busy = FALSE, !.irq = uart.etbei]
  BY DEF UartEmpties
<1>2. OutType /\ DeviceInv
  BY DEF OutInv
<1>3. uart \in [busy : BOOLEAN, irq : BOOLEAN, etbei : BOOLEAN] /\ uart.etbei
  BY <1>1, <1>2 DEF OutType, DeviceInv
<1>4. uart' \in [busy : BOOLEAN, irq : BOOLEAN, etbei : BOOLEAN] /\ uart'.irq /\ ~uart'.busy /\ uart'.etbei
  BY <1>1, <1>3
<1>5. OutType'
  BY <1>1, <1>2, <1>4 DEF OutType
<1>6. DeviceInv'
  BY <1>4 DEF DeviceInv, OutputGoesOn
<1>7. WritersInv' /\ PlacesInv' /\ CharsInv'
  BY <1>1 DEF OutInv, WritersInv, PlacesInv, CharsInv
<1> QED
  BY <1>1, <1>5, <1>6, <1>7 DEF OutInv

LEMMA OutputNext ==
  ASSUME OutInv, [TtyOutput]_tvars
  PROVE  OutInv' /\ (~stale /\ stale' => out.go # {})
<1>1. ASSUME NEW w \in Writers, TtywriteGoesOn(w)
      PROVE  OutInv' /\ stale' = stale
  <2>1. w \in out.go /\ Stores(w, 1, left[w]) /\ left[w] \in Nat /\ left[w] > 0
    BY <1>1 DEF TtywriteGoesOn, OutInv, WritersInv, Waiting, OutType
  <2> QED
    BY <2>1, OutputStores
<1>2. ASSUME NEW w \in Writers, NEW n \in 1..(2 * MaxCount), Ttywrite(w, n)
      PROVE  OutInv' /\ stale' = stale
  <2>1. left[w] = 0 /\ Stores(w, 0, n) /\ n \in Nat /\ n > 0
    BY <1>2 DEF Ttywrite
  <2>2. w \notin out.go
    BY <2>1 DEF OutInv, WritersInv, Waiting
  <2> QED
    BY <2>1, <2>2, OutputStores
<1>3. CASE UNCHANGED tvars
  BY <1>3 DEF tvars, OutInv, OutType, WritersInv, PlacesInv, CharsInv, DeviceInv, OutputGoesOn, Owed, Charged
<1> QED
  BY <1>1, <1>2, <1>3, OutputHandleIn, OutputSends, OutputEmpties DEF TtyOutput

LEMMA OutputInit ==
  ASSUME TtyInit
  PROVE  OutInv
<1>1. /\ out = [buf |-> [i \in OutPlaces |-> 0], head |-> 0, tail |-> 0, sem |-> TY_OBUFLEN, q |-> <<>>, go |-> {}]
      /\ echo = [head |-> 0, tail |-> 0] /\ uart = [busy |-> FALSE, irq |-> TRUE, etbei |-> TRUE]
      /\ left = [p \in Readers \cup Writers |-> 0] /\ imode = "cooked" /\ iecho = TRUE /\ oheld = FALSE
      /\ shown = 0 /\ wrote = 0 /\ stale = FALSE /\ silent = FALSE
  BY DEF TtyInit, OutPlaces
<1>2. /\ out.head = 0 /\ out.tail = 0 /\ out.sem = TY_OBUFLEN /\ out.q = <<>> /\ out.go = {} /\ Len(out.q) = 0
      /\ \A i \in OutPlaces : out.buf[i] = 0
  BY <1>1
<1>3. Cardinality(out.go) = 0 /\ IsFiniteSet(out.go)
  BY <1>2, FS_EmptySet
<1>4. OutType
  <2>1. 0 \in OutPlaces /\ 0 \in 0..(TY_EBUFLEN - 1) /\ TY_OBUFLEN \in Int
    BY TtyAssump DEF OutPlaces
  <2>2. out \in OutEntry
    BY <1>1, <2>1 DEF OutEntry
  <2> QED
    BY <1>1, <1>3, <2>1, <2>2 DEF OutType, OutEntry
<1>5. WritersInv
  BY <1>2, TtyAssump DEF WritersInv, Waiting, Positive
<1>6. PlacesInv
  BY <1>1, <1>2, <1>3, TtyAssump DEF PlacesInv
<1>7. CharsInv
  <2>1. 0 % TY_OBUFLEN = 0
    BY TtyAssump, TurnIs
  <2> QED
    BY <1>1, <1>2, <2>1 DEF CharsInv
<1>8. DeviceInv
  BY <1>1 DEF DeviceInv, OutputGoesOn
<1> QED
  BY <1>4, <1>5, <1>6, <1>7, <1>8 DEF OutInv

\* ttywrite, ttyputc, ttyhandle_out and ttykickout, with input that echoes: what is written is
\* shown once and in order as long as no character is taken that a writer has been granted a
\* place for and has not stored, and while there is something to show the device is at work.
THEOREM OutputKept == TtyOutputSpec => OutputRight
<1>1. TtyInit => OutInv
  BY OutputInit
<1>2. OutInv /\ [TtyOutput]_tvars => OutInv' /\ [~stale /\ stale' => out.go # {}]_tvars
  BY OutputNext
<1>3. OutInv => OutputInOrder /\ OutputGoesOn
  BY DEF OutInv, PlacesInv, CharsInv, DeviceInv, OutputInOrder
<1> QED
  BY <1>1, <1>2, <1>3, PTL DEF TtyOutputSpec, OutputRight, StaleOnlyFromCharged

-----------------------------------------------------------------------------
(* The console's input: the ring *)

Wrapped(x) == IF x < TY_IBUFLEN THEN x ELSE x - TY_IBUFLEN

\* The remainder, once round at most.
LEMMA WrappedIs ==
  ASSUME NEW x \in Nat, x < 2 * TY_IBUFLEN
  PROVE  x % TY_IBUFLEN = Wrapped(x) /\ Wrapped(x) \in 0..(TY_IBUFLEN - 1)
<1> DEFINE r == Wrapped(x)
<1>1. TY_IBUFLEN \in Nat \ {0}
  BY TtyAssump
<1>2. r \in 0..(TY_IBUFLEN - 1) /\ (x = r \/ x = r + TY_IBUFLEN)
  BY <1>1 DEF Wrapped
<1> HIDE DEF r
<1>3. x % TY_IBUFLEN = r
  BY <1>1, <1>2, TurnIs
<1> QED
  BY <1>2, <1>3 DEF r

\* The place n behind h is also that for t, which may be the one behind the ring.
Meets(t, h, n) == t % TY_IBUFLEN = (h + n) % TY_IBUFLEN
Heads == 0..(TY_IBUFLEN - 1)

\* It is the same to count round the ring once.
LEMMA MeetsIs ==
  ASSUME NEW t \in 0..TY_IBUFLEN, NEW h \in Heads, NEW n \in 0..TY_IBUFLEN
  PROVE  Meets(t, h, n) <=> Wrapped(t) = Wrapped(h + n)
<1>1. TY_IBUFLEN \in Nat \ {0, 1}
  BY TtyAssump
<1>2. t \in Nat /\ t < 2 * TY_IBUFLEN /\ h + n \in Nat /\ h + n < 2 * TY_IBUFLEN
  BY <1>1 DEF Heads
<1>3. t % TY_IBUFLEN = Wrapped(t) /\ (h + n) % TY_IBUFLEN = Wrapped(h + n)
  BY <1>2, WrappedIs
<1> QED
  BY <1>3 DEF Meets

\* A character is stored: the tail goes on, round and round or, behind an end of file, not.
LEMMA MeetsNext ==
  ASSUME NEW t \in Heads, NEW h \in Heads, NEW n \in 0..TY_IBUFLEN, n < TY_IBUFLEN, Meets(t, h, n),
         NEW u, u = t + 1 \/ u = IF t + 1 >= TY_IBUFLEN THEN 0 ELSE t + 1
  PROVE  u \in 0..TY_IBUFLEN /\ Meets(u, h, n + 1)
<1>1. TY_IBUFLEN \in Nat \ {0, 1} /\ t \in 0..TY_IBUFLEN /\ n + 1 \in 0..TY_IBUFLEN
  BY TtyAssump DEF Heads
<1>2. Wrapped(t) = Wrapped(h + n)
  BY <1>1, MeetsIs
<1>3. u \in 0..TY_IBUFLEN
  BY <1>1 DEF Heads
<1>4. Wrapped(u) = Wrapped(h + (n + 1))
  BY <1>1, <1>2, <1>3 DEF Wrapped, Heads
<1> QED
  BY <1>1, <1>3, <1>4, MeetsIs

\* Characters are taken back.
LEMMA MeetsBack ==
  ASSUME NEW t \in 0..TY_IBUFLEN, NEW h \in Heads, NEW n \in 0..TY_IBUFLEN, Meets(t, h, n), NEW k \in 0..n,
         NEW u, u = IF t < k THEN t - k + TY_IBUFLEN ELSE t - k
  PROVE  Meets(u, h, n - k)
<1>1. TY_IBUFLEN \in Nat \ {0, 1} /\ n - k \in 0..TY_IBUFLEN
  BY TtyAssump
<1>2. Wrapped(t) = Wrapped(h + n)
  BY <1>1, MeetsIs
<1>3. u \in 0..TY_IBUFLEN
  BY <1>1
<1>4. Wrapped(u) = Wrapped(h + (n - k))
  BY <1>1, <1>2, <1>3 DEF Wrapped, Heads
<1> QED
  BY <1>1, <1>3, <1>4, MeetsIs

\* Characters are read.
LEMMA MeetsRead ==
  ASSUME NEW t \in 0..TY_IBUFLEN, NEW h \in Heads, NEW n \in 0..TY_IBUFLEN, Meets(t, h, n), NEW k \in 0..n,
         NEW g, g = (h + k) % TY_IBUFLEN
  PROVE  /\ g \in Heads /\ Meets(t, g, n - k)
         /\ \A i \in 1..(n - k) : (g + i - 1) % TY_IBUFLEN = (h + k + i - 1) % TY_IBUFLEN
<1>1. TY_IBUFLEN \in Nat \ {0, 1} /\ n - k \in 0..TY_IBUFLEN
  BY TtyAssump
<1>2. Wrapped(t) = Wrapped(h + n)
  BY <1>1, MeetsIs
<1>3. h + k \in Nat /\ h + k < 2 * TY_IBUFLEN
  BY <1>1 DEF Heads
<1>4. g = Wrapped(h + k) /\ g \in Heads
  BY <1>3, WrappedIs DEF Heads
<1>5. Wrapped(t) = Wrapped(g + (n - k))
  BY <1>1, <1>2, <1>4 DEF Wrapped, Heads
<1>6. Meets(t, g, n - k)
  BY <1>1, <1>4, <1>5, MeetsIs
<1>7. ASSUME NEW i \in 1..(n - k)
      PROVE  (g + i - 1) % TY_IBUFLEN = (h + k + i - 1) % TY_IBUFLEN
  <2> DEFINE x == g + i - 1
             y == h + k + i - 1
  <2>1. x \in Nat /\ y \in Nat /\ x < 2 * TY_IBUFLEN /\ y < 2 * TY_IBUFLEN
    BY <1>1, <1>4 DEF Heads
  <2>2. Wrapped(x) = Wrapped(y)
    <3>1. CASE h + k < TY_IBUFLEN
      <4>1. x = y
        BY <1>4, <3>1 DEF Wrapped
      <4> QED
        BY <4>1
    <3>2. CASE ~(h + k < TY_IBUFLEN)
      <4>1. x = y - TY_IBUFLEN
        BY <1>1, <1>4, <3>2 DEF Wrapped, Heads
      <4> HIDE DEF x, y
      <4> QED
        BY <1>1, <2>1, <4>1 DEF Wrapped
    <3> QED
      BY <3>1, <3>2
  <2> HIDE DEF x, y
  <2>3. x % TY_IBUFLEN = y % TY_IBUFLEN
    BY <2>1, <2>2, WrappedIs
  <2> QED
    BY <2>3 DEF x, y
<1> QED
  BY <1>4, <1>6, <1>7

\* The place where a character is stored holds none of those before it.
LEMMA MeetsApart ==
  ASSUME NEW t \in Heads, NEW h \in Heads, NEW n \in 0..TY_IBUFLEN, n < TY_IBUFLEN, Meets(t, h, n), NEW k \in 1..n
  PROVE  (h + k - 1) % TY_IBUFLEN # t /\ (h + k - 1) % TY_IBUFLEN \in Heads
<1>1. TY_IBUFLEN \in Nat \ {0, 1} /\ t \in 0..TY_IBUFLEN
  BY TtyAssump DEF Heads
<1>2. Wrapped(t) = Wrapped(h + n)
  BY <1>1, MeetsIs
<1> DEFINE x == h + k - 1
<1>3. x \in Nat /\ x < 2 * TY_IBUFLEN
  BY <1>1 DEF Heads
<1>4. Wrapped(x) # t /\ Wrapped(x) \in Heads
  BY <1>1, <1>2 DEF Wrapped, Heads
<1> HIDE DEF x
<1>5. x % TY_IBUFLEN # t /\ x % TY_IBUFLEN \in Heads
  BY <1>3, <1>4, WrappedIs
<1> QED
  BY <1>5 DEF x

-----------------------------------------------------------------------------
\* The n characters that begin m behind place h of the ring b.
Buffered(h, m, n, b) == [i \in 1..n |-> b[(h + m + i - 1) % TY_IBUFLEN]]
IChars == Keys \cup {NoChar}
Bufs == [0..TY_IBUFLEN -> IChars]

\* Which characters these are.
LEMMA BufferedIs ==
  ASSUME NEW h \in Heads, NEW m \in Nat, NEW n \in Nat, NEW b \in Bufs
  PROVE  /\ Buffered(h, m, n, b) \in Seq(IChars) /\ Len(Buffered(h, m, n, b)) = n
         /\ \A i \in 1..n : Buffered(h, m, n, b)[i] = b[(h + m + i - 1) % TY_IBUFLEN]
<1>1. ASSUME NEW i \in 1..n PROVE b[(h + m + i - 1) % TY_IBUFLEN] \in IChars
  <2> DEFINE x == h + m + i - 1
  <2>1. x \in Int /\ TY_IBUFLEN \in Nat \ {0}
    BY TtyAssump DEF Heads
  <2> HIDE DEF x
  <2>2. x % TY_IBUFLEN \in 0..TY_IBUFLEN
    BY <2>1
  <2> QED
    BY <2>2 DEF x, Bufs
<1> DEFINE s == Buffered(h, m, n, b)
<1>2. s \in [1..n -> IChars] /\ \A i \in 1..n : s[i] = b[(h + m + i - 1) % TY_IBUFLEN]
  BY <1>1 DEF Buffered
<1> HIDE DEF s
<1>3. s \in Seq(IChars) /\ Len(s) = n
  BY <1>2, IsASeq, LenProperties
<1> QED
  BY <1>2, <1>3 DEF s

\* Sequences of one length that agree everywhere are one.
LEMMA SameSeq ==
  ASSUME NEW S, NEW s \in Seq(S), NEW t \in Seq(S), Len(s) = Len(t), \A i \in 1..Len(s) : s[i] = t[i]
  PROVE  s = t
  BY SeqEqual

\* A part of them.
LEMMA BufferedPart ==
  ASSUME NEW h \in Heads, NEW m \in Nat, NEW n \in Nat, NEW b \in Bufs, NEW j \in 0..n, NEW k \in j..n
  PROVE  SubSeq(Buffered(h, m, n, b), j + 1, k) = Buffered(h, m + j, k - j, b)
<1> DEFINE s == Buffered(h, m, n, b)
           t == SubSeq(s, j + 1, k)
           u == Buffered(h, m + j, k - j, b)
<1>1. s \in Seq(IChars) /\ Len(s) = n /\ \A i \in 1..n : s[i] = b[(h + m + i - 1) % TY_IBUFLEN]
  BY BufferedIs
<1>2. m + j \in Nat /\ k - j \in Nat
  OBVIOUS
<1>3. /\ u \in Seq(IChars) /\ Len(u) = k - j
      /\ \A i \in 1..(k - j) : u[i] = b[(h + (m + j) + i - 1) % TY_IBUFLEN]
  BY <1>2, BufferedIs
<1> HIDE DEF s, u
<1>4. t \in Seq(IChars) /\ Len(t) = k - j /\ \A i \in 1..(k - j) : t[i] = s[j + i]
  <2>1. SubSeq(s, 1, k) \in Seq(IChars) /\ Len(SubSeq(s, 1, k)) = k
    BY <1>1, SuffixIs
  <2>2. /\ t \in Seq(IChars)
        /\ Len(t) = IF j + 1 <= k THEN k - (j + 1) + 1 ELSE 0
        /\ \A i \in 1..(k - (j + 1) + 1) : t[i] = s[(j + 1) + i - 1]
    <3>1. j + 1 \in Int /\ k \in Int /\ \A i \in (j + 1)..k : i \in 1..n
      OBVIOUS
    <3>2. \A i \in (j + 1)..k : s[i] \in IChars
      BY <1>1, <3>1, ElementOfSeq
    <3> QED
      BY ONLY <3>1, <3>2, SubSeqProperties
  <2> HIDE DEF t
  <2>3. Len(t) = k - j
    BY <2>2
  <2>4. ASSUME NEW i \in 1..(k - j) PROVE t[i] = s[j + i]
    <3>1. i \in 1..(k - (j + 1) + 1) /\ (j + 1) + i - 1 = j + i
      OBVIOUS
    <3> QED
      BY <2>2, <3>1
  <2> QED
    BY <2>2, <2>3, <2>4
<1> HIDE DEF t
<1>5. ASSUME NEW i \in 1..(k - j) PROVE t[i] = u[i]
  <2>1. j + i \in 1..n /\ h + m + (j + i) - 1 = h + (m + j) + i - 1
    BY DEF Heads
  <2> QED
    BY <1>1, <1>3, <1>4, <2>1
<1>6. t = u
  BY <1>3, <1>4, <1>5, SameSeq
<1> QED
  BY <1>6 DEF s, t, u

\* Those that follow each other.
LEMMA BufferedJoin ==
  ASSUME NEW h \in Heads, NEW m \in Nat, NEW n \in Nat, NEW k \in Nat, NEW b \in Bufs
  PROVE  Buffered(h, m, n, b) \o Buffered(h, m + n, k, b) = Buffered(h, m, n + k, b)
<1> DEFINE s == Buffered(h, m, n, b)
           t == Buffered(h, m + n, k, b)
           u == Buffered(h, m, n + k, b)
           v == s \o t
<1>1. s \in Seq(IChars) /\ Len(s) = n /\ \A i \in 1..n : s[i] = b[(h + m + i - 1) % TY_IBUFLEN]
  BY BufferedIs
<1>2. m + n \in Nat /\ n + k \in Nat
  OBVIOUS
<1>3. t \in Seq(IChars) /\ Len(t) = k /\ \A i \in 1..k : t[i] = b[(h + (m + n) + i - 1) % TY_IBUFLEN]
  BY <1>2, BufferedIs
<1>4. u \in Seq(IChars) /\ Len(u) = n + k /\ \A i \in 1..(n + k) : u[i] = b[(h + m + i - 1) % TY_IBUFLEN]
  BY <1>2, BufferedIs
<1> HIDE DEF s, t, u
<1>5. /\ v \in Seq(IChars) /\ Len(v) = n + k
      /\ \A i \in 1..(n + k) : v[i] = IF i <= n THEN s[i] ELSE t[i - n]
  BY <1>1, <1>3, ConcatProperties, ZenonT(60)
<1> HIDE DEF v
<1>6. ASSUME NEW i \in 1..(n + k) PROVE v[i] = u[i]
  <2>1. CASE i <= n
    <3>1. i \in 1..n
      BY <2>1
    <3> QED
      BY <1>1, <1>4, <1>5, <2>1, <3>1
  <2>2. CASE ~(i <= n)
    <3>1. i - n \in 1..k /\ h + (m + n) + (i - n) - 1 = h + m + i - 1
      BY <2>2 DEF Heads
    <3> QED
      BY <1>3, <1>4, <1>5, <2>2, <3>1
  <2> QED
    BY <2>1, <2>2
<1>7. v = u
  BY <1>4, <1>5, <1>6, SameSeq
<1> QED
  BY <1>7 DEF s, t, u, v

\* One more.
LEMMA BufferedMore ==
  ASSUME NEW h \in Heads, NEW m \in Nat, NEW n \in Nat, NEW b \in Bufs
  PROVE  Append(Buffered(h, m, n, b), b[(h + m + n) % TY_IBUFLEN]) = Buffered(h, m, n + 1, b)
<1> DEFINE s == Buffered(h, m, n, b)
           u == Buffered(h, m, n + 1, b)
           e == b[(h + m + n) % TY_IBUFLEN]
           v == Append(s, e)
<1>1. s \in Seq(IChars) /\ Len(s) = n /\ \A i \in 1..n : s[i] = b[(h + m + i - 1) % TY_IBUFLEN]
  BY BufferedIs
<1>2. n + 1 \in Nat
  OBVIOUS
<1>3. u \in Seq(IChars) /\ Len(u) = n + 1 /\ \A i \in 1..(n + 1) : u[i] = b[(h + m + i - 1) % TY_IBUFLEN]
  BY <1>2, BufferedIs
<1>4. h + m + (n + 1) - 1 = h + m + n /\ n + 1 \in 1..(n + 1)
  BY DEF Heads
<1>5. u[n + 1] = e
  BY <1>3, <1>4
<1> HIDE DEF s, u, e
<1>6. e \in IChars
  BY <1>3, <1>4, <1>5, ElementOfSeq
<1>7. v \in Seq(IChars) /\ Len(v) = n + 1 /\ v[n + 1] = e /\ \A i \in 1..n : v[i] = s[i]
  BY <1>1, <1>6, AppendProperties
<1> HIDE DEF v
<1>8. ASSUME NEW i \in 1..(n + 1) PROVE v[i] = u[i]
  <2>1. CASE i = n + 1
    BY <1>5, <1>7, <2>1
  <2>2. CASE i \in 1..n
    BY <1>1, <1>3, <1>7, <2>2
  <2> QED
    BY <2>1, <2>2
<1>9. v = u
  BY <1>3, <1>7, <1>8, SameSeq
<1> QED
  BY <1>9 DEF s, u, e, v

\* Where the buffers agree.
LEMMA BufferedSame ==
  ASSUME NEW h, NEW m, NEW n, NEW b, NEW h2, NEW m2, NEW b2,
         \A i \in 1..n : b2[(h2 + m2 + i - 1) % TY_IBUFLEN] = b[(h + m + i - 1) % TY_IBUFLEN]
  PROVE  Buffered(h2, m2, n, b2) = Buffered(h, m, n, b)
  BY DEF Buffered

\* The types of what belongs to the input.
InEntry == [buf : Bufs, head : Heads, tail : 0..(TY_IBUFLEN + 1), sem : Int, cursor : 0..TY_IBUFLEN,
            q : Seq(Readers), go : SUBSET Readers]
InType ==
  /\ in \in InEntry /\ IsFiniteSet(in.go) /\ (Intact => in.tail <= TY_IBUFLEN)
  /\ left \in [Readers \cup Writers -> Nat] /\ imode \in {"cooked", "cbreak", "raw"} /\ overrun \in BOOLEAN
  /\ readSoFar \in Seq(IChars)
  /\ out.head \in 0..(TY_OBUFLEN - 1) /\ out.tail \in 0..(TY_OBUFLEN - 1)
\* Who waits, or is let through, still wants characters.
ReadersInv == Waiting(in.q, in.go, in.sem, left)
\* Unless the ring is overrun, it has room for the characters entered and those of the line, and the
\* tail is behind them.
LineInv ==
  ~overrun => /\ Intact /\ Entered + in.cursor <= TY_IBUFLEN
              /\ Meets(in.tail, in.head, Entered + in.cursor)
InInv == InType /\ ReadersInv /\ LineInv

LEMMA InIs ==
  ASSUME InType
  PROVE  /\ in.buf \in Bufs /\ in.head \in Heads /\ in.tail \in 0..(TY_IBUFLEN + 1) /\ in.sem \in Int
         /\ in.cursor \in 0..TY_IBUFLEN /\ in.q \in Seq(Readers) /\ in.go \in SUBSET Readers
         /\ IsFiniteSet(in.go) /\ Cardinality(in.go) \in Nat /\ Avail \in Nat /\ Entered \in Nat
         /\ Entered = Avail + Cardinality(in.go)
<1>1. /\ in.buf \in Bufs /\ in.head \in Heads /\ in.tail \in 0..(TY_IBUFLEN + 1) /\ in.sem \in Int
      /\ in.cursor \in 0..TY_IBUFLEN /\ in.q \in Seq(Readers) /\ in.go \in SUBSET Readers
      /\ IsFiniteSet(in.go)
  BY DEF InType, InEntry
<1>2. Cardinality(in.go) \in Nat
  BY <1>1, FS_CardinalityType
<1>3. Avail \in Nat
  BY <1>1 DEF Avail, Positive
<1>4. Entered = Avail + Cardinality(in.go)
  BY DEF Entered, Avail
<1> QED
  BY <1>1, <1>2, <1>3, <1>4

\* The ring with new values.
Built(s, b, t, c, x, y, z) == [s EXCEPT !.buf = b, !.tail = t, !.cursor = c, !.sem = x, !.q = y, !.go = z]
LEMMA BuiltIs ==
  ASSUME NEW s \in InEntry, NEW b \in Bufs, NEW t \in 0..(TY_IBUFLEN + 1), NEW c \in 0..TY_IBUFLEN, NEW x \in Int,
         NEW y \in Seq(Readers), NEW z \in SUBSET Readers
  PROVE  /\ Built(s, b, t, c, x, y, z) \in InEntry /\ Built(s, b, t, c, x, y, z).head = s.head
         /\ Built(s, b, t, c, x, y, z).buf = b /\ Built(s, b, t, c, x, y, z).tail = t
         /\ Built(s, b, t, c, x, y, z).cursor = c /\ Built(s, b, t, c, x, y, z).sem = x
         /\ Built(s, b, t, c, x, y, z).q = y /\ Built(s, b, t, c, x, y, z).go = z
  BY DEF Built, InEntry

\* A character is put at the tail and n processes are signalled; t and c are the new tail and cursor.
PutIn(ch, t, c, n) ==
  /\ in' \in InEntry /\ in'.head = in.head /\ in'.buf = [in.buf EXCEPT ![in.tail] = ch]
  /\ in'.tail = t /\ in'.cursor = c /\ IsFiniteSet(in'.go) /\ Waiting(in'.q, in'.go, in'.sem, left)
  /\ Entered' = Entered + n /\ n + c = in.cursor + 1
NextTail == IF in.tail + 1 >= TY_IBUFLEN THEN 0 ELSE in.tail + 1

\* A character stored and n processes signalled: the ring, and who waits at it, afterwards.
LEMMA PutIs ==
  ASSUME InType, ReadersInv, NEW ch \in IChars, NEW t \in 0..(TY_IBUFLEN + 1), NEW c \in 0..TY_IBUFLEN, NEW n \in Nat,
         n + c = in.cursor + 1,
         in' = Signaln(Built(in, [in.buf EXCEPT ![in.tail] = ch], t, c, in.sem, in.q, in.go), n)
  PROVE  PutIn(ch, t, c, n)
<1> DEFINE b == [in.buf EXCEPT ![in.tail] = ch]
           k == Lesser(n, Len(in.q))
           r == Built(in, b, t, c, in.sem, in.q, in.go)
           x == in.sem + n
           y == SubSeq(in.q, k + 1, Len(in.q))
           z == in.go \cup {in.q[i] : i \in 1..k}
<1>1. in \in InEntry
  BY DEF InType
<1>2. b \in Bufs
  BY InIs DEF Bufs
<1>3. /\ r \in InEntry /\ r.head = in.head /\ r.buf = b /\ r.tail = t /\ r.cursor = c /\ r.sem = in.sem
      /\ r.q = in.q /\ r.go = in.go
  <2>1. r = Built(in, b, t, c, in.sem, in.q, in.go)
    OBVIOUS
  <2>2. in.sem \in Int /\ in.q \in Seq(Readers) /\ in.go \in SUBSET Readers
    BY InIs
  <2>3. t \in 0..(TY_IBUFLEN + 1) /\ c \in 0..TY_IBUFLEN
    OBVIOUS
  <2> HIDE DEF r, b
  <2> QED
    BY ONLY <1>1, <1>2, <2>1, <2>2, <2>3, BuiltIs
<1>4. /\ Waiting(y, z, x, left) /\ y \in Seq(Readers) /\ z \in SUBSET Readers /\ IsFiniteSet(z) /\ x \in Int
      /\ Cardinality(z) = Cardinality(in.go) + k /\ Positive(x) + k = Positive(in.sem) + n /\ k \in 0..Len(in.q)
  <2> HIDE DEF r, b
  <2>1. in.q \in Seq(Readers) /\ in.go \in SUBSET Readers /\ IsFiniteSet(in.go) /\ in.sem \in Int
    BY InIs
  <2>2. Waiting(in.q, in.go, in.sem, left)
    BY DEF ReadersInv
  <2>3. k = Lesser(n, Len(in.q)) /\ x = in.sem + n /\ y = SubSeq(in.q, k + 1, Len(in.q)) /\ n \in Nat
    OBVIOUS
  <2>4. \A p : p \in z <=> p \in in.go \/ \E i \in 1..k : p = in.q[i]
    OBVIOUS
  <2> HIDE DEF k, x, y, z
  <2>5. LetThrough(Readers, in.q, in.go, in.sem, left, n, k, y, z, x)
    BY ONLY <2>1, <2>2, <2>3, <2>4 DEF LetThrough
  <2>6. StillWaiting(Readers, in.q, in.go, in.sem, left, n, k, y, z, x)
    BY ONLY <2>5, WaitingSignals
  <2> QED
    BY ONLY <2>6 DEF StillWaiting
<1> HIDE DEF b
<1>5. in' = Built(r, b, t, c, x, y, z)
  <2>1. in' = Signaln(r, n)
    BY DEF r, b
  <2>2. Signaln(r, n) = [r EXCEPT !.sem = r.sem + n, !.q = SubSeq(r.q, Lesser(n, Len(r.q)) + 1, Len(r.q)),
                                  !.go = r.go \cup {r.q[i] : i \in 1..Lesser(n, Len(r.q))}]
    <3> HIDE DEF r
    <3> QED
      BY <1>3 DEF Signaln, InEntry
  <2> HIDE DEF r
  <2>3. Signaln(r, n) = [r EXCEPT !.sem = x, !.q = y, !.go = z]
    BY <1>3, <2>2
  <2> HIDE DEF x, y, z
  <2>4. [r EXCEPT !.sem = x, !.q = y, !.go = z] = Built(r, b, t, c, x, y, z)
    BY <1>3 DEF Built, InEntry
  <2> QED
    BY <2>1, <2>3, <2>4
<1> HIDE DEF r, x, y, z
<1>6. /\ in' \in InEntry /\ in'.head = in.head /\ in'.buf = b /\ in'.tail = t /\ in'.cursor = c
      /\ in'.sem = x /\ in'.q = y /\ in'.go = z
  BY <1>2, <1>3, <1>4, <1>5, BuiltIs
<1>7. Entered' = Entered + n
  <2>1. Entered = Positive(in.sem) + Cardinality(in.go) /\ Entered' = Positive(x) + Cardinality(z)
    BY <1>6 DEF Entered
  <2> DEFINE e == Positive(in.sem)
             f == Positive(x)
             g == Cardinality(in.go)
             l == Cardinality(z)
  <2>2. e \in Nat /\ f \in Nat /\ g \in Nat /\ k \in Nat
    BY <1>4, InIs, LenProperties DEF Positive, Avail
  <2>3. l = g + k /\ f + k = e + n
    BY <1>4
  <2> HIDE DEF e, f, g, l, k
  <2>4. f + l = e + g + n
    BY <2>2, <2>3
  <2> QED
    BY <2>1, <2>2, <2>4 DEF e, f, g, l
<1> QED
  BY <1>4, <1>6, <1>7 DEF PutIn, b

\* k characters are taken back from the line, or nothing is changed.
TookBack(k) ==
  /\ in' \in InEntry /\ in'.head = in.head /\ in'.buf = in.buf /\ in'.sem = in.sem /\ in'.q = in.q
  /\ in'.go = in.go /\ in'.tail = Back(k) /\ in'.cursor = in.cursor - k

\* erase1, and what kills a line, leave who waits alone.
LEMMA TakesBack ==
  ASSUME InType, Intact, NEW k \in 0..in.cursor,
         in' = Built(in, in.buf, Back(k), in.cursor - k, in.sem, in.q, in.go)
  PROVE  TookBack(k)
<1>1. in \in InEntry /\ in.tail \in 0..TY_IBUFLEN /\ in.cursor \in 0..TY_IBUFLEN /\ TY_IBUFLEN \in Nat
  BY InIs, TtyAssump DEF InType
<1>2. Back(k) \in 0..(TY_IBUFLEN + 1) /\ in.cursor - k \in 0..TY_IBUFLEN
  BY <1>1 DEF Back
<1>3. in.buf \in Bufs /\ in.sem \in Int /\ in.q \in Seq(Readers) /\ in.go \in SUBSET Readers
  BY InIs
<1>4. in' = Built(in, in.buf, Back(k), in.cursor - k, in.sem, in.q, in.go)
  OBVIOUS
<1>5. /\ in' \in InEntry /\ in'.head = in.head /\ in'.buf = in.buf /\ in'.tail = Back(k)
      /\ in'.cursor = in.cursor - k /\ in'.sem = in.sem /\ in'.q = in.q /\ in'.go = in.go
  BY ONLY <1>1, <1>2, <1>3, <1>4, BuiltIs
<1> QED
  BY <1>5 DEF TookBack

\* A bell leaves all of it alone.
LEMMA KeepsAll ==
  ASSUME InType, Intact, in' = in
  PROVE  0 \in 0..in.cursor /\ TookBack(0)
<1>1. in \in InEntry /\ in.tail \in 0..TY_IBUFLEN /\ in.cursor \in 0..TY_IBUFLEN /\ TY_IBUFLEN \in Nat
  BY InIs, TtyAssump DEF InType
<1>2. Back(0) = in.tail /\ in.cursor - 0 = in.cursor
  BY <1>1 DEF Back
<1> QED
  BY <1>1, <1>2 DEF TookBack

\* What a character that arrives does with the ring.
PutUnedited(ch) == imode # "cooked" /\ Avail < TY_IBUFLEN /\ PutIn(ch, NextTail, in.cursor, 1)
PutNewline(ch) == imode = "cooked" /\ ch = "nl" /\ PutIn(ch, NextTail, 0, in.cursor + 1)
PutEof(ch) == imode = "cooked" /\ ch = "eof" /\ in.cursor = 0 /\ ~Full /\ PutIn(ch, in.tail + 1, 0, 1)
PutLetter(ch) == imode = "cooked" /\ ch # "nl" /\ ~Full /\ PutIn(ch, NextTail, in.cursor + 1, 0)
Edits == \E k \in 0..in.cursor : (k = 0 \/ k = 1 \/ k = in.cursor) /\ TookBack(k)

\* What the cases of ttyhandle_in make of the ring.
LEMMA StoreIs ==
  ASSUME InType, NEW ch
  PROVE  /\ Store(in, ch) = Built(in, [in.buf EXCEPT ![in.tail] = ch], NextTail, in.cursor, in.sem, in.q, in.go)
         /\ StoreEof(in) = Built(in, [in.buf EXCEPT ![in.tail] = "eof"], in.tail + 1, in.cursor, in.sem, in.q, in.go)
         /\ [Store(in, ch) EXCEPT !.cursor = 0]
              = Built(in, [in.buf EXCEPT ![in.tail] = ch], NextTail, 0, in.sem, in.q, in.go)
         /\ [Store(in, ch) EXCEPT !.cursor = @ + 1]
              = Built(in, [in.buf EXCEPT ![in.tail] = ch], NextTail, in.cursor + 1, in.sem, in.q, in.go)
<1>1. in \in InEntry
  BY DEF InType
<1>2. Store(in, ch) = Built(in, [in.buf EXCEPT ![in.tail] = ch], NextTail, in.cursor, in.sem, in.q, in.go)
  BY <1>1 DEF Store, Built, NextTail, InEntry
<1>3. StoreEof(in) = Built(in, [in.buf EXCEPT ![in.tail] = "eof"], in.tail + 1, in.cursor, in.sem, in.q, in.go)
  BY <1>1 DEF StoreEof, Built, InEntry
<1>4. [Store(in, ch) EXCEPT !.cursor = 0]
        = Built(in, [in.buf EXCEPT ![in.tail] = ch], NextTail, 0, in.sem, in.q, in.go)
  BY <1>1 DEF Store, Built, NextTail, InEntry
<1>5. [Store(in, ch) EXCEPT !.cursor = @ + 1]
        = Built(in, [in.buf EXCEPT ![in.tail] = ch], NextTail, in.cursor + 1, in.sem, in.q, in.go)
  BY <1>1 DEF Store, Built, NextTail, InEntry
<1> QED
  BY <1>2, <1>3, <1>4, <1>5

\* Where the tail may be, and what the test for room says.
LEMMA RoomIs ==
  ASSUME InType, Intact
  PROVE  /\ in.tail \in 0..TY_IBUFLEN /\ NextTail \in 0..(TY_IBUFLEN + 1) /\ in.tail + 1 \in 0..(TY_IBUFLEN + 1)
         /\ in.cursor \in 0..TY_IBUFLEN /\ 0 \in 0..TY_IBUFLEN /\ TY_IBUFLEN \in Nat \ {0, 1}
         /\ Avail \in Nat /\ in.cursor + 1 \in Nat
         /\ (~Full => in.cursor + 1 \in 0..TY_IBUFLEN /\ Avail + in.cursor < TY_IBUFLEN - 1)
<1>1. /\ in.tail \in 0..TY_IBUFLEN /\ in.cursor \in 0..TY_IBUFLEN /\ TY_IBUFLEN \in Nat \ {0, 1} /\ Avail \in Nat
  BY InIs, TtyAssump DEF InType
<1>2. ~Full => Avail + in.cursor < TY_IBUFLEN - 1
  BY <1>1 DEF Full
<1> QED
  BY <1>1, <1>2 DEF NextTail

\* Each of them, with what it signals, is a character put.
LEMMA SignalledIs ==
  ASSUME InType, ReadersInv, Intact, NEW ch \in IChars
  PROVE  /\ in' = Signaln(Store(in, ch), 1) => PutIn(ch, NextTail, in.cursor, 1)
         /\ in' = Signaln([Store(in, ch) EXCEPT !.cursor = 0], in.cursor + 1) => PutIn(ch, NextTail, 0, in.cursor + 1)
         /\ ch = "eof" /\ in.cursor = 0 /\ in' = Signaln(StoreEof(in), 1) => PutIn(ch, in.tail + 1, 0, 1)
         /\ ~Full /\ in' = [Store(in, ch) EXCEPT !.cursor = @ + 1] => PutIn(ch, NextTail, in.cursor + 1, 0)
<1>1. /\ in.tail \in 0..TY_IBUFLEN /\ NextTail \in 0..(TY_IBUFLEN + 1) /\ in.tail + 1 \in 0..(TY_IBUFLEN + 1)
      /\ in.cursor \in 0..TY_IBUFLEN /\ 0 \in 0..TY_IBUFLEN /\ in.cursor + 1 \in Nat
  BY RoomIs
<1>2. 1 \in Nat /\ 0 \in Nat /\ 1 + in.cursor = in.cursor + 1 /\ (in.cursor + 1) + 0 = in.cursor + 1
      /\ 0 + (in.cursor + 1) = in.cursor + 1
  BY <1>1
<1>3. ASSUME in' = Signaln(Store(in, ch), 1) PROVE PutIn(ch, NextTail, in.cursor, 1)
  <2>1. in' = Signaln(Built(in, [in.buf EXCEPT ![in.tail] = ch], NextTail, in.cursor, in.sem, in.q, in.go), 1)
    BY <1>3, StoreIs
  <2> QED
    BY <1>1, <1>2, <2>1, PutIs
<1>4. ASSUME in' = Signaln([Store(in, ch) EXCEPT !.cursor = 0], in.cursor + 1) PROVE PutIn(ch, NextTail, 0, in.cursor + 1)
  <2>1. in' = Signaln(Built(in, [in.buf EXCEPT ![in.tail] = ch], NextTail, 0, in.sem, in.q, in.go), in.cursor + 1)
    BY <1>4, StoreIs
  <2> QED
    BY <1>1, <1>2, <2>1, PutIs
<1>5. ASSUME ch = "eof", in.cursor = 0, in' = Signaln(StoreEof(in), 1) PROVE PutIn(ch, in.tail + 1, 0, 1)
  <2>1. in' = Signaln(Built(in, [in.buf EXCEPT ![in.tail] = ch], in.tail + 1, 0, in.sem, in.q, in.go), 1)
    BY <1>5, StoreIs
  <2>2. 1 + 0 = in.cursor + 1
    BY <1>5
  <2> QED
    BY <1>1, <1>2, <2>1, <2>2, PutIs
<1>6. ASSUME ~Full, in' = [Store(in, ch) EXCEPT !.cursor = @ + 1] PROVE PutIn(ch, NextTail, in.cursor + 1, 0)
  <2> DEFINE b == [in.buf EXCEPT ![in.tail] = ch]
  <2>1. in' = Built(in, b, NextTail, in.cursor + 1, in.sem, in.q, in.go)
    BY <1>6, StoreIs
  <2>2. in.cursor + 1 \in 0..TY_IBUFLEN
    BY <1>6, RoomIs
  <2>3. b \in Bufs
    BY InIs DEF Bufs
  <2>4. in \in InEntry /\ in.sem \in Int /\ in.q \in Seq(Readers) /\ in.go \in SUBSET Readers /\ IsFiniteSet(in.go)
        /\ Entered \in Nat
    BY InIs DEF InType
  <2> HIDE DEF b
  <2>5. /\ in' \in InEntry /\ in'.head = in.head /\ in'.buf = b /\ in'.tail = NextTail
        /\ in'.cursor = in.cursor + 1 /\ in'.sem = in.sem /\ in'.q = in.q /\ in'.go = in.go
    BY ONLY <1>1, <2>1, <2>2, <2>3, <2>4, BuiltIs
  <2>6. Entered' = Entered + 0
    BY <2>4, <2>5 DEF Entered
  <2>7. Waiting(in'.q, in'.go, in'.sem, left)
    BY <2>5 DEF ReadersInv
  <2> QED
    BY <1>2, <2>4, <2>5, <2>6, <2>7 DEF PutIn, b
<1> QED
  BY <1>3, <1>4, <1>5, <1>6

\* ttyhandle_in in the modes without editing, and for what stops and starts the output.
LEMMA RawIs ==
  ASSUME InType, ReadersInv, Intact, NEW ch \in IChars, imode # "cooked"
  PROVE  /\ Raw(ch) => PutUnedited(ch) \/ Edits
         /\ Cbreak(ch) => PutUnedited(ch) \/ Edits
         /\ FlowControl(ch) => Edits
<1>1. in' = in => Edits
  BY KeepsAll DEF Edits
<1>2. Avail < TY_IBUFLEN /\ in' = Signaln(Store(in, ch), 1) => PutUnedited(ch)
  BY SignalledIs DEF PutUnedited
<1>3. Avail \in Nat /\ TY_IBUFLEN \in Nat
  BY RoomIs
<1> QED
  BY <1>1, <1>2, <1>3 DEF Raw, Cbreak, FlowControl

\* ttyhandle_in in cooked mode.
LEMMA CookedIs ==
  ASSUME InType, ReadersInv, Intact, NEW ch \in IChars, imode = "cooked", Cooked(ch)
  PROVE  PutNewline(ch) \/ PutEof(ch) \/ PutLetter(ch) \/ Edits
<1>0. in.cursor \in 0..TY_IBUFLEN /\ TY_IBUFLEN \in Nat /\ in \in InEntry
  BY RoomIs DEF InType
<1>1. in' = in => Edits
  BY KeepsAll DEF Edits
<1>2. CASE ch = "kill"
  <2>1. in' = [in EXCEPT !.tail = Back(in.cursor), !.cursor = 0]
    BY <1>2 DEF Cooked, LineKill
  <2>2. in' = Built(in, in.buf, Back(in.cursor), 0, in.sem, in.q, in.go)
    BY <1>0, <2>1 DEF Built, InEntry
  <2>3. in.cursor - in.cursor = 0 /\ in.cursor \in 0..in.cursor
    BY <1>0
  <2>4. in' = Built(in, in.buf, Back(in.cursor), in.cursor - in.cursor, in.sem, in.q, in.go)
    BY <2>2, <2>3
  <2> QED
    BY <2>3, <2>4, TakesBack DEF Edits
<1>3. CASE ch = "erase" /\ in.cursor # 0
  <2>1. in' = [in EXCEPT !.tail = Back(1), !.cursor = @ - 1]
    BY <1>3 DEF Cooked, EraseOne
  <2>2. in' = Built(in, in.buf, Back(1), in.cursor - 1, in.sem, in.q, in.go)
    BY <1>0, <2>1 DEF Built, InEntry
  <2>3. 1 \in 0..in.cursor
    BY <1>0, <1>3
  <2> QED
    BY <2>2, <2>3, TakesBack DEF Edits
<1>4. CASE ch = "erase" /\ in.cursor = 0
  BY <1>1, <1>4 DEF Cooked, EraseOne
<1>5. CASE ch = "nl"
  <2>1. in' = Signaln([Store(in, "nl") EXCEPT !.cursor = 0], in.cursor + 1)
    BY <1>5 DEF Cooked, EndOfLine
  <2> QED
    BY <1>5, <2>1, SignalledIs DEF PutNewline
<1>6. CASE ch \notin {"kill", "erase", "nl"} /\ Full
  BY <1>1, <1>6 DEF Cooked, Bell
<1>7. CASE ch = "eof" /\ ~Full
  <2>1. in' = IF in.cursor = 0 THEN Signaln(StoreEof(in), 1) ELSE in
    BY <1>7 DEF Cooked, EndOfFile
  <2>2. CASE in.cursor = 0
    BY <1>7, <2>1, <2>2, SignalledIs DEF PutEof
  <2>3. CASE in.cursor # 0
    BY <1>1, <2>1, <2>3
  <2> QED
    BY <2>2, <2>3
<1>8. CASE ch \notin {"kill", "erase", "nl", "eof"} /\ ~Full
  <2>1. in' = [Store(in, ch) EXCEPT !.cursor = @ + 1]
    BY <1>8 DEF Cooked, Letter
  <2> QED
    BY <1>8, <2>1, SignalledIs DEF PutLetter
<1> QED
  BY <1>2, <1>3, <1>4, <1>5, <1>6, <1>7, <1>8

\* ttyhandle_in as a whole: a character is put, or some of the line are taken back, or none.
LEMMA HandleInIs ==
  ASSUME InType, ReadersInv, NEW ch \in Keys, TtyhandleIn(ch)
  PROVE  /\ Intact /\ (PutUnedited(ch) \/ PutNewline(ch) \/ PutEof(ch) \/ PutLetter(ch) \/ Edits)
         /\ imode' = imode /\ out' = out /\ left' = left /\ readSoFar' = readSoFar
         /\ overrun' = (overrun \/ in'.buf[TY_IBUFLEN] # NoChar
                         \/ Positive(in'.sem) + Cardinality(in'.go) + in'.cursor > TY_IBUFLEN)
<1>1. /\ Intact /\ imode' = imode /\ out' = out /\ left' = left /\ readSoFar' = readSoFar
      /\ overrun' = (overrun \/ in'.buf[TY_IBUFLEN] # NoChar
                      \/ Positive(in'.sem) + Cardinality(in'.go) + in'.cursor > TY_IBUFLEN)
  BY DEF TtyhandleIn
<1>2. ch \in IChars /\ imode \in {"cooked", "cbreak", "raw"}
  BY DEF InType, IChars
<1>3. CASE imode = "raw"
  <2>1. Raw(ch)
    BY <1>3 DEF TtyhandleIn
  <2> QED
    BY <1>1, <1>2, <1>3, <2>1, RawIs
<1>4. CASE imode # "raw" /\ ch \in {"start", "stop"}
  <2>1. in' = in
    BY <1>4 DEF TtyhandleIn, FlowControl
  <2> QED
    BY <1>1, <2>1, KeepsAll DEF Edits
<1>5. CASE imode = "cbreak" /\ ch \notin {"start", "stop"}
  <2>1. Cbreak(ch)
    BY <1>5 DEF TtyhandleIn
  <2> QED
    BY <1>1, <1>2, <1>5, <2>1, RawIs
<1>6. CASE imode = "cooked" /\ ch \notin {"start", "stop"}
  <2>1. Cooked(ch)
    BY <1>6 DEF TtyhandleIn
  <2> QED
    BY <1>1, <1>2, <1>6, <2>1, CookedIs
<1> QED
  BY <1>2, <1>3, <1>4, <1>5, <1>6

\* A character ch is stored at t behind the e entered and the c of the line.
Stored(h, e, c, b, t, ch, b2) ==
  /\ h \in Heads /\ e \in Nat /\ c \in Nat /\ e + c < TY_IBUFLEN /\ b \in Bufs /\ t \in Heads /\ ch \in IChars
  /\ Meets(t, h, e + c) /\ b2 = [b EXCEPT ![t] = ch]
Follows(h, e, c, b, ch, b2) ==
  /\ b2 \in Bufs
  /\ Buffered(h, 0, e, b2) = Buffered(h, 0, e, b) /\ Buffered(h, e, c, b2) = Buffered(h, e, c, b)
  /\ Buffered(h, e, c + 1, b2) = Append(Buffered(h, e, c, b), ch)
  /\ Buffered(h, 0, e + c + 1, b2) = Buffered(h, 0, e, b) \o Append(Buffered(h, e, c, b), ch)
  /\ Buffered(h, 0, e + c + 1, b2) = Append(Buffered(h, 0, e, b) \o Buffered(h, e, c, b), ch)

\* It is the next of the line, and none of those before it is changed.
LEMMA StoredFollows ==
  ASSUME NEW h, NEW e, NEW c, NEW b, NEW t, NEW ch, NEW b2, Stored(h, e, c, b, t, ch, b2)
  PROVE  Follows(h, e, c, b, ch, b2)
<1>1. /\ h \in Heads /\ e \in Nat /\ c \in Nat /\ e + c < TY_IBUFLEN /\ b \in Bufs /\ t \in Heads /\ ch \in IChars
      /\ Meets(t, h, e + c) /\ b2 = [b EXCEPT ![t] = ch]
  BY DEF Stored
<1>2. b2 \in Bufs /\ b2[t] = ch /\ \A i \in Heads : i # t => b2[i] = b[i]
  BY <1>1, TtyAssump DEF Bufs, Heads
<1>3. e + c \in 0..TY_IBUFLEN /\ TY_IBUFLEN \in Nat \ {0, 1}
  BY <1>1, TtyAssump
<1>4. ASSUME NEW k \in 1..(e + c) PROVE b2[(h + k - 1) % TY_IBUFLEN] = b[(h + k - 1) % TY_IBUFLEN]
  BY <1>1, <1>2, <1>3, MeetsApart
<1>5. Buffered(h, 0, e, b2) = Buffered(h, 0, e, b)
  <2>1. ASSUME NEW i \in 1..e PROVE b2[(h + 0 + i - 1) % TY_IBUFLEN] = b[(h + 0 + i - 1) % TY_IBUFLEN]
    <3>1. i \in 1..(e + c) /\ h + 0 + i - 1 = h + i - 1
      BY <1>1 DEF Heads
    <3> QED
      BY <1>4, <3>1
  <2> QED
    BY ONLY <2>1, BufferedSame
<1>6. Buffered(h, e, c, b2) = Buffered(h, e, c, b)
  <2>1. ASSUME NEW i \in 1..c PROVE b2[(h + e + i - 1) % TY_IBUFLEN] = b[(h + e + i - 1) % TY_IBUFLEN]
    <3>1. e + i \in 1..(e + c) /\ h + (e + i) - 1 = h + e + i - 1
      BY <1>1 DEF Heads
    <3> QED
      BY <1>4, <3>1
  <2> QED
    BY ONLY <2>1, BufferedSame
<1>7. b2[(h + e + c) % TY_IBUFLEN] = ch
  <2>1. t % TY_IBUFLEN = t
    <3>1. t \in Nat /\ t < 2 * TY_IBUFLEN /\ Wrapped(t) = t
      BY <1>1, <1>3 DEF Heads, Wrapped
    <3> QED
      BY <3>1, WrappedIs
  <2>2. h + (e + c) = h + e + c
    BY <1>1 DEF Heads
  <2> QED
    BY <1>1, <1>2, <2>1, <2>2 DEF Meets
<1>0. h \in Heads /\ e \in Nat /\ c \in Nat /\ b2 \in Bufs
  BY <1>1, <1>2
<1>8. Buffered(h, e, c + 1, b2) = Append(Buffered(h, e, c, b), ch)
  <2>1. Append(Buffered(h, e, c, b2), b2[(h + e + c) % TY_IBUFLEN]) = Buffered(h, e, c + 1, b2)
    BY ONLY <1>0, BufferedMore, ZenonT(60)
  <2> QED
    BY <1>6, <1>7, <2>1
<1>9. Buffered(h, 0, e + c + 1, b2) = Buffered(h, 0, e, b) \o Append(Buffered(h, e, c, b), ch)
  <2>1. c + 1 \in Nat /\ 0 + e = e /\ e + (c + 1) = e + c + 1 /\ 0 \in Nat
    BY <1>1
  <2> DEFINE k == c + 1
  <2>2. Buffered(h, 0, e, b2) \o Buffered(h, 0 + e, k, b2) = Buffered(h, 0, e + k, b2)
    <3>1. k \in Nat /\ 0 \in Nat
      BY <2>1
    <3> HIDE DEF k
    <3> QED
      BY ONLY <1>0, <3>1, BufferedJoin, ZenonT(60)
  <2> QED
    BY <1>5, <1>8, <2>1, <2>2
<1>10. Buffered(h, 0, e + c + 1, b2) = Append(Buffered(h, 0, e, b) \o Buffered(h, e, c, b), ch)
  <2>1. 0 + e = e /\ 0 \in Nat /\ e + c \in Nat /\ h + 0 + (e + c) = h + e + c
    BY <1>1 DEF Heads
  <2>2. Buffered(h, 0, e, b2) \o Buffered(h, 0 + e, c, b2) = Buffered(h, 0, e + c, b2)
    <3>1. 0 \in Nat
      OBVIOUS
    <3> QED
      BY ONLY <1>0, <3>1, BufferedJoin, ZenonT(60)
  <2>3. Append(Buffered(h, 0, e + c, b2), b2[(h + 0 + (e + c)) % TY_IBUFLEN]) = Buffered(h, 0, e + c + 1, b2)
    BY ONLY <1>0, <2>1, BufferedMore, ZenonT(60)
  <2> QED
    BY <1>5, <1>6, <1>7, <2>1, <2>2, <2>3
<1> QED
  BY <1>2, <1>5, <1>6, <1>8, <1>9, <1>10 DEF Follows

-----------------------------------------------------------------------------
(* What is read, entered and edited, as LineEdit sees it *)

ReadNow == IF overrun THEN <<>> ELSE readSoFar
DoneNow == IF overrun THEN <<>> ELSE Entries(Entered)
LineNow == IF overrun THEN <<>> ELSE SubSeq(Entries(Entered + in.cursor), Entered + 1, Entered + in.cursor)
Views(e, c, h, b) == Entered = e /\ in.cursor = c /\ in.head = h /\ in.buf = b

\* Until it is overrun these are parts of the ring.
LEMMA NowIs ==
  InType /\ ~overrun =>
    /\ DoneNow = Buffered(in.head, 0, Entered, in.buf) /\ LineNow = Buffered(in.head, Entered, in.cursor, in.buf)
    /\ ReadNow = readSoFar /\ DoneNow \in Seq(IChars) /\ Len(DoneNow) = Entered
    /\ LineNow \in Seq(IChars) /\ Len(LineNow) = in.cursor
<1> SUFFICES ASSUME InType, ~overrun
             PROVE  /\ DoneNow = Buffered(in.head, 0, Entered, in.buf)
                    /\ LineNow = Buffered(in.head, Entered, in.cursor, in.buf)
                    /\ ReadNow = readSoFar /\ DoneNow \in Seq(IChars) /\ Len(DoneNow) = Entered
                    /\ LineNow \in Seq(IChars) /\ Len(LineNow) = in.cursor
  OBVIOUS
<1>1. in.head \in Heads /\ Entered \in Nat /\ in.cursor \in Nat /\ in.buf \in Bufs
  BY InIs, TtyAssump
<1>2. ASSUME NEW n \in Nat PROVE Entries(n) = Buffered(in.head, 0, n, in.buf)
  <2>1. \A i \in 1..n : in.head + i - 1 = in.head + 0 + i - 1
    BY <1>1 DEF Heads
  <2> QED
    BY <2>1 DEF Entries, Buffered
<1>3. DoneNow = Buffered(in.head, 0, Entered, in.buf)
  BY <1>1, <1>2 DEF DoneNow
<1>4. LineNow = Buffered(in.head, Entered, in.cursor, in.buf)
  <2> DEFINE n == Entered + in.cursor
  <2>1. n \in Nat /\ Entered \in 0..n /\ n \in Entered..n /\ 0 + Entered = Entered /\ n - Entered = in.cursor
    BY <1>1
  <2>2. LineNow = SubSeq(Buffered(in.head, 0, n, in.buf), Entered + 1, n)
    BY <1>2, <2>1 DEF LineNow
  <2> HIDE DEF n
  <2>3. SubSeq(Buffered(in.head, 0, n, in.buf), Entered + 1, n) = Buffered(in.head, 0 + Entered, n - Entered, in.buf)
    BY <1>1, <2>1, BufferedPart, ZenonT(60)
  <2> QED
    BY <2>1, <2>2, <2>3
<1>5. 0 \in Nat /\ ReadNow = readSoFar
  BY DEF ReadNow
<1>6. Buffered(in.head, 0, Entered, in.buf) \in Seq(IChars) /\ Len(Buffered(in.head, 0, Entered, in.buf)) = Entered
  BY ONLY <1>1, <1>5, BufferedIs, ZenonT(60)
<1>7. /\ Buffered(in.head, Entered, in.cursor, in.buf) \in Seq(IChars)
      /\ Len(Buffered(in.head, Entered, in.cursor, in.buf)) = in.cursor
  BY ONLY <1>1, BufferedIs, ZenonT(60)
<1> QED
  BY <1>3, <1>4, <1>5, <1>6, <1>7

\* What every character that arrives leaves, and when the ring is overrun.
Arrives ==
  /\ imode' = imode /\ out' = out /\ left' = left /\ readSoFar' = readSoFar
  /\ overrun' = (overrun \/ in'.buf[TY_IBUFLEN] # NoChar
                  \/ Positive(in'.sem) + Cardinality(in'.go) + in'.cursor > TY_IBUFLEN)
PutSizes(t, c, n) ==
  /\ (t = NextTail \/ t = in.tail + 1) /\ t \in 0..(TY_IBUFLEN + 1) /\ c \in 0..TY_IBUFLEN /\ n \in Nat
  /\ n + c = in.cursor + 1

\* Where the character is, and whether it is the place behind the ring.
LEMMA PutPlace ==
  ASSUME InType, Intact, NEW ch \in Keys, NEW t, NEW c, NEW n, PutIn(ch, t, c, n), PutSizes(t, c, n)
  PROVE  /\ in.tail \in 0..TY_IBUFLEN /\ in'.buf[in.tail] = ch /\ (in.tail # TY_IBUFLEN => in.tail \in Heads)
         /\ (in.tail # TY_IBUFLEN => Intact' /\ t \in 0..TY_IBUFLEN) /\ (in.tail = TY_IBUFLEN => ~Intact')
         /\ Entered' + in'.cursor = Entered + in.cursor + 1 /\ Entered + in.cursor \in Nat
<1>1. in.tail \in 0..TY_IBUFLEN /\ TY_IBUFLEN \in Nat \ {0, 1} /\ in.buf \in Bufs
  BY RoomIs, InIs
<1>2. in'.buf = [in.buf EXCEPT ![in.tail] = ch] /\ in'.cursor = c /\ Entered' = Entered + n /\ n + c = in.cursor + 1
  BY DEF PutIn
<1>3. in'.buf[in.tail] = ch /\ (in.tail # TY_IBUFLEN => in'.buf[TY_IBUFLEN] = in.buf[TY_IBUFLEN])
  BY <1>1, <1>2 DEF Bufs
<1>4. ch # NoChar
  BY TtyAssump
<1>5. (in.tail # TY_IBUFLEN => Intact') /\ (in.tail = TY_IBUFLEN => ~Intact')
  BY <1>3, <1>4 DEF Intact
<1>6. in.tail # TY_IBUFLEN => in.tail \in Heads /\ t \in 0..TY_IBUFLEN
  BY <1>1 DEF Heads, PutSizes, NextTail
<1>7. Entered \in Nat /\ in.cursor \in Nat /\ n \in Nat /\ c \in Nat
  BY <1>1, InIs DEF PutSizes
<1>8. Entered' + in'.cursor = Entered + in.cursor + 1
  <2>1. Entered' + in'.cursor = (Entered + n) + c
    BY <1>2
  <2> QED
    BY <1>2, <1>7, <2>1
<1> QED
  BY <1>1, <1>3, <1>5, <1>6, <1>7, <1>8

\* The ring is overrun when the place behind it is written or more is counted than it holds.
LEMMA PutOverruns ==
  ASSUME InType, Intact, Arrives, NEW ch \in Keys, NEW t, NEW c, NEW n, PutIn(ch, t, c, n), PutSizes(t, c, n)
  PROVE  overrun' <=> overrun \/ in.tail = TY_IBUFLEN \/ Entered + in.cursor >= TY_IBUFLEN
<1>1. overrun' <=> overrun \/ ~Intact' \/ Entered' + in'.cursor > TY_IBUFLEN
  BY DEF Arrives, Intact, Entered
<1>2. /\ (in.tail # TY_IBUFLEN => Intact') /\ (in.tail = TY_IBUFLEN => ~Intact')
      /\ Entered' + in'.cursor = Entered + in.cursor + 1 /\ Entered + in.cursor \in Nat
  BY PutPlace
<1>3. Entered' + in'.cursor > TY_IBUFLEN <=> Entered + in.cursor >= TY_IBUFLEN
  BY <1>2, TtyAssump
<1> QED
  BY <1>1, <1>2, <1>3

\* A character put keeps the invariant; until the ring is overrun it follows the line.
LEMMA PutKeeps ==
  ASSUME InInv, Intact, Arrives, NEW ch \in Keys, NEW t, NEW c, NEW n, PutIn(ch, t, c, n), PutSizes(t, c, n)
  PROVE  /\ InInv'
         /\ ~overrun' => /\ ~overrun /\ Follows(in.head, Entered, in.cursor, in.buf, ch, in'.buf)
                         /\ DoneNow' = Buffered(in.head, 0, Entered + n, in'.buf)
                         /\ LineNow' = Buffered(in.head, Entered + n, c, in'.buf) /\ ReadNow' = ReadNow
<1>1. InType /\ ReadersInv /\ LineInv
  BY DEF InInv
<1>2. /\ in' \in InEntry /\ in'.head = in.head /\ in'.buf = [in.buf EXCEPT ![in.tail] = ch]
      /\ in'.tail = t /\ in'.cursor = c /\ IsFiniteSet(in'.go) /\ Waiting(in'.q, in'.go, in'.sem, left)
      /\ Entered' = Entered + n
  BY DEF PutIn
<1>3. /\ in.tail \in 0..TY_IBUFLEN /\ (in.tail # TY_IBUFLEN => in.tail \in Heads)
      /\ (in.tail # TY_IBUFLEN => Intact' /\ t \in 0..TY_IBUFLEN) /\ (in.tail = TY_IBUFLEN => ~Intact')
      /\ Entered' + in'.cursor = Entered + in.cursor + 1 /\ Entered + in.cursor \in Nat
  BY <1>1, PutPlace
<1>4. overrun' <=> overrun \/ in.tail = TY_IBUFLEN \/ Entered + in.cursor >= TY_IBUFLEN
  BY <1>1, PutOverruns
<1>5. InType'
  <2>1. Intact' => in'.tail <= TY_IBUFLEN
    BY <1>2, <1>3
  <2>2. overrun' \in BOOLEAN /\ imode' = imode /\ out' = out /\ left' = left /\ readSoFar' = readSoFar
    BY DEF Arrives
  <2> QED
    BY <1>1, <1>2, <2>1, <2>2 DEF InType
<1>6. ReadersInv'
  BY <1>2 DEF ReadersInv, Arrives
<1>7. ASSUME ~overrun'
      PROVE  /\ ~overrun /\ in.tail \in Heads /\ Intact' /\ Entered + in.cursor < TY_IBUFLEN
             /\ Meets(in.tail, in.head, Entered + in.cursor)
             /\ Meets(t, in.head, Entered + in.cursor + 1)
  <2>1. ~overrun /\ in.tail \in Heads /\ Intact' /\ Entered + in.cursor < TY_IBUFLEN
    BY <1>3, <1>4, <1>7, TtyAssump
  <2>2. Meets(in.tail, in.head, Entered + in.cursor)
    BY <1>1, <2>1 DEF LineInv
  <2>3. in.head \in Heads
    BY <1>1, InIs
  <2>4. t = in.tail + 1 \/ t = IF in.tail + 1 >= TY_IBUFLEN THEN 0 ELSE in.tail + 1
    BY DEF PutSizes, NextTail
  <2> DEFINE k == Entered + in.cursor
  <2>5. k \in 0..TY_IBUFLEN /\ k < TY_IBUFLEN /\ Meets(in.tail, in.head, k)
    BY <1>3, <2>1, <2>2, TtyAssump
  <2> HIDE DEF k
  <2>6. Meets(t, in.head, k + 1)
    BY ONLY <2>1, <2>3, <2>4, <2>5, MeetsNext
  <2> QED
    BY <2>1, <2>2, <2>6 DEF k
<1>8. LineInv'
  <2>1. ASSUME ~overrun' PROVE Entered' + in'.cursor <= TY_IBUFLEN
    BY <1>3, <1>7, <2>1, TtyAssump
  <2>2. ASSUME ~overrun' PROVE Meets(in'.tail, in'.head, Entered' + in'.cursor)
    BY <1>2, <1>3, <1>7, <2>2
  <2>3. Meets(in'.tail, in'.head, Entered' + in'.cursor) => Meets(in.tail, in.head, Entered + in.cursor)'
    BY DEF Meets
  <2> QED
    BY <1>7, <2>1, <2>2, <2>3 DEF LineInv
<1>9. ASSUME ~overrun'
      PROVE  /\ ~overrun /\ Follows(in.head, Entered, in.cursor, in.buf, ch, in'.buf)
             /\ DoneNow' = Buffered(in.head, 0, Entered + n, in'.buf)
             /\ LineNow' = Buffered(in.head, Entered + n, c, in'.buf) /\ ReadNow' = ReadNow
  <2>1. /\ in.head \in Heads /\ Entered \in Nat /\ in.cursor \in Nat /\ in.buf \in Bufs /\ ch \in IChars
    BY <1>1, InIs, TtyAssump DEF IChars
  <2>2. Stored(in.head, Entered, in.cursor, in.buf, in.tail, ch, in'.buf)
    BY <1>2, <1>7, <1>9, <2>1 DEF Stored
  <2>3. Follows(in.head, Entered, in.cursor, in.buf, ch, in'.buf)
    BY <2>2, StoredFollows
  <2>4. (InType /\ ~overrun =>
          /\ DoneNow = Buffered(in.head, 0, Entered, in.buf) /\ LineNow = Buffered(in.head, Entered, in.cursor, in.buf)
          /\ ReadNow = readSoFar)'
    BY NowIs, PTL
  <2>5. /\ DoneNow' = Buffered(in'.head, 0, Entered', in'.buf)
        /\ LineNow' = Buffered(in'.head, Entered', in'.cursor, in'.buf) /\ ReadNow' = readSoFar'
    BY <1>5, <1>9, <2>4 DEF Buffered
  <2>6. ReadNow' = ReadNow
    BY <1>7, <1>9, <2>5 DEF ReadNow, Arrives
  <2> QED
    BY <1>2, <1>7, <1>9, <2>3, <2>5, <2>6
<1> QED
  BY <1>5, <1>6, <1>8, <1>9 DEF InInv

\* Taking characters back keeps the invariant, never overruns the ring and shortens the line.
LEMMA BackKeeps ==
  ASSUME InInv, Intact, Arrives, NEW k \in 0..in.cursor, TookBack(k)
  PROVE  /\ InInv' /\ overrun' = overrun /\ ReadNow' = ReadNow /\ DoneNow' = DoneNow
         /\ ~overrun => /\ LineNow' = SubSeq(LineNow, 1, in.cursor - k) /\ Len(LineNow) = in.cursor
                        /\ LineNow \in Seq(IChars)
<1>1. InType /\ ReadersInv /\ LineInv
  BY DEF InInv
<1>2. /\ in' \in InEntry /\ in'.head = in.head /\ in'.buf = in.buf /\ in'.sem = in.sem /\ in'.q = in.q
      /\ in'.go = in.go /\ in'.tail = Back(k) /\ in'.cursor = in.cursor - k
  BY DEF TookBack
<1>3. Entered' = Entered /\ Intact'
  BY <1>2 DEF Entered, Intact
<1>4. /\ in.head \in Heads /\ Entered \in Nat /\ in.cursor \in 0..TY_IBUFLEN /\ in.buf \in Bufs
      /\ in.tail \in 0..TY_IBUFLEN /\ TY_IBUFLEN \in Nat \ {0, 1}
  BY <1>1, InIs, RoomIs
<1>5. ~overrun => Entered + in.cursor <= TY_IBUFLEN /\ Meets(in.tail, in.head, Entered + in.cursor)
  BY <1>1 DEF LineInv
<1>6. overrun' = overrun
  <2>1. overrun' <=> overrun \/ ~Intact' \/ Entered' + in'.cursor > TY_IBUFLEN
    BY DEF Arrives, Intact, Entered
  <2>2. ~overrun => ~(Entered' + in'.cursor > TY_IBUFLEN)
    <3>1. Entered' + in'.cursor = Entered + (in.cursor - k)
      BY <1>2, <1>3
    <3> QED
      BY <1>4, <1>5, <3>1
  <2>3. overrun \in BOOLEAN /\ overrun' \in BOOLEAN
    BY <1>1 DEF InType, Arrives
  <2> QED
    BY <1>3, <2>1, <2>2, <2>3
<1>7. InType'
  <2>1. Back(k) <= TY_IBUFLEN
    BY <1>4 DEF Back
  <2>2. imode' = imode /\ out' = out /\ left' = left /\ readSoFar' = readSoFar
    BY DEF Arrives
  <2> QED
    BY <1>1, <1>2, <1>6, <2>1, <2>2 DEF InType
<1>8. ReadersInv'
  BY <1>1, <1>2 DEF ReadersInv, Arrives
<1>9. LineInv'
  <2>1. ASSUME ~overrun PROVE Meets(in'.tail, in'.head, Entered' + in'.cursor)
    <3> DEFINE n == Entered + in.cursor
    <3>1. n \in 0..TY_IBUFLEN /\ k \in 0..n /\ Meets(in.tail, in.head, n) /\ n - k = Entered + (in.cursor - k)
      BY <1>4, <1>5, <2>1
    <3>2. Back(k) = IF in.tail < k THEN in.tail - k + TY_IBUFLEN ELSE in.tail - k
      BY DEF Back
    <3> HIDE DEF n
    <3>3. Meets(Back(k), in.head, n - k)
      BY ONLY <1>4, <3>1, <3>2, MeetsBack
    <3> QED
      BY <1>2, <1>3, <3>1, <3>3
  <2>2. ASSUME ~overrun PROVE Entered' + in'.cursor <= TY_IBUFLEN
    <3>1. Entered' + in'.cursor = Entered + (in.cursor - k)
      BY <1>2, <1>3
    <3> QED
      BY <1>4, <1>5, <2>2, <3>1
  <2>3. Meets(in'.tail, in'.head, Entered' + in'.cursor) => Meets(in.tail, in.head, Entered + in.cursor)'
    BY DEF Meets
  <2> QED
    BY <1>3, <1>6, <2>1, <2>2, <2>3 DEF LineInv
<1>10. ReadNow' = ReadNow
  BY <1>6 DEF ReadNow, Arrives
<1>11. DoneNow' = DoneNow
  <2>1. Entries(Entered)' = Entries(Entered)
    BY <1>2, <1>3 DEF Entries
  <2> QED
    BY <1>6, <2>1 DEF DoneNow
<1>12. ASSUME ~overrun
       PROVE  /\ LineNow' = SubSeq(LineNow, 1, in.cursor - k) /\ Len(LineNow) = in.cursor
              /\ LineNow \in Seq(IChars)
  <2>1. LineNow = Buffered(in.head, Entered, in.cursor, in.buf) /\ Len(LineNow) = in.cursor /\ LineNow \in Seq(IChars)
    BY <1>1, <1>12, NowIs
  <2>2. (InType /\ ~overrun => LineNow = Buffered(in.head, Entered, in.cursor, in.buf))'
    BY NowIs, PTL
  <2>3. LineNow' = Buffered(in'.head, Entered', in'.cursor, in'.buf)
    BY <1>6, <1>7, <1>12, <2>2 DEF Buffered
  <2> DEFINE c == in.cursor
             j == in.cursor - k
  <2>4. c \in Nat /\ j \in 0..c /\ 0 \in 0..c /\ 0 + 1 = 1 /\ Entered + 0 = Entered /\ j - 0 = j
    BY <1>4
  <2>5. LineNow' = Buffered(in.head, Entered, j, in.buf) /\ LineNow = Buffered(in.head, Entered, c, in.buf)
    BY <1>2, <1>3, <2>1, <2>3
  <2> HIDE DEF c, j
  <2>6. SubSeq(Buffered(in.head, Entered, c, in.buf), 0 + 1, j) = Buffered(in.head, Entered + 0, j - 0, in.buf)
    <3>1. /\ in.head \in Heads /\ Entered \in Nat /\ c \in Nat /\ in.buf \in Bufs
          /\ 0 \in 0..c /\ j \in 0..c
      BY <1>4, <2>4
    <3> QED
      BY ONLY <3>1, BufferedPart, ZenonT(60)
  <2> QED
    BY <2>1, <2>4, <2>5, <2>6 DEF c, j
<1> QED
  BY <1>6, <1>7, <1>8, <1>9, <1>10, <1>11, <1>12 DEF InInv

-----------------------------------------------------------------------------
(* A character that arrives, as a step of LineEdit *)

\* The actions of LineEdit, of what is now seen of the ring; nothing is seen once it is overrun.
Typed(c) == LineNow' = Append(LineNow, c) /\ DoneNow' = DoneNow
Erased == LineNow # <<>> /\ LineNow' = SubSeq(LineNow, 1, Len(LineNow) - 1) /\ DoneNow' = DoneNow
Killed == LineNow' = <<>> /\ DoneNow' = DoneNow
WasEntered(c) == DoneNow' = DoneNow \o Append(LineNow, c) /\ LineNow' = <<>>
PushedOn(c) ==
  /\ DoneNow' = SubSeq(Append(DoneNow \o LineNow, c), 1, Len(DoneNow) + 1)
  /\ LineNow' = SubSeq(Append(DoneNow \o LineNow, c), Len(DoneNow) + 2, Len(Append(DoneNow \o LineNow, c)))
SameNow == LineNow' = LineNow /\ DoneNow' = DoneNow /\ ReadNow' = ReadNow /\ overrun' = overrun
EditStep ==
  \/ SameNow
  \/ ~overrun /\ overrun' /\ LineNow' = <<>> /\ DoneNow' = <<>> /\ ReadNow' = <<>>
  \/ /\ ~overrun /\ ~overrun' /\ ReadNow' = ReadNow
     /\ \/ Killed \/ Erased \/ \E c \in Keys \ {"nl"} : Typed(c)
        \/ \E c \in {"nl", "eof"} \cap Keys : WasEntered(c)
        \/ \E c \in Keys : PushedOn(c)
  \/ ~overrun /\ ~overrun' /\ LineNow' = LineNow /\ \E k \in 1..Len(DoneNow) :
       DoneNow' = SubSeq(DoneNow, k + 1, Len(DoneNow)) /\ ReadNow' = ReadNow \o SubSeq(DoneNow, 1, k)
\* One of the causes OverrunCauses names.
OverrunWhy ==
  ~overrun /\ overrun' =>
  \/ imode = "cooked" /\ in'.buf[in.tail] = "nl"
  \/ in.tail = TY_IBUFLEN \/ in.go # {} \/ (imode # "cooked" /\ in.cursor > 0)
Stands == InInv' /\ EditStep /\ OverrunWhy

\* Nothing is seen of an overrun ring.
LEMMA OverrunNow ==
  ASSUME InType, overrun \in BOOLEAN, overrun' \in BOOLEAN, overrun => overrun'
  PROVE  (overrun \/ overrun') => EditStep
<1>1. overrun' => LineNow' = <<>> /\ DoneNow' = <<>> /\ ReadNow' = <<>>
  BY DEF LineNow, DoneNow, ReadNow
<1>2. overrun => LineNow = <<>> /\ DoneNow = <<>> /\ ReadNow = <<>>
  BY DEF LineNow, DoneNow, ReadNow
<1> HIDE DEF LineNow, DoneNow, ReadNow
<1>3. CASE overrun
  BY <1>1, <1>2, <1>3 DEF EditStep, SameNow
<1>4. CASE ~overrun
  BY <1>1, <1>4 DEF EditStep
<1> QED
  BY <1>3, <1>4

\* Characters taken back are an Erase, a Kill or nothing.
LEMMA EditsStep ==
  ASSUME InInv, Intact, Arrives, Edits
  PROVE  Stands
<1>1. PICK k \in 0..in.cursor : (k = 0 \/ k = 1 \/ k = in.cursor) /\ TookBack(k)
  BY DEF Edits
<1>2. /\ InInv' /\ overrun' = overrun /\ ReadNow' = ReadNow /\ DoneNow' = DoneNow
      /\ ~overrun => /\ LineNow' = SubSeq(LineNow, 1, in.cursor - k) /\ Len(LineNow) = in.cursor
                     /\ LineNow \in Seq(IChars)
  BY <1>1, BackKeeps
<1>3. InType /\ overrun \in BOOLEAN /\ in.cursor \in Nat
  BY InIs, TtyAssump DEF InInv, InType
<1>4. ASSUME overrun PROVE EditStep
  <2>1. overrun' \in BOOLEAN /\ (overrun => overrun')
    BY <1>2, <1>3
  <2> QED
    BY <1>3, <1>4, <2>1, OverrunNow
<1>5. ASSUME ~overrun PROVE EditStep
  <2> DEFINE c == in.cursor
             l == LineNow
             q == LineNow'
  <2>1. c \in Nat /\ l \in Seq(IChars) /\ Len(l) = c /\ q = SubSeq(l, 1, c - k) /\ k \in 0..c
    BY <1>2, <1>3, <1>5
  <2>2. q \in Seq(IChars) /\ Len(q) = c - k /\ \A i \in 1..(c - k) : q[i] = l[i]
    <3> HIDE DEF c, l, q
    <3>1. c - k \in 0..c
      BY <2>1
    <3> QED
      BY <2>1, <3>1, SuffixIs
  <2>3. CASE k = 0
    <3>1. q = l
      <4> HIDE DEF c, l, q
      <4>1. c - k = c
        BY <2>1, <2>3
      <4> QED
        BY <2>1, <2>2, <4>1, SameSeq
    <3> QED
      BY <1>2, <3>1, ZenonT(60) DEF EditStep, SameNow
  <2>4. CASE k = 1
    <3>1. l # <<>>
      BY <2>1, <2>4
    <3>2. Erased
      BY <1>2, <1>5, <2>1, <2>4, <3>1 DEF Erased
    <3>3. ~overrun'
      BY <1>2, <1>5
    <3> QED
      BY <1>2, <1>5, <3>2, <3>3, ZenonT(60) DEF EditStep
  <2>5. CASE k = c
    <3>1. q = <<>>
      <4> HIDE DEF c, l, q
      <4>1. Len(q) = 0
        BY <2>1, <2>2, <2>5
      <4> QED
        BY <2>2, <4>1, EmptySeq
    <3>2. Killed
      BY <1>2, <3>1 DEF Killed
    <3>3. ~overrun'
      BY <1>2, <1>5
    <3> QED
      BY <1>2, <1>5, <3>2, <3>3, ZenonT(60) DEF EditStep
  <2> QED
    BY <1>1, <2>3, <2>4, <2>5
<1>6. EditStep
  BY <1>4, <1>5
<1>7. OverrunWhy
  BY <1>2 DEF OverrunWhy
<1> QED
  BY <1>2, <1>6, <1>7 DEF Stands

\* What is put is entered, the line with it or its beginning, or becomes part of the line.
LEMMA PutEdits ==
  ASSUME InInv, Intact, Arrives, NEW ch \in Keys, NEW t, NEW c, NEW n, PutIn(ch, t, c, n), PutSizes(t, c, n),
         \/ n = 1
         \/ n = in.cursor + 1 /\ ch \in {"nl", "eof"}
         \/ n = 0 /\ ch # "nl"
  PROVE  InInv' /\ EditStep
<1>1. InInv' /\ InType /\ overrun \in BOOLEAN /\ overrun' \in BOOLEAN /\ (overrun => overrun')
  BY PutKeeps DEF InInv, InType, Arrives
<1>2. CASE overrun'
  BY <1>1, <1>2, OverrunNow
<1>3. CASE ~overrun'
  <2> DEFINE h == in.head
             e == Entered
             k == in.cursor
             b == in.buf
             d == in'.buf
             D == DoneNow
             L == LineNow
             A == Append(D \o L, ch)
  <2>1. /\ ~overrun /\ Follows(h, e, k, b, ch, d) /\ ReadNow' = ReadNow
        /\ DoneNow' = Buffered(h, 0, e + n, d) /\ LineNow' = Buffered(h, e + n, c, d)
    BY <1>3, PutKeeps
  <2>2. D = Buffered(h, 0, e, b) /\ L = Buffered(h, e, k, b) /\ D \in Seq(IChars) /\ Len(D) = e /\ L \in Seq(IChars)
        /\ Len(L) = k
    BY <1>1, <2>1, NowIs
  <2>3. h \in Heads /\ e \in Nat /\ k \in Nat /\ c \in Nat /\ n \in Nat /\ n + c = k + 1
    BY <1>1, InIs, TtyAssump DEF PutSizes
  <2>4. /\ d \in Bufs /\ Buffered(h, 0, e, d) = D /\ Buffered(h, e, k + 1, d) = Append(L, ch)
        /\ Buffered(h, 0, e + k + 1, d) = D \o Append(L, ch) /\ Buffered(h, 0, e + k + 1, d) = A
    BY <2>1, <2>2 DEF Follows
  <2> HIDE DEF h, e, k, b, d, D, L, A
  <2>5. CASE n = 1
    <3> DEFINE m == e + k + 1
               j == e + 1
    <3>1. m \in Nat /\ 0 \in 0..m /\ j \in 0..m /\ m \in j..m /\ c = k /\ e + n = j /\ m - j = k /\ 0 \in Nat
          /\ 0 + 1 = 1 /\ j + 1 = e + 2 /\ j - 0 = j /\ 0 + 0 = 0 /\ 0 + j = j
      BY <2>3, <2>5
    <3>2. Buffered(h, 0, m, d) = A
      BY <2>4
    <3>0. h \in Heads /\ d \in Bufs
      BY <2>3, <2>4
    <3>8. m \in Nat /\ 0 \in 0..m /\ j \in 0..m /\ m \in j..m /\ 0 \in Nat
      BY <3>1
    <3> HIDE DEF m, j
    <3>3. SubSeq(Buffered(h, 0, m, d), 0 + 1, j) = Buffered(h, 0 + 0, j - 0, d)
      BY ONLY <3>0, <3>8, BufferedPart, ZenonT(60)
    <3>4. SubSeq(Buffered(h, 0, m, d), j + 1, m) = Buffered(h, 0 + j, m - j, d)
      BY ONLY <3>0, <3>8, BufferedPart, ZenonT(60)
    <3>5. Len(Buffered(h, 0, m, d)) = m
      BY ONLY <3>0, <3>8, BufferedIs, ZenonT(60)
    <3>6. DoneNow' = SubSeq(A, 1, j) /\ LineNow' = SubSeq(A, e + 2, m) /\ Len(A) = m
      BY <2>1, <3>1, <3>2, <3>3, <3>4, <3>5
    <3>7. PushedOn(ch)
      BY <2>2, <3>6 DEF PushedOn, A, D, L, j
    <3> QED
      BY <1>1, <1>3, <2>1, <3>7, ZenonT(60) DEF EditStep
  <2>6. CASE n = k + 1 /\ ch \in {"nl", "eof"}
    <3>1. c = 0 /\ e + n = e + k + 1
      BY <2>3, <2>6
    <3>2. LineNow' = <<>>
      BY <2>1, <3>1 DEF Buffered
    <3>3. DoneNow' = D \o Append(L, ch)
      BY <2>1, <2>4, <3>1
    <3>4. WasEntered(ch)
      BY <3>2, <3>3 DEF WasEntered, D, L
    <3> QED
      BY <1>1, <1>3, <2>1, <2>6, <3>4, ZenonT(60) DEF EditStep
  <2>7. CASE n = 0 /\ ch # "nl"
    <3>1. c = k + 1 /\ e + n = e
      BY <2>3, <2>7
    <3>2. LineNow' = Append(L, ch) /\ DoneNow' = D
      BY <2>1, <2>4, <3>1
    <3>3. Typed(ch)
      BY <3>2 DEF Typed, D, L
    <3> QED
      BY <1>1, <1>3, <2>1, <2>7, <3>3, ZenonT(60) DEF EditStep
  <2> QED
    BY <2>5, <2>6, <2>7 DEF k
<1> QED
  BY <1>1, <1>2, <1>3

\* ttyhandle_in is a step of LineEdit and overruns the ring only as OverrunCauses says.
LEMMA ArrivesStep ==
  ASSUME InInv, NEW ch \in Keys, TtyhandleIn(ch)
  PROVE  Stands
<1>1. InType /\ ReadersInv
  BY DEF InInv
<1>2. Intact /\ Arrives /\ (PutUnedited(ch) \/ PutNewline(ch) \/ PutEof(ch) \/ PutLetter(ch) \/ Edits)
  BY <1>1, HandleInIs DEF Arrives
<1>3. /\ in.tail \in 0..TY_IBUFLEN /\ NextTail \in 0..(TY_IBUFLEN + 1) /\ in.tail + 1 \in 0..(TY_IBUFLEN + 1)
      /\ in.cursor \in 0..TY_IBUFLEN /\ 0 \in 0..TY_IBUFLEN /\ TY_IBUFLEN \in Nat \ {0, 1}
      /\ Avail \in Nat /\ in.cursor + 1 \in Nat
      /\ (~Full => in.cursor + 1 \in 0..TY_IBUFLEN /\ Avail + in.cursor < TY_IBUFLEN - 1)
  BY <1>1, <1>2, RoomIs
<1>4. /\ 1 + in.cursor = in.cursor + 1 /\ (in.cursor + 1) + 0 = in.cursor + 1 /\ 0 + (in.cursor + 1) = in.cursor + 1
      /\ 1 \in Nat /\ 0 \in Nat
  BY <1>3
<1>5. in.go = {} => Entered = Avail
  BY <1>1, <1>3, InIs, FS_EmptySet
<1>6. CASE PutUnedited(ch)
  <2>1. imode # "cooked" /\ Avail < TY_IBUFLEN /\ PutIn(ch, NextTail, in.cursor, 1)
    BY <1>6 DEF PutUnedited
  <2>2. PutSizes(NextTail, in.cursor, 1)
    BY <1>3, <1>4 DEF PutSizes
  <2>3. InInv' /\ EditStep
    BY <1>2, <2>1, <2>2, PutEdits
  <2>4. overrun' <=> overrun \/ in.tail = TY_IBUFLEN \/ Entered + in.cursor >= TY_IBUFLEN
    BY <1>1, <1>2, <2>1, <2>2, PutOverruns
  <2>5. OverrunWhy
    <3>1. in.go = {} /\ ~(in.cursor > 0) => ~(Entered + in.cursor >= TY_IBUFLEN)
      BY <1>3, <1>5, <2>1
    <3> QED
      BY <2>1, <2>4, <3>1 DEF OverrunWhy
  <2> QED
    BY <2>3, <2>5 DEF Stands
<1>7. CASE PutNewline(ch)
  <2>1. imode = "cooked" /\ ch = "nl" /\ PutIn(ch, NextTail, 0, in.cursor + 1)
    BY <1>7 DEF PutNewline
  <2>2. PutSizes(NextTail, 0, in.cursor + 1)
    BY <1>3, <1>4 DEF PutSizes
  <2>3. InInv' /\ EditStep
    BY <1>2, <2>1, <2>2, PutEdits
  <2>4. in'.buf[in.tail] = ch
    BY <1>1, <1>2, <2>1, <2>2, PutPlace
  <2> QED
    BY <2>1, <2>3, <2>4 DEF Stands, OverrunWhy
<1>8. ASSUME ~Full, NEW t, NEW c, NEW n, PutIn(ch, t, c, n), PutSizes(t, c, n) PROVE OverrunWhy
  <2>1. overrun' <=> overrun \/ in.tail = TY_IBUFLEN \/ Entered + in.cursor >= TY_IBUFLEN
    BY <1>1, <1>2, <1>8, PutOverruns
  <2>2. in.go = {} => ~(Entered + in.cursor >= TY_IBUFLEN)
    BY <1>3, <1>5, <1>8
  <2> QED
    BY <2>1, <2>2 DEF OverrunWhy
<1>9. CASE PutEof(ch)
  <2>1. imode = "cooked" /\ ch = "eof" /\ in.cursor = 0 /\ ~Full /\ PutIn(ch, in.tail + 1, 0, 1)
    BY <1>9 DEF PutEof
  <2>2. PutSizes(in.tail + 1, 0, 1)
    BY <1>3, <1>4, <2>1 DEF PutSizes
  <2>3. 1 = in.cursor + 1
    BY <2>1
  <2>4. InInv' /\ EditStep
    BY <1>2, <2>1, <2>2, <2>3, PutEdits
  <2> QED
    BY <1>8, <2>1, <2>2, <2>4 DEF Stands
<1>10. CASE PutLetter(ch)
  <2>1. imode = "cooked" /\ ch # "nl" /\ ~Full /\ PutIn(ch, NextTail, in.cursor + 1, 0)
    BY <1>10 DEF PutLetter
  <2>2. PutSizes(NextTail, in.cursor + 1, 0)
    BY <1>3, <1>4, <2>1 DEF PutSizes
  <2>3. InInv' /\ EditStep
    BY <1>2, <2>1, <2>2, PutEdits
  <2> QED
    BY <1>8, <2>1, <2>2, <2>3 DEF Stands
<1>11. CASE Edits
  BY <1>2, <1>11, EditsStep
<1> QED
  BY <1>2, <1>6, <1>7, <1>9, <1>10, <1>11

-----------------------------------------------------------------------------
(* A reader takes characters *)

\* r takes m, its own grant among them, and waits for more or does not; z is what it still wants.
Took(r, own, m, more, z) ==
  /\ in' \in InEntry /\ in'.buf = in.buf /\ in'.tail = in.tail /\ in'.cursor = in.cursor
  /\ in'.head = (in.head + m) % TY_IBUFLEN /\ in'.head \in Heads /\ in'.go = in.go \ {r}
  /\ in'.sem = in.sem - (m - own) - (IF more THEN 1 ELSE 0) /\ in'.q = (IF more THEN Append(in.q, r) ELSE in.q)
  /\ left' = [left EXCEPT ![r] = z] /\ readSoFar' = readSoFar \o SubSeq(Entries(own + Avail), 1, m)
  /\ imode' = imode /\ out' = out /\ overrun' = overrun
TookSizes(own, m, more, z) ==
  /\ m \in Nat /\ m <= own + Avail /\ (more => m = own + Avail /\ z > 0) /\ (~more => m > 0)
  /\ z \in Nat /\ more \in BOOLEAN

\* What ttyread does before it returns or waits again: the shortest prefix that ends the call, or all.
LEMMA ReadsIs ==
  ASSUME InType, NEW r \in Readers, NEW own \in {0, 1}, NEW wants \in Nat, wants > 0, Reads(r, own, wants)
  PROVE  \E m \in Nat, more \in BOOLEAN, z \in Nat : Took(r, own, m, more, z) /\ TookSizes(own, m, more, z)
<1> DEFINE n == own + Avail
           ends == {i \in 1..n : \/ i = wants
                                 \/ imode = "cooked" /\ Entries(n)[i] = "nl"
                                 \/ imode = "cooked" /\ i = 1 /\ Entries(n)[1] = "eof"}
           m == IF ends = {} THEN n ELSE Least(ends)
           more == ends = {}
           z == IF ends = {} THEN wants - m ELSE 0
<1>1. /\ in.buf \in Bufs /\ in.head \in Heads /\ in.tail \in 0..(TY_IBUFLEN + 1) /\ in.sem \in Int
      /\ in.cursor \in 0..TY_IBUFLEN /\ in.q \in Seq(Readers) /\ in.go \in SUBSET Readers /\ Avail \in Nat
  BY InIs
<1>2. in \in InEntry /\ own \in Nat /\ n \in Nat
  BY <1>1 DEF InType
<1>3. /\ readSoFar' = readSoFar \o SubSeq(Entries(n), 1, m)
      /\ in' = [in EXCEPT !.head = (@ + m) % TY_IBUFLEN, !.go = @ \ {r},
                          !.sem = @ - (m - own) - (IF more THEN 1 ELSE 0),
                          !.q = IF more THEN Append(@, r) ELSE @]
      /\ left' = [left EXCEPT ![r] = z]
      /\ imode' = imode /\ out' = out /\ overrun' = overrun
  BY DEF Reads, Avail
<1>4. ends \in SUBSET (1..n) /\ (wants \in 1..n => wants \in ends)
  OBVIOUS
<1>5. ends = {} => m = n /\ z = wants - n
  OBVIOUS
<1>6. ends # {} => m \in ends /\ z = 0
  <2>1. ASSUME ends # {} PROVE m \in ends
    <3>1. m = CHOOSE x \in ends : \A y \in ends : x <= y
      BY <2>1 DEF Least
    <3> HIDE DEF ends, m, n
    <3>2. ends \in SUBSET Nat
      BY <1>2, <1>4
    <3>3. \E x \in ends : \A y \in ends : x <= y
      BY <2>1, <3>2, LeastNat
    <3> QED
      BY <3>1, <3>3
  <2> QED
    BY <2>1
<1>7. more <=> ends = {}
  OBVIOUS
<1> HIDE DEF ends, m, z
<1>8. more \in BOOLEAN
  BY DEF more
<1> HIDE DEF n, more
<1>9. m \in Nat /\ m <= n /\ (more => m = n /\ z > 0) /\ (~more => m > 0) /\ z \in Nat
  <2>1. CASE ends = {}
    <3>1. wants \notin 1..n
      BY <1>4, <2>1
    <3>2. m = n /\ z = wants - n /\ wants > n
      BY <1>2, <1>5, <2>1, <3>1
    <3> QED
      BY <1>2, <1>7, <2>1, <3>2
  <2>2. CASE ends # {}
    <3>1. m \in 1..n /\ z = 0
      BY <1>4, <1>6, <2>2
    <3> QED
      BY <1>2, <1>7, <2>2, <3>1
  <2> QED
    BY <2>1, <2>2
<1> DEFINE h == (in.head + m) % TY_IBUFLEN
           s == in.sem - (m - own) - (IF more THEN 1 ELSE 0)
           q == IF more THEN Append(in.q, r) ELSE in.q
<1>10. h \in Heads
  <2> DEFINE x == in.head + m
  <2>1. x \in Int /\ TY_IBUFLEN \in Nat \ {0}
    BY <1>1, <1>9, TtyAssump DEF Heads
  <2> HIDE DEF x
  <2>2. x % TY_IBUFLEN \in Heads
    BY <2>1 DEF Heads
  <2> QED
    BY <2>2 DEF x
<1>11. s \in Int
  BY <1>1, <1>2, <1>9
<1>12. q \in Seq(Readers)
  BY <1>1, AppendProperties
<1>13. in' = [in EXCEPT !.head = h, !.go = in.go \ {r}, !.sem = s, !.q = q]
  BY <1>3
<1> HIDE DEF h, s, q
<1>14. /\ in' \in InEntry /\ in'.buf = in.buf /\ in'.tail = in.tail /\ in'.cursor = in.cursor
       /\ in'.head = h /\ in'.go = in.go \ {r} /\ in'.sem = s /\ in'.q = q
  BY <1>1, <1>2, <1>10, <1>11, <1>12, <1>13 DEF InEntry
<1>15. Took(r, own, m, more, z)
  BY <1>3, <1>10, <1>14 DEF Took, h, s, q, n
<1>16. TookSizes(own, m, more, z)
  BY <1>8, <1>9 DEF TookSizes, n
<1> QED
  BY <1>8, <1>9, <1>15, <1>16

\* It keeps the invariant; what is entered becomes shorter by what is taken.
LEMMA TookKeeps ==
  ASSUME InInv, Intact, NEW r \in Readers, NEW own \in {0, 1}, own = 1 <=> r \in in.go, own = 0 => left[r] = 0,
         NEW m \in Nat, NEW more \in BOOLEAN, NEW z \in Nat, Took(r, own, m, more, z), TookSizes(own, m, more, z)
  PROVE  /\ InInv' /\ Entered' = Entered - m /\ m <= Entered
         /\ ~overrun => /\ in.head \in Heads /\ Meets(in.tail, in.head, Entered + in.cursor)
                        /\ Entered + in.cursor <= TY_IBUFLEN /\ in.tail \in 0..TY_IBUFLEN
<1>1. InType /\ ReadersInv /\ LineInv
  BY DEF InInv
<1>2. /\ in' \in InEntry /\ in'.buf = in.buf /\ in'.tail = in.tail /\ in'.cursor = in.cursor
      /\ in'.head = (in.head + m) % TY_IBUFLEN /\ in'.head \in Heads /\ in'.go = in.go \ {r}
      /\ in'.sem = in.sem - (m - own) - (IF more THEN 1 ELSE 0) /\ in'.q = (IF more THEN Append(in.q, r) ELSE in.q)
      /\ left' = [left EXCEPT ![r] = z] /\ readSoFar' = readSoFar \o SubSeq(Entries(own + Avail), 1, m)
      /\ imode' = imode /\ out' = out /\ overrun' = overrun
  BY DEF Took
<1>3. m <= own + Avail /\ (more => m = own + Avail /\ z > 0) /\ (~more => m > 0)
  BY DEF TookSizes
<1>4. /\ in.buf \in Bufs /\ in.head \in Heads /\ in.sem \in Int /\ in.q \in Seq(Readers) /\ in.go \in SUBSET Readers
      /\ IsFiniteSet(in.go) /\ Cardinality(in.go) \in Nat /\ Avail \in Nat /\ Entered \in Nat
      /\ Entered = Avail + Cardinality(in.go) /\ in.cursor \in 0..TY_IBUFLEN
  BY <1>1, InIs
<1>5. left \in [Readers \cup Writers -> Nat] /\ Intact /\ in.tail \in 0..TY_IBUFLEN
  BY <1>1, RoomIs DEF InType
<1>6. left' \in [Readers \cup Writers -> Nat] /\ left'[r] = z /\ \A p \in Readers : p # r => left'[p] = left[p]
  BY <1>2, <1>5
<1>7. /\ Waiting(in'.q, in.go \ {r}, in'.sem, left') /\ Positive(in'.sem) = Positive(in.sem) - (m - own)
  <2> DEFINE q == in.q
             g == in.go
             s == in.sem
             l == left
             q2 == in'.q
             s2 == in'.sem
             l2 == left'
  <2>1. q \in Seq(Readers) /\ g \in SUBSET Readers /\ s \in Int /\ Waiting(q, g, s, l)
    BY <1>1, <1>4 DEF ReadersInv
  <2>2. (own = 1 <=> r \in g) /\ (own = 0 => l[r] = 0) /\ own \in {0, 1}
    OBVIOUS
  <2>3. m <= own + Positive(s) /\ (more => m = own + Positive(s)) /\ (~more => m > 0) /\ m \in Nat
    BY <1>3 DEF Avail
  <2>4. q2 = (IF more THEN Append(q, r) ELSE q) /\ s2 = s - (m - own) - (IF more THEN 1 ELSE 0)
    BY <1>2
  <2>5. (more => l2[r] > 0) /\ \A p \in Readers : p # r => l2[p] = l[p]
    BY <1>3, <1>6
  <2>0. r \in Readers /\ more \in BOOLEAN
    OBVIOUS
  <2> HIDE DEF q, g, s, l, q2, s2, l2
  <2>6. Waiting(q2, g \ {r}, s2, l2) /\ Positive(s2) = Positive(s) - (m - own)
    <3>1. Takes(Readers, q, g, s, l, r, own, m, more, q2, s2, l2)
      BY ONLY <2>0, <2>1, <2>2, <2>3, <2>4, <2>5 DEF Takes
    <3>2. StillTakes(Readers, g, s, r, own, m, q2, s2, l2)
      BY ONLY <3>1, WaitingTakes
    <3> QED
      BY ONLY <3>2 DEF StillTakes
  <2> QED
    BY <2>6 DEF q, g, s, l, q2, s2, l2
<1>8. Entered' = Entered - m /\ m <= Entered /\ IsFiniteSet(in'.go)
  <2> DEFINE c == Cardinality(in.go)
             d == Cardinality(in.go \ {r})
             a == Positive(in.sem)
             b == Positive(in'.sem)
  <2>1. IsFiniteSet(in.go \ {r}) /\ d = IF r \in in.go THEN c - 1 ELSE c
    BY <1>4, FS_RemoveElement
  <2>2. d \in Nat
    BY <2>1, FS_CardinalityType
  <2>3. d = c - own
    <3> HIDE DEF c, d
    <3> QED
      BY <1>4, <2>1 DEF c
  <2>4. Entered = a + c /\ Entered' = b + d /\ b = a - (m - own) /\ a \in Nat /\ c \in Nat /\ m <= own + a
    BY <1>2, <1>3, <1>4, <1>7 DEF Entered, Avail
  <2> HIDE DEF a, b, c, d
  <2>5. Entered' = Entered - m /\ m <= Entered
    BY <2>2, <2>3, <2>4
  <2> QED
    BY <1>2, <2>1, <2>5
<1>9. InType'
  <2>1. readSoFar' \in Seq(IChars)
    <3> DEFINE n == own + Avail
               t == Entries(n)
    <3>1. n \in Nat /\ m \in 0..n /\ 0 \in Nat
      BY <1>3, <1>4
    <3>2. t = Buffered(in.head, 0, n, in.buf)
      <4>1. \A i \in 1..n : in.head + i - 1 = in.head + 0 + i - 1
        BY <1>4, <3>1 DEF Heads
      <4> QED
        BY <4>1 DEF Entries, Buffered
    <3> HIDE DEF n, t
    <3>3. t \in Seq(IChars) /\ Len(t) = n
      BY <1>4, <3>1, <3>2, BufferedIs
    <3>4. SubSeq(t, 1, m) \in Seq(IChars)
      BY <3>1, <3>3, SuffixIs
    <3>5. readSoFar \in Seq(IChars) /\ readSoFar' = readSoFar \o SubSeq(t, 1, m)
      BY <1>1, <1>2 DEF InType, n, t
    <3> QED
      BY <3>4, <3>5, ConcatProperties
  <2>2. Intact' => in'.tail <= TY_IBUFLEN
    BY <1>2, <1>5
  <2> QED
    BY <1>1, <1>2, <1>6, <1>8, <2>1, <2>2 DEF InType
<1>10. ReadersInv'
  BY <1>2, <1>7 DEF ReadersInv
<1>11. ASSUME ~overrun
       PROVE  /\ in.head \in Heads /\ Meets(in.tail, in.head, Entered + in.cursor)
              /\ Entered + in.cursor <= TY_IBUFLEN /\ in.tail \in 0..TY_IBUFLEN
  BY <1>1, <1>4, <1>5, <1>11 DEF LineInv
<1>12. LineInv'
  <2>1. ASSUME ~overrun PROVE Meets(in'.tail, in'.head, Entered' + in'.cursor) /\ Entered' + in'.cursor <= TY_IBUFLEN
    <3> DEFINE n == Entered + in.cursor
    <3>1. n \in 0..TY_IBUFLEN /\ m \in 0..n /\ Meets(in.tail, in.head, n) /\ n - m = Entered' + in'.cursor
      <4> DEFINE e == Entered
                 c == in.cursor
                 f == Entered'
      <4>1. e \in Nat /\ c \in Nat /\ f = e - m /\ m <= e /\ e + c <= TY_IBUFLEN /\ TY_IBUFLEN \in Nat
            /\ in'.cursor = c /\ Meets(in.tail, in.head, e + c)
        BY <1>2, <1>4, <1>8, <1>11, <2>1, TtyAssump
      <4> HIDE DEF e, c, f
      <4>2. e + c \in 0..TY_IBUFLEN /\ m \in 0..(e + c) /\ (e + c) - m = f + c
        BY <4>1
      <4> QED
        BY <4>1, <4>2 DEF e, c, f
    <3> HIDE DEF n
    <3>2. Meets(in.tail, in'.head, n - m)
      BY <1>2, <1>4, <1>5, <3>1, MeetsRead
    <3> QED
      BY <1>2, <3>1, <3>2, TtyAssump
  <2>2. Meets(in'.tail, in'.head, Entered' + in'.cursor) => Meets(in.tail, in.head, Entered + in.cursor)'
    BY DEF Meets
  <2>3. Intact'
    BY <1>2, <1>5 DEF Intact
  <2> QED
    BY <1>2, <2>1, <2>2, <2>3 DEF LineInv
<1> QED
  BY <1>8, <1>9, <1>10, <1>11, <1>12 DEF InInv

\* What is taken is read, in order, or nothing is; the line stays.
LEMMA TookStep ==
  ASSUME InInv, Intact, NEW r \in Readers, NEW own \in {0, 1}, own = 1 <=> r \in in.go, own = 0 => left[r] = 0,
         NEW m \in Nat, NEW more \in BOOLEAN, NEW z \in Nat, Took(r, own, m, more, z), TookSizes(own, m, more, z)
  PROVE  Stands
<1>1. /\ InInv' /\ Entered' = Entered - m /\ m <= Entered
      /\ ~overrun => /\ in.head \in Heads /\ Meets(in.tail, in.head, Entered + in.cursor)
                     /\ Entered + in.cursor <= TY_IBUFLEN /\ in.tail \in 0..TY_IBUFLEN
  BY TookKeeps
<1>2. InType /\ InType' /\ overrun \in BOOLEAN /\ overrun' \in BOOLEAN
  BY <1>1 DEF InInv, InType
<1>3. /\ in'.buf = in.buf /\ in'.cursor = in.cursor /\ in'.head = (in.head + m) % TY_IBUFLEN
      /\ readSoFar' = readSoFar \o SubSeq(Entries(own + Avail), 1, m) /\ overrun' = overrun
  BY DEF Took
<1>4. /\ in.buf \in Bufs /\ in.head \in Heads /\ Avail \in Nat /\ Entered \in Nat /\ in.cursor \in 0..TY_IBUFLEN
      /\ readSoFar \in Seq(IChars)
  BY <1>2, InIs DEF InType
<1>5. OverrunWhy
  BY <1>3 DEF OverrunWhy
<1>6. ASSUME overrun PROVE EditStep
  <2>1. overrun => overrun'
    BY <1>3
  <2> QED
    BY <1>2, <1>6, <2>1, OverrunNow
<1>7. ASSUME ~overrun PROVE EditStep
  <2> DEFINE h == in.head
             e == Entered
             c == in.cursor
             b == in.buf
             g == in'.head
             D == DoneNow
             L == LineNow
             a == own + Avail
  <2>1. /\ D = Buffered(h, 0, e, b) /\ L = Buffered(h, e, c, b) /\ ReadNow = readSoFar /\ D \in Seq(IChars) /\ Len(D) = e
    BY <1>2, <1>7, NowIs
  <2>2. (InType /\ ~overrun =>
          /\ DoneNow = Buffered(in.head, 0, Entered, in.buf) /\ LineNow = Buffered(in.head, Entered, in.cursor, in.buf)
          /\ ReadNow = readSoFar)'
    BY NowIs, PTL
  <2>3. DoneNow' = Buffered(g, 0, e - m, b) /\ LineNow' = Buffered(g, e - m, c, b) /\ ReadNow' = readSoFar'
    BY <1>1, <1>2, <1>3, <1>7, <2>2 DEF Buffered
  <2>4. /\ h \in Heads /\ b \in Bufs /\ e \in Nat /\ c \in Nat /\ m \in 0..e /\ a \in Nat /\ m <= a /\ 0 \in Nat
        /\ g = (h + m) % TY_IBUFLEN
    BY <1>1, <1>3, <1>4, TtyAssump DEF TookSizes
  <2> DEFINE n == e + c
  <2>5. n \in 0..TY_IBUFLEN /\ m \in 0..n /\ Meets(in.tail, h, n) /\ in.tail \in 0..TY_IBUFLEN
    BY <1>1, <1>4, <1>7, <2>4, TtyAssump
  <2> HIDE DEF n
  <2>6. \A i \in 1..(n - m) : (g + i - 1) % TY_IBUFLEN = (h + m + i - 1) % TY_IBUFLEN
    BY <2>4, <2>5, MeetsRead
  <2>7. readSoFar' = readSoFar \o SubSeq(Entries(a), 1, m) /\ g \in Int
    BY <1>3, <2>4, TtyAssump DEF Heads
  <2>8. Entries(a) = Buffered(h, 0, a, b)
    <3>1. \A i \in 1..a : in.head + i - 1 = in.head + 0 + i - 1
      BY <1>4, <2>4 DEF Heads
    <3> QED
      BY <3>1 DEF Entries, Buffered
  <2> HIDE DEF h, e, c, b, g, D, L, a
  <2>9. DoneNow' = SubSeq(D, m + 1, e)
    <3>1. Buffered(g, 0, e - m, b) = Buffered(h, m, e - m, b)
      <4>1. ASSUME NEW i \in 1..(e - m) PROVE b[(g + 0 + i - 1) % TY_IBUFLEN] = b[(h + m + i - 1) % TY_IBUFLEN]
        <5>1. i \in 1..(n - m) /\ g + 0 + i - 1 = g + i - 1
          BY <2>4, <2>5, <2>7 DEF n
        <5> QED
          BY <2>6, <5>1
      <4> QED
        BY ONLY <4>1, BufferedSame
    <3>2. e \in m..e /\ 0 + m = m /\ 0 \in Nat
      BY <2>4
    <3>3. SubSeq(Buffered(h, 0, e, b), m + 1, e) = Buffered(h, 0 + m, e - m, b)
      BY ONLY <2>4, <3>2, BufferedPart, ZenonT(60)
    <3> QED
      BY <2>1, <2>3, <3>1, <3>2, <3>3
  <2>10. LineNow' = L
    <3>1. ASSUME NEW i \in 1..c PROVE b[(g + (e - m) + i - 1) % TY_IBUFLEN] = b[(h + e + i - 1) % TY_IBUFLEN]
      <4> DEFINE j == e - m + i
      <4>1. j \in 1..(n - m) /\ g + (e - m) + i - 1 = g + j - 1 /\ h + m + j - 1 = h + e + i - 1
        BY <2>4, <2>5, <2>7 DEF n, Heads
      <4> HIDE DEF j
      <4> QED
        BY <2>6, <4>1
    <3>2. Buffered(g, e - m, c, b) = Buffered(h, e, c, b)
      BY ONLY <3>1, BufferedSame
    <3> QED
      BY <2>1, <2>3, <3>2
  <2>11. SubSeq(Entries(a), 1, m) = SubSeq(D, 1, m)
    <3>1. /\ 0 \in 0..a /\ m \in 0..a /\ 0 \in 0..e /\ m \in 0..e /\ 0 + 1 = 1
      BY <2>4
    <3>4. h \in Heads /\ b \in Bufs /\ a \in Nat /\ e \in Nat /\ 0 \in Nat
      BY <2>4
    <3>5. 0 \in 0..a /\ m \in 0..a
      BY <3>1
    <3>6. 0 \in 0..e /\ m \in 0..e
      BY <3>1
    <3>2. SubSeq(Buffered(h, 0, a, b), 0 + 1, m) = Buffered(h, 0 + 0, m - 0, b)
      BY ONLY <3>4, <3>5, BufferedPart, ZenonT(60)
    <3>3. SubSeq(Buffered(h, 0, e, b), 0 + 1, m) = Buffered(h, 0 + 0, m - 0, b)
      BY ONLY <3>4, <3>6, BufferedPart, ZenonT(60)
    <3> QED
      BY <2>1, <2>8, <3>1, <3>2, <3>3
  <2>12. ReadNow' = ReadNow \o SubSeq(D, 1, m)
    BY <2>1, <2>3, <2>7, <2>11
  <2>13. CASE m = 0
    <3>1. SubSeq(D, 1, e) = D
      <4>1. e \in 0..e
        BY <2>4
      <4>2. SubSeq(D, 1, e) \in Seq(IChars) /\ Len(SubSeq(D, 1, e)) = e /\ \A i \in 1..e : SubSeq(D, 1, e)[i] = D[i]
        BY <2>1, <4>1, SuffixIs
      <4> QED
        BY <2>1, <4>2, SameSeq
    <3>2. SubSeq(D, 1, 0) = <<>>
      BY <2>1
    <3>3. m + 1 = 1 /\ readSoFar \o <<>> = readSoFar
      BY <1>4, <2>13
    <3>4. DoneNow' = D /\ ReadNow' = ReadNow
      BY <2>1, <2>9, <2>12, <2>13, <3>1, <3>2, <3>3
    <3>5. SameNow
      BY <1>3, <2>10, <3>4 DEF SameNow, D, L
    <3> QED
      BY <3>5 DEF EditStep
  <2>14. CASE m # 0
    <3>1. m \in 1..e /\ ~overrun'
      BY <1>3, <1>7, <2>4, <2>14
    <3>2. /\ m \in 1..Len(DoneNow) /\ LineNow' = LineNow /\ DoneNow' = SubSeq(DoneNow, m + 1, Len(DoneNow))
          /\ ReadNow' = ReadNow \o SubSeq(DoneNow, 1, m)
      BY <2>1, <2>9, <2>10, <2>12, <3>1 DEF D, L
    <3> QED
      BY <1>7, <3>1, <3>2, ZenonT(60) DEF EditStep
  <2> QED
    BY <2>13, <2>14
<1>8. EditStep
  BY <1>6, <1>7
<1> QED
  BY <1>1, <1>5, <1>8 DEF Stands

\* So is ttyread, from its call or when a semaphore has let it through.
LEMMA ReadsStep ==
  ASSUME InInv, Intact, NEW r \in Readers, NEW own \in {0, 1}, own = 1 <=> r \in in.go, own = 0 => left[r] = 0,
         NEW wants \in Nat, wants > 0, Reads(r, own, wants)
  PROVE  Stands
<1>1. InType
  BY DEF InInv
<1>2. PICK m \in Nat, more \in BOOLEAN, z \in Nat : Took(r, own, m, more, z) /\ TookSizes(own, m, more, z)
  BY <1>1, ReadsIs
<1> QED
  BY <1>2, TookStep

LEMMA TtyreadStep ==
  ASSUME InInv, NEW r \in Readers, NEW n \in Nat, Ttyread(r, n)
  PROVE  Stands
<1>1. Intact /\ left[r] = 0 /\ Count(n) > 0 /\ Reads(r, 0, Count(n))
  BY DEF Ttyread
<1>2. InType /\ ReadersInv
  BY DEF InInv
<1>3. Count(n) \in Nat
  BY <1>2, InIs DEF Count, Avail
<1>4. r \notin in.go
  BY <1>1, <1>2 DEF ReadersInv, Waiting
<1>5. 0 \in {0, 1} /\ (0 = 1 <=> r \in in.go) /\ (0 = 0 => left[r] = 0)
  BY <1>1, <1>4
<1> QED
  BY <1>1, <1>3, <1>5, ReadsStep

LEMMA GoesOnStep ==
  ASSUME InInv, NEW r \in Readers, TtyreadGoesOn(r)
  PROVE  Stands
<1>1. Intact /\ r \in in.go /\ Reads(r, 1, left[r])
  BY DEF TtyreadGoesOn
<1>2. left[r] \in Nat /\ left[r] > 0
  BY <1>1 DEF InInv, InType, ReadersInv, Waiting
<1>3. 1 \in {0, 1} /\ (1 = 1 <=> r \in in.go) /\ (1 = 0 => left[r] = 0)
  BY <1>1
<1> QED
  BY <1>1, <1>2, <1>3, ReadsStep

\* What the input does not touch.
LEMMA ElsewhereStep ==
  ASSUME InInv, in' = in, left' = left, out' = out, readSoFar' = readSoFar, overrun' = overrun,
         imode' \in {"cooked", "cbreak", "raw"}
  PROVE  Stands
<1>1. InInv'
  BY DEF InInv, InType, ReadersInv, LineInv, Intact, Entered, Meets
<1>2. SameNow
  BY DEF SameNow, LineNow, DoneNow, ReadNow, Entries, Entered
<1> QED
  BY <1>1, <1>2 DEF Stands, EditStep, OverrunWhy

\* Every step keeps the invariant and is one of LineEdit.
LEMMA InputNext ==
  ASSUME InInv, [TtyInput]_tvars
  PROVE  Stands
<1>1. CASE UNCHANGED tvars
  <2>1. in' = in /\ left' = left /\ out' = out /\ readSoFar' = readSoFar /\ overrun' = overrun /\ imode' = imode
    BY <1>1 DEF tvars
  <2> QED
    BY <2>1, ElsewhereStep DEF InInv, InType
<1>2. CASE TtyInput
  <2>1. ASSUME NEW ch \in Keys, TtyhandleIn(ch) PROVE Stands
    BY <2>1, ArrivesStep
  <2>2. ASSUME NEW r \in Readers, TtyreadGoesOn(r) PROVE Stands
    BY <2>2, GoesOnStep
  <2>3. ASSUME NEW r \in Readers, NEW n \in 0..MaxCount, Ttyread(r, n) PROVE Stands
    BY <2>3, TtyreadStep
  <2>4. ASSUME Ttycontrol PROVE Stands
    <3>1. /\ in' = in /\ left' = left /\ out' = out /\ readSoFar' = readSoFar /\ overrun' = overrun
          /\ imode' \in Modes \/ imode' = imode
      BY <2>4 DEF Ttycontrol
    <3>2. imode' \in {"cooked", "cbreak", "raw"}
      BY <3>1, TtyAssump DEF InInv, InType
    <3> QED
      BY <3>1, <3>2, ElsewhereStep
  <2> QED
    BY <1>2, <2>1, <2>2, <2>3, <2>4 DEF TtyInput
<1> QED
  BY <1>1, <1>2

\* The ring that ttyinit leaves is empty.
LEMMA InputInit ==
  ASSUME TtyInit
  PROVE  InInv /\ LineNow = <<>> /\ DoneNow = <<>> /\ ReadNow = <<>> /\ ~overrun
<1>1. /\ in = [buf |-> [i \in 0..TY_IBUFLEN |-> NoChar], head |-> 0, tail |-> 0, sem |-> 0,
               cursor |-> 0, q |-> <<>>, go |-> {}]
      /\ out.head = 0 /\ out.tail = 0 /\ left = [p \in Readers \cup Writers |-> 0] /\ imode = "cooked"
      /\ readSoFar = <<>> /\ overrun = FALSE
  BY DEF TtyInit
<1>2. /\ in.buf = [i \in 0..TY_IBUFLEN |-> NoChar] /\ in.head = 0 /\ in.tail = 0 /\ in.sem = 0 /\ in.cursor = 0
      /\ in.q = <<>> /\ in.go = {}
  BY <1>1
<1>3. TY_IBUFLEN \in Nat \ {0, 1} /\ TY_OBUFLEN \in Nat \ {0}
  BY TtyAssump
<1>4. IsFiniteSet(in.go) /\ Cardinality(in.go) = 0
  BY <1>2, FS_EmptySet
<1>5. Intact /\ Entered = 0
  BY <1>2, <1>3, <1>4 DEF Intact, Entered, Positive
<1>6. InType
  <2>1. in.buf \in Bufs /\ 0 \in Heads /\ 0 \in 0..(TY_IBUFLEN + 1) /\ 0 \in 0..TY_IBUFLEN /\ 0 \in Int
    BY <1>2, <1>3 DEF Bufs, IChars, Heads
  <2>2. in \in InEntry
    <3> DEFINE b == [i \in 0..TY_IBUFLEN |-> NoChar]
    <3>1. in = [buf |-> b, head |-> 0, tail |-> 0, sem |-> 0, cursor |-> 0, q |-> <<>>, go |-> {}] /\ b \in Bufs
      BY <1>1, <1>2, <2>1
    <3>2. <<>> \in Seq(Readers) /\ {} \in SUBSET Readers
      OBVIOUS
    <3> HIDE DEF b
    <3> QED
      BY ONLY <2>1, <3>1, <3>2 DEF InEntry
  <2>3. 0 \in 0..(TY_OBUFLEN - 1) /\ left \in [Readers \cup Writers -> Nat] /\ readSoFar \in Seq(IChars)
    BY <1>1, <1>3
  <2>4. (Intact => in.tail <= TY_IBUFLEN) /\ IsFiniteSet(in.go)
    BY <1>2, <1>3, <1>4
  <2>5. imode \in {"cooked", "cbreak", "raw"} /\ overrun \in BOOLEAN
    BY <1>1
  <2>6. out.head \in 0..(TY_OBUFLEN - 1) /\ out.tail \in 0..(TY_OBUFLEN - 1)
    BY <1>1, <2>3
  <2> QED
    BY ONLY <2>2, <2>3, <2>4, <2>5, <2>6 DEF InType
<1>7. ReadersInv
  BY <1>2 DEF ReadersInv, Waiting, Positive
<1>8. LineInv
  <2>1. Entered + in.cursor = 0 /\ 0 <= TY_IBUFLEN
    BY <1>2, <1>3, <1>5
  <2>2. Meets(0, 0, 0)
    BY DEF Meets
  <2> QED
    BY <1>2, <1>5, <2>1, <2>2 DEF LineInv
<1>9. LineNow = <<>> /\ DoneNow = <<>> /\ ReadNow = <<>>
  <2>1. /\ DoneNow = Buffered(in.head, 0, Entered, in.buf) /\ LineNow = Buffered(in.head, Entered, in.cursor, in.buf)
        /\ ReadNow = readSoFar
    BY <1>1, <1>6, NowIs
  <2> QED
    BY <1>1, <1>2, <1>5, <2>1 DEF Buffered
<1> QED
  BY <1>1, <1>6, <1>7, <1>8, <1>9 DEF InInv

\* What is said of the views is a step of LineEdit.
LEMMA EditIs ==
  ASSUME EditStep, overrun \in BOOLEAN, overrun' \in BOOLEAN
  PROVE  [Editing!Next]_(Editing!vars)
<1> USE DEF Editing!vars
<1>1. CASE SameNow
  BY <1>1 DEF SameNow, LineNow, DoneNow, ReadNow
<1>2. CASE ~overrun /\ overrun' /\ LineNow' = <<>> /\ DoneNow' = <<>> /\ ReadNow' = <<>>
  BY <1>2 DEF LineNow, DoneNow, ReadNow, Editing!Next, Editing!Overrun
<1>3. CASE /\ ~overrun /\ ~overrun' /\ ReadNow' = ReadNow
           /\ \/ Killed \/ Erased \/ \E c \in Keys \ {"nl"} : Typed(c)
              \/ \E c \in {"nl", "eof"} \cap Keys : WasEntered(c)
              \/ \E c \in Keys : PushedOn(c)
  <2>1. Killed => Editing!Kill
    BY DEF Killed, LineNow, DoneNow, Editing!Kill
  <2>2. Erased => Editing!Erase
    BY DEF Erased, LineNow, DoneNow, Editing!Erase
  <2>3. ASSUME NEW c, Typed(c) PROVE Editing!Type(c)
    BY <2>3 DEF Typed, LineNow, DoneNow, Editing!Type
  <2>4. ASSUME NEW c, WasEntered(c) PROVE Editing!Enter(c)
    BY <2>4 DEF WasEntered, LineNow, DoneNow, Editing!Enter
  <2>5. ASSUME NEW c, PushedOn(c) PROVE Editing!Unedited(c)
    BY <2>5 DEF PushedOn, LineNow, DoneNow, Editing!Unedited
  <2>6. \A c \in Keys : c \in (Keys \ {"nl"}) \cup ({"nl", "eof"} \cap Keys)
    OBVIOUS
  <2>7. Editing!Typing
    BY <1>3, <2>1, <2>2, <2>3, <2>4, <2>5, <2>6 DEF Editing!Typing
  <2>8. UNCHANGED <<IF overrun THEN <<>> ELSE readSoFar, overrun>>
    BY <1>3 DEF ReadNow
  <2> QED
    BY <1>3, <2>7, <2>8 DEF Editing!Next
<1>4. CASE ~overrun /\ ~overrun' /\ LineNow' = LineNow /\ \E k \in 1..Len(DoneNow) :
             DoneNow' = SubSeq(DoneNow, k + 1, Len(DoneNow)) /\ ReadNow' = ReadNow \o SubSeq(DoneNow, 1, k)
  <2>1. PICK k \in 1..Len(DoneNow) :
          DoneNow' = SubSeq(DoneNow, k + 1, Len(DoneNow)) /\ ReadNow' = ReadNow \o SubSeq(DoneNow, 1, k)
    BY <1>4
  <2>2. Editing!Read(k)
    <3>1. overrun' = overrun
      BY <1>4
    <3> QED
      BY <1>4, <2>1, <3>1, ZenonT(60) DEF LineNow, DoneNow, ReadNow, Editing!Read
  <2> QED
    BY <1>4, <2>1, <2>2 DEF DoneNow, Editing!Next
<1> QED
  BY <1>1, <1>2, <1>3, <1>4 DEF EditStep

\* ttyhandle_in, ttyread, ttygetc and ttycontrol: what is typed goes into a line that can be edited
\* until it is entered, what is entered is read once and in order, and the ring is overrun only
\* in the cases OverrunCauses names.
THEOREM InputKept == TtyInputSpec => InputRight
<1>1. TtyInit => InInv /\ Editing!Init
  BY InputInit DEF Editing!Init, LineNow, DoneNow, ReadNow
<1>2. InInv /\ [TtyInput]_tvars => InInv' /\ [Editing!Next]_(Editing!vars) /\ OverrunWhy
  <2> SUFFICES ASSUME InInv, [TtyInput]_tvars PROVE InInv' /\ [Editing!Next]_(Editing!vars) /\ OverrunWhy
    OBVIOUS
  <2>1. InInv' /\ EditStep /\ OverrunWhy
    BY InputNext DEF Stands
  <2>2. overrun \in BOOLEAN /\ overrun' \in BOOLEAN
    BY <2>1 DEF InInv, InType
  <2> QED
    BY <2>1, <2>2, EditIs
<1>3. InInv => TtyTypeOK
  BY InIs, TtyAssump DEF InInv, InType, TtyTypeOK, Heads
<1> QED
  BY <1>1, <1>2, <1>3, PTL DEF TtyInputSpec, InputRight, LineDiscipline, OverrunCauses, OverrunWhy, Editing!Spec
=============================================================================
