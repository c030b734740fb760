------------------------------ MODULE NetInput ------------------------------
(***************************************************************************)
(* The packet input path of net/net.c: process rawin reads frames from the *)
(* Ethernet, demultiplexes them on the MAC address and puts them on the    *)
(* ring of one interface; one process netin per interface takes them off.  *)
(* Packet buffers come from netbufpool (system/getbuf.c, freebuf.c).       *)
(*                                                                         *)
(* Scheduling.  rawin has priority 8000 and the netin processes 5000, on   *)
(* one CPU: a netin process runs only while rawin is blocked, so one pass  *)
(* of rawin's loop is one action, while rawin may run between any two      *)
(* instructions of netin.  Which frame arrives, and when, is open.         *)
(***************************************************************************)
EXTENDS Integers, FiniteSets

CONSTANTS
    NIFACES,       \* number of interfaces; 0 is the Ethernet, 1.. othernets
    IF_QUEUESIZE,  \* slots in the ring of an interface
    Data,          \* frame contents
    Buffers,       \* the buffers of netbufpool
    NoPkt,         \* "no packet", a NULL pointer
    MaxBurst       \* bound: frames outstanding on one interface

Ifaces == 0..NIFACES-1
Slots  == 0..IF_QUEUESIZE-1

ASSUME ConstAssump ==
    /\ NIFACES \in Nat \ {0}
    /\ IF_QUEUESIZE \in Nat \ {0}
    /\ Data # {}
    /\ NoPkt \notin Buffers \cup Data
    /\ MaxBurst \in Nat

\* net_init sizes the pool for full rings and one buffer in rawin's hands.
ASSUME PoolAssump ==
    IsFiniteSet(Buffers) /\ Cardinality(Buffers) = NIFACES * IF_QUEUESIZE + 1

VARIABLES
    up,         \* the interfaces whose if_state is IF_UP
    if_queue, if_head, if_tail,  \* the ring of each interface
    if_sem,     \* scount of each if_sem: negative when its netin waits
    npc, npkt,  \* where each netin is and the packet it handles
    rpc, rpkt,  \* where rawin is and the buffer it reads into
    content,    \* the frame in each buffer
    free,       \* the buffers on netbufpool's free list
    fault       \* a buffer already on the free list was freed again

ringVars == <<if_queue, if_head, if_tail, if_sem>>
vars == <<up, if_queue, if_head, if_tail, if_sem, npc, npkt, rpc, rpkt, content,
          free, fault>>

\* Packets enqueued for interface i that its netin has not read from the ring:
\* wait() has already taken one off the semaphore in "blocked" and "take".
Pending(i) == if_sem[i] + (IF npc[i] \in {"blocked", "take"} THEN 1 ELSE 0)

Outstanding(i) == Pending(i) + (IF npkt[i] = NoPkt THEN 0 ELSE 1)

\* Steps from slot h of the ring forward to slot j.
Dist(h, j) == IF j >= h THEN j - h ELSE j - h + IF_QUEUESIZE

\* Slot n of the ring, n counted on past the end of the array.
Around(n) == {n, n - IF_QUEUESIZE, n - 2 * IF_QUEUESIZE}

\* Slot j of interface i holds a packet that is still to be read.
Live(i, j) == Dist(if_head[i], j) < Pending(i)

-----------------------------------------------------------------------------
(* Plausible bugs, used to show that the properties can fail. *)

OverflowLate(i) == if_sem[i] > IF_QUEUESIZE
NetinFinishStuck(i) == npc[i] = "work" /\ UNCHANGED vars
-----------------------------------------------------------------------------
\* net_init: the user chose a NAT box, which has all interfaces up, or a host
\* on one of them.
Init ==
    /\ up \in {Ifaces} \cup {{i} : i \in Ifaces}
    /\ if_queue = [i \in Ifaces |-> [j \in Slots |-> NoPkt]]
    /\ if_head = [i \in Ifaces |-> 0]
    /\ if_tail = [i \in Ifaces |-> 0]
    /\ if_sem = [i \in Ifaces |-> 0]
    /\ npc = [i \in Ifaces |-> "wait"]
    /\ npkt = [i \in Ifaces |-> NoPkt]
    /\ rpc = "getbuf"
    /\ rpkt = NoPkt
    /\ content = [b \in Buffers |-> NoPkt]
    /\ free = Buffers
    /\ fault = FALSE

\* rawin is blocked in read() or in getbuf(), or has exited.
RawinBlocked == rpc # "getbuf" \/ free = {}

\* if_head and if_tail go back to 0 at the end of the array.
Wrap(n) == IF n >= IF_QUEUESIZE THEN 0 ELSE n

\* signal(if_sem): release the netin process if it waits.
Signal(i) ==
    /\ if_sem' = [if_sem EXCEPT ![i] = @ + 1]
    /\ npc' = IF if_sem[i] < 0 THEN [npc EXCEPT ![i] = "take"] ELSE npc

\* rawin's test for a full queue.
Overflow(i) == if_sem[i] >= IF_QUEUESIZE

\* The interface a frame for the MAC address of interface dst goes to:
\* othernets that are up claim their own frames, the Ethernet the rest.
Demux(dst) == IF dst \in up \ {0} THEN dst ELSE 0

-----------------------------------------------------------------------------
(* rawin *)

\* getbuf(netbufpool): waits while the pool is empty.
RawinGetbuf ==
    /\ rpc = "getbuf"
    /\ \E b \in free :
        /\ rpkt' = b
        /\ free' = free \ {b}
    /\ rpc' = "read"
    /\ UNCHANGED <<ringVars, npc, npkt, content, fault>>

\* read(ETHER0) returned a frame with contents d for interface i.
Frame(i, d) ==
    /\ rpc = "read"
    /\ Outstanding(i) < MaxBurst
    /\ content' = [content EXCEPT ![rpkt] = d]

\* Plausible bugs: the buffer is used again, the index is not advanced.
RawinEnqueueKeeps(i, d) ==
    /\ Frame(i, d)
    /\ i \in up
    /\ ~Overflow(i)
    /\ if_queue' = [if_queue EXCEPT ![i][if_tail[i]] = rpkt]
    /\ if_tail' = [if_tail EXCEPT ![i] = Wrap(@ + 1)]
    /\ Signal(i)
    /\ UNCHANGED <<if_head, npkt, rpc, rpkt, free, fault>>
NetinTakeNoAdvance(i) ==
    /\ npc[i] = "take"
    /\ npkt' = [npkt EXCEPT ![i] = if_queue[i][if_head[i]]]
    /\ npc' = [npc EXCEPT ![i] = "work"]
    /\ UNCHANGED <<if_queue, if_head, if_tail, if_sem, rpc, rpkt, content, free, fault>>

\* No interface that is up takes the frame: the buffer is used again.
RawinIgnore(i, d) ==
    /\ Frame(i, d)
    /\ i \notin up
    /\ UNCHANGED <<ringVars, npc, npkt, rpc, rpkt, free, fault>>

\* Othernet queue full: break leaves the for loop, the buffer is used again.
RawinDrop(i, d) ==
    /\ Frame(i, d)
    /\ i \in up /\ i # 0
    /\ Overflow(i)
    /\ UNCHANGED <<ringVars, npc, npkt, rpc, rpkt, free, fault>>

\* Ethernet queue full: break leaves the while loop and rawin returns SYSERR.
RawinExit(i, d) ==
    /\ Frame(i, d)
    /\ i \in up /\ i = 0
    /\ Overflow(i)
    /\ rpc' = "exit"
    /\ UNCHANGED <<ringVars, npc, npkt, rpkt, free, fault>>

\* Enqueue the packet, signal the interface and go for the next buffer.
RawinEnqueue(i, d) ==
    /\ Frame(i, d)
    /\ i \in up
    /\ ~Overflow(i)
    /\ if_queue' = [if_queue EXCEPT ![i][if_tail[i]] = rpkt]
    /\ if_tail' = [if_tail EXCEPT ![i] = Wrap(@ + 1)]
    /\ Signal(i)
    /\ rpkt' = NoPkt
    /\ rpc' = "getbuf"
    /\ UNCHANGED <<if_head, npkt, free, fault>>

Rawin ==
    \/ RawinGetbuf
    \/ \E dst \in Ifaces, d \in Data :
        \/ RawinIgnore(Demux(dst), d)
        \/ RawinDrop(Demux(dst), d)
        \/ RawinExit(Demux(dst), d)
        \/ RawinEnqueue(Demux(dst), d)

-----------------------------------------------------------------------------
(* netin *)

\* wait(if_sem)
NetinWait(i) ==
    /\ npc[i] = "wait"
    /\ if_sem' = [if_sem EXCEPT ![i] = @ - 1]
    /\ npc' = [npc EXCEPT ![i] = IF if_sem[i] - 1 < 0 THEN "blocked" ELSE "take"]
    /\ UNCHANGED <<if_queue, if_head, if_tail, npkt, rpc, rpkt, content, free, fault>>

\* pkt = if_queue[if_head++]
NetinTake(i) ==
    /\ npc[i] = "take"
    /\ npkt' = [npkt EXCEPT ![i] = if_queue[i][if_head[i]]]
    /\ if_head' = [if_head EXCEPT ![i] = Wrap(@ + 1)]
    /\ npc' = [npc EXCEPT ![i] = "work"]
    /\ UNCHANGED <<if_queue, if_tail, if_sem, rpc, rpkt, content, free, fault>>

\* Every branch of the switch, ipv6_in included, ends in one freebuf(pkt).
NetinFinish(i) ==
    /\ npc[i] = "work"
    /\ npc' = [npc EXCEPT ![i] = "wait"]
    /\ npkt' = [npkt EXCEPT ![i] = NoPkt]
    /\ free' = free \cup {npkt[i]}
    /\ fault' = (npkt[i] \in free)
    /\ UNCHANGED <<ringVars, rpc, rpkt, content>>

Netin(i) ==
    /\ RawinBlocked
    /\ NetinWait(i) \/ NetinTake(i) \/ NetinFinish(i)

\* After a double free the free list is circular: the model stops there.
Next == ~fault /\ UNCHANGED up /\ (Rawin \/ \E i \in Ifaces : Netin(i))

Spec == Init /\ [][Next]_vars

\* rawin outranks everything; the netin processes share what is left round
\* robin (clkhandler's quantum, resched's FIFO of equal priorities).
Fairness ==
    /\ WF_vars(~fault /\ UNCHANGED up /\ RawinGetbuf)
    /\ \A i \in Ifaces : SF_vars(~fault /\ UNCHANGED up /\ Netin(i))

FairSpec == Spec /\ Fairness

-----------------------------------------------------------------------------
(* Properties *)

TypeOK ==
    /\ up \subseteq Ifaces
    /\ if_queue \in [Ifaces -> [Slots -> Buffers \cup {NoPkt}]]
    /\ if_head \in [Ifaces -> Slots]
    /\ if_tail \in [Ifaces -> Slots]
    /\ if_sem \in [Ifaces -> -1..IF_QUEUESIZE]
    /\ npc \in [Ifaces -> {"wait", "blocked", "take", "work"}]
    /\ npkt \in [Ifaces -> Buffers \cup {NoPkt}]
    /\ rpc \in {"getbuf", "read", "exit"}
    /\ rpkt \in Buffers \cup {NoPkt}
    /\ content \in [Buffers -> Data \cup {NoPkt}]
    /\ free \subseteq Buffers
    /\ fault \in BOOLEAN

\* The semaphore, the netin process and the two ring indices tell the same
\* story: going from if_head over the pending packets leads to if_tail, also
\* when wait() has decremented if_sem and netin has not read the slot yet.
SemCountsQueue ==
    \A i \in Ifaces :
        /\ Pending(i) >= 0
        /\ if_tail[i] \in Around(if_head[i] + Pending(i))

\* rawin's test of semcount() lets the ring be overrun by one packet (while
\* netin is between wait() and its read of the slot), and never by more.
OverrunAtMostOne == \A i \in Ifaces : Pending(i) <= IF_QUEUESIZE + 1

\* A ring is never asked to hold more packets than it has slots: what rawin's
\* "Check interface queue; drop packet if full" is there for.
NoOverrun == \A i \in Ifaces : Pending(i) <= IF_QUEUESIZE

\* No buffer is in two places at once: on the free list, in rawin's hands,
\* in a live slot of a ring, in a netin process.  freebuf() is then never
\* called twice for one getbuf(), and no packet is overwritten while in use.
OneOwner ==
    /\ ~fault
    /\ rpkt \notin free
    /\ \A i \in Ifaces : npkt[i] # NoPkt =>
        /\ npkt[i] \notin free
        /\ npkt[i] # rpkt
        /\ \A k \in Ifaces : k # i => npkt[k] # npkt[i]
    /\ \A i \in Ifaces, j \in Slots : Live(i, j) =>
        /\ if_queue[i][j] \in Buffers
        /\ if_queue[i][j] \notin free
        /\ if_queue[i][j] # rpkt
        /\ \A k \in Ifaces : npkt[k] # if_queue[i][j]
        /\ \A k \in Ifaces, l \in Slots :
            Live(k, l) /\ if_queue[k][l] = if_queue[i][j] => k = i /\ l = j

\* No buffer is lost: each one is free or somebody will free it.
NoLeak ==
    \A b \in Buffers :
        \/ b \in free
        \/ b = rpkt
        \/ \E i \in Ifaces : npkt[i] = b
        \/ \E i \in Ifaces, j \in Slots : Live(i, j) /\ if_queue[i][j] = b

\* The packet buffers, from getbuf() in rawin to freebuf() in netin: each has
\* exactly one owner, so that none is freed twice, used by two or lost.
OwnedOnce == OneOwner /\ NoLeak

\* A packet put on a ring is handled and its buffer comes back to the pool,
\* whatever the other interfaces receive meanwhile.
QueuedBufferReturns ==
    \A b \in Buffers :
        (\E i \in Ifaces, j \in Slots : Live(i, j) /\ if_queue[i][j] = b)
            ~> (b \in free)

\* The slot of the k-th packet still to be read from the ring of interface i.
Slot(i, k) ==
    LET n == if_head[i] + k - 1
    IN  IF n < IF_QUEUESIZE THEN n ELSE n - IF_QUEUESIZE

\* The frames on the rings, and those that are handled.
queued == [i \in Ifaces |-> [k \in 1..Pending(i) |-> content[if_queue[i][Slot(i, k)]]]]
handled == [i \in Ifaces |-> IF npkt[i] = NoPkt THEN NoPkt ELSE content[npkt[i]]]

\* What the rings promise: a first-in first-out queue of frames per interface.
Fifo == INSTANCE PacketQueue WITH
    Ifaces <- Ifaces, Data <- Data, None <- NoPkt, q <- queued, cur <- handled

\* Every frame rawin accepts is handled by the netin of its interface, once,
\* unchanged and in the order of arrival.
FramesInOrder == Fifo!Spec

=============================================================================
