-------------------------------- MODULE Memory --------------------------------
(***************************************************************************)
(* Heap and buffer pools.  The heap is a list of free blocks in the order  *)
(* of their addresses; getmem takes the low end of the first block that    *)
(* fits, getstk the high end of the last, freemem puts a block back and    *)
(* joins it with its neighbours.  A pool is a block of the heap cut into   *)
(* buffers, with a semaphore that counts the free ones.  Addresses and     *)
(* lengths count 4 bytes; MB is the multiple that requests are rounded to. *)
(***************************************************************************)
EXTENDS Integers, Sequences, FiniteSets

CONSTANTS MB, MinHeap, Regions,     \* usable memory, as the boot loader lists it
          Sizes, MaxOwned, NBPOOLS, BufSizes, NumBufs, PoolUsers

VARIABLES freelist, mlength,   \* memlist: its blocks, and the free memory in all
          owned,               \* blocks handed out, with the length that was asked for
          buftab               \* pools: addr, size, n; bufs: the list at bpnext; sem, q, go;
                               \* held: the buffers each process has
mvars == <<freelist, mlength, owned, buftab>>

NULL == 0
Round(n) == ((n + MB - 1) \div MB) * MB
Trunc(n) == (n \div MB) * MB
Lowest(S) == CHOOSE x \in S : \A y \in S : x <= y
Highest(S) == CHOOSE x \in S : \A y \in S : x >= y

\* meminit: the first region straddles the end of the image, which is not free.
FreeBlock(r) ==
  IF r.base <= MinHeap THEN [addr |-> Round(MinHeap), len |-> Trunc(r.base + r.len - MinHeap)]
  ELSE [addr |-> Round(r.base), len |-> Trunc(r.len)]
MaxHeap == Highest({Regions[i].base + Regions[i].len : i \in DOMAIN Regions})
Total(list) == Cardinality(UNION {{i} \X (1..list[i].len) : i \in DOMAIN list})

\* A usable region holds a multiple of MB behind the image; the map lists regions in the order
\* of their addresses, with memory that is not usable between them.
ASSUME MemoryAssump ==
  /\ MB \in Nat \ {0} /\ MinHeap \in Nat \ {0}
  /\ Sizes \subseteq Nat /\ BufSizes \subseteq Nat /\ NumBufs \subseteq Nat /\ IsFiniteSet(PoolUsers)
  /\ Regions \in Seq([base : Nat, len : Nat]) /\ Regions # <<>>
  /\ \A i \in DOMAIN Regions : LET r == Regions[i] IN
       r.base + r.len > MinHeap /\ (r.base + r.len) % MB = 0 /\ FreeBlock(r).len > 0
  /\ \A i, j \in DOMAIN Regions : i < j => Regions[i].base + Regions[i].len < FreeBlock(Regions[j]).addr

MemoryInit ==
  /\ freelist = [i \in DOMAIN Regions |-> FreeBlock(Regions[i])]
  /\ mlength = Total(freelist) /\ owned = {} /\ buftab = <<>>

-----------------------------------------------------------------------------
Without(list, i) == SubSeq(list, 1, i - 1) \o SubSeq(list, i + 1, Len(list))
Fits(n) == {i \in DOMAIN freelist : freelist[i].len >= Round(n)}

\* getmem of n: the address, or NULL for SYSERR; what is left of the free list.
GetmemAddr(n) == IF n = 0 \/ Fits(n) = {} THEN NULL ELSE freelist[Lowest(Fits(n))].addr
GetmemList(n) ==
  LET i == Lowest(Fits(n)) b == freelist[i] IN
  IF b.len = Round(n) THEN Without(freelist, i)
  ELSE [freelist EXCEPT ![i] = [addr |-> b.addr + Round(n), len |-> b.len - Round(n)]]
Getmem(n) ==
  /\ GetmemAddr(n) # NULL /\ Cardinality(owned) < MaxOwned
  /\ owned' = owned \cup {[addr |-> GetmemAddr(n), len |-> n]}
  /\ freelist' = GetmemList(n) /\ mlength' = mlength - Round(n)
  /\ UNCHANGED buftab

Getstk(n) ==
  /\ n > 0 /\ Fits(n) # {} /\ Cardinality(owned) < MaxOwned
  /\ LET i == Highest(Fits(n)) b == freelist[i] IN
       /\ owned' = owned \cup {[addr |-> b.addr + b.len - Round(n), len |-> n]}
       /\ freelist' = IF b.len = Round(n) THEN Without(freelist, i)
                      ELSE [freelist EXCEPT ![i].len = @ - Round(n)]
  /\ mlength' = mlength - Round(n) /\ UNCHANGED buftab

\* freemem of n at a: how many blocks of the list lie before it, and where the last of them ends.
Before(l, a) == Cardinality({i \in DOMAIN l : l[i].addr < a})
Top(l, a) == IF Before(l, a) = 0 THEN NULL ELSE l[Before(l, a)].addr + l[Before(l, a)].len
Behind(l, a) == SubSeq(l, Before(l, a) + 1, Len(l))
Refused(l, a, n) ==
  \/ n = 0 \/ a < MinHeap \/ a > MaxHeap
  \/ Before(l, a) > 0 /\ a < Top(l, a)
  \/ Behind(l, a) # <<>> /\ a + Round(n) > Behind(l, a)[1].addr
JoinPrevious(l, a, n) ==
  LET front == SubSeq(l, 1, Before(l, a)) IN
  IF Top(l, a) = a THEN [front EXCEPT ![Before(l, a)].len = @ + Round(n)]
  ELSE Append(front, [addr |-> a, len |-> Round(n)])
JoinNextNot(list, next) == list \o next
JoinNext(list, next) ==
  LET b == list[Len(list)] IN
  IF next # <<>> /\ b.addr + b.len = next[1].addr
  THEN [list EXCEPT ![Len(list)].len = @ + next[1].len] \o Tail(next)
  ELSE list \o next
FreememList(l, a, n) == IF Refused(l, a, n) THEN l ELSE JoinNext(JoinPrevious(l, a, n), Behind(l, a))

\* freemem by whoever was given the block, or by a caller that frees memory a second time
\* while nobody has been given it again.
Freemem(a, n) ==
  /\ \/ [addr |-> a, len |-> n] \in owned
     \/ /\ n > 0 /\ \A b \in owned : b.addr + Round(b.len) <= a \/ a + Round(n) <= b.addr
        /\ \E i \in DOMAIN freelist :
             freelist[i].addr <= a /\ a + n <= freelist[i].addr + freelist[i].len
  /\ owned' = owned \ {[addr |-> a, len |-> n]}
  /\ freelist' = FreememList(freelist, a, n)
  /\ mlength' = IF Refused(freelist, a, n) THEN mlength ELSE mlength + Round(n)
  /\ UNCHANGED buftab

-----------------------------------------------------------------------------
\* A pool of numbufs buffers; without a semaphore (sem = FALSE) its memory is given back.
Mkbufpool(bufsiz, numbufs, sem) ==
  LET n == numbufs * (bufsiz + 1) a == GetmemAddr(n) IN
  /\ Len(buftab) < NBPOOLS /\ numbufs >= 1 /\ a # NULL
  /\ IF sem
     THEN /\ buftab' = Append(buftab, [addr |-> a, size |-> bufsiz, n |-> numbufs,
                  bufs |-> [i \in 1..numbufs |-> a + (i - 1) * (bufsiz + 1)],
                  sem |-> numbufs, q |-> <<>>, go |-> {}, held |-> [p \in PoolUsers |-> {}]])
          /\ freelist' = GetmemList(n) /\ mlength' = mlength - Round(n)
     ELSE /\ freelist' = FreememList(GetmemList(n), a, n)
          /\ UNCHANGED <<buftab, mlength>>
  /\ UNCHANGED owned

\* A process asks for a buffer, and takes the first of the list once the semaphore lets it.
Getbuf(p, i) ==
  /\ \A j \in DOMAIN buftab : p \notin buftab[j].go /\ \A k \in DOMAIN buftab[j].q : buftab[j].q[k] # p
  /\ LET b == buftab[i] IN
       buftab' = [buftab EXCEPT ![i] =
         IF b.sem > 0 THEN [b EXCEPT !.sem = @ - 1, !.bufs = Tail(@), !.held[p] = @ \cup {b.bufs[1]}]
         ELSE [b EXCEPT !.sem = @ - 1, !.q = Append(@, p)]]
  /\ UNCHANGED <<freelist, mlength, owned>>
GetbufGoesOn(p, i) ==
  /\ p \in buftab[i].go
  /\ LET b == buftab[i] IN
       buftab' = [buftab EXCEPT ![i] =
         [b EXCEPT !.go = @ \ {p}, !.bufs = Tail(@), !.held[p] = @ \cup {b.bufs[1]}]]
  /\ UNCHANGED <<freelist, mlength, owned>>
\* Whoever frees a buffer puts it at the head of the list; signal.
Freebuf(p, i, buf) ==
  /\ buf \in buftab[i].held[p]
  /\ LET b == buftab[i] freed == [b EXCEPT !.held[p] = @ \ {buf}, !.bufs = <<buf>> \o @, !.sem = @ + 1] IN
       buftab' = [buftab EXCEPT ![i] =
         IF b.q = <<>> THEN freed ELSE [freed EXCEPT !.q = Tail(@), !.go = @ \cup {Head(b.q)}]]
  /\ UNCHANGED <<freelist, mlength, owned>>

MemoryNext ==
  \/ \E n \in Sizes : Getmem(n) \/ Getstk(n)
  \/ \E a \in MinHeap..MaxHeap, n \in Sizes : Freemem(a, n)
  \/ \E s \in BufSizes, n \in NumBufs, sem \in BOOLEAN : Mkbufpool(s, n, sem)
  \/ \E p \in PoolUsers, i \in DOMAIN buftab :
       Getbuf(p, i) \/ GetbufGoesOn(p, i) \/ \E buf \in buftab[i].held[p] : Freebuf(p, i, buf)
MemorySpec == MemoryInit /\ [][MemoryNext]_mvars
-----------------------------------------------------------------------------
(* Properties *)

MemoryTypeOK ==
  /\ mlength \in Nat /\ \A i \in DOMAIN freelist : freelist[i].addr \in MinHeap..MaxHeap
  /\ \A b \in owned : b.len \in Sizes
  /\ \A i \in DOMAIN buftab : buftab[i].sem \in (-Cardinality(PoolUsers))..buftab[i].n

\* Free blocks, blocks handed out and pools tile the heap: no memory is in two of them, and none
\* is lost, however calls are mixed and whatever is freed twice (freemem.c:43).
Cells(a, n) == a..(a + n - 1)
HeapTiled ==
  LET free == [i \in DOMAIN freelist |-> Cells(freelist[i].addr, freelist[i].len)]
      used == {Cells(b.addr, Round(b.len)) : b \in owned}
      pools == {Cells(buftab[i].addr, Round(buftab[i].n * (buftab[i].size + 1))) : i \in DOMAIN buftab}
      all == {free[i] : i \in DOMAIN free} \cup used \cup pools
  IN /\ \A x, y \in all : x # y => x \cap y = {}
     /\ Cardinality(all) = Len(free) + Cardinality(owned) + Len(buftab)
     /\ UNION all = UNION {Cells(FreeBlock(Regions[i]).addr, FreeBlock(Regions[i]).len) : i \in DOMAIN Regions}

\* memlist counts the free memory; its blocks are in order and joined: two never touch, so that
\* a request fails only for want of memory in one piece (getmem, getstk, freemem).
FreeListJoined ==
  /\ mlength = Total(freelist)
  /\ \A i \in 1..(Len(freelist) - 1) : freelist[i].addr + freelist[i].len < freelist[i + 1].addr

\* A process that was let through finds a buffer, and each buffer is in the list or with one
\* process (getbuf, freebuf).
BuffersCounted ==
  \A i \in DOMAIN buftab : LET b == buftab[i] IN
    /\ Len(b.bufs) = Cardinality(b.go) + (IF b.sem > 0 THEN b.sem ELSE 0)
    /\ Len(b.q) = (IF b.sem < 0 THEN -b.sem ELSE 0)
    /\ {b.addr + (k - 1) * (b.size + 1) : k \in 1..b.n} =
         {b.bufs[k] : k \in DOMAIN b.bufs} \cup UNION {b.held[p] : p \in PoolUsers}
    /\ b.n = Len(b.bufs) + Cardinality(UNION {b.held[p] : p \in PoolUsers})
    /\ \A p, r \in PoolUsers : p # r => b.held[p] \cap b.held[r] = {}

\* The heap, its free list and the buffer pools in it.
MemorySound == MemoryTypeOK /\ HeapTiled /\ FreeListJoined /\ BuffersCounted
=============================================================================
