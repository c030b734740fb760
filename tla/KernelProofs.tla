---------------------------- MODULE KernelProofs ----------------------------
(***************************************************************************)
(* Processes, semaphores, messages and time for any number of processes    *)
(* and semaphores, any priorities and delays.                              *)
(*                                                                         *)
(* KernelInv has a part per table: the scheduler's (SchedInv), the delta   *)
(* list's (SleepInv, TimeInv), the semaphores' (SemInv), the messages' and *)
(* continuations' (ContInv) and that of the kills in progress (KillsInv).  *)
(* The frame lemmas say which changes of process states leave a part as it *)
(* is, so that the proof of an action is about what the action is for.     *)
(* Before them come lemmas on what the list operations do to queues of any *)
(* length: insert(), getitem(), enqueue(), insertd(), unsleep(), the tick  *)
(* of the clock handler, deferred ready() and resched().  Lists and Queues *)
(* say whose entries a list has, one each.                                 *)
(***************************************************************************)
EXTENDS Kernel, DataLemmas

-----------------------------------------------------------------------------
(* Sequences *)

\* InsertAt and RemoveAt, element by element.
LEMMA InsertAtIs ==
    ASSUME NEW T, NEW q \in Seq(T), NEW n \in 1..Len(q)+1, NEW e \in T
    PROVE  Inserted(T, InsertAt(q, n, e), q, n, e)
  BY InsertIs DEF InsertAt

LEMMA RemoveAtIs ==
    ASSUME NEW T, NEW q \in Seq(T), NEW n \in 1..Len(q)
    PROVE  /\ RemoveAt(q, n) \in Seq(T)
           /\ Len(RemoveAt(q, n)) = Len(q) - 1
           /\ \A i \in 1..Len(q)-1 : RemoveAt(q, n)[i] = IF i < n THEN q[i] ELSE q[i+1]
  BY CutIs DEF RemoveAt

\* The first place of a set is in it and before all others.
LEMMA FirstIs ==
    ASSUME NEW S \in SUBSET Nat, S # {}
    PROVE  First(S) \in S /\ \A j \in S : First(S) <= j
  BY LeastNat DEF First

-----------------------------------------------------------------------------
(* Queues *)

Entries == [pid : Pids, key : Int]

\* The entries of list q are those of the processes in S, one each.
Lists(q, S) ==
    /\ q \in Seq(Entries)
    /\ \A i, j \in DOMAIN q : q[i].pid = q[j].pid => i = j
    /\ \A p \in Pids : p \in S <=> \E i \in DOMAIN q : q[i].pid = p

\* The same for a queue of process identifiers.
Queues(q, S) ==
    /\ q \in Seq(Pids)
    /\ \A i, j \in DOMAIN q : q[i] = q[j] => i = j
    /\ \A p \in Pids : p \in S <=> \E i \in DOMAIN q : q[i] = p

LEMMA ListsInsert ==
    ASSUME NEW q, NEW S, Lists(q, S), NEW n \in 1..Len(q)+1, NEW p \in Pids, p \notin S, NEW k \in Int
    PROVE  Lists(InsertAt(q, n, Entry(p, k)), S \cup {p})
<1> DEFINE r == InsertAt(q, n, Entry(p, k))
<1>1. q \in Seq(Entries) /\ Entry(p, k) \in Entries /\ Entry(p, k).pid = p
  BY DEF Lists, Entry, Entries
<1>2. /\ r \in Seq(Entries) /\ Len(r) = Len(q) + 1
      /\ \A i \in 1..Len(q)+1 : r[i] = IF i < n THEN q[i] ELSE IF i = n THEN Entry(p, k) ELSE q[i-1]
  BY <1>1, InsertAtIs DEF Inserted
<1> HIDE DEF r
<1>3. Len(q) \in Nat /\ DOMAIN q = 1..Len(q) /\ DOMAIN r = 1..Len(q)+1
  BY <1>1, <1>2
<1>4. \A i \in 1..Len(q) : q[i].pid # p
  BY <1>3 DEF Lists
<1>5. n \in 1..Len(q)+1 /\ r[n].pid = p
  BY <1>1, <1>2, <1>3
<1>6. ASSUME NEW i \in DOMAIN r, i # n
      PROVE  \E a \in DOMAIN q : r[i] = q[a] /\ a = IF i < n THEN i ELSE i - 1
  <2>1. CASE i < n
    BY <1>2, <1>3, <2>1
  <2>2. CASE i > n
    <3>1. i - 1 \in 1..Len(q) /\ r[i] = q[i-1]
      BY <1>2, <1>3, <2>2
    <3> QED
      BY <1>3, <2>2, <3>1
  <2> QED
    BY <1>3, <1>6, <2>1, <2>2
<1>7. ASSUME NEW i \in DOMAIN r, NEW j \in DOMAIN r, r[i].pid = r[j].pid PROVE i = j
  <2>1. CASE i # n /\ j # n
    <3>1. PICK a \in DOMAIN q : r[i] = q[a] /\ a = IF i < n THEN i ELSE i - 1
      BY <1>6, <2>1
    <3>2. PICK b \in DOMAIN q : r[j] = q[b] /\ b = IF j < n THEN j ELSE j - 1
      BY <1>6, <2>1
    <3>3. a = b
      BY <1>7, <3>1, <3>2 DEF Lists
    <3> QED
      BY <1>3, <2>1, <3>1, <3>2, <3>3
  <2>2. CASE i = n /\ j # n
    BY <1>3, <1>4, <1>5, <1>6, <1>7, <2>2
  <2>3. CASE i # n /\ j = n
    BY <1>3, <1>4, <1>5, <1>6, <1>7, <2>3
  <2> QED
    BY <2>1, <2>2, <2>3
<1>8. ASSUME NEW x \in Pids
      PROVE  x \in S \cup {p} <=> \E i \in DOMAIN r : r[i].pid = x
  <2>1. CASE x = p
    BY <1>3, <1>5, <2>1
  <2>2. ASSUME x # p, NEW i \in DOMAIN q, q[i].pid = x PROVE \E j \in DOMAIN r : r[j].pid = x
    <3>1. CASE i < n
      BY <1>2, <1>3, <2>2, <3>1
    <3>2. CASE i >= n
      <4>1. i + 1 \in DOMAIN r /\ r[i+1] = q[i]
        <5>1. i + 1 \in 1..Len(q)+1 /\ ~(i + 1 < n) /\ i + 1 # n /\ (i + 1) - 1 = i
          BY <1>3, <3>2
        <5>2. r[i+1] = q[(i+1)-1]
          BY <1>2, <5>1
        <5> QED
          BY <1>3, <5>1, <5>2
      <4> QED
        BY <2>2, <4>1
    <3> QED
      BY <1>3, <3>1, <3>2
  <2>3. ASSUME x # p, NEW i \in DOMAIN r, r[i].pid = x PROVE \E j \in DOMAIN q : q[j].pid = x
    <3>1. i # n
      BY <1>5, <2>3
    <3> QED
      BY <1>6, <2>3, <3>1
  <2> QED
    BY <2>1, <2>2, <2>3 DEF Lists
<1> QED
  BY <1>2, <1>7, <1>8 DEF Lists, r

\* One entry leaves a list.
LEMMA ListsRemoveAt ==
    ASSUME NEW q, NEW S, Lists(q, S), NEW n \in 1..Len(q), NEW p, q[n].pid = p
    PROVE  Lists(RemoveAt(q, n), S \ {p})
<1> DEFINE r == RemoveAt(q, n)
<1>1. q \in Seq(Entries) /\ Len(q) \in Nat /\ DOMAIN q = 1..Len(q)
  BY DEF Lists
<1>2. n \in 1..Len(q) /\ q[n].pid = p
  OBVIOUS
<1>3. /\ r \in Seq(Entries) /\ Len(r) = Len(q) - 1
      /\ \A i \in 1..Len(q)-1 : r[i] = IF i < n THEN q[i] ELSE q[i+1]
  BY <1>1, <1>2, RemoveAtIs
<1> HIDE DEF r
<1>4. DOMAIN r = 1..Len(q)-1
  BY <1>1, <1>3
<1>5. ASSUME NEW i \in DOMAIN r
      PROVE  \E a \in DOMAIN q : r[i] = q[a] /\ a # n /\ a = IF i < n THEN i ELSE i + 1
  <2>1. CASE i < n
    BY <1>1, <1>2, <1>3, <1>4, <2>1
  <2>2. CASE i >= n
    <3>1. i + 1 \in 1..Len(q) /\ r[i] = q[i+1]
      BY <1>1, <1>2, <1>3, <1>4, <2>2
    <3> QED
      BY <1>1, <1>2, <2>2, <3>1
  <2> QED
    BY <1>1, <1>2, <1>4, <2>1, <2>2
<1>6. ASSUME NEW i \in DOMAIN r, NEW j \in DOMAIN r, r[i].pid = r[j].pid PROVE i = j
  <2>1. PICK a \in DOMAIN q : r[i] = q[a] /\ a # n /\ a = IF i < n THEN i ELSE i + 1
    BY <1>5
  <2>2. PICK b \in DOMAIN q : r[j] = q[b] /\ b # n /\ b = IF j < n THEN j ELSE j + 1
    BY <1>5
  <2>3. a = b
    BY <1>6, <2>1, <2>2 DEF Lists
  <2> QED
    BY <1>1, <1>2, <1>4, <2>1, <2>2, <2>3
<1>8. ASSUME NEW x \in Pids
      PROVE  x \in S \ {p} <=> \E i \in DOMAIN r : r[i].pid = x
  <2>1. ASSUME x # p, NEW i \in DOMAIN q, q[i].pid = x PROVE \E j \in DOMAIN r : r[j].pid = x
    <3>1. CASE i < n
      BY <1>1, <1>2, <1>3, <1>4, <2>1, <3>1
    <3>2. CASE i > n
      <4>1. i - 1 \in 1..Len(q)-1 /\ ~(i - 1 < n) /\ (i - 1) + 1 = i
        BY <1>1, <1>2, <3>2
      <4>2. r[i-1] = q[(i-1)+1]
        BY <1>3, <4>1
      <4> QED
        BY <1>4, <2>1, <4>1, <4>2
    <3> QED
      BY <1>1, <1>2, <2>1, <3>1, <3>2
  <2>2. ASSUME NEW i \in DOMAIN r, r[i].pid = x
        PROVE  x # p /\ \E j \in DOMAIN q : q[j].pid = x
    <3>1. PICK a \in DOMAIN q : r[i] = q[a] /\ a # n
      BY <1>5
    <3>2. q[a].pid # p
      BY <1>1, <1>2, <3>1 DEF Lists
    <3> QED
      BY <2>2, <3>1, <3>2
  <2> QED
    BY <2>1, <2>2 DEF Lists
<1> QED
  BY <1>3, <1>6, <1>8 DEF Lists, r

\* getitem() takes the entry of a process that is in the list.
LEMMA ListsRemove ==
    ASSUME NEW q, NEW S, Lists(q, S), NEW p \in Pids, p \in S
    PROVE  /\ PlaceOf(q, p) \in 1..Len(q) /\ q[PlaceOf(q, p)].pid = p
           /\ Lists(Without(q, p), S \ {p})
<1>1. DOMAIN q = 1..Len(q)
  BY DEF Lists
<1>2. PlaceOf(q, p) \in 1..Len(q) /\ q[PlaceOf(q, p)].pid = p
  BY <1>1 DEF PlaceOf, Lists
<1> QED
  BY <1>2, ListsRemoveAt DEF Without

\* The first n entries of a list leave it.
LEMMA ListsSuffix ==
    ASSUME NEW q, NEW S, Lists(q, S), NEW n \in 0..Len(q)
    PROVE  Lists(SubSeq(q, n+1, Len(q)), S \ {q[i].pid : i \in 1..n})
<1> DEFINE r == SubSeq(q, n+1, Len(q))
<1>1. q \in Seq(Entries) /\ Len(q) \in Nat /\ DOMAIN q = 1..Len(q)
  BY DEF Lists
<1>2. r \in Seq(Entries) /\ DOMAIN r = 1..Len(q)-n /\ \A i \in 1..Len(q)-n : r[i] = q[n+i]
  BY <1>1, SuffixIs
<1> HIDE DEF r
<1>3. ASSUME NEW i \in DOMAIN r
      PROVE  n + i \in DOMAIN q /\ r[i] = q[n+i] /\ i \in Int
  BY <1>1, <1>2
<1>4. ASSUME NEW i \in DOMAIN r, NEW j \in DOMAIN r, r[i].pid = r[j].pid PROVE i = j
  <2>1. n + i = n + j
    BY <1>3, <1>4 DEF Lists
  <2> QED
    BY <1>3, <2>1
<1>5. ASSUME NEW x \in Pids
      PROVE  x \in S \ {q[i].pid : i \in 1..n} <=> \E i \in DOMAIN r : r[i].pid = x
  <2>1. ASSUME NEW i \in DOMAIN r, r[i].pid = x PROVE x \in S \ {q[j].pid : j \in 1..n}
    <3>1. n + i \in DOMAIN q /\ q[n+i].pid = x /\ i > 0
      BY <1>2, <1>3, <2>1
    <3>2. ASSUME NEW j \in 1..n, q[j].pid = x PROVE FALSE
      <4>1. j \in DOMAIN q
        BY <1>1
      <4>2. j = n + i
        BY <3>1, <3>2, <4>1 DEF Lists
      <4> QED
        BY <1>3, <3>1, <4>2
    <3>3. x \in S
      BY <3>1 DEF Lists
    <3> QED
      BY <3>2, <3>3
  <2>2. ASSUME NEW i \in DOMAIN q, q[i].pid = x, x \notin {q[j].pid : j \in 1..n}
        PROVE  \E j \in DOMAIN r : r[j].pid = x
    <3>1. i > n
      BY <1>1, <2>2
    <3>2. i - n \in 1..Len(q)-n /\ n + (i - n) = i
      BY <1>1, <3>1
    <3>3. r[i-n] = q[n + (i-n)]
      BY <1>2, <3>2
    <3> QED
      BY <1>2, <2>2, <3>2, <3>3
  <2> QED
    BY <2>1, <2>2 DEF Lists
<1> QED
  BY <1>2, <1>4, <1>5 DEF Lists, r

\* Keys do not matter for who is in a list.
LEMMA ListsKeys ==
    ASSUME NEW q, NEW S, Lists(q, S), NEW i \in DOMAIN q, NEW k \in Int
    PROVE  /\ Lists([q EXCEPT ![i].key = k], S)
           /\ Len([q EXCEPT ![i].key = k]) = Len(q)
<1> DEFINE r == [q EXCEPT ![i].key = k]
<1>1. q \in Seq(Entries) /\ Len(q) \in Nat /\ DOMAIN q = 1..Len(q)
  BY DEF Lists
<1>2. q[i] \in Entries
  BY <1>1, ElementOfSeq
<1>3. [q[i] EXCEPT !.key = k] \in Entries /\ [q[i] EXCEPT !.key = k].pid = q[i].pid
  BY <1>2 DEF Entries
<1>4. r \in Seq(Entries) /\ Len(r) = Len(q)
  <2>1. r = [q EXCEPT ![i] = [q[i] EXCEPT !.key = k]]
    OBVIOUS
  <2> HIDE DEF r
  <2> QED
    BY <1>1, <1>3, <2>1, ExceptSeq
<1>5. \A j \in DOMAIN q : r[j].pid = q[j].pid
  <2> TAKE j \in DOMAIN q
  <2>1. CASE j = i
    BY <1>3, <2>1
  <2>2. CASE j # i
    BY <2>2
  <2> QED
    BY <2>1, <2>2
<1>6. DOMAIN r = DOMAIN q
  OBVIOUS
<1> HIDE DEF r
<1> QED
  BY <1>4, <1>5, <1>6 DEF Lists, r

-----------------------------------------------------------------------------
(* The order of the ready list *)

\* Highest key first.
Ordered(q) == \A i, j \in DOMAIN q : i < j => q[j].key <= q[i].key

\* The keys are the values of f.
Keyed(q, f) == \A i \in DOMAIN q : q[i].key = f[q[i].pid]

\* insert() puts the entry where it belongs.
LEMMA InsertKeeps ==
    ASSUME NEW q, NEW S, Lists(q, S), NEW p \in Pids, p \notin S, NEW k \in Int
    PROVE  /\ Lists(Insert(q, p, k), S \cup {p})
           /\ Ordered(q) => Ordered(Insert(q, p, k))
           /\ \A f : Keyed(q, f) /\ k = f[p] => Keyed(Insert(q, p, k), f)
           /\ q # <<>> /\ k <= Head(q).key => Head(Insert(q, p, k)) = Head(q)
<1> DEFINE L == {i \in DOMAIN q : q[i].key < k} \cup {Len(q) + 1}
           n == First(L)
           r == InsertAt(q, n, Entry(p, k))
<1>1. /\ q \in Seq(Entries) /\ Len(q) \in Nat /\ DOMAIN q = 1..Len(q)
      /\ Entry(p, k) \in Entries /\ Entry(p, k).pid = p /\ Entry(p, k).key = k
  BY DEF Lists, Entry, Entries
<1>2. \A i \in DOMAIN q : q[i].key \in Int
  <2> TAKE i \in DOMAIN q
  <2>1. q[i] \in Entries
    BY <1>1, ElementOfSeq
  <2> QED
    BY <2>1 DEF Entries
<1>3. n \in L /\ \A j \in L : n <= j
  <2>1. L \in SUBSET Nat /\ L # {}
    BY <1>1
  <2> HIDE DEF L
  <2> QED
    BY <2>1, FirstIs
<1>4. /\ n \in 1..Len(q)+1
      /\ \A i \in 1..Len(q) : i < n => q[i].key >= k
      /\ n <= Len(q) => q[n].key < k
  <2>1. n \in 1..Len(q)+1 /\ (n <= Len(q) => q[n].key < k)
    BY <1>1, <1>3
  <2>2. ASSUME NEW i \in 1..Len(q), i < n PROVE q[i].key >= k
    <3>1. i \notin L
      <4> HIDE DEF L, n
      <4>1. i \in L => n <= i
        BY <1>3
      <4> QED
        BY <1>1, <2>1, <2>2, <4>1
    <3>2. ~(q[i].key < k)
      BY <1>1, <3>1
    <3> QED
      BY <1>1, <1>2, <3>2
  <2> QED
    BY <2>1, <2>2
<1> HIDE DEF n
<1>5. Lists(r, S \cup {p})
  BY <1>4, ListsInsert
<1>6. /\ r \in Seq(Entries) /\ Len(r) = Len(q) + 1
      /\ \A i \in 1..Len(q)+1 : r[i] = IF i < n THEN q[i] ELSE IF i = n THEN Entry(p, k) ELSE q[i-1]
  BY <1>1, <1>4, InsertAtIs DEF Inserted
<1> HIDE DEF r
<1>7. DOMAIN r = 1..Len(q)+1
  BY <1>1, <1>6
<1>8. ASSUME NEW i \in DOMAIN r, i < n
      PROVE  i \in DOMAIN q /\ i \in Int /\ r[i] = q[i] /\ q[i].key >= k
  BY <1>1, <1>4, <1>6, <1>7, <1>8
<1>9. r[n] = Entry(p, k) /\ n \in Int
  BY <1>1, <1>4, <1>6, <1>7
<1>10. ASSUME Ordered(q), NEW i \in DOMAIN r, i > n
       PROVE  i - 1 \in DOMAIN q /\ i \in Int /\ r[i] = q[i-1] /\ q[i-1].key < k
  <2>1. i - 1 \in DOMAIN q /\ i \in Int /\ r[i] = q[i-1] /\ n <= i - 1 /\ n \in DOMAIN q
    BY <1>1, <1>4, <1>6, <1>7, <1>10
  <2>2. n = i - 1 \/ q[i-1].key <= q[n].key
    BY <1>1, <1>10, <2>1 DEF Ordered
  <2>3. q[n].key < k
    BY <1>1, <1>4, <2>1
  <2> QED
    BY <1>2, <2>1, <2>2, <2>3
<1>11. Ordered(q) => Ordered(r)
  <2> SUFFICES ASSUME Ordered(q), NEW i \in DOMAIN r, NEW j \in DOMAIN r, i < j
               PROVE  r[j].key <= r[i].key
    BY DEF Ordered
  <2>0. i \in Int /\ j \in Int
    BY <1>1, <1>7
  <2>1. CASE j < n
    BY <1>8, <1>9, <2>0, <2>1 DEF Ordered
  <2>2. CASE j = n
    BY <1>1, <1>2, <1>8, <1>9, <2>0, <2>2
  <2>3. CASE j > n /\ i < n
    BY <1>2, <1>8, <1>10, <2>0, <2>3
  <2>4. CASE j > n /\ i = n
    BY <1>1, <1>2, <1>9, <1>10, <2>0, <2>4
  <2>5. CASE j > n /\ i > n
    <3>1. i - 1 \in DOMAIN q /\ r[i] = q[i-1] /\ j - 1 \in DOMAIN q /\ r[j] = q[j-1] /\ i - 1 < j - 1
      BY <1>10, <2>0, <2>5
    <3> QED
      BY <3>1 DEF Ordered
  <2> QED
    BY <1>9, <2>0, <2>1, <2>2, <2>3, <2>4, <2>5
<1>12. ASSUME NEW f, Keyed(q, f), k = f[p] PROVE Keyed(r, f)
  <2> SUFFICES ASSUME NEW i \in DOMAIN r PROVE r[i].key = f[r[i].pid]
    BY DEF Keyed
  <2>1. CASE i < n
    BY <1>8, <1>12, <2>1 DEF Keyed
  <2>2. CASE i = n
    BY <1>1, <1>9, <1>12, <2>2
  <2>3. CASE i > n
    <3>1. i - 1 \in DOMAIN q /\ r[i] = q[i-1]
      BY <1>1, <1>4, <1>6, <1>7, <2>3
    <3> QED
      BY <1>12, <3>1 DEF Keyed
  <2> QED
    BY <1>1, <1>7, <1>9, <2>1, <2>2, <2>3
<1>13. ASSUME q # <<>>, k <= Head(q).key PROVE Head(r) = Head(q)
  <2>1. Len(q) >= 1 /\ 1 \in DOMAIN q /\ Head(q) = q[1] /\ Head(r) = r[1] /\ 1 \in DOMAIN r
    BY <1>1, <1>6, <1>7, <1>13
  <2>2. n # 1
    BY <1>1, <1>2, <1>4, <1>13, <2>1
  <2> QED
    BY <1>4, <1>8, <2>1, <2>2
<1>14. Insert(q, p, k) = r
  BY DEF Insert, r, n
<1> HIDE DEF L
<1> QED
  BY <1>5, <1>11, <1>12, <1>13, <1>14

\* A list without one of its entries is in the same order.
LEMMA RemoveKeeps ==
    ASSUME NEW q, NEW S, Lists(q, S), NEW n \in DOMAIN q
    PROVE  /\ Ordered(q) => Ordered(RemoveAt(q, n))
           /\ \A f : Keyed(q, f) => Keyed(RemoveAt(q, n), f)
<1> DEFINE r == RemoveAt(q, n)
<1>1. q \in Seq(Entries) /\ Len(q) \in Nat /\ DOMAIN q = 1..Len(q)
  BY DEF Lists
<1>2. /\ r \in Seq(Entries) /\ Len(r) = Len(q) - 1
      /\ \A i \in 1..Len(q)-1 : r[i] = IF i < n THEN q[i] ELSE q[i+1]
  BY <1>1, RemoveAtIs
<1> HIDE DEF r
<1>3. DOMAIN r = 1..Len(q)-1
  BY <1>1, <1>2
<1>4. ASSUME NEW i \in DOMAIN r
      PROVE  \E a \in DOMAIN q : r[i] = q[a] /\ a = IF i < n THEN i ELSE i + 1
  <2>1. CASE i < n
    BY <1>1, <1>2, <1>3, <2>1
  <2>2. CASE i >= n
    <3>1. i + 1 \in DOMAIN q /\ r[i] = q[i+1] /\ ~(i < n)
      BY <1>1, <1>2, <1>3, <2>2
    <3> QED
      BY <3>1
  <2> QED
    BY <1>1, <1>3, <2>1, <2>2
<1>5. Ordered(q) => Ordered(r)
  <2> SUFFICES ASSUME Ordered(q), NEW i \in DOMAIN r, NEW j \in DOMAIN r, i < j
               PROVE  r[j].key <= r[i].key
    BY DEF Ordered
  <2>1. PICK a \in DOMAIN q : r[i] = q[a] /\ a = IF i < n THEN i ELSE i + 1
    BY <1>4
  <2>2. PICK b \in DOMAIN q : r[j] = q[b] /\ b = IF j < n THEN j ELSE j + 1
    BY <1>4
  <2>3. a < b
    BY <1>1, <1>3, <2>1, <2>2
  <2> QED
    BY <2>1, <2>2, <2>3 DEF Ordered
<1>6. ASSUME NEW f, Keyed(q, f) PROVE Keyed(r, f)
  BY <1>4, <1>6 DEF Keyed
<1> QED
  BY <1>5, <1>6 DEF r

-----------------------------------------------------------------------------
(* Queues of processes *)

LEMMA QueuesAppend ==
    ASSUME NEW q, NEW S, Queues(q, S), NEW p \in Pids, p \notin S
    PROVE  Queues(Append(q, p), S \cup {p}) /\ Len(Append(q, p)) = Len(q) + 1
<1> DEFINE r == Append(q, p)
<1>1. q \in Seq(Pids) /\ Len(q) \in Nat /\ DOMAIN q = 1..Len(q)
  BY DEF Queues
<1>2. /\ r \in Seq(Pids) /\ Len(r) = Len(q) + 1
      /\ \A i \in 1..Len(q) : r[i] = q[i]
      /\ r[Len(q)+1] = p
  BY <1>1, AppendProperties
<1> HIDE DEF r
<1>3. DOMAIN r = 1..Len(q)+1 /\ Len(q)+1 \in DOMAIN r /\ DOMAIN q \subseteq DOMAIN r
  BY <1>1, <1>2
<1>4. \A i \in DOMAIN q : q[i] # p
  BY DEF Queues
<1>5. \A i \in DOMAIN r : i \in DOMAIN q \/ i = Len(q) + 1
  BY <1>1, <1>3
<1>6. \A i, j \in DOMAIN r : r[i] = r[j] => i = j
  BY <1>1, <1>2, <1>4, <1>5 DEF Queues
<1>7. \A x \in Pids : x \in S \cup {p} <=> \E i \in DOMAIN r : r[i] = x
  BY <1>1, <1>2, <1>3, <1>5 DEF Queues
<1> QED
  BY <1>2, <1>6, <1>7 DEF Queues, r

LEMMA QueuesRemove ==
    ASSUME NEW q, NEW S, Queues(q, S), NEW p \in Pids, p \in S
    PROVE  LET r == RemoveAt(q, CHOOSE i \in DOMAIN q : q[i] = p)
           IN  Queues(r, S \ {p}) /\ Len(r) = Len(q) - 1 /\ Len(q) > 0
<1> DEFINE n == CHOOSE i \in DOMAIN q : q[i] = p
           r == RemoveAt(q, n)
<1>1. q \in Seq(Pids) /\ Len(q) \in Nat /\ DOMAIN q = 1..Len(q)
  BY DEF Queues
<1>2. n \in 1..Len(q) /\ q[n] = p
  BY <1>1 DEF Queues
<1> HIDE DEF n
<1>3. /\ r \in Seq(Pids) /\ Len(r) = Len(q) - 1
      /\ \A i \in 1..Len(q)-1 : r[i] = IF i < n THEN q[i] ELSE q[i+1]
  BY <1>1, <1>2, RemoveAtIs
<1> HIDE DEF r
<1>4. DOMAIN r = 1..Len(q)-1
  BY <1>1, <1>3
<1>5. ASSUME NEW i \in DOMAIN r
      PROVE  \E a \in DOMAIN q : r[i] = q[a] /\ a # n /\ a = IF i < n THEN i ELSE i + 1
  <2>1. CASE i < n
    BY <1>1, <1>2, <1>3, <1>4, <2>1
  <2>2. CASE i >= n
    <3>1. i + 1 \in 1..Len(q) /\ r[i] = q[i+1]
      BY <1>1, <1>2, <1>3, <1>4, <2>2
    <3> QED
      BY <1>1, <1>2, <2>2, <3>1
  <2> QED
    BY <1>1, <1>2, <1>4, <2>1, <2>2
<1>6. ASSUME NEW i \in DOMAIN r, NEW j \in DOMAIN r, r[i] = r[j] PROVE i = j
  <2>1. PICK a \in DOMAIN q : r[i] = q[a] /\ a # n /\ a = IF i < n THEN i ELSE i + 1
    BY <1>5
  <2>2. PICK b \in DOMAIN q : r[j] = q[b] /\ b # n /\ b = IF j < n THEN j ELSE j + 1
    BY <1>5
  <2>3. a = b
    BY <1>6, <2>1, <2>2 DEF Queues
  <2> QED
    BY <1>1, <1>2, <1>4, <2>1, <2>2, <2>3
<1>7. ASSUME NEW x \in Pids
      PROVE  x \in S \ {p} <=> \E i \in DOMAIN r : r[i] = x
  <2>1. ASSUME x # p, NEW i \in DOMAIN q, q[i] = x PROVE \E j \in DOMAIN r : r[j] = x
    <3>1. CASE i < n
      BY <1>1, <1>2, <1>3, <1>4, <2>1, <3>1
    <3>2. CASE i > n
      <4>1. i - 1 \in 1..Len(q)-1 /\ ~(i - 1 < n) /\ (i - 1) + 1 = i
        BY <1>1, <1>2, <3>2
      <4>2. r[i-1] = q[(i-1)+1]
        BY <1>3, <4>1
      <4> QED
        BY <1>4, <2>1, <4>1, <4>2
    <3> QED
      BY <1>1, <1>2, <2>1, <3>1, <3>2
  <2>2. ASSUME NEW i \in DOMAIN r, r[i] = x
        PROVE  x # p /\ \E j \in DOMAIN q : q[j] = x
    <3>1. PICK a \in DOMAIN q : r[i] = q[a] /\ a # n
      BY <1>5
    <3>2. q[a] # p
      BY <1>1, <1>2, <3>1 DEF Queues
    <3> QED
      BY <2>2, <3>1, <3>2
  <2> QED
    BY <2>1, <2>2 DEF Queues
<1>8. Queues(r, S \ {p})
  BY <1>3, <1>6, <1>7 DEF Queues
<1>9. Len(r) = Len(q) - 1 /\ Len(q) > 0
  BY <1>1, <1>2, <1>3
<1> QED
  BY <1>8, <1>9 DEF r, n

\* The first n processes leave a queue, and they are a queue.
LEMMA QueuesSuffix ==
    ASSUME NEW q, NEW S, Queues(q, S), NEW n \in 0..Len(q)
    PROVE  /\ Queues(SubSeq(q, n+1, Len(q)), S \ {q[i] : i \in 1..n})
           /\ Len(SubSeq(q, n+1, Len(q))) = Len(q) - n
           /\ Queues(SubSeq(q, 1, n), {q[i] : i \in 1..n})
           /\ {q[i] : i \in 1..n} \subseteq S \cap Pids
           /\ Len(SubSeq(q, 1, n)) = n
<1> DEFINE r == SubSeq(q, n+1, Len(q))
           t == SubSeq(q, 1, n)
           P == {q[i] : i \in 1..n}
<1>1. q \in Seq(Pids) /\ Len(q) \in Nat /\ DOMAIN q = 1..Len(q)
  BY DEF Queues
<1>2. /\ r \in Seq(Pids) /\ DOMAIN r = 1..Len(q)-n /\ \A i \in 1..Len(q)-n : r[i] = q[n+i]
      /\ Len(r) = Len(q) - n
      /\ t \in Seq(Pids) /\ DOMAIN t = 1..n /\ \A i \in 1..n : t[i] = q[i]
      /\ Len(t) = n
  <2>1. /\ r \in Seq(Pids) /\ Len(r) = Len(q) - n /\ \A i \in 1..Len(q)-n : r[i] = q[n+i]
        /\ t \in Seq(Pids) /\ Len(t) = n /\ \A i \in 1..n : t[i] = q[i]
    BY <1>1, SuffixIs
  <2> HIDE DEF r, t
  <2>2. DOMAIN r = 1..Len(q)-n /\ DOMAIN t = 1..n
    BY <1>1, <2>1
  <2> QED
    BY <2>1, <2>2
<1> HIDE DEF r, t
<1>3. ASSUME NEW i \in DOMAIN r
      PROVE  n + i \in DOMAIN q /\ r[i] = q[n+i] /\ i \in Int
  BY <1>1, <1>2
<1>4. ASSUME NEW i \in DOMAIN r, NEW j \in DOMAIN r, r[i] = r[j] PROVE i = j
  <2>1. n + i = n + j
    BY <1>3, <1>4 DEF Queues
  <2> QED
    BY <1>3, <2>1
<1>5. ASSUME NEW x \in Pids
      PROVE  x \in S \ P <=> \E i \in DOMAIN r : r[i] = x
  <2>1. ASSUME NEW i \in DOMAIN r, r[i] = x PROVE x \in S \ P
    <3>1. n + i \in DOMAIN q /\ q[n+i] = x /\ i > 0
      BY <1>2, <1>3, <2>1
    <3>2. ASSUME NEW j \in 1..n, q[j] = x PROVE FALSE
      <4>1. j \in DOMAIN q
        BY <1>1
      <4>2. j = n + i
        BY <3>1, <3>2, <4>1 DEF Queues
      <4> QED
        BY <1>3, <3>1, <4>2
    <3>3. x \in S
      BY <3>1 DEF Queues
    <3> QED
      BY <3>2, <3>3
  <2>2. ASSUME NEW i \in DOMAIN q, q[i] = x, x \notin P
        PROVE  \E j \in DOMAIN r : r[j] = x
    <3>1. i > n
      BY <1>1, <2>2
    <3>2. i - n \in 1..Len(q)-n /\ n + (i - n) = i
      BY <1>1, <3>1
    <3>3. r[i-n] = q[n + (i-n)]
      BY <1>2, <3>2
    <3> QED
      BY <1>2, <2>2, <3>2, <3>3
  <2> QED
    BY <2>1, <2>2 DEF Queues
<1>6. \A i \in DOMAIN t : i \in DOMAIN q /\ t[i] = q[i]
  BY <1>1, <1>2
<1>7. Queues(t, P)
  <2>1. \A i, j \in DOMAIN t : t[i] = t[j] => i = j
    BY <1>6 DEF Queues
  <2>2. \A x \in Pids : x \in P <=> \E i \in DOMAIN t : t[i] = x
    BY <1>2, <1>6
  <2> QED
    BY <1>2, <2>1, <2>2 DEF Queues
<1>8. P \subseteq S \cap Pids
  <2> SUFFICES ASSUME NEW i \in 1..n PROVE q[i] \in S \cap Pids
    OBVIOUS
  <2>1. i \in DOMAIN q /\ q[i] \in Pids
    BY <1>1, ElementOfSeq
  <2> QED
    BY <2>1 DEF Queues
<1> HIDE DEF P
<1> QED
  BY <1>2, <1>4, <1>5, <1>7, <1>8 DEF Queues, r, t, P

-----------------------------------------------------------------------------
(* ready() for several processes *)

\* The recursive function of Readied exists and does what it says.
LEMMA ReadiedFunction ==
    ASSUME NEW ps, Len(ps) \in Nat
    PROVE  \E rl : /\ Readied(ps) = rl[Len(ps)]
                   /\ rl[0] = readylist
                   /\ \A i \in 1..Len(ps) : rl[i] = Insert(rl[i - 1], ps[i], prprio[ps[i]])
<1> DEFINE Eq(f, m) == f = [i \in 0..m |-> IF i = 0 THEN readylist
                                          ELSE Insert(f[i - 1], ps[i], prprio[ps[i]])]
           Bad == {m \in Nat : ~\E f : Eq(f, m)}
<1>1. Bad = {}
  <2> SUFFICES ASSUME Bad # {} PROVE FALSE
    OBVIOUS
  <2>1. PICK m \in Bad : \A n \in Bad : m <= n
    BY LeastNat
  <2>2. m # 0
    <3>1. Eq([i \in 0..0 |-> readylist], 0)
      OBVIOUS
    <3> QED
      BY <2>1, <3>1
  <2>3. m - 1 \in Nat /\ m - 1 \notin Bad
    BY <2>1, <2>2
  <2>4. PICK f : Eq(f, m - 1)
    BY <2>3
  <2> DEFINE g == [i \in 0..m |-> IF i = m THEN Insert(f[m - 1], ps[m], prprio[ps[m]]) ELSE f[i]]
  <2>5. \A i \in 0..m-1 : g[i] = f[i]
    BY <2>1
  <2>6. \A i \in 0..m-1 : f[i] = IF i = 0 THEN readylist ELSE Insert(f[i - 1], ps[i], prprio[ps[i]])
    BY <2>4
  <2>7. ASSUME NEW i \in 0..m
        PROVE  g[i] = IF i = 0 THEN readylist ELSE Insert(g[i - 1], ps[i], prprio[ps[i]])
    <3>1. CASE i = m
      <4>1. g[m] = Insert(f[m - 1], ps[m], prprio[ps[m]]) /\ m - 1 \in 0..m-1
        BY <2>1, <2>2
      <4> QED
        BY <2>2, <2>5, <3>1, <4>1
    <3>2. CASE i # m /\ i # 0
      <4>1. i \in 0..m-1 /\ i - 1 \in 0..m-1
        BY <2>1, <3>2
      <4> QED
        BY <2>5, <2>6, <3>2, <4>1
    <3>3. CASE i = 0
      <4>1. i \in 0..m-1
        BY <2>1, <2>2, <3>3
      <4> QED
        BY <2>5, <2>6, <3>3, <4>1
    <3> QED
      BY <3>1, <3>2, <3>3
  <2>8. Eq(g, m)
    BY <2>7
  <2> QED
    BY <2>1, <2>8
<1>2. PICK f : Eq(f, Len(ps))
  BY <1>1
<1> DEFINE rl == CHOOSE r : Eq(r, Len(ps))
<1>3. Eq(rl, Len(ps))
  BY <1>2
<1>4. Readied(ps) = rl[Len(ps)]
  BY DEF Readied
<1> HIDE DEF rl
<1>5. rl[0] = readylist
  BY <1>3
<1>6. \A i \in 1..Len(ps) : rl[i] = Insert(rl[i - 1], ps[i], prprio[ps[i]])
  BY <1>3
<1> QED
  BY <1>4, <1>5, <1>6

\* Making the processes P ready puts them into the ready list, in order.
LEMMA ReadiedIs ==
    ASSUME NEW S, Lists(readylist, S), Ordered(readylist), NEW P, NEW ps, Queues(ps, P), P \cap S = {},
           prprio \in [Pids -> Int]
    PROVE  /\ Lists(Readied(ps), S \cup P)
           /\ Ordered(Readied(ps))
           /\ Keyed(readylist, prprio) => Keyed(Readied(ps), prprio)
<1>1. ps \in Seq(Pids) /\ Len(ps) \in Nat /\ DOMAIN ps = 1..Len(ps)
  BY DEF Queues
<1>2. PICK rl : /\ Readied(ps) = rl[Len(ps)]
                /\ rl[0] = readylist
                /\ \A i \in 1..Len(ps) : rl[i] = Insert(rl[i - 1], ps[i], prprio[ps[i]])
  BY <1>1, ReadiedFunction
<1> DEFINE Some(m) == {ps[i] : i \in 1..m}
           Good(m) == /\ Lists(rl[m], S \cup Some(m))
                      /\ Ordered(rl[m])
                      /\ Keyed(readylist, prprio) => Keyed(rl[m], prprio)
           Bad == {m \in 0..Len(ps) : ~Good(m)}
<1>3. Good(0)
  <2>1. S \cup Some(0) = S
    OBVIOUS
  <2> QED
    BY <1>2, <2>1
<1>4. ASSUME NEW m \in 1..Len(ps), Good(m - 1) PROVE Good(m)
  <2>1. ps[m] \in Pids /\ prprio[ps[m]] \in Int /\ m \in DOMAIN ps
    BY <1>1, ElementOfSeq
  <2>2. ps[m] \notin S \cup Some(m - 1)
    <3>1. ps[m] \in P
      BY <2>1 DEF Queues
    <3>2. ASSUME NEW i \in 1..m-1, ps[i] = ps[m] PROVE FALSE
      <4>1. i \in DOMAIN ps /\ i # m
        BY <1>1
      <4> QED
        BY <2>1, <3>2, <4>1 DEF Queues
    <3> QED
      BY <3>1, <3>2
  <2>3. rl[m] = Insert(rl[m - 1], ps[m], prprio[ps[m]])
    BY <1>2
  <2>4. (S \cup Some(m - 1)) \cup {ps[m]} = S \cup Some(m)
    <3>1. 1..m = 1..m-1 \cup {m}
      OBVIOUS
    <3> QED
      BY <3>1
  <2> HIDE DEF Some
  <2> DEFINE T == S \cup Some(m - 1)
             q == rl[m - 1]
             k == prprio[ps[m]]
  <2>5. Lists(q, T) /\ ps[m] \notin T /\ k \in Int /\ Ordered(q)
    BY <1>4, <2>1, <2>2
  <2>6. (T \cup {ps[m]}) = S \cup Some(m)
    BY <2>4
  <2>7. Keyed(readylist, prprio) => Keyed(q, prprio)
    BY <1>4
  <2>8. k = prprio[ps[m]] /\ rl[m] = Insert(q, ps[m], k)
    BY <2>3
  <2> HIDE DEF T, q, k
  <2>9. /\ Lists(Insert(q, ps[m], k), T \cup {ps[m]})
        /\ Ordered(q) => Ordered(Insert(q, ps[m], k))
        /\ \A f : Keyed(q, f) /\ k = f[ps[m]] => Keyed(Insert(q, ps[m], k), f)
    BY <2>1, <2>5, InsertKeeps
  <2> QED
    BY <2>5, <2>6, <2>7, <2>8, <2>9
<1>5. Bad = {}
  <2> HIDE DEF Good
  <2> SUFFICES ASSUME Bad # {} PROVE FALSE
    OBVIOUS
  <2>1. Bad \subseteq Nat
    BY <1>1
  <2>2. PICK m \in Bad : \A n \in Bad : m <= n
    BY <2>1, LeastNat
  <2>3. m # 0 /\ m \in 0..Len(ps)
    BY <1>3, <2>2
  <2>4. m - 1 \in 0..Len(ps) /\ m - 1 \notin Bad /\ m \in 1..Len(ps)
    BY <1>1, <2>1, <2>2, <2>3
  <2>5. Good(m - 1)
    BY <2>4
  <2> QED
    BY <1>4, <2>2, <2>4, <2>5
<1>6. Good(Len(ps))
  <2> HIDE DEF Good
  <2> QED
    BY <1>1, <1>5
<1>7. \A x \in Pids : x \in S \cup Some(Len(ps)) <=> x \in S \cup P
  BY <1>1 DEF Queues
<1> HIDE DEF Some
<1>8. Lists(rl[Len(ps)], S \cup P)
  BY <1>6, <1>7 DEF Lists
<1> QED
  BY <1>2, <1>6, <1>8

-----------------------------------------------------------------------------
(* resched() *)

States == {"FREE", "CURR", "READY", "RECV", "SLEEP", "SUSP", "WAIT", "RECTIM"}

\* The first entry leaves a list.
LEMMA TailKeeps ==
    ASSUME NEW q, NEW S, Lists(q, S), q # <<>>
    PROVE  /\ Head(q).pid \in S \cap Pids
           /\ Lists(Tail(q), S \ {Head(q).pid})
           /\ Ordered(q) => Ordered(Tail(q)) /\ \A i \in DOMAIN Tail(q) : Tail(q)[i].key <= Head(q).key
           /\ \A f : Keyed(q, f) => Keyed(Tail(q), f) /\ Head(q).key = f[Head(q).pid]
<1>1. q \in Seq(Entries) /\ Len(q) \in Nat /\ DOMAIN q = 1..Len(q) /\ Len(q) >= 1 /\ Head(q) = q[1] /\ 1 \in DOMAIN q
  BY DEF Lists
<1>2. Head(q).pid \in S \cap Pids
  <2>1. q[1] \in Entries
    BY <1>1, ElementOfSeq
  <2>2. q[1].pid \in Pids
    BY <2>1 DEF Entries
  <2> QED
    BY <1>1, <2>2 DEF Lists
<1>3. /\ Tail(q) = SubSeq(q, 2, Len(q))
      /\ DOMAIN Tail(q) = 1..Len(q)-1
      /\ \A i \in 1..Len(q)-1 : Tail(q)[i] = q[i+1]
  <2>1. /\ Tail(q) \in Seq(Entries) /\ Len(Tail(q)) = Len(q) - 1
        /\ \A i \in 1..Len(Tail(q)) : Tail(q)[i] = q[i+1]
    BY <1>1, HeadTailProperties
  <2>2. Tail(q) = SubSeq(q, 2, Len(q))
    BY <1>1, TailIsSubSeq
  <2> QED
    BY <1>1, <2>1, <2>2
<1>4. Lists(Tail(q), S \ {Head(q).pid})
  <2>1. 1 \in 0..Len(q) /\ 1 + 1 = 2
    BY <1>1
  <2>2. Lists(SubSeq(q, 1+1, Len(q)), S \ {q[i].pid : i \in 1..1})
    BY <2>1, ListsSuffix
  <2>3. {q[i].pid : i \in 1..1} = {Head(q).pid}
    <3>1. 1..1 = {1}
      OBVIOUS
    <3> QED
      BY <1>1, <3>1
  <2> QED
    BY <1>3, <2>1, <2>2, <2>3
<1>5. ASSUME NEW i \in DOMAIN Tail(q)
      PROVE  i + 1 \in DOMAIN q /\ Tail(q)[i] = q[i+1] /\ i \in Int /\ 1 < i + 1
  BY <1>1, <1>3
<1>6. ASSUME Ordered(q), NEW i \in DOMAIN Tail(q), NEW j \in DOMAIN Tail(q), i < j
      PROVE  Tail(q)[j].key <= Tail(q)[i].key
  <2>1. i + 1 < j + 1
    BY <1>5, <1>6
  <2> QED
    BY <1>5, <1>6, <2>1 DEF Ordered
<1>7. ASSUME Ordered(q), NEW i \in DOMAIN Tail(q) PROVE Tail(q)[i].key <= Head(q).key
  BY <1>1, <1>5, <1>7 DEF Ordered
<1>8. ASSUME NEW f, Keyed(q, f) PROVE Keyed(Tail(q), f) /\ Head(q).key = f[Head(q).pid]
  BY <1>1, <1>5, <1>8 DEF Keyed
<1>9. Ordered(q) => Ordered(Tail(q))
  BY <1>6 DEF Ordered
<1> QED
  BY <1>2, <1>4, <1>7, <1>8, <1>9

\* The states st, the ready list rl and the current process c agree.
SchedOK(st, rl, c) ==
    /\ st \in [Pids -> States]
    /\ c \in Pids
    /\ \A p \in Pids : st[p] = "CURR" <=> p = c
    /\ st[NULLPROC] \in {"READY", "CURR"}
    /\ Lists(rl, {p \in Pids : st[p] = "READY"})
    /\ Ordered(rl)

\* The keys of the ready list are the priorities, and c has the highest.
TopRuns(f, rl, c) == Keyed(rl, f) /\ \A i \in DOMAIN rl : rl[i].key <= f[c]

\* Nothing but which process is current has changed between st and st2.
Switched(st, st2) ==
    \A p \in Pids : st2[p] = st[p] \/ {st[p], st2[p]} \subseteq {"CURR", "READY"}

LEMMA ReschedKeeps ==
    ASSUME NEW st \in [Pids -> States], NEW rl,
           currpid \in Pids, \A p \in Pids : st[p] = "CURR" => p = currpid,
           st[NULLPROC] \in {"READY", "CURR"}, NULLPROC \in Pids,
           Lists(rl, {p \in Pids : st[p] = "READY"}), Ordered(rl),
           prprio \in [Pids -> Int], QUANTUM \in Nat \ {0}, preempt \in 1..QUANTUM
    PROVE  LET s == Resched(st, rl)
           IN  /\ SchedOK(s.prstate, s.readylist, s.currpid)
               /\ Switched(st, s.prstate)
               /\ Keyed(rl, prprio) => TopRuns(prprio, s.readylist, s.currpid)
               /\ s.preempt \in 1..QUANTUM
<1> DEFINE s == Resched(st, rl)
           R == {p \in Pids : st[p] = "READY"}
           c == currpid
           stays == st[c] = "CURR"
           rl2 == IF stays THEN Insert(rl, c, prprio[c]) ELSE rl
           next == Head(rl2).pid
           st2 == [p \in Pids |-> IF p = next THEN "CURR" ELSE IF p = c /\ stays THEN "READY" ELSE st[p]]
           same == stays /\ (rl = <<>> \/ prprio[c] > Head(rl).key)
           Kept == /\ SchedOK(s.prstate, s.readylist, s.currpid)
                   /\ Switched(st, s.prstate)
                   /\ Keyed(rl, prprio) => TopRuns(prprio, s.readylist, s.currpid)
                   /\ s.preempt \in 1..QUANTUM
<1>1. /\ c \in Pids /\ prprio[c] \in Int
      /\ rl \in Seq(Entries) /\ DOMAIN rl = 1..Len(rl) /\ Len(rl) \in Nat
  BY DEF Lists
<1>2. /\ same => s.prstate = st /\ s.readylist = rl /\ s.currpid = c /\ s.preempt = preempt
      /\ ~same => s.prstate = st2 /\ s.readylist = Tail(rl2) /\ s.currpid = next /\ s.preempt = QUANTUM
  BY DEF Resched
<1>3. rl # <<>> => Head(rl).pid \in Pids /\ Head(rl).key \in Int /\ st[Head(rl).pid] = "READY"
  <2> SUFFICES ASSUME rl # <<>> PROVE Head(rl).pid \in Pids /\ Head(rl).key \in Int /\ st[Head(rl).pid] = "READY"
    OBVIOUS
  <2>1. Head(rl) \in Entries
    BY <1>1, HeadTailProperties
  <2>2. Head(rl).pid \in R \cap Pids
    BY TailKeeps
  <2> QED
    BY <2>1, <2>2 DEF Entries
<1>4. ASSUME same PROVE Kept
  <2>1. SchedOK(st, rl, c)
    BY <1>4 DEF SchedOK
  <2>2. ASSUME Keyed(rl, prprio) PROVE TopRuns(prprio, rl, c)
    <3> SUFFICES ASSUME NEW i \in DOMAIN rl PROVE rl[i].key <= prprio[c]
      BY <2>2 DEF TopRuns
    <3>1. rl # <<>> /\ Head(rl) = rl[1] /\ 1 \in DOMAIN rl /\ rl[i] \in Entries
      BY <1>1, ElementOfSeq
    <3>2. rl[i].key <= rl[1].key
      <4>1. rl[i].key \in Int
        BY <3>1 DEF Entries
      <4>2. i = 1 \/ 1 < i
        BY <1>1
      <4> QED
        BY <3>1, <4>1, <4>2 DEF Ordered
    <3>3. rl[i].key \in Int /\ rl[1].key \in Int /\ rl[1].key < prprio[c]
      BY <1>1, <1>3, <1>4, <3>1 DEF Entries
    <3> QED
      BY <1>1, <3>2, <3>3
  <2>3. Switched(st, st)
    BY DEF Switched
  <2> HIDE DEF s
  <2> QED
    BY <1>2, <1>4, <2>1, <2>2, <2>3
<1>5. ASSUME ~same PROVE Kept
  <2>1. /\ Lists(rl2, IF stays THEN R \cup {c} ELSE R)
        /\ Ordered(rl2)
        /\ Keyed(rl, prprio) => Keyed(rl2, prprio)
        /\ rl2 # <<>>
        /\ next \in Pids /\ st[next] = "READY"
        /\ stays => prprio[c] <= Head(rl2).key
    <3>1. CASE stays
      <4>1. rl # <<>> /\ prprio[c] <= Head(rl).key
        BY <1>1, <1>3, <1>5, <3>1
      <4>2. c \notin R
        BY <3>1
      <4>3. /\ Lists(Insert(rl, c, prprio[c]), R \cup {c})
            /\ Ordered(Insert(rl, c, prprio[c]))
            /\ Keyed(rl, prprio) => Keyed(Insert(rl, c, prprio[c]), prprio)
            /\ Head(Insert(rl, c, prprio[c])) = Head(rl)
        <5> HIDE DEF R
        <5>1. Lists(rl, R)
          BY DEF R
        <5> DEFINE k == prprio[c]
        <5>2. k \in Int /\ k <= Head(rl).key
          BY <1>1, <4>1
        <5> HIDE DEF k
        <5>3. /\ Lists(Insert(rl, c, k), R \cup {c})
              /\ Ordered(rl) => Ordered(Insert(rl, c, k))
              /\ \A f : Keyed(rl, f) /\ k = f[c] => Keyed(Insert(rl, c, k), f)
              /\ rl # <<>> /\ k <= Head(rl).key => Head(Insert(rl, c, k)) = Head(rl)
          BY <1>1, <4>2, <5>1, <5>2, InsertKeeps
        <5>4. k = prprio[c]
          BY DEF k
        <5> QED
          BY <4>1, <5>2, <5>3, <5>4
      <4>4. Insert(rl, c, prprio[c]) # <<>>
        <5>1. c \in R \cup {c}
          OBVIOUS
        <5> QED
          BY <1>1, <4>3, <5>1 DEF Lists
      <4> QED
        BY <1>3, <3>1, <4>1, <4>3, <4>4
    <3>2. CASE ~stays
      <4>1. NULLPROC \in R
        BY <3>2
      <4>2. rl # <<>>
        BY <4>1 DEF Lists
      <4> QED
        BY <1>3, <3>2, <4>2
    <3> QED
      BY <3>1, <3>2
  <2> DEFINE S2 == IF stays THEN R \cup {c} ELSE R
  <2>2. /\ Lists(Tail(rl2), S2 \ {next})
        /\ Ordered(Tail(rl2)) /\ \A i \in DOMAIN Tail(rl2) : Tail(rl2)[i].key <= Head(rl2).key
        /\ Keyed(rl2, prprio) => Keyed(Tail(rl2), prprio) /\ Head(rl2).key = prprio[next]
    <3>1. Lists(rl2, S2) /\ Ordered(rl2) /\ rl2 # <<>>
      BY <2>1
    <3> HIDE DEF rl2, S2
    <3> QED
      BY <3>1, TailKeeps
  <2>3. st2 \in [Pids -> States] /\ \A p \in Pids : st2[p] = "CURR" <=> p = next
    <3> HIDE DEF next, rl2
    <3>1. \A p \in Pids : st[p] = "CURR" => p = c /\ stays
      OBVIOUS
    <3>2. \A p \in Pids : st[p] \in States
      OBVIOUS
    <3>3. ASSUME NEW p \in Pids PROVE st2[p] \in States
      BY <3>2 DEF States
    <3>4. ASSUME NEW p \in Pids PROVE st2[p] = "CURR" <=> p = next
      BY <3>1
    <3> QED
      BY <3>3, <3>4
  <2>4. {p \in Pids : st2[p] = "READY"} = S2 \ {next}
    <3>1. next # c \/ ~stays
      BY <2>1
    <3> HIDE DEF next, rl2
    <3> QED
      BY <3>1
  <2>5. Switched(st, st2) /\ st2[NULLPROC] \in {"READY", "CURR"}
    <3>1. Switched(st, st2)
      <4> SUFFICES ASSUME NEW p \in Pids PROVE st2[p] = st[p] \/ {st[p], st2[p]} \subseteq {"CURR", "READY"}
        BY DEF Switched
      <4>1. st[next] = "READY"
        BY <2>1
      <4> HIDE DEF next, rl2
      <4>2. CASE p = next
        BY <4>1, <4>2
      <4>3. CASE p # next /\ p = c /\ stays
        BY <4>3
      <4>4. CASE p # next /\ ~(p = c /\ stays)
        BY <4>4
      <4> QED
        BY <4>2, <4>3, <4>4
    <3> HIDE DEF st2
    <3> QED
      BY <3>1 DEF Switched
  <2> HIDE DEF st2, S2
  <2>6. SchedOK(st2, Tail(rl2), next)
    BY <2>1, <2>2, <2>3, <2>4, <2>5 DEF SchedOK
  <2>7. Keyed(rl, prprio) => TopRuns(prprio, Tail(rl2), next)
    BY <2>1, <2>2 DEF TopRuns
  <2>8. QUANTUM \in 1..QUANTUM
    OBVIOUS
  <2> HIDE DEF s, rl2, next, same
  <2> QED
    BY <1>2, <1>5, <2>5, <2>6, <2>7, <2>8
<1>6. Kept
  BY <1>4, <1>5
<1> QED
  BY <1>6

-----------------------------------------------------------------------------
(* Delta lists *)

\* The recursive function of Elapsed exists: the sums are integers, and the
\* next one adds the next key.
LEMMA ElapsedIs ==
    ASSUME NEW q, NEW S, Lists(q, S)
    PROVE  /\ Elapsed(q, 0) = 0
           /\ \A n \in 1..Len(q) : Elapsed(q, n) = Elapsed(q, n - 1) + q[n].key
           /\ \A n \in 1..Len(q) : q[n].key \in Int /\ q[n].pid \in Pids
           /\ \A n \in 0..Len(q) : Elapsed(q, n) \in Int
<1> DEFINE Eq(f, m) == f = [i \in 0..m |-> IF i = 0 THEN 0 ELSE f[i - 1] + q[i].key]
           Bad == {m \in Nat : ~\E f : Eq(f, m)}
<1>0. q \in Seq(Entries) /\ Len(q) \in Nat
  BY DEF Lists
<1>1. Bad = {}
  <2> SUFFICES ASSUME Bad # {} PROVE FALSE
    OBVIOUS
  <2>1. PICK m \in Bad : \A n \in Bad : m <= n
    BY LeastNat
  <2>2. m # 0
    <3>1. Eq([i \in 0..0 |-> 0], 0)
      OBVIOUS
    <3> QED
      BY <2>1, <3>1
  <2>3. m - 1 \in Nat /\ m - 1 \notin Bad
    <3>1. m \in Nat
      BY <2>1
    <3> HIDE DEF Bad
    <3> QED
      BY <2>1, <2>2, <3>1
  <2>4. PICK f : Eq(f, m - 1)
    BY <2>3
  <2> DEFINE g == [i \in 0..m |-> IF i = m THEN f[m - 1] + q[m].key ELSE f[i]]
  <2>5. \A i \in 0..m-1 : g[i] = f[i]
    BY <2>1
  <2>6. \A i \in 0..m-1 : f[i] = IF i = 0 THEN 0 ELSE f[i - 1] + q[i].key
    BY <2>4
  <2>7. ASSUME NEW i \in 0..m
        PROVE  g[i] = IF i = 0 THEN 0 ELSE g[i - 1] + q[i].key
    <3>1. CASE i = m
      <4>1. g[m] = f[m - 1] + q[m].key /\ m - 1 \in 0..m-1
        BY <2>1, <2>2
      <4> QED
        BY <2>2, <2>5, <3>1, <4>1
    <3>2. CASE i # m /\ i # 0
      <4>1. i \in 0..m-1 /\ i - 1 \in 0..m-1
        BY <2>1, <3>2
      <4> QED
        BY <2>5, <2>6, <3>2, <4>1
    <3>3. CASE i = 0
      <4>1. i \in 0..m-1
        BY <2>1, <2>2, <3>3
      <4> QED
        BY <2>5, <2>6, <3>3, <4>1
    <3> QED
      BY <3>1, <3>2, <3>3
  <2>8. Eq(g, m)
    BY <2>7
  <2> QED
    BY <2>1, <2>8
<1>2. PICK f : Eq(f, Len(q))
  BY <1>0, <1>1
<1> DEFINE sum == CHOOSE r : Eq(r, Len(q))
<1>3. Eq(sum, Len(q))
  BY <1>2
<1>4. \A n : Elapsed(q, n) = sum[n]
  BY DEF Elapsed
<1> HIDE DEF sum
<1>5. sum[0] = 0
  BY <1>0, <1>3
<1>6. \A i \in 1..Len(q) : sum[i] = sum[i - 1] + q[i].key
  BY <1>0, <1>3
<1>7. \A n \in 1..Len(q) : q[n].key \in Int /\ q[n].pid \in Pids
  <2> TAKE n \in 1..Len(q)
  <2>1. q[n] \in Entries
    BY <1>0, ElementOfSeq
  <2> QED
    BY <2>1 DEF Entries
<1> DEFINE Not == {n \in 0..Len(q) : sum[n] \notin Int}
<1>8. Not = {}
  <2> SUFFICES ASSUME Not # {} PROVE FALSE
    OBVIOUS
  <2>1. Not \subseteq Nat
    BY <1>0
  <2>2. PICK n \in Not : \A m \in Not : n <= m
    BY <2>1, LeastNat
  <2>3. n # 0 /\ n \in Nat
    BY <1>5, <2>1, <2>2
  <2>4. n - 1 \in 0..Len(q) /\ n - 1 \notin Not /\ n \in 1..Len(q)
    BY <1>0, <2>2, <2>3
  <2>5. sum[n - 1] \in Int /\ q[n].key \in Int /\ sum[n] \notin Int
    BY <1>7, <2>2, <2>4
  <2> QED
    BY <1>6, <2>4, <2>5
<1> QED
  BY <1>4, <1>5, <1>6, <1>7, <1>8

\* Whatever starts at 0 and adds the keys is the elapsed time.
LEMMA ElapsedOnly ==
    ASSUME NEW q, NEW S, Lists(q, S), NEW g, g[0] = 0,
           \A n \in 1..Len(q) : g[n] = g[n - 1] + q[n].key
    PROVE  \A n \in 0..Len(q) : Elapsed(q, n) = g[n]
<1> DEFINE Not == {n \in 0..Len(q) : Elapsed(q, n) # g[n]}
<1>0. Len(q) \in Nat
  BY DEF Lists
<1>1. Not = {}
  <2> SUFFICES ASSUME Not # {} PROVE FALSE
    OBVIOUS
  <2>1. Not \subseteq Nat
    BY <1>0
  <2>2. PICK n \in Not : \A m \in Not : n <= m
    BY <2>1, LeastNat
  <2>3. n # 0 /\ n \in Nat
    BY <2>1, <2>2, ElapsedIs
  <2>4. n - 1 \in 0..Len(q) /\ n - 1 \notin Not /\ n \in 1..Len(q)
    BY <1>0, <2>2, <2>3
  <2>5. Elapsed(q, n) = Elapsed(q, n - 1) + q[n].key
    BY <2>4, ElapsedIs
  <2> QED
    BY <2>2, <2>4, <2>5
<1> QED
  BY <1>1

NonNeg(q) == \A i \in DOMAIN q : q[i].key >= 0

\* Everyone in r but the processes of P is in q, with the same time to go.
SameTimes(r, q, P) ==
    \A j \in DOMAIN r : r[j].pid \notin P =>
        \E i \in DOMAIN q : q[i].pid = r[j].pid /\ Elapsed(q, i) = Elapsed(r, j)

\* insertd() gives the process its time and leaves the others theirs.
LEMMA InsertDKeeps ==
    ASSUME NEW q, NEW S, Lists(q, S), NEW p \in Pids, p \notin S, NEW d \in Nat
    PROVE  LET r == InsertD(q, p, d)
           IN  /\ Lists(r, S \cup {p})
               /\ NonNeg(q) => NonNeg(r)
               /\ SameTimes(r, q, {p})
               /\ \A j \in DOMAIN r : r[j].pid = p => Elapsed(r, j) = d
<1> DEFINE L == {n \in DOMAIN q : Elapsed(q, n) > d} \cup {Len(q) + 1}
           i == First(L)
           k == d - Elapsed(q, i - 1)
           rest == IF i > Len(q) THEN q ELSE [q EXCEPT ![i].key = @ - k]
           r == InsertAt(rest, i, Entry(p, k))
<1>1. q \in Seq(Entries) /\ Len(q) \in Nat /\ DOMAIN q = 1..Len(q)
  BY DEF Lists
<1> DEFINE E(n) == Elapsed(q, n)
<1>2. /\ E(0) = 0
      /\ \A n \in 1..Len(q) : E(n) = E(n - 1) + q[n].key
      /\ \A n \in 1..Len(q) : q[n].key \in Int /\ q[n].pid \in Pids
      /\ \A n \in 0..Len(q) : E(n) \in Int
  BY ElapsedIs
<1>3. i \in L /\ \A j \in L : i <= j
  <2>1. L \in SUBSET Nat /\ L # {}
    BY <1>1
  <2> HIDE DEF L
  <2> QED
    BY <2>1, FirstIs
<1>4. /\ i \in 1..Len(q)+1 /\ i \in Int /\ i - 1 \in 0..Len(q)
      /\ i <= Len(q) => E(i) > d
      /\ \A n \in 1..Len(q) : n < i => ~(E(n) > d)
  <2>1. i \in 1..Len(q)+1 /\ (i <= Len(q) => E(i) > d)
    BY <1>1, <1>3
  <2>2. ASSUME NEW n \in 1..Len(q), n < i, E(n) > d PROVE FALSE
    <3>1. n \in L
      BY <1>1, <2>2
    <3> HIDE DEF L, i
    <3> QED
      BY <1>3, <2>1, <2>2, <3>1
  <2> HIDE DEF i
  <2> QED
    BY <1>1, <2>1, <2>2
<1> HIDE DEF i, L
<1>5. k \in Int /\ k = d - E(i - 1) /\ E(i - 1) \in Int
  BY <1>2, <1>4
<1> HIDE DEF k
<1>6. /\ Lists(rest, S) /\ Len(rest) = Len(q)
      /\ \A j \in 1..Len(q) : /\ rest[j].pid = q[j].pid
                               /\ rest[j].key = IF j = i THEN q[i].key - k ELSE q[j].key
  <2>1. CASE i > Len(q)
    <3>1. rest = q /\ \A j \in 1..Len(q) : j # i
      BY <1>1, <1>4, <2>1
    <3> QED
      BY <3>1
  <2>2. CASE i <= Len(q)
    <3>1. i \in DOMAIN q /\ q[i].key - k \in Int /\ ~(i > Len(q))
      BY <1>1, <1>2, <1>4, <1>5, <2>2
    <3>2. rest = [q EXCEPT ![i].key = q[i].key - k]
      BY <3>1
    <3>3. q[i] = [pid |-> q[i].pid, key |-> q[i].key]
      <4>1. q[i] \in Entries
        BY <1>1, <3>1, ElementOfSeq
      <4> QED
        BY <4>1 DEF Entries
    <3>4. Lists(rest, S) /\ Len(rest) = Len(q)
      <4> DEFINE x == q[i].key - k
      <4>1. x \in Int
        BY <3>1
      <4> HIDE DEF x
      <4>2. Lists([q EXCEPT ![i].key = x], S) /\ Len([q EXCEPT ![i].key = x]) = Len(q)
        BY <3>1, <4>1, ListsKeys
      <4> QED
        BY <3>2, <4>2 DEF x
    <3>5. rest[i].pid = q[i].pid /\ rest[i].key = q[i].key - k
      BY <3>1, <3>2, <3>3
    <3>6. \A j \in 1..Len(q) : j # i => rest[j] = q[j]
      BY <1>1, <3>2
    <3> HIDE DEF rest
    <3> QED
      BY <3>4, <3>5, <3>6
  <2> QED
    BY <1>1, <1>4, <2>1, <2>2
<1> HIDE DEF rest
<1>7. Lists(r, S \cup {p})
  BY <1>4, <1>5, <1>6, ListsInsert
<1>8. /\ r \in Seq(Entries) /\ Len(r) = Len(q) + 1
      /\ \A j \in 1..Len(q)+1 : r[j] = IF j < i THEN rest[j] ELSE IF j = i THEN Entry(p, k) ELSE rest[j-1]
  <2>1. rest \in Seq(Entries) /\ Entry(p, k) \in Entries
    BY <1>5, <1>6 DEF Lists, Entries, Entry
  <2> HIDE DEF r
  <2> QED
    BY <1>4, <1>6, <2>1, InsertAtIs DEF r, Inserted
<1> HIDE DEF r
<1>9. DOMAIN r = 1..Len(q)+1
  BY <1>1, <1>8
<1>10. \A j \in 1..Len(q)+1 : j < i => j \in 1..Len(q) /\ r[j].pid = q[j].pid /\ r[j].key = q[j].key
  BY <1>1, <1>4, <1>6, <1>8
<1>11. r[i].pid = p /\ r[i].key = k
  BY <1>4, <1>8 DEF Entry
<1>12. \A j \in 1..Len(q)+1 : j > i =>
         /\ j - 1 \in 1..Len(q) /\ r[j].pid = q[j-1].pid
         /\ r[j].key = IF j = i + 1 THEN q[i].key - k ELSE q[j-1].key
  <2> TAKE j \in 1..Len(q)+1
  <2> HAVE j > i
  <2>1. j - 1 \in 1..Len(q) /\ r[j] = rest[j-1]
    BY <1>1, <1>4, <1>8
  <2>2. j - 1 = i <=> j = i + 1
    BY <1>4
  <2> QED
    BY <1>6, <2>1, <2>2
<1> DEFINE g == [j \in 0..Len(q)+1 |-> IF j < i THEN E(j) ELSE IF j = i THEN d ELSE E(j - 1)]
<1>13. \A n \in 0..Len(r) : Elapsed(r, n) = g[n]
  <2>1. g[0] = 0
    BY <1>1, <1>2, <1>4
  <2>2. ASSUME NEW n \in 1..Len(r) PROVE g[n] = g[n - 1] + r[n].key
    <3>0. n \in 1..Len(q)+1 /\ n - 1 \in 0..Len(q)+1 /\ n \in 0..Len(q)+1 /\ n \in Int
      BY <1>1, <1>8
    <3>1. CASE n < i
      <4>1. g[n] = E(n) /\ g[n - 1] = E(n - 1) /\ n \in 1..Len(q)
        BY <1>4, <1>10, <3>0, <3>1
      <4> QED
        BY <1>2, <1>10, <3>0, <3>1, <4>1
    <3>2. CASE n = i
      <4>1. g[n] = d /\ g[n - 1] = E(i - 1)
        BY <1>4, <3>0, <3>2
      <4> QED
        BY <1>5, <1>11, <3>2, <4>1
    <3>3. CASE n = i + 1
      <4>1. g[n] = E(n - 1) /\ g[n - 1] = d /\ n - 1 = i /\ n > i
        BY <1>4, <3>0, <3>3
      <4>2. i \in 1..Len(q) /\ r[n].key = q[i].key - k /\ q[i].key \in Int
        BY <1>2, <1>12, <3>0, <3>3, <4>1
      <4>3. E(i) = E(i - 1) + q[i].key
        BY <1>2, <4>2
      <4> HIDE DEF E, g
      <4> QED
        BY <1>5, <4>1, <4>2, <4>3
    <3>4. CASE n > i + 1
      <4>1. g[n] = E(n - 1) /\ g[n - 1] = E((n - 1) - 1) /\ n > i /\ n # i + 1
        BY <1>4, <3>0, <3>4
      <4>2. n - 1 \in 1..Len(q) /\ r[n].key = q[n-1].key
        BY <1>12, <3>0, <4>1
      <4>3. E(n - 1) = E((n - 1) - 1) + q[n-1].key
        BY <1>2, <4>2
      <4> QED
        BY <4>1, <4>2, <4>3
    <3> QED
      BY <1>4, <3>0, <3>1, <3>2, <3>3, <3>4
  <2> HIDE DEF g
  <2> QED
    BY <1>7, <2>1, <2>2, ElapsedOnly
<1>14. SameTimes(r, q, {p})
  <2> SUFFICES ASSUME NEW j \in DOMAIN r, r[j].pid # p
               PROVE  \E n \in DOMAIN q : q[n].pid = r[j].pid /\ Elapsed(q, n) = Elapsed(r, j)
    BY DEF SameTimes
  <2>0. j \in 0..Len(r) /\ j \in 1..Len(q)+1 /\ j # i /\ j \in Int
    BY <1>1, <1>8, <1>9, <1>11
  <2>1. CASE j < i
    <3>1. j \in 1..Len(q) /\ r[j].pid = q[j].pid /\ g[j] = E(j)
      BY <1>1, <1>10, <2>0, <2>1
    <3> QED
      BY <1>1, <1>13, <2>0, <3>1
  <2>2. CASE j > i
    <3>1. j - 1 \in 1..Len(q) /\ r[j].pid = q[j-1].pid /\ g[j] = E(j - 1)
      BY <1>1, <1>4, <1>12, <2>0, <2>2
    <3> QED
      BY <1>1, <1>13, <2>0, <3>1
  <2> QED
    BY <1>4, <2>0, <2>1, <2>2
<1>15. ASSUME NEW j \in DOMAIN r, r[j].pid = p PROVE Elapsed(r, j) = d
  <2>1. i \in DOMAIN r /\ i \in 0..Len(r)
    BY <1>1, <1>4, <1>8, <1>9
  <2>2. j = i
    BY <1>7, <1>11, <1>15, <2>1 DEF Lists
  <2>3. g[i] = d
    BY <1>1, <1>4
  <2> QED
    BY <1>13, <2>1, <2>2, <2>3
<1>16. ASSUME NonNeg(q), NEW j \in DOMAIN r PROVE r[j].key >= 0
  <2>0. \A n \in 1..Len(q) : q[n].key >= 0
    BY <1>1, <1>16 DEF NonNeg
  <2>1. CASE j < i
    BY <1>9, <1>10, <2>0, <2>1
  <2>2. CASE j = i
    <3>1. E(i - 1) <= d
      <4>1. CASE i = 1
        BY <1>2, <4>1
      <4>2. CASE i > 1
        <5>1. i - 1 \in 1..Len(q) /\ i - 1 < i
          BY <1>4, <4>2
        <5>2. ~(E(i - 1) > d)
          BY <1>4, <5>1
        <5> HIDE DEF E
        <5> QED
          BY <1>5, <5>2
      <4> QED
        BY <1>4, <4>1, <4>2
    <3> HIDE DEF E
    <3> QED
      BY <1>5, <1>11, <2>2, <3>1
  <2>3. CASE j = i + 1
    <3>1. i \in 1..Len(q) /\ r[j].key = q[i].key - k /\ j > i
      BY <1>4, <1>9, <1>12, <2>3
    <3>2. E(i) = E(i - 1) + q[i].key /\ q[i].key \in Int /\ E(i) > d /\ i \in 0..Len(q)
      BY <1>2, <1>4, <3>1
    <3> HIDE DEF E
    <3> QED
      BY <1>5, <3>1, <3>2
  <2>4. CASE j > i + 1
    <3>1. j - 1 \in 1..Len(q) /\ r[j].key = q[j-1].key
      BY <1>4, <1>9, <1>12, <2>4
    <3> QED
      BY <2>0, <3>1
  <2> QED
    BY <1>4, <1>9, <2>1, <2>2, <2>3, <2>4
<1>17. NonNeg(q) => NonNeg(r)
  BY <1>16 DEF NonNeg
<1>18. InsertD(q, p, d) = r
  BY DEF InsertD, r, rest, k, i, L
<1> QED
  BY <1>7, <1>14, <1>15, <1>17, <1>18

\* unsleep() takes the process out and leaves the others their times.
LEMMA UnsleepKeeps ==
    ASSUME NEW q, NEW S, Lists(q, S), NEW p \in Pids, p \in S
    PROVE  LET r == Unsleep(q, p)
           IN  /\ Lists(r, S \ {p})
               /\ NonNeg(q) => NonNeg(r)
               /\ SameTimes(r, q, {})
<1> DEFINE i == PlaceOf(q, p)
           mid == IF i < Len(q) THEN [q EXCEPT ![i + 1].key = @ + q[i].key] ELSE q
           r == RemoveAt(mid, i)
           E(n) == Elapsed(q, n)
<1>1. q \in Seq(Entries) /\ Len(q) \in Nat /\ DOMAIN q = 1..Len(q)
  BY DEF Lists
<1>2. /\ E(0) = 0
      /\ \A n \in 1..Len(q) : E(n) = E(n - 1) + q[n].key
      /\ \A n \in 1..Len(q) : q[n].key \in Int /\ q[n].pid \in Pids
      /\ \A n \in 0..Len(q) : E(n) \in Int
  BY ElapsedIs
<1>3. i \in 1..Len(q) /\ q[i].pid = p
  BY ListsRemove
<1> HIDE DEF i
<1>4. /\ Lists(mid, S) /\ Len(mid) = Len(q)
      /\ \A j \in 1..Len(q) : /\ mid[j].pid = q[j].pid
                               /\ mid[j].key = IF j = i + 1 THEN q[j].key + q[i].key ELSE q[j].key
  <2>1. CASE ~(i < Len(q))
    <3>1. mid = q /\ \A j \in 1..Len(q) : j # i + 1
      BY <1>1, <1>3, <2>1
    <3> QED
      BY <3>1
  <2>2. CASE i < Len(q)
    <3>1. i + 1 \in DOMAIN q /\ q[i+1].key + q[i].key \in Int
      BY <1>1, <1>2, <1>3, <2>2
    <3>2. mid = [q EXCEPT ![i + 1].key = q[i+1].key + q[i].key]
      BY <2>2, <3>1
    <3>3. q[i+1] = [pid |-> q[i+1].pid, key |-> q[i+1].key]
      <4>1. q[i+1] \in Entries
        BY <1>1, <3>1, ElementOfSeq
      <4> QED
        BY <4>1 DEF Entries
    <3>4. Lists(mid, S) /\ Len(mid) = Len(q)
      <4> DEFINE x == q[i+1].key + q[i].key
                 n == i + 1
      <4>1. x \in Int /\ n \in DOMAIN q
        BY <3>1
      <4>2. mid = [q EXCEPT ![n].key = x]
        BY <3>2
      <4> HIDE DEF x, n, mid
      <4>3. Lists([q EXCEPT ![n].key = x], S) /\ Len([q EXCEPT ![n].key = x]) = Len(q)
        BY <4>1, ListsKeys
      <4> QED
        BY <4>2, <4>3
    <3>5. mid[i+1].pid = q[i+1].pid /\ mid[i+1].key = q[i+1].key + q[i].key
      BY <3>1, <3>2, <3>3
    <3>6. \A j \in 1..Len(q) : j # i + 1 => mid[j] = q[j]
      BY <1>1, <3>2
    <3> HIDE DEF mid
    <3> QED
      BY <3>4, <3>5, <3>6
  <2> QED
    BY <1>1, <1>3, <2>1, <2>2
<1> HIDE DEF mid
<1>5. Lists(r, S \ {p})
  BY <1>3, <1>4, ListsRemoveAt
<1>6. /\ r \in Seq(Entries) /\ Len(r) = Len(q) - 1
      /\ \A j \in 1..Len(q)-1 : r[j] = IF j < i THEN mid[j] ELSE mid[j+1]
  <2>1. mid \in Seq(Entries) /\ i \in 1..Len(mid)
    BY <1>3, <1>4 DEF Lists
  <2> HIDE DEF r
  <2> QED
    BY <1>4, <2>1, RemoveAtIs DEF r
<1> HIDE DEF r
<1>7. DOMAIN r = 1..Len(q)-1
  BY <1>1, <1>6
<1>8. \A j \in 1..Len(q)-1 : j < i => j \in 1..Len(q) /\ r[j].pid = q[j].pid /\ r[j].key = q[j].key
  <2> TAKE j \in 1..Len(q)-1
  <2> HAVE j < i
  <2>1. j \in 1..Len(q) /\ r[j] = mid[j] /\ j # i + 1
    BY <1>1, <1>3, <1>6
  <2> QED
    BY <1>4, <2>1
<1>9. \A j \in 1..Len(q)-1 : j >= i =>
        /\ j + 1 \in 1..Len(q) /\ r[j].pid = q[j+1].pid
        /\ r[j].key = IF j = i THEN q[j+1].key + q[i].key ELSE q[j+1].key
  <2> TAKE j \in 1..Len(q)-1
  <2> HAVE j >= i
  <2>1. j + 1 \in 1..Len(q) /\ r[j] = mid[j+1]
    BY <1>1, <1>3, <1>6
  <2>2. j + 1 = i + 1 <=> j = i
    BY <1>3
  <2> QED
    BY <1>4, <2>1, <2>2
<1> DEFINE g == [j \in 0..Len(q)-1 |-> IF j < i THEN E(j) ELSE E(j + 1)]
<1>10. \A n \in 0..Len(r) : Elapsed(r, n) = g[n]
  <2>1. g[0] = 0
    BY <1>1, <1>2, <1>3
  <2>2. ASSUME NEW n \in 1..Len(r) PROVE g[n] = g[n - 1] + r[n].key
    <3>0. n \in 1..Len(q)-1 /\ n - 1 \in 0..Len(q)-1 /\ n \in 0..Len(q)-1 /\ n \in Int
      BY <1>1, <1>6
    <3>1. CASE n < i
      <4>1. g[n] = E(n) /\ g[n - 1] = E(n - 1) /\ n \in 1..Len(q)
        BY <1>3, <1>8, <3>0, <3>1
      <4> QED
        BY <1>2, <1>8, <3>0, <3>1, <4>1
    <3>2. CASE n = i
      <4>1. g[n] = E(i + 1) /\ g[n - 1] = E(i - 1) /\ n >= i
        BY <1>3, <3>0, <3>2
      <4>2. i + 1 \in 1..Len(q) /\ r[n].key = q[i+1].key + q[i].key
        BY <1>9, <3>0, <3>2, <4>1
      <4>3. E(i) = E(i - 1) + q[i].key
        BY <1>2, <1>3
      <4>4. E(i + 1) = E((i + 1) - 1) + q[i+1].key
        BY <1>2, <4>2
      <4>5. (i + 1) - 1 = i /\ i - 1 \in 0..Len(q)
        BY <1>3
      <4>6. E(i - 1) \in Int /\ q[i].key \in Int /\ q[i+1].key \in Int
        BY <1>2, <1>3, <4>2, <4>5
      <4> HIDE DEF E, g
      <4> QED
        BY <4>1, <4>2, <4>3, <4>4, <4>5, <4>6
    <3>3. CASE n > i
      <4>1. g[n] = E(n + 1) /\ g[n - 1] = E((n - 1) + 1) /\ n >= i /\ n # i
        BY <1>3, <3>0, <3>3
      <4>2. n + 1 \in 1..Len(q) /\ r[n].key = q[n+1].key
        BY <1>9, <3>0, <4>1
      <4>3. E(n + 1) = E((n + 1) - 1) + q[n+1].key
        BY <1>2, <4>2
      <4>4. (n + 1) - 1 = n /\ (n - 1) + 1 = n
        BY <3>0
      <4> HIDE DEF E, g
      <4> QED
        BY <4>1, <4>2, <4>3, <4>4
    <3> QED
      BY <1>3, <3>0, <3>1, <3>2, <3>3
  <2> HIDE DEF g
  <2> QED
    BY <1>5, <2>1, <2>2, ElapsedOnly
<1>11. SameTimes(r, q, {})
  <2> SUFFICES ASSUME NEW j \in DOMAIN r
               PROVE  \E n \in DOMAIN q : q[n].pid = r[j].pid /\ Elapsed(q, n) = Elapsed(r, j)
    BY DEF SameTimes
  <2>0. j \in 0..Len(r) /\ j \in 1..Len(q)-1 /\ j \in Int
    BY <1>1, <1>6, <1>7
  <2>1. CASE j < i
    <3>1. j \in 1..Len(q) /\ r[j].pid = q[j].pid /\ g[j] = E(j)
      BY <1>1, <1>8, <2>0, <2>1
    <3> QED
      BY <1>1, <1>10, <2>0, <3>1
  <2>2. CASE j >= i
    <3>1. j + 1 \in 1..Len(q) /\ r[j].pid = q[j+1].pid /\ g[j] = E(j + 1)
      BY <1>1, <1>3, <1>9, <2>0, <2>2
    <3> QED
      BY <1>1, <1>10, <2>0, <3>1
  <2> QED
    BY <1>3, <2>0, <2>1, <2>2
<1>12. ASSUME NonNeg(q), NEW j \in DOMAIN r PROVE r[j].key >= 0
  <2>0. \A n \in 1..Len(q) : q[n].key >= 0 /\ q[n].key \in Int
    BY <1>1, <1>2, <1>12 DEF NonNeg
  <2>1. CASE j < i
    BY <1>7, <1>8, <2>0, <2>1
  <2>2. CASE j >= i
    <3>1. j + 1 \in 1..Len(q) /\ r[j].key = IF j = i THEN q[j+1].key + q[i].key ELSE q[j+1].key
      BY <1>7, <1>9, <2>2
    <3>2. q[i].key >= 0 /\ q[j+1].key >= 0 /\ q[i].key \in Int /\ q[j+1].key \in Int
      BY <1>3, <2>0, <3>1
    <3> QED
      BY <3>1, <3>2
  <2> QED
    BY <1>3, <1>7, <2>1, <2>2
<1>13. NonNeg(q) => NonNeg(r)
  BY <1>12 DEF NonNeg
<1>14. Unsleep(q, p) = r
  BY DEF Unsleep, r, mid, i
<1> QED
  BY <1>5, <1>11, <1>13, <1>14

\* clkhandler takes 1 from the first key, and wakeup() the entries at the front
\* whose keys are not above 0.
Ticked(q) == [q EXCEPT ![1].key = @ - 1]
Woken(q) == First({i \in DOMAIN Ticked(q) : Ticked(q)[i].key > 0} \cup {Len(Ticked(q)) + 1}) - 1

LEMMA TickIs ==
    ASSUME NEW q, NEW S, Lists(q, S), NonNeg(q), q # <<>>
    PROVE  LET t == Ticked(q)
               n == Woken(q)
           IN  /\ Lists(t, S) /\ Len(t) = Len(q) /\ n \in 0..Len(q)
               /\ \A i \in 1..Len(q) : t[i].pid = q[i].pid
               /\ \A i \in 1..Len(q) : t[i].key = IF i = 1 THEN q[1].key - 1 ELSE q[i].key
               /\ \A i \in 1..n : t[i].key <= 0
               /\ n < Len(q) => t[n+1].key > 0
<1> DEFINE t == Ticked(q)
           n == Woken(q)
           L == {i \in DOMAIN t : t[i].key > 0} \cup {Len(t) + 1}
           k == q[1].key - 1
<1>1. q \in Seq(Entries) /\ Len(q) \in Nat /\ DOMAIN q = 1..Len(q) /\ 1 \in DOMAIN q
  BY DEF Lists
<1>2. \A i \in 1..Len(q) : q[i].key \in Int /\ q[i].pid \in Pids
  BY ElapsedIs
<1>3. k \in Int
  BY <1>1, <1>2
<1>4. Lists(t, S) /\ Len(t) = Len(q)
  <2>1. t = [q EXCEPT ![1].key = k]
    BY DEF Ticked
  <2> HIDE DEF t, k
  <2> QED
    BY <1>1, <1>3, <2>1, ListsKeys
<1>5. q[1] = [pid |-> q[1].pid, key |-> q[1].key]
  <2>1. q[1] \in Entries
    BY <1>1, ElementOfSeq
  <2> QED
    BY <2>1 DEF Entries
<1>6. \A i \in 1..Len(q) : t[i].pid = q[i].pid /\ t[i].key = IF i = 1 THEN k ELSE q[i].key
  <2> TAKE i \in 1..Len(q)
  <2>1. CASE i = 1
    BY <1>1, <1>5, <2>1 DEF Ticked
  <2>2. CASE i # 1
    BY <1>1, <2>2 DEF Ticked
  <2> QED
    BY <2>1, <2>2
<1> HIDE DEF t
<1>7. DOMAIN t = 1..Len(q) /\ \A i \in 1..Len(q) : t[i].key \in Int
  BY <1>2, <1>3, <1>4, <1>6 DEF Lists
<1>8. First(L) \in L /\ \A j \in L : First(L) <= j
  <2>1. L \in SUBSET Nat /\ L # {}
    BY <1>1, <1>4, <1>7
  <2> HIDE DEF L
  <2> QED
    BY <2>1, FirstIs
<1>9. n = First(L) - 1
  BY DEF Woken, t
<1> HIDE DEF n
<1>10. First(L) \in 1..Len(q)+1 /\ (First(L) <= Len(q) => t[First(L)].key > 0)
  BY <1>1, <1>4, <1>7, <1>8
<1>11. ASSUME NEW i \in 1..Len(q), i < First(L) PROVE t[i].key <= 0
  <2>1. i \notin L
    <3> HIDE DEF L
    <3>1. i \in L => First(L) <= i
      BY <1>8
    <3> QED
      BY <1>10, <1>11, <3>1
  <2>2. ~(t[i].key > 0) /\ t[i].key \in Int
    BY <1>7, <2>1
  <2> QED
    BY <2>2
<1> HIDE DEF L
<1>12. n \in 0..Len(q) /\ n + 1 = First(L)
  BY <1>1, <1>9, <1>10
<1>13. \A i \in 1..n : t[i].key <= 0
  BY <1>1, <1>11, <1>12
<1>14. n < Len(q) => t[n+1].key > 0
  BY <1>10, <1>12
<1> QED
  BY <1>4, <1>6, <1>12, <1>13, <1>14 DEF t, n

\* The processes woken are some of those in the list, each once.
LEMMA WokenAre ==
    ASSUME NEW q, NEW S, Lists(q, S), NonNeg(q), q # <<>>
    PROVE  LET t == Ticked(q)
               n == Woken(q)
           IN  /\ Queues([i \in 1..n |-> t[i].pid], {q[i].pid : i \in 1..n})
               /\ {q[i].pid : i \in 1..n} \subseteq S \cap Pids
               /\ Lists(SubSeq(t, n + 1, Len(t)), S \ {q[i].pid : i \in 1..n})
<1> DEFINE t == Ticked(q)
           n == Woken(q)
           ps == [i \in 1..n |-> t[i].pid]
           P == {q[i].pid : i \in 1..n}
<1>1. /\ Lists(t, S) /\ Len(t) = Len(q) /\ n \in 0..Len(q)
      /\ \A i \in 1..Len(q) : t[i].pid = q[i].pid
  BY TickIs
<1> HIDE DEF t, n
<1>2. Len(q) \in Nat /\ DOMAIN q = 1..Len(q) /\ n \in Nat
  BY <1>1 DEF Lists
<1>3. \A i \in 1..n : i \in 1..Len(q) /\ q[i].pid \in Pids /\ q[i].pid \in S
  <2> TAKE i \in 1..n
  <2>1. i \in 1..Len(q)
    BY <1>1, <1>2
  <2>2. q[i].pid \in Pids
    BY <2>1, ElapsedIs
  <2> QED
    BY <1>2, <2>1, <2>2 DEF Lists
<1>4. \A i \in 1..n : ps[i] = q[i].pid
  BY <1>1, <1>3
<1>5. ps \in Seq(Pids) /\ DOMAIN ps = 1..n
  <2>1. \A i \in 1..n : t[i].pid \in Pids
    BY <1>1, <1>3
  <2> QED
    BY <1>2, <2>1, IsASeq
<1> HIDE DEF ps
<1>6. \A i, j \in DOMAIN ps : ps[i] = ps[j] => i = j
  BY <1>2, <1>3, <1>4, <1>5 DEF Lists
<1>7. \A p \in Pids : p \in P <=> \E i \in DOMAIN ps : ps[i] = p
  BY <1>4, <1>5
<1>8. Queues(ps, P)
  BY <1>5, <1>6, <1>7 DEF Queues
<1>9. Lists(SubSeq(t, n + 1, Len(t)), S \ P)
  <2>1. {t[i].pid : i \in 1..n} = P
    BY <1>1, <1>3
  <2>2. n \in 0..Len(t)
    BY <1>1
  <2> HIDE DEF P
  <2> QED
    BY <1>1, <2>1, <2>2, ListsSuffix
<1>10. P \subseteq S \cap Pids
  BY <1>3
<1> QED
  BY <1>8, <1>9, <1>10 DEF ps, t, n

\* A tick leaves everyone who sleeps on a tick less, or, if the first entry had
\* no time to go, the time it had.
LEMMA TickTimes ==
    ASSUME NEW q, NEW S, Lists(q, S), NonNeg(q), q # <<>>
    PROVE  LET t == Ticked(q)
               r == SubSeq(t, Woken(q) + 1, Len(t))
           IN  /\ NonNeg(r)
               /\ \A j \in DOMAIN r : \E i \in DOMAIN q :
                    /\ q[i].pid = r[j].pid
                    /\ Elapsed(q, i) >= 1
                    /\ Elapsed(r, j) = Elapsed(q, i) - (IF t[1].key < 0 THEN 0 ELSE 1)
<1> DEFINE t == Ticked(q)
           n == Woken(q)
           r == SubSeq(t, n + 1, Len(t))
           E(i) == Elapsed(q, i)
           Et(i) == Elapsed(t, i)
<1>1. /\ Lists(t, S) /\ Len(t) = Len(q) /\ n \in 0..Len(q)
      /\ \A i \in 1..Len(q) : t[i].pid = q[i].pid
      /\ \A i \in 1..Len(q) : t[i].key = IF i = 1 THEN q[1].key - 1 ELSE q[i].key
      /\ \A i \in 1..n : t[i].key <= 0
      /\ n < Len(q) => t[n+1].key > 0
  BY TickIs
<1> HIDE DEF t, n
<1>2. /\ q \in Seq(Entries) /\ Len(q) \in Nat /\ DOMAIN q = 1..Len(q) /\ 1 \in 1..Len(q)
      /\ t \in Seq(Entries) /\ n \in Int
  BY <1>1 DEF Lists
<1>3. /\ E(0) = 0
      /\ \A i \in 1..Len(q) : E(i) = E(i - 1) + q[i].key
      /\ \A i \in 1..Len(q) : q[i].key \in Int /\ q[i].key >= 0
      /\ \A i \in 0..Len(q) : E(i) \in Int
  BY <1>2, ElapsedIs DEF NonNeg
<1>4. /\ Et(0) = 0
      /\ \A i \in 1..Len(q) : Et(i) = Et(i - 1) + t[i].key
      /\ \A i \in 1..Len(q) : t[i].key \in Int
      /\ \A i \in 0..Len(q) : Et(i) \in Int
  BY <1>1, ElapsedIs
<1> HIDE DEF E, Et
<1>5. \A i \in 1..Len(q) : Et(i) = E(i) - 1
  <2> DEFINE g == [i \in 0..Len(q) |-> IF i = 0 THEN 0 ELSE E(i) - 1]
  <2>1. g[0] = 0
    BY <1>2
  <2>2. ASSUME NEW i \in 1..Len(t) PROVE g[i] = g[i - 1] + t[i].key
    <3>0. i \in 1..Len(q) /\ i \in 0..Len(q) /\ i - 1 \in 0..Len(q) /\ i \in Int
      BY <1>1, <1>2
    <3>1. E(i) = E(i - 1) + q[i].key /\ E(i - 1) \in Int /\ q[i].key \in Int
      BY <1>3, <3>0
    <3>2. CASE i = 1
      BY <1>1, <1>3, <3>0, <3>1, <3>2
    <3>3. CASE i # 1
      <4>1. t[i].key = q[i].key /\ g[i] = E(i) - 1 /\ g[i - 1] = E(i - 1) - 1
        BY <1>1, <3>0, <3>3
      <4> HIDE DEF g
      <4> QED
        BY <3>1, <4>1
    <3> QED
      BY <3>2, <3>3
  <2>3. \A i \in 1..Len(q) : g[i] = E(i) - 1
    BY <1>2
  <2> HIDE DEF g
  <2>4. \A i \in 0..Len(t) : Elapsed(t, i) = g[i]
    BY <1>1, <2>1, <2>2, ElapsedOnly
  <2> TAKE i \in 1..Len(q)
  <2>5. i \in 0..Len(t)
    BY <1>1
  <2> QED
    BY <2>3, <2>4, <2>5 DEF Et
\* The entries that leave take the first key with them, the others are 0.
<1>6. Et(n) = IF n = 0 THEN 0 ELSE t[1].key
  <2> DEFINE Bad == {i \in 1..n : Et(i) # t[1].key}
  <2>1. Bad = {}
    <3> SUFFICES ASSUME Bad # {} PROVE FALSE
      OBVIOUS
    <3>1. Bad \subseteq Nat
      BY <1>2
    <3>2. PICK i \in Bad : \A j \in Bad : i <= j
      BY <3>1, LeastNat
    <3>3. i \in 1..n /\ i \in 1..Len(q) /\ i \in Nat /\ Et(i) # t[1].key
      BY <1>1, <1>2, <3>1, <3>2
    <3>4. i # 1
      <4>1. Et(1) = Et(1 - 1) + t[1].key /\ t[1].key \in Int
        BY <1>2, <1>4
      <4>2. Et(1) = t[1].key
        BY <1>4, <4>1
      <4> QED
        BY <3>3, <4>2
    <3>5. i - 1 \in 1..n /\ i - 1 < i
      BY <1>2, <3>3, <3>4
    <3>6. i - 1 \notin Bad
      <4>1. i - 1 \in Bad => i <= i - 1
        BY <3>2
      <4> HIDE DEF Bad
      <4> QED
        BY <3>3, <3>5, <4>1
    <3>7. Et(i - 1) = t[1].key
      BY <3>5, <3>6
    <3>8. t[i].key = 0
      <4>1. t[i].key = q[i].key /\ t[i].key <= 0 /\ q[i].key >= 0 /\ q[i].key \in Int
        BY <1>1, <1>3, <3>3, <3>4
      <4> QED
        BY <4>1
    <3>9. Et(i) = Et(i - 1) + t[i].key /\ t[1].key \in Int
      BY <1>2, <1>4, <3>3
    <3> QED
      BY <3>3, <3>7, <3>8, <3>9
  <2>2. n # 0 => n \in 1..n
    BY <1>1, <1>2
  <2> QED
    BY <1>4, <2>1, <2>2
<1>7. /\ Lists(r, S \ {t[i].pid : i \in 1..n}) /\ Len(r) = Len(q) - n /\ DOMAIN r = 1..Len(q)-n
      /\ \A j \in 1..Len(q)-n : r[j] = t[n+j]
  <2>1. n \in 0..Len(t)
    BY <1>1
  <2>2. /\ r \in Seq(Entries) /\ Len(r) = Len(t) - n
        /\ \A j \in 1..Len(t)-n : r[j] = t[n+j]
    BY <1>2, <2>1, SuffixIs
  <2>3. Lists(r, S \ {t[i].pid : i \in 1..n})
    BY <1>1, <2>1, ListsSuffix
  <2> HIDE DEF r
  <2>4. DOMAIN r = 1..Len(r)
    BY <2>2
  <2> QED
    BY <1>1, <2>2, <2>3, <2>4
<1> HIDE DEF r
<1>8. ASSUME NEW j \in 1..Len(q)-n
      PROVE  n + j \in 1..Len(q) /\ r[j] = t[n+j] /\ j \in Int /\ j >= 1
  BY <1>1, <1>2, <1>7
<1>9. \A j \in 0..Len(q)-n : Elapsed(r, j) = Et(n + j) - Et(n)
  <2> DEFINE g == [j \in 0..Len(q)-n |-> Et(n + j) - Et(n)]
  <2>0. Et(n) \in Int /\ n + 0 = n /\ 0 \in 0..Len(q)-n
    BY <1>1, <1>2, <1>4
  <2>1. g[0] = 0
    BY <2>0
  <2>2. ASSUME NEW j \in 1..Len(r) PROVE g[j] = g[j - 1] + r[j].key
    <3>0. j \in 1..Len(q)-n /\ j \in 0..Len(q)-n /\ j - 1 \in 0..Len(q)-n /\ j \in Int
      BY <1>1, <1>2, <1>7
    <3>1. n + j \in 1..Len(q) /\ r[j].key = t[n+j].key
      BY <1>8, <3>0
    <3>2. Et(n + j) = Et((n + j) - 1) + t[n+j].key /\ t[n+j].key \in Int
      BY <1>4, <3>1
    <3>3. (n + j) - 1 = n + (j - 1) /\ (n + j) - 1 \in 0..Len(q)
      BY <1>2, <3>0, <3>1
    <3>4. g[j] = Et(n + j) - Et(n) /\ g[j - 1] = Et((n + j) - 1) - Et(n) /\ Et((n + j) - 1) \in Int
      BY <1>4, <3>0, <3>3
    <3> HIDE DEF g
    <3> QED
      BY <2>0, <3>1, <3>2, <3>4
  <2>3. \A j \in 0..Len(q)-n : g[j] = Et(n + j) - Et(n)
    OBVIOUS
  <2> HIDE DEF g
  <2>4. \A j \in 0..Len(r) : Elapsed(r, j) = g[j]
    BY <1>7, <2>1, <2>2, ElapsedOnly
  <2> QED
    BY <1>7, <2>3, <2>4
<1>10. ASSUME NEW j \in DOMAIN r PROVE r[j].key >= 0 /\ r[j].key \in Int
  <2>1. j \in 1..Len(q)-n /\ n + j \in 1..Len(q) /\ r[j].key = t[n+j].key
    BY <1>7, <1>8
  <2>2. CASE n + j = 1
    <3>1. n = 0 /\ n < Len(q)
      BY <1>1, <1>2, <2>1, <2>2
    <3>2. t[n+1].key > 0 /\ n + 1 = 1
      BY <1>1, <3>1
    <3> QED
      BY <1>4, <2>1, <2>2, <3>2
  <2>3. CASE n + j # 1
    <3>1. t[n+j].key = q[n+j].key
      BY <1>1, <2>1, <2>3
    <3> QED
      BY <1>3, <2>1, <3>1
  <2> QED
    BY <2>2, <2>3
<1>11. \A j \in 1..Len(q)-n : Elapsed(r, j) >= 1
  <2> DEFINE Bad == {j \in 1..Len(q)-n : ~(Elapsed(r, j) >= 1)}
  <2>1. Bad = {}
    <3> SUFFICES ASSUME Bad # {} PROVE FALSE
      OBVIOUS
    <3>1. Bad \subseteq Nat
      BY <1>1, <1>2
    <3>2. PICK j \in Bad : \A i \in Bad : j <= i
      BY <3>1, LeastNat
    <3>3. j \in 1..Len(q)-n /\ j \in Nat /\ ~(Elapsed(r, j) >= 1)
      BY <3>1, <3>2
    <3>4. /\ Elapsed(r, 0) = 0 /\ Elapsed(r, j) = Elapsed(r, j - 1) + r[j].key
          /\ j - 1 \in 0..Len(r) /\ Elapsed(r, j - 1) \in Int
      <4>1. j \in 1..Len(r) /\ j - 1 \in 0..Len(r)
        BY <1>1, <1>2, <1>7, <3>3
      <4> QED
        BY <1>7, <4>1, ElapsedIs
    <3>5. CASE j = 1
      <4>1. n < Len(q) /\ r[1].key = t[n+1].key
        BY <1>1, <1>2, <1>7, <3>3, <3>5
      <4>2. r[1].key > 0 /\ r[1].key \in Int
        BY <1>1, <1>7, <1>10, <3>3, <3>5, <4>1
      <4> QED
        BY <3>3, <3>4, <3>5, <4>2
    <3>6. CASE j # 1
      <4>1. j - 1 \in 1..Len(q)-n /\ j - 1 < j
        BY <1>1, <1>2, <3>3, <3>6
      <4>2. j - 1 \notin Bad
        <5>1. j - 1 \in Bad => j <= j - 1
          BY <3>2
        <5> HIDE DEF Bad
        <5> QED
          BY <3>3, <4>1, <5>1
      <4>3. Elapsed(r, j - 1) >= 1
        BY <4>1, <4>2
      <4>4. r[j].key >= 0 /\ r[j].key \in Int
        BY <1>7, <1>10, <3>3
      <4> QED
        BY <3>3, <3>4, <4>3, <4>4
    <3> QED
      BY <3>5, <3>6
  <2> QED
    BY <2>1
<1>12. ASSUME NEW j \in DOMAIN r
       PROVE  \E i \in DOMAIN q :
                /\ q[i].pid = r[j].pid
                /\ Elapsed(q, i) >= 1
                /\ Elapsed(r, j) = Elapsed(q, i) - (IF t[1].key < 0 THEN 0 ELSE 1)
  <2> DEFINE i == n + j
  <2>1. /\ j \in 1..Len(q)-n /\ j \in 0..Len(q)-n /\ i \in 1..Len(q) /\ i \in DOMAIN q
        /\ r[j].pid = q[i].pid
    BY <1>1, <1>2, <1>7, <1>8
  <2>2. Elapsed(r, j) = Et(i) - Et(n) /\ Et(i) = E(i) - 1 /\ E(i) \in Int /\ Elapsed(r, j) >= 1
    BY <1>3, <1>5, <1>9, <1>11, <2>1
  <2>3. t[1].key \in Int /\ t[1].key = q[1].key - 1 /\ q[1].key >= 0 /\ q[1].key \in Int
    BY <1>1, <1>2, <1>3, <1>4
  <2>4. IF t[1].key < 0 THEN Et(n) = -1 ELSE Et(n) = 0
    <3>1. CASE n = 0
      <4>1. t[1].key > 0
        BY <1>1, <1>2, <3>1
      <4> QED
        BY <1>6, <2>3, <3>1, <4>1
    <3>2. CASE n # 0
      <4>1. t[1].key <= 0 /\ Et(n) = t[1].key
        BY <1>1, <1>2, <1>6, <3>2
      <4> QED
        BY <2>3, <4>1
    <3> QED
      BY <3>1, <3>2
  <2> HIDE DEF i
  <2>5. E(i) >= 1 /\ Elapsed(r, j) = E(i) - (IF t[1].key < 0 THEN 0 ELSE 1)
    BY <2>2, <2>4
  <2> QED
    BY <2>1, <2>5 DEF E
<1>13. NonNeg(r)
  BY <1>10 DEF NonNeg
<1> QED
  BY <1>12, <1>13 DEF r, t, n

-----------------------------------------------------------------------------
(* The inductive invariant *)

SchedInv ==
    /\ SchedOK(prstate, readylist, currpid)
    /\ prprio \in [Pids -> Prios \cup {0}]
    /\ preempt \in 1..QUANTUM
    /\ chprios \in Nat
    /\ chprios = 0 => TopRuns(prprio, readylist, currpid)

Sleepers == {p \in Pids : prstate[p] \in {"SLEEP", "RECTIM"}}
SleepInv == Lists(sleepq, Sleepers)

Waiters(s) == {p \in Pids : prstate[p] = "WAIT" /\ prsem[p] = s}
SemRecord == [sstate : {"FREE", "USED"}, scount : Int, squeue : Seq(Pids)]
Held(n) == IF n < 0 THEN -n ELSE 0
SemOK(t, W) ==
    /\ Queues(t.squeue, W)
    /\ Len(t.squeue) = Held(t.scount)
    /\ t.sstate = "FREE" => t.squeue = <<>>
SemInv ==
    /\ prsem \in [Pids -> 0..NSEM]
    /\ \A p \in Pids : prstate[p] = "WAIT" => prsem[p] \in Sems
    /\ semtab \in [Sems -> SemRecord]
    /\ \A s \in Sems : SemOK(semtab[s], Waiters(s))

\* ready() of the processes P.
Readying(P) == [p \in Pids |-> IF p \in P THEN "READY" ELSE prstate[p]]

LEMMA PidsAre == NULLPROC \in Pids /\ STARTUP \in Pids /\ NULLPROC # STARTUP /\ Pids \subseteq Nat
  BY KernelAssump DEF NULLPROC, STARTUP, Pids

LEMMA PidsFinite == IsFiniteSet(Pids) /\ \A S : S \subseteq Pids => IsFiniteSet(S)
<1>1. 0 \in Int /\ NPROC - 1 \in Int
  BY KernelAssump
<1>2. IsFiniteSet(Pids)
  BY <1>1, FS_Interval DEF Pids
<1> QED
  BY <1>2, FS_Subset

LEMMA PriosAre == ASSUME SchedInv PROVE prprio \in [Pids -> Int]
<1>1. Prios \cup {0} \subseteq Int
  BY KernelAssump
<1> QED
  BY <1>1 DEF SchedInv

\* The two steps that switch: the current process gives up the processor, or
\* processes become ready.
LEMMA ReschedSched ==
    ASSUME SchedInv, NEW st \in [Pids -> States], NEW rl,
           \A p \in Pids : st[p] = "CURR" => p = currpid,
           st[NULLPROC] \in {"READY", "CURR"},
           Lists(rl, {p \in Pids : st[p] = "READY"}), Ordered(rl),
           Keyed(readylist, prprio) => Keyed(rl, prprio),
           prstate' = Resched(st, rl).prstate, readylist' = Resched(st, rl).readylist,
           currpid' = Resched(st, rl).currpid, preempt' \in {Resched(st, rl).preempt, QUANTUM},
           UNCHANGED <<prprio, chprios>>
    PROVE  SchedInv' /\ Switched(st, prstate')
<1>1. /\ currpid \in Pids /\ preempt \in 1..QUANTUM /\ prprio \in [Pids -> Int]
      /\ QUANTUM \in Nat \ {0} /\ NULLPROC \in Pids
      /\ chprios \in Nat /\ prprio \in [Pids -> Prios \cup {0}]
      /\ chprios = 0 => Keyed(readylist, prprio)
  BY PriosAre, PidsAre, KernelAssump DEF SchedInv, SchedOK, TopRuns
<1> DEFINE s == Resched(st, rl)
<1>2. /\ SchedOK(s.prstate, s.readylist, s.currpid)
      /\ Switched(st, s.prstate)
      /\ Keyed(rl, prprio) => TopRuns(prprio, s.readylist, s.currpid)
      /\ s.preempt \in 1..QUANTUM
  BY <1>1, ReschedKeeps
<1>3. /\ prstate' = s.prstate /\ readylist' = s.readylist /\ currpid' = s.currpid
      /\ preempt' \in {s.preempt, QUANTUM} /\ QUANTUM \in 1..QUANTUM
  BY <1>1
<1> HIDE DEF s
<1>4. SchedOK(prstate', readylist', currpid') /\ Switched(st, prstate')
  BY <1>2, <1>3
<1>5. chprios = 0 => TopRuns(prprio, readylist', currpid')
  BY <1>1, <1>2, <1>3
<1>6. SchedOK(prstate, readylist, currpid)'
  BY <1>4 DEF SchedOK
<1>7. chprios' = 0 => TopRuns(prprio, readylist, currpid)'
  BY <1>5 DEF TopRuns, Keyed
<1> QED
  BY <1>1, <1>2, <1>3, <1>4, <1>6, <1>7 DEF SchedInv

LEMMA BlockKeeps ==
    ASSUME SchedInv, NEW state \in States \ {"CURR", "READY"}, currpid # NULLPROC,
           Block(state), UNCHANGED <<prprio, chprios>>
    PROVE  SchedInv' /\ Switched([prstate EXCEPT ![currpid] = state], prstate')
<1> DEFINE st == [prstate EXCEPT ![currpid] = state]
<1>1. SchedOK(prstate, readylist, currpid)
  BY DEF SchedInv
<1>2. /\ st \in [Pids -> States]
      /\ \A p \in Pids : st[p] = "CURR" => p = currpid
      /\ st[NULLPROC] \in {"READY", "CURR"}
  BY <1>1, PidsAre DEF SchedOK
<1>3. {p \in Pids : st[p] = "READY"} = {p \in Pids : prstate[p] = "READY"}
  BY <1>1 DEF SchedOK
<1>4. Lists(readylist, {p \in Pids : st[p] = "READY"}) /\ Ordered(readylist)
  BY <1>1, <1>3 DEF SchedOK
<1>5. SetSched(Resched(st, readylist))
  BY DEF Block
<1> HIDE DEF st
<1>6. SchedInv' /\ Switched(st, prstate')
  BY <1>2, <1>4, <1>5, ReschedSched DEF SetSched
<1> QED
  BY <1>6 DEF st

LEMMA ReadyAllKeeps ==
    ASSUME SchedInv, NEW P, NEW ps, Queues(ps, P),
           \A p \in P \cap Pids : prstate[p] \notin {"CURR", "READY"},
           ReadyAll(prstate, ps), UNCHANGED <<prprio, chprios>>
    PROVE  SchedInv' /\ Switched(Readying(P), prstate')
<1>1. SchedOK(prstate, readylist, currpid)
  BY DEF SchedInv
<1>2. ps \in Seq(Pids) /\ Len(ps) \in Nat /\ \A p \in Pids : p \in P <=> \E i \in DOMAIN ps : ps[i] = p
  BY DEF Queues
<1>3. CASE ps = <<>>
  <2>1. \A p \in Pids : p \notin P
    BY <1>2, <1>3
  <2>2. UNCHANGED prstate /\ UNCHANGED <<readylist, currpid, preempt>>
    BY <1>3 DEF ReadyAll
  <2>3. SchedInv'
    BY <2>2 DEF SchedInv, SchedOK, TopRuns, Keyed
  <2>4. Switched(Readying(P), prstate')
    BY <2>1, <2>2 DEF Switched, Readying
  <2> QED
    BY <2>3, <2>4
<1>4. CASE ps # <<>>
  <2> DEFINE st == Readying(P)
             R == {p \in Pids : prstate[p] = "READY"}
  <2>1. /\ st \in [Pids -> States]
        /\ \A p \in Pids : st[p] = "CURR" => p = currpid
        /\ st[NULLPROC] \in {"READY", "CURR"}
    BY <1>1, PidsAre DEF SchedOK, Readying, States
  <2>2. Lists(Readied(ps), R \cup P) /\ Ordered(Readied(ps)) /\ (Keyed(readylist, prprio) => Keyed(Readied(ps), prprio))
    <3> DEFINE P2 == P \cap Pids
    <3>1. Queues(ps, P2)
      BY DEF Queues
    <3>2. P2 \cap R = {}
      OBVIOUS
    <3>3. Lists(readylist, R) /\ Ordered(readylist) /\ prprio \in [Pids -> Int]
      BY <1>1, PriosAre DEF SchedOK
    <3> HIDE DEF P2, R
    <3>4. /\ Lists(Readied(ps), R \cup P2)
          /\ Ordered(Readied(ps))
          /\ Keyed(readylist, prprio) => Keyed(Readied(ps), prprio)
      BY <3>1, <3>2, <3>3, ReadiedIs
    <3>5. \A p \in Pids : p \in R \cup P2 <=> p \in R \cup P
      BY DEF P2
    <3>6. Lists(Readied(ps), R \cup P)
      BY <3>4, <3>5 DEF Lists
    <3> QED
      BY <3>4, <3>6
  <2>3. \A p \in Pids : p \in {x \in Pids : st[x] = "READY"} <=> p \in R \cup P
    BY DEF Readying
  <2>4. Lists(Readied(ps), {p \in Pids : st[p] = "READY"})
    <3> HIDE DEF st, R
    <3> QED
      BY <2>2, <2>3 DEF Lists
  <2>5. st = [p \in Pids |-> IF \E i \in DOMAIN ps : ps[i] = p THEN "READY" ELSE prstate[p]]
    BY <1>2 DEF Readying
  <2>6. SetSched(Resched(st, Readied(ps)))
    <3> HIDE DEF st
    <3> QED
      BY <1>4, <2>5 DEF ReadyAll
  <2> HIDE DEF st, R
  <2>7. SchedInv' /\ Switched(st, prstate')
    BY <2>1, <2>2, <2>4, <2>6, ReschedSched DEF SetSched
  <2> QED
    BY <2>7 DEF st
<1> QED
  BY <1>3, <1>4

-----------------------------------------------------------------------------
(* The rest of the invariant, and what a step that changes little leaves of it *)

Conts == {User, [op |-> "receive"], [op |-> "recvtime"], [op |-> "tick"]}
             \cup {Killing(p) : p \in Pids \ {NULLPROC}}

\* A process that is back from receive(), or was never away, has its message.
RecvInv ==
    \A p \in Pids : cont[p].op = "receive" /\ prstate[p] \notin {"RECV", "FREE"} => prhasmsg[p]

ContInv ==
    /\ cont \in [Pids -> Conts]
    /\ prparent \in [Pids -> Pids]
    /\ prhasmsg \in [Pids -> BOOLEAN]
    /\ clashed \in BOOLEAN
    /\ RecvInv

\* A process is killed by one other, and is there as long as it is.
Kills(q, p) == prstate[q] # "FREE" /\ cont[q] = Killing(p)
Alive == {p \in Pids : prstate[p] # "FREE" /\ ~InKill(p)}
KillsInv ==
    /\ prcount \in Nat
    /\ ~clashed =>
         /\ prcount = Cardinality(Alive)
         /\ \A p \in Pids : InKill(p) => prstate[p] # "FREE"
         /\ \A p, q, r \in Pids : Kills(q, p) /\ Kills(r, p) => q = r

LEMMA AliveFinite == IsFiniteSet(Alive)
<1>1. Alive \subseteq Pids
  BY DEF Alive
<1> QED
  BY <1>1, PidsFinite

\* Keys count down to 0; a key below 0 leaves the list in the same tick.
TimeInv ==
    /\ left \in [Pids -> Nat]
    /\ late \in BOOLEAN
    /\ NonNeg(sleepq)
    /\ WakeOnTime

KernelInv == SchedInv /\ SleepInv /\ TimeInv /\ SemInv /\ ContInv /\ KillsInv

\* A process changes its state only from one of C to one of C.
Moves(C) == \A p \in Pids : prstate'[p] = prstate[p] \/ (prstate[p] \in C /\ prstate'[p] \in C)

LEMMA SleepFrame ==
    ASSUME SleepInv, Moves(States \ {"SLEEP", "RECTIM"}), UNCHANGED sleepq
    PROVE  SleepInv'
<1>1. Sleepers' = Sleepers
  BY DEF Sleepers, Moves
<1> QED
  BY <1>1 DEF SleepInv, Lists

LEMMA TimeFrame ==
    ASSUME TimeInv, UNCHANGED sleepq, UNCHANGED left, UNCHANGED late
    PROVE  TimeInv'
<1>1. NonNeg(sleepq)' /\ (left \in [Pids -> Nat])'
  BY DEF TimeInv, NonNeg
<1>2. WakeOnTime'
  <2>1. late' = late
    BY DEF TimeInv
  <2> QED
    BY <2>1 DEF TimeInv, WakeOnTime, Elapsed
<1> QED
  BY <1>1, <1>2 DEF TimeInv

LEMMA SemFrame ==
    ASSUME SemInv, Moves(States \ {"WAIT"}), UNCHANGED <<semtab, prsem>>
    PROVE  SemInv'
<1>1. \A p \in Pids : prstate'[p] = "WAIT" <=> prstate[p] = "WAIT"
  BY DEF Moves
<1>2. \A s \in Sems : Waiters(s)' = Waiters(s)
  BY <1>1 DEF Waiters
<1>3. \A s \in Sems : SemOK(semtab[s], Waiters(s))'
  BY <1>2 DEF SemInv, SemOK, Queues
<1> QED
  BY <1>1, <1>3 DEF SemInv

LEMMA ContFrame ==
    ASSUME ContInv, Moves(States \ {"RECV", "FREE"}), UNCHANGED <<cont, prparent, clashed>>, UNCHANGED prhasmsg
    PROVE  ContInv'
  BY DEF ContInv, RecvInv, Moves

\* What counts for kill() is who is there and who is killing whom.
LEMMA KillsFrame ==
    ASSUME KillsInv, UNCHANGED prcount, UNCHANGED clashed,
           \A p \in Pids : prstate'[p] = "FREE" <=> prstate[p] = "FREE",
           \A q \in Pids : prstate[q] # "FREE" => \A p \in Pids : cont'[q] = Killing(p) <=> cont[q] = Killing(p)
    PROVE  KillsInv'
<1>1. \A p, q \in Pids : Kills(q, p)' <=> Kills(q, p)
  BY DEF Kills, Killing
<1>2. \A p \in Pids : InKill(p)' <=> InKill(p)
  BY DEF InKill, Killing
<1>3. Alive' = Alive
  BY <1>2 DEF Alive
<1> QED
  BY <1>1, <1>2, <1>3 DEF KillsInv

\* The steps of the delta list, with the history of what was asked for.
LEMMA SleepStarts ==
    ASSUME SleepInv, TimeInv, NEW p \in Pids, p \notin Sleepers, NEW d \in Nat,
           sleepq' = InsertD(sleepq, p, d), left' = [left EXCEPT ![p] = d], UNCHANGED late
    PROVE  TimeInv' /\ Lists(sleepq', Sleepers \cup {p})
<1> DEFINE r == InsertD(sleepq, p, d)
<1>1. /\ Lists(r, Sleepers \cup {p})
      /\ NonNeg(sleepq) => NonNeg(r)
      /\ SameTimes(r, sleepq, {p})
      /\ \A j \in DOMAIN r : r[j].pid = p => Elapsed(r, j) = d
  <2> HIDE DEF r
  <2>1. Lists(sleepq, Sleepers)
    BY DEF SleepInv
  <2> HIDE DEF Sleepers
  <2> QED
    BY <2>1, InsertDKeeps DEF r
<1> HIDE DEF r
<1>2. sleepq' = r
  BY DEF r
<1>3. ASSUME NEW j \in DOMAIN r
      PROVE  IF late THEN Elapsed(r, j) >= left'[r[j].pid] ELSE Elapsed(r, j) = left'[r[j].pid]
  <2>0. r[j].pid \in Pids
    <3>1. j \in 1..Len(r)
      BY <1>1 DEF Lists
    <3> QED
      BY <1>1, <3>1, ElapsedIs
  <2>1. CASE r[j].pid = p
    BY <1>1, <2>0, <2>1 DEF TimeInv
  <2>2. CASE r[j].pid # p
    <3>1. PICK i \in DOMAIN sleepq : sleepq[i].pid = r[j].pid /\ Elapsed(sleepq, i) = Elapsed(r, j)
      BY <1>1, <2>2 DEF SameTimes
    <3>2. left'[r[j].pid] = left[sleepq[i].pid]
      BY <2>0, <2>2, <3>1 DEF TimeInv
    <3> QED
      BY <3>1, <3>2 DEF TimeInv, WakeOnTime
  <2> QED
    BY <2>1, <2>2
<1>4. WakeOnTime'
  <2>1. late' = late
    BY DEF TimeInv
  <2> QED
    BY <1>2, <1>3, <2>1 DEF WakeOnTime, Elapsed
<1>5. NonNeg(sleepq)'
  BY <1>1, <1>2 DEF TimeInv, NonNeg
<1>6. (left \in [Pids -> Nat])'
  BY DEF TimeInv
<1> QED
  BY <1>1, <1>2, <1>4, <1>5, <1>6 DEF TimeInv

LEMMA SleepEnds ==
    ASSUME SleepInv, TimeInv, NEW p \in Sleepers,
           sleepq' = Unsleep(sleepq, p), left' = [left EXCEPT ![p] = 0], late' = (late /\ sleepq' # <<>>)
    PROVE  TimeInv' /\ Lists(sleepq', Sleepers \ {p})
<1> DEFINE r == Unsleep(sleepq, p)
<1>0. p \in Pids
  BY DEF Sleepers
<1>1. /\ Lists(r, Sleepers \ {p})
      /\ NonNeg(sleepq) => NonNeg(r)
      /\ SameTimes(r, sleepq, {})
  <2> HIDE DEF r
  <2>1. Lists(sleepq, Sleepers)
    BY DEF SleepInv
  <2> HIDE DEF Sleepers
  <2> QED
    BY <1>0, <2>1, UnsleepKeeps DEF r
<1> HIDE DEF r
<1>2. sleepq' = r
  BY DEF r
<1>3. ASSUME NEW j \in DOMAIN r
      PROVE  IF late THEN Elapsed(r, j) >= left'[r[j].pid] ELSE Elapsed(r, j) = left'[r[j].pid]
  <2>0. r[j].pid \in Pids /\ r[j].pid # p
    <3>1. j \in 1..Len(r) /\ j \in DOMAIN r
      BY <1>1 DEF Lists
    <3>2. r[j].pid \in Pids
      BY <1>1, <3>1, ElapsedIs
    <3>3. r[j].pid \in Sleepers \ {p}
      BY <1>1, <3>1, <3>2 DEF Lists
    <3> QED
      BY <3>2, <3>3
  <2>1. PICK i \in DOMAIN sleepq : sleepq[i].pid = r[j].pid /\ Elapsed(sleepq, i) = Elapsed(r, j)
    BY <1>1 DEF SameTimes
  <2>2. left'[r[j].pid] = left[sleepq[i].pid]
    BY <2>0, <2>1 DEF TimeInv
  <2> QED
    BY <2>1, <2>2 DEF TimeInv, WakeOnTime
<1>4. WakeOnTime'
  <2> SUFFICES ASSUME NEW j \in DOMAIN r
               PROVE  IF late' THEN Elapsed(r, j) >= left'[r[j].pid] ELSE Elapsed(r, j) = left'[r[j].pid]
    BY <1>2 DEF WakeOnTime, Elapsed
  <2>1. late' = late
    <3>1. r # <<>>
      OBVIOUS
    <3> QED
      BY <1>2, <3>1 DEF TimeInv
  <2> QED
    BY <1>3, <2>1
<1>5. NonNeg(sleepq)'
  BY <1>1, <1>2 DEF TimeInv, NonNeg
<1>6. (left \in [Pids -> Nat])' /\ late' \in BOOLEAN
  BY <1>0 DEF TimeInv
<1> QED
  BY <1>1, <1>2, <1>4, <1>5, <1>6 DEF TimeInv

\* A step on the semaphore s, after which W are waiting for it.
LEMMA SemStep ==
    ASSUME SemInv, NEW s \in Sems, semtab' \in [Sems -> SemRecord], prsem' \in [Pids -> 0..NSEM],
           \A t \in Sems \ {s} : semtab'[t] = semtab[t],
           \A p \in Pids : prstate'[p] = "WAIT" => prsem'[p] \in Sems,
           \A t \in Sems \ {s} : Waiters(t)' = Waiters(t),
           SemOK(semtab'[s], Waiters(s)')
    PROVE  SemInv'
<1>1. ASSUME NEW t \in Sems PROVE SemOK(semtab'[t], Waiters(t)')
  <2>1. CASE t = s
    BY <2>1
  <2>2. CASE t # s
    BY <2>2 DEF SemInv
  <2> QED
    BY <2>1, <2>2
<1>2. \A t \in Sems : SemOK(semtab[t], Waiters(t))'
  BY <1>1 DEF SemOK, Queues
<1> QED
  BY <1>2 DEF SemInv

-----------------------------------------------------------------------------
(* Steps of the scheduling state without a switch *)

LEMMA SchedFrame ==
    ASSUME SchedInv, UNCHANGED <<prstate, readylist, currpid, preempt>>, UNCHANGED <<prprio, chprios>>
    PROVE  SchedInv'
  BY DEF SchedInv, SchedOK, TopRuns, Keyed, Lists, Ordered

\* A process that is neither current nor ready changes its state.
LEMMA ElsewhereKeeps ==
    ASSUME SchedInv, NEW p \in Pids, prstate[p] \notin {"CURR", "READY"},
           NEW state \in States \ {"CURR", "READY"}, prstate' = [prstate EXCEPT ![p] = state],
           UNCHANGED <<readylist, currpid, preempt, chprios>>,
           prprio' \in [Pids -> Prios \cup {0}], \A x \in Pids \ {p} : prprio'[x] = prprio[x]
    PROVE  SchedInv'
<1>0. SchedOK(prstate, readylist, currpid)
  BY DEF SchedInv
<1>1. {x \in Pids : prstate[x] = "READY"} = {x \in Pids : prstate'[x] = "READY"}
  BY <1>0 DEF SchedOK
<1>2. SchedOK(prstate, readylist, currpid)'
  <2>1. prstate' \in [Pids -> States] /\ (\A x \in Pids : prstate'[x] = "CURR" <=> x = currpid) /\ prstate'[NULLPROC] \in {"READY", "CURR"}
    BY <1>0, PidsAre DEF SchedOK
  <2>2. Lists(readylist, {x \in Pids : prstate'[x] = "READY"}) /\ Ordered(readylist)
    BY <1>0, <1>1 DEF SchedOK
  <2> QED
    BY <1>0, <2>1, <2>2 DEF SchedOK, Ordered
<1>3. \A i \in DOMAIN readylist : prstate[readylist[i].pid] = "READY" /\ readylist[i].pid \in Pids
  <2> TAKE i \in DOMAIN readylist
  <2>1. readylist[i].pid \in Pids
    <3>1. i \in 1..Len(readylist)
      BY <1>0 DEF SchedOK, Lists
    <3> QED
      BY <1>0, <3>1, ElapsedIs DEF SchedOK
  <2> QED
    BY <1>0, <2>1 DEF SchedOK, Lists
<1>4. ASSUME TopRuns(prprio, readylist, currpid) PROVE TopRuns(prprio, readylist, currpid)'
  <2>1. currpid # p /\ currpid \in Pids
    BY <1>0 DEF SchedOK
  <2> QED
    BY <1>3, <1>4, <2>1 DEF TopRuns, Keyed
<1> QED
  BY <1>2, <1>4 DEF SchedInv

\* getitem() of a process that is ready.
LEMMA ReadyLeaves ==
    ASSUME SchedInv, NEW p \in Pids, prstate[p] = "READY", p # NULLPROC,
           NEW state \in States \ {"CURR", "READY"}, prstate' = [prstate EXCEPT ![p] = state],
           readylist' = Without(readylist, p), UNCHANGED <<currpid, preempt, prprio, chprios>>
    PROVE  SchedInv'
<1> DEFINE R == {x \in Pids : prstate[x] = "READY"}
           n == PlaceOf(readylist, p)
<1>0. SchedOK(prstate, readylist, currpid)
  BY DEF SchedInv
<1>1. Lists(readylist, R) /\ p \in R /\ Ordered(readylist)
  BY <1>0 DEF SchedOK
<1>2. {x \in Pids : prstate'[x] = "READY"} = R \ {p}
  BY <1>0 DEF SchedOK
<1> HIDE DEF R
<1>3. n \in 1..Len(readylist) /\ n \in DOMAIN readylist /\ Lists(readylist', R \ {p})
  <2>1. n \in 1..Len(readylist) /\ Lists(Without(readylist, p), R \ {p})
    BY <1>1, ListsRemove
  <2>2. DOMAIN readylist = 1..Len(readylist)
    BY <1>1 DEF Lists
  <2> QED
    BY <2>1, <2>2
<1>4. readylist' = RemoveAt(readylist, n)
  BY DEF Without
<1> HIDE DEF n
<1>5. Ordered(readylist') /\ (Keyed(readylist, prprio) => Keyed(readylist', prprio))
  BY <1>1, <1>3, <1>4, RemoveKeeps
<1>6. SchedOK(prstate, readylist, currpid)'
  <2>1. prstate' \in [Pids -> States] /\ (\A x \in Pids : prstate'[x] = "CURR" <=> x = currpid) /\ prstate'[NULLPROC] \in {"READY", "CURR"}
    BY <1>0, PidsAre DEF SchedOK
  <2>2. Lists(readylist', {x \in Pids : prstate'[x] = "READY"})
    BY <1>2, <1>3
  <2> QED
    BY <1>0, <1>5, <2>1, <2>2 DEF SchedOK, Ordered, Lists
<1>7. ASSUME TopRuns(prprio, readylist, currpid) PROVE TopRuns(prprio, readylist', currpid)
  <2>1. Keyed(readylist', prprio)
    BY <1>5, <1>7 DEF TopRuns
  <2>2. ASSUME NEW i \in DOMAIN readylist' PROVE readylist'[i].key <= prprio[currpid]
    <3>1. i \in 1..Len(readylist')
      BY <1>3 DEF Lists
    <3>2. readylist'[i].pid \in Pids
      BY <1>3, <3>1, ElapsedIs
    <3>3. readylist'[i].pid \in R
      BY <1>3, <3>2 DEF Lists
    <3>4. PICK j \in DOMAIN readylist : readylist[j].pid = readylist'[i].pid
      BY <1>1, <3>2, <3>3 DEF Lists
    <3>5. readylist'[i].key = readylist[j].key
      BY <1>7, <2>1, <3>4 DEF TopRuns, Keyed
    <3> QED
      BY <1>7, <3>5 DEF TopRuns
  <2> QED
    BY <2>1, <2>2 DEF TopRuns
<1>8. TopRuns(prprio, readylist, currpid) => TopRuns(prprio, readylist, currpid)'
  BY <1>7 DEF TopRuns, Keyed
<1> QED
  BY <1>6, <1>8 DEF SchedInv

-----------------------------------------------------------------------------
(* The actions *)

\* A step between the states current, ready, suspended and receiving.
LEMMA QuietKeeps ==
    ASSUME KernelInv, SchedInv', Moves({"CURR", "READY", "SUSP", "RECV"}), ContInv',
           UNCHANGED <<sleepq, left>>, UNCHANGED late, UNCHANGED prcount, UNCHANGED clashed,
           UNCHANGED <<semtab, prsem>>,
           \A q \in Pids : prstate[q] # "FREE" => \A p \in Pids : cont'[q] = Killing(p) <=> cont[q] = Killing(p)
    PROVE  KernelInv'
<1>0. /\ Moves(States \ {"SLEEP", "RECTIM"}) /\ Moves(States \ {"WAIT"})
      /\ \A p \in Pids : prstate'[p] = "FREE" <=> prstate[p] = "FREE"
  BY DEF Moves, States
<1>1. SleepInv'
  BY <1>0, SleepFrame DEF KernelInv
<1>2. TimeInv'
  <2>1. late' \in BOOLEAN
    BY DEF KernelInv, TimeInv
  <2> QED
    BY <2>1, TimeFrame DEF KernelInv
<1>3. SemInv'
  BY <1>0, SemFrame DEF KernelInv
<1>5. KillsInv'
  BY <1>0, KillsFrame DEF KernelInv
<1> QED
  BY <1>1, <1>2, <1>3, <1>5 DEF KernelInv

\* The same with the continuations and the messages as they are.
LEMMA QuietSame ==
    ASSUME KernelInv, SchedInv', Moves({"CURR", "READY", "SUSP"}), UNCHANGED <<sleepq, left>>, UNCHANGED late,
           UNCHANGED prcount, UNCHANGED clashed, UNCHANGED <<semtab, prsem>>,
           UNCHANGED prhasmsg, UNCHANGED prparent, UNCHANGED cont
    PROVE  KernelInv'
<1>1. Moves(States \ {"RECV", "FREE"}) /\ Moves({"CURR", "READY", "SUSP", "RECV"})
  BY DEF Moves, States
<1>2. clashed' \in BOOLEAN
  BY DEF KernelInv, ContInv
<1>3. ContInv'
  BY <1>1, <1>2 DEF KernelInv, ContInv, RecvInv, Moves
<1> QED
  BY <1>1, <1>3, QuietKeeps

LEMMA OneQueue == ASSUME NEW p \in Pids PROVE Queues(<<p>>, {p})
<1>1. <<p>> \in Seq(Pids) /\ DOMAIN <<p>> = {1} /\ <<p>>[1] = p
  OBVIOUS
<1> QED
  BY <1>1 DEF Queues

LEMMA NoQueue == Queues(<<>>, {})
  BY DEF Queues

LEMMA ResumeKeeps ==
    ASSUME KernelInv, NEW p \in Pids, Resume(p)
    PROVE  KernelInv'
<1>1. /\ prstate[p] = "SUSP" /\ ReadyAll(prstate, <<p>>)
      /\ UNCHANGED <<prprio, chprios>> /\ UNCHANGED <<sleepq, left>> /\ UNCHANGED prparent /\ UNCHANGED prcount
      /\ UNCHANGED <<semtab, prsem>> /\ UNCHANGED prhasmsg /\ UNCHANGED cont
  BY DEF Resume, Resumable, time, fixed, ends
<1>2. UNCHANGED late /\ UNCHANGED clashed
  BY DEF Resume, time, ends
<1>4. SchedInv' /\ Switched(Readying({p}), prstate')
  <2>1. \A x \in {p} \cap Pids : prstate[x] \notin {"CURR", "READY"}
    BY <1>1
  <2> QED
    BY <1>1, <2>1, OneQueue, ReadyAllKeeps DEF KernelInv
<1>5. Moves({"CURR", "READY", "SUSP"})
  BY <1>1, <1>4 DEF Switched, Readying, Moves
<1> QED
  BY <1>1, <1>2, <1>4, <1>5, QuietSame

LEMMA SuspendKeeps ==
    ASSUME KernelInv, NEW p \in Pids, Suspend(p)
    PROVE  KernelInv'
<1>1. /\ p # NULLPROC /\ currpid # NULLPROC
      /\ UNCHANGED <<prprio, chprios>> /\ UNCHANGED <<sleepq, left>> /\ UNCHANGED prparent /\ UNCHANGED prcount
      /\ UNCHANGED <<semtab, prsem>> /\ UNCHANGED prhasmsg /\ UNCHANGED cont
  BY DEF Suspend, Calls, time, fixed, ends
<1>2. UNCHANGED late /\ UNCHANGED clashed
  BY DEF Suspend, time, ends
<1>3. SchedInv /\ SchedOK(prstate, readylist, currpid) /\ "SUSP" \in States \ {"CURR", "READY"}
  BY DEF KernelInv, SchedInv, States
<1>4. CASE prstate[p] = "READY" /\ prstate' = [prstate EXCEPT ![p] = "SUSP"] /\ readylist' = Without(readylist, p)
           /\ UNCHANGED <<currpid, preempt>>
  <2>1. SchedInv'
    BY <1>1, <1>3, <1>4, ReadyLeaves
  <2>2. Moves({"CURR", "READY", "SUSP"})
    BY <1>3, <1>4 DEF Moves, SchedOK
  <2> QED
    BY <1>1, <1>2, <2>1, <2>2, QuietSame
<1>5. CASE prstate[p] = "CURR" /\ Block("SUSP")
  <2>1. SchedInv' /\ Switched([prstate EXCEPT ![currpid] = "SUSP"], prstate')
    BY <1>1, <1>3, <1>5, BlockKeeps
  <2>2. Moves({"CURR", "READY", "SUSP"})
    BY <1>3, <2>1 DEF Moves, Switched, SchedOK
  <2> QED
    BY <1>1, <1>2, <2>1, <2>2, QuietSame
<1> QED
  BY <1>4, <1>5 DEF Suspend

LEMMA ChprioKeeps ==
    ASSUME KernelInv, NEW p \in Pids, NEW prio \in Prios, Chprio(p, prio)
    PROVE  KernelInv'
<1>1. /\ chprios' = chprios + 1 /\ prprio' = [prprio EXCEPT ![p] = prio]
      /\ UNCHANGED prstate /\ UNCHANGED readylist /\ UNCHANGED currpid /\ UNCHANGED preempt
      /\ UNCHANGED <<sleepq, left>> /\ UNCHANGED prparent /\ UNCHANGED prcount
      /\ UNCHANGED <<semtab, prsem>> /\ UNCHANGED prhasmsg /\ UNCHANGED cont
  BY DEF Chprio, sched, time, ends
<1>2. UNCHANGED late /\ UNCHANGED clashed
  BY DEF Chprio, time, ends
<1>3. SchedInv'
  <2>1. chprios' \in Nat /\ chprios' # 0
    BY <1>1 DEF KernelInv, SchedInv
  <2>2. prprio' \in [Pids -> Prios \cup {0}]
    BY <1>1 DEF KernelInv, SchedInv
  <2>3. SchedOK(prstate, readylist, currpid)'
    BY <1>1 DEF KernelInv, SchedInv, SchedOK, Lists, Ordered
  <2>4. preempt' \in 1..QUANTUM
    BY <1>1 DEF KernelInv, SchedInv
  <2> QED
    BY <2>1, <2>2, <2>3, <2>4 DEF SchedInv
<1>4. Moves({"CURR", "READY", "SUSP"})
  BY <1>1 DEF Moves
<1> QED
  BY <1>1, <1>2, <1>3, <1>4, QuietSame

LEMMA YieldKeeps ==
    ASSUME KernelInv, Yield
    PROVE  KernelInv'
<1>1. /\ SetSched(Resched(prstate, readylist))
      /\ UNCHANGED <<prprio, chprios>> /\ UNCHANGED <<sleepq, left>> /\ UNCHANGED prparent /\ UNCHANGED prcount
      /\ UNCHANGED <<semtab, prsem>> /\ UNCHANGED prhasmsg /\ UNCHANGED cont
  BY DEF Yield, time, fixed, ends
<1>2. UNCHANGED late /\ UNCHANGED clashed
  BY DEF Yield, time, ends
<1>3. SchedInv /\ SchedOK(prstate, readylist, currpid)
  BY DEF KernelInv, SchedInv
<1>4. SchedInv' /\ Switched(prstate, prstate')
  <2>1. /\ prstate \in [Pids -> States] /\ \A x \in Pids : prstate[x] = "CURR" => x = currpid
        /\ prstate[NULLPROC] \in {"READY", "CURR"}
        /\ Lists(readylist, {x \in Pids : prstate[x] = "READY"}) /\ Ordered(readylist)
    BY <1>3 DEF SchedOK
  <2> QED
    BY <1>1, <1>3, <2>1, ReschedSched DEF SetSched
<1>5. Moves({"CURR", "READY", "SUSP"})
  BY <1>4 DEF Moves, Switched
<1> QED
  BY <1>1, <1>2, <1>4, <1>5, QuietSame

\* Continuations that kill nobody come and go.
LEMMA ContChanges ==
    ASSUME cont \in [Pids -> Conts], NEW c \in Pids, NEW x, x.op # "kill", cont[c].op # "kill", cont' = [cont EXCEPT ![c] = x]
    PROVE  \A q, p \in Pids : cont'[q] = Killing(p) <=> cont[q] = Killing(p)
  BY DEF Killing

LEMMA ClockEndKeeps ==
    ASSUME KernelInv, ClockEnd
    PROVE  KernelInv'
<1>1. /\ cont[currpid].op = "tick" /\ cont' = [cont EXCEPT ![currpid] = User]
      /\ UNCHANGED <<prprio, chprios>> /\ UNCHANGED <<sleepq, left>> /\ UNCHANGED prparent /\ UNCHANGED prcount
      /\ UNCHANGED <<semtab, prsem>> /\ UNCHANGED prhasmsg
  BY DEF ClockEnd, time, fixed, ends
<1>2. UNCHANGED late /\ UNCHANGED clashed
  BY DEF ClockEnd, time, ends
<1>3. SchedInv /\ SchedOK(prstate, readylist, currpid) /\ currpid \in Pids
  BY DEF KernelInv, SchedInv, SchedOK
<1>4. SchedInv' /\ Switched(prstate, prstate')
  <2>1. CASE preempt - 1 > 0 /\ preempt' = preempt - 1 /\ UNCHANGED <<prstate, readylist, currpid>>
    <3>1. preempt' \in 1..QUANTUM
      BY <1>3, <2>1, KernelAssump DEF SchedInv
    <3>2. SchedInv'
      BY <1>1, <1>3, <2>1, <3>1 DEF SchedInv, SchedOK, Lists, Ordered, TopRuns, Keyed
    <3> QED
      BY <2>1, <3>2 DEF Switched
  <2>2. CASE SetSched([Resched(prstate, readylist) EXCEPT !.preempt = QUANTUM])
    <3>1. /\ prstate \in [Pids -> States] /\ \A x \in Pids : prstate[x] = "CURR" => x = currpid
          /\ prstate[NULLPROC] \in {"READY", "CURR"}
          /\ Lists(readylist, {x \in Pids : prstate[x] = "READY"}) /\ Ordered(readylist)
      BY <1>3 DEF SchedOK
    <3> DEFINE s == Resched(prstate, readylist)
    <3>2. \E a, b, c, d : s = [prstate |-> a, readylist |-> b, currpid |-> c, preempt |-> d]
      BY DEF Resched
    <3> HIDE DEF s
    <3>3. /\ [s EXCEPT !.preempt = QUANTUM].prstate = s.prstate
          /\ [s EXCEPT !.preempt = QUANTUM].readylist = s.readylist
          /\ [s EXCEPT !.preempt = QUANTUM].currpid = s.currpid
          /\ [s EXCEPT !.preempt = QUANTUM].preempt = QUANTUM
      BY <3>2
    <3>4. prstate' = s.prstate /\ readylist' = s.readylist /\ currpid' = s.currpid /\ preempt' = QUANTUM
      BY <2>2, <3>3 DEF SetSched, s
    <3> QED
      BY <1>1, <1>3, <3>1, <3>4, ReschedSched DEF s
  <2> QED
    BY <2>1, <2>2 DEF ClockEnd
<1>5. Moves({"CURR", "READY", "SUSP", "RECV"}) /\ Moves(States \ {"RECV", "FREE"})
  BY <1>4 DEF Moves, Switched, States
<1>6. \A q, p \in Pids : cont'[q] = Killing(p) <=> cont[q] = Killing(p)
  <2>1. User.op # "kill"
    BY DEF User
  <2> QED
    BY <1>1, <1>3, <2>1, ContChanges DEF KernelInv, ContInv
<1>7. ContInv'
  <2>1. cont' \in [Pids -> Conts]
    BY <1>1 DEF KernelInv, ContInv, Conts
  <2>2. RecvInv'
    BY <1>1, <1>5 DEF KernelInv, ContInv, RecvInv, Moves, User
  <2>3. clashed' \in BOOLEAN
    BY <1>2 DEF KernelInv, ContInv
  <2> QED
    BY <1>1, <2>1, <2>2, <2>3 DEF KernelInv, ContInv
<1> QED
  BY <1>1, <1>2, <1>4, <1>5, <1>6, <1>7, QuietKeeps

LEMMA ReceiveKeeps ==
    ASSUME KernelInv, Receive
    PROVE  KernelInv'
<1>1. /\ cont[currpid] = User /\ currpid # NULLPROC
      /\ UNCHANGED <<prprio, chprios>> /\ UNCHANGED <<sleepq, left>> /\ UNCHANGED prparent /\ UNCHANGED prcount
      /\ UNCHANGED <<semtab, prsem>>
  BY DEF Receive, Calls, Running, time, fixed, ends
<1>2. UNCHANGED late /\ UNCHANGED clashed
  BY DEF Receive, time, ends
<1>3. SchedInv /\ SchedOK(prstate, readylist, currpid) /\ currpid \in Pids /\ clashed' \in BOOLEAN
  BY <1>2 DEF KernelInv, SchedInv, SchedOK, ContInv
<1>4. cont \in [Pids -> Conts] /\ prhasmsg \in [Pids -> BOOLEAN] /\ prparent' \in [Pids -> Pids] /\ RecvInv
  BY <1>1 DEF KernelInv, ContInv
<1>5. CASE prhasmsg[currpid]
  <2>1. prhasmsg' = [prhasmsg EXCEPT ![currpid] = FALSE] /\ UNCHANGED sched /\ UNCHANGED cont
    BY <1>5 DEF Receive
  <2>2. SchedInv'
    BY <1>1, <1>3, <2>1, SchedFrame DEF sched
  <2>3. Moves({"CURR", "READY", "SUSP", "RECV"})
    BY <2>1 DEF Moves, sched
  <2>4. prhasmsg' \in [Pids -> BOOLEAN]
    BY <1>4, <2>1
  <2>5. RecvInv'
    BY <1>1, <1>3, <1>4, <2>1 DEF RecvInv, sched, User
  <2>6. ContInv'
    BY <1>3, <1>4, <2>1, <2>4, <2>5 DEF ContInv
  <2> QED
    BY <1>1, <1>2, <2>1, <2>2, <2>3, <2>6, QuietKeeps
<1>6. CASE ~prhasmsg[currpid]
  <2> DEFINE c == [op |-> "receive"]
  <2>1. Block("RECV") /\ cont' = [cont EXCEPT ![currpid] = c] /\ UNCHANGED prhasmsg
    BY <1>6 DEF Receive
  <2>2. "RECV" \in States \ {"CURR", "READY"}
    BY DEF States
  <2>3. SchedInv' /\ Switched([prstate EXCEPT ![currpid] = "RECV"], prstate')
    BY <1>1, <1>3, <2>1, <2>2, BlockKeeps
  <2>4. /\ Moves({"CURR", "READY", "SUSP", "RECV"}) /\ prstate'[currpid] = "RECV"
        /\ \A p \in Pids \ {currpid} : prstate'[p] = prstate[p] \/ {prstate[p], prstate'[p]} \subseteq {"CURR", "READY"}
    BY <1>3, <2>3 DEF Moves, Switched, SchedOK
  <2>5. \A q, p \in Pids : cont'[q] = Killing(p) <=> cont[q] = Killing(p)
    <3>1. c.op # "kill" /\ cont[currpid].op # "kill"
      BY <1>1 DEF User
    <3> HIDE DEF c
    <3> QED
      BY <1>3, <1>4, <2>1, <3>1, ContChanges
  <2>6. cont' \in [Pids -> Conts]
    BY <1>4, <2>1 DEF Conts
  <2>7. RecvInv'
    <3> SUFFICES ASSUME NEW p \in Pids, cont'[p].op = "receive", prstate'[p] \notin {"RECV", "FREE"}
                 PROVE  prhasmsg'[p]
      BY DEF RecvInv
    <3>1. p # currpid
      BY <2>4
    <3>2. cont[p].op = "receive"
      BY <1>4, <2>1, <3>1
    <3>3. prstate[p] \notin {"RECV", "FREE"}
      BY <2>4, <3>1
    <3> QED
      BY <1>4, <2>1, <3>2, <3>3 DEF RecvInv
  <2>8. ContInv'
    BY <1>3, <1>4, <2>1, <2>6, <2>7 DEF ContInv
  <2> QED
    BY <1>1, <1>2, <2>3, <2>4, <2>5, <2>8, QuietKeeps
<1> QED
  BY <1>5, <1>6

LEMMA RecvClrKeeps ==
    ASSUME KernelInv, RecvClr
    PROVE  KernelInv'
<1>1. /\ cont[currpid] = User /\ prhasmsg' = [prhasmsg EXCEPT ![currpid] = FALSE] /\ UNCHANGED cont
      /\ UNCHANGED <<prprio, chprios>> /\ UNCHANGED <<sleepq, left>> /\ UNCHANGED prparent /\ UNCHANGED prcount
      /\ UNCHANGED <<semtab, prsem>> /\ UNCHANGED <<prstate, readylist, currpid, preempt>>
  BY DEF RecvClr, Calls, Running, sched, time, fixed, ends
<1>2. UNCHANGED late /\ UNCHANGED clashed
  BY DEF RecvClr, time, ends
<1>3. SchedInv /\ SchedOK(prstate, readylist, currpid) /\ currpid \in Pids /\ clashed' \in BOOLEAN
  BY <1>2 DEF KernelInv, SchedInv, SchedOK, ContInv
<1>4. cont \in [Pids -> Conts] /\ prhasmsg \in [Pids -> BOOLEAN] /\ prparent' \in [Pids -> Pids] /\ RecvInv
  BY <1>1 DEF KernelInv, ContInv
<1>5. SchedInv'
  BY <1>1, <1>3, SchedFrame
<1>6. Moves({"CURR", "READY", "SUSP", "RECV"})
  BY <1>1 DEF Moves
<1>7. prhasmsg' \in [Pids -> BOOLEAN]
  BY <1>1, <1>4
<1>8. RecvInv'
  BY <1>1, <1>3, <1>4 DEF RecvInv, User
<1>9. ContInv'
  BY <1>1, <1>3, <1>4, <1>7, <1>8 DEF ContInv
<1> QED
  BY <1>1, <1>2, <1>5, <1>6, <1>9, QuietKeeps

LEMMA ReceivedKeeps ==
    ASSUME KernelInv, Received
    PROVE  KernelInv'
<1>1. /\ cont[currpid].op \in {"receive", "recvtime"}
      /\ prhasmsg' = [prhasmsg EXCEPT ![currpid] = FALSE] /\ cont' = [cont EXCEPT ![currpid] = User]
      /\ UNCHANGED <<prprio, chprios>> /\ UNCHANGED <<sleepq, left>> /\ UNCHANGED prparent /\ UNCHANGED prcount
      /\ UNCHANGED <<semtab, prsem>> /\ UNCHANGED <<prstate, readylist, currpid, preempt>>
  BY DEF Received, sched, time, fixed, ends
<1>2. UNCHANGED late /\ UNCHANGED clashed
  BY DEF Received, time, ends
<1>3. SchedInv /\ SchedOK(prstate, readylist, currpid) /\ currpid \in Pids /\ clashed' \in BOOLEAN
  BY <1>2 DEF KernelInv, SchedInv, SchedOK, ContInv
<1>4. cont \in [Pids -> Conts] /\ prhasmsg \in [Pids -> BOOLEAN] /\ prparent' \in [Pids -> Pids] /\ RecvInv
  BY <1>1 DEF KernelInv, ContInv
<1>5. SchedInv'
  BY <1>1, <1>3, SchedFrame
<1>6. Moves({"CURR", "READY", "SUSP", "RECV"})
  BY <1>1 DEF Moves
<1>7. prhasmsg' \in [Pids -> BOOLEAN] /\ cont' \in [Pids -> Conts]
  BY <1>1, <1>4 DEF Conts
<1>8. RecvInv'
  BY <1>1, <1>3, <1>4 DEF RecvInv, User
<1>9. ContInv'
  BY <1>1, <1>3, <1>4, <1>7, <1>8 DEF ContInv
<1>10. \A q, p \in Pids : cont'[q] = Killing(p) <=> cont[q] = Killing(p)
  <2>1. User.op # "kill" /\ cont[currpid].op # "kill"
    BY <1>1 DEF User
  <2> QED
    BY <1>1, <1>3, <1>4, <2>1, ContChanges
<1> QED
  BY <1>1, <1>2, <1>5, <1>6, <1>9, <1>10, QuietKeeps

-----------------------------------------------------------------------------
(* create() *)

LEMMA CreateKeeps ==
    ASSUME KernelInv, NEW p \in Pids, NEW prio \in Prios, Create(p, prio)
    PROVE  KernelInv'
<1>1. /\ cont[currpid] = User /\ prstate[p] = "FREE" /\ prstate' = [prstate EXCEPT ![p] = "SUSP"]
      /\ prprio' = [prprio EXCEPT ![p] = prio] /\ prparent' = [prparent EXCEPT ![p] = currpid]
      /\ prhasmsg' = [prhasmsg EXCEPT ![p] = FALSE] /\ prsem' = [prsem EXCEPT ![p] = NSEM]
      /\ cont' = [cont EXCEPT ![p] = User] /\ prcount' = prcount + 1
      /\ UNCHANGED chprios /\ UNCHANGED <<readylist, currpid, preempt>> /\ UNCHANGED <<sleepq, left>> /\ UNCHANGED semtab
  BY DEF Create, Calls, Running, time
<1>2. UNCHANGED late /\ UNCHANGED clashed
  BY DEF Create, time
<1>3. SchedInv /\ SchedOK(prstate, readylist, currpid) /\ currpid \in Pids /\ clashed' \in BOOLEAN
  BY <1>2 DEF KernelInv, SchedInv, SchedOK, ContInv
<1>4. cont \in [Pids -> Conts] /\ prhasmsg \in [Pids -> BOOLEAN] /\ prparent \in [Pids -> Pids] /\ RecvInv
  BY <1>1 DEF KernelInv, ContInv
<1>5. SchedInv'
  <2>1. prprio' \in [Pids -> Prios \cup {0}] /\ \A x \in Pids \ {p} : prprio'[x] = prprio[x]
    BY <1>1, <1>3 DEF SchedInv
  <2>2. "SUSP" \in States \ {"CURR", "READY"} /\ prstate[p] \notin {"CURR", "READY"}
    BY <1>1 DEF States
  <2> QED
    BY <1>1, <1>3, <2>1, <2>2, ElsewhereKeeps
<1>6. Moves({"FREE", "SUSP"})
  BY <1>1, <1>3 DEF Moves, SchedOK
<1>7. SleepInv'
  <2>1. Moves(States \ {"SLEEP", "RECTIM"})
    BY <1>6 DEF Moves, States
  <2> QED
    BY <1>1, <2>1, SleepFrame DEF KernelInv
<1>8. TimeInv'
  BY <1>1, <1>2, TimeFrame DEF KernelInv
<1>9. SemInv'
  <2>0. SemInv /\ prstate \in [Pids -> States] /\ prsem \in [Pids -> 0..NSEM]
    BY <1>3 DEF KernelInv, SchedOK, SemInv
  <2>1. prsem' \in [Pids -> 0..NSEM]
    BY <1>1, <2>0, KernelAssump
  <2>2. \A x \in Pids : prstate'[x] = "WAIT" => prstate[x] = "WAIT" /\ prsem'[x] = prsem[x]
    BY <1>1, <2>0
  <2>3. \A x \in Pids : prstate[x] = "WAIT" => prstate'[x] = "WAIT" /\ prsem'[x] = prsem[x]
    BY <1>1, <2>0
  <2>4. \A s \in Sems : Waiters(s)' = Waiters(s)
    BY <2>2, <2>3 DEF Waiters
  <2>5. \A s \in Sems : SemOK(semtab[s], Waiters(s))'
    BY <1>1, <2>0, <2>4 DEF SemInv, SemOK, Queues
  <2> QED
    BY <1>1, <2>0, <2>1, <2>2, <2>5 DEF SemInv
<1>10. ContInv'
  <2>1. cont' \in [Pids -> Conts]
    BY <1>1, <1>4 DEF Conts
  <2>2. RecvInv'
    <3> SUFFICES ASSUME NEW x \in Pids, cont'[x].op = "receive", prstate'[x] \notin {"RECV", "FREE"}
                 PROVE  prhasmsg'[x]
      BY DEF RecvInv
    <3>1. x # p
      BY <1>1, <1>4 DEF User
    <3> QED
      BY <1>1, <1>3, <1>4, <3>1 DEF RecvInv, SchedOK
  <2>3. prhasmsg' \in [Pids -> BOOLEAN]
    BY <1>1, <1>4
  <2>4. prparent' \in [Pids -> Pids]
    BY <1>1, <1>3, <1>4
  <2> QED
    BY <1>3, <2>1, <2>2, <2>3, <2>4 DEF ContInv
<1>11. KillsInv'
  <2>0. KillsInv /\ prcount \in Nat
    BY DEF KernelInv, KillsInv
  <2>1. prcount' \in Nat
    BY <1>1, <2>0
  <2> SUFFICES ASSUME ~clashed'
               PROVE  /\ prcount' = Cardinality(Alive')
                      /\ \A x \in Pids : InKill(x)' => prstate'[x] # "FREE"
                      /\ \A x, q, r \in Pids : Kills(q, x)' /\ Kills(r, x)' => q = r
    BY <2>1 DEF KillsInv
  <2>2. /\ prcount = Cardinality(Alive)
        /\ \A x \in Pids : InKill(x) => prstate[x] # "FREE"
        /\ \A x, q, r \in Pids : Kills(q, x) /\ Kills(r, x) => q = r
    BY <1>2, <2>0 DEF KillsInv
  <2>3. ASSUME NEW q \in Pids, NEW x \in Pids PROVE Kills(q, x)' <=> Kills(q, x)
    <3>1. CASE q = p
      BY <1>1, <1>3, <1>4, <3>1 DEF Kills, Killing, User, SchedOK
    <3>2. CASE q # p
      BY <1>1, <1>3, <1>4, <3>2 DEF Kills, Killing, SchedOK
    <3> QED
      BY <3>1, <3>2
  <2>4. \A x \in Pids : InKill(x)' <=> InKill(x)
    BY <2>3 DEF InKill, Kills
  <2>5. Alive' = Alive \cup {p} /\ p \notin Alive
    <3>1. p \notin Alive /\ ~InKill(p)
      BY <1>1, <2>2 DEF Alive
    <3>2. prstate'[p] # "FREE" /\ \A x \in Pids \ {p} : prstate'[x] = prstate[x]
      BY <1>1, <1>3 DEF SchedOK
    <3> QED
      BY <2>4, <3>1, <3>2 DEF Alive
  <2>6. IsFiniteSet(Alive)
    BY AliveFinite
  <2>7. Cardinality(Alive') = Cardinality(Alive) + 1
    BY <2>5, <2>6, FS_AddElement
  <2>8. \A x \in Pids : InKill(x)' => prstate'[x] # "FREE"
    BY <1>1, <1>3, <2>2, <2>4 DEF SchedOK
  <2> QED
    BY <1>1, <2>2, <2>3, <2>7, <2>8
<1> QED
  BY <1>5, <1>7, <1>8, <1>9, <1>10, <1>11 DEF KernelInv

-----------------------------------------------------------------------------
(* send() *)

\* What send() does, for send() itself and for kill().
LEMMA DeliverKeeps ==
    ASSUME KernelInv, NEW p \in Pids, prstate[p] # "FREE", Deliver(p), UNCHANGED <<prprio, chprios>>
    PROVE  /\ SchedInv' /\ SleepInv' /\ TimeInv'
           /\ Moves({"CURR", "READY", "RECV", "RECTIM"})
           /\ \A x \in Pids \ {p} : prstate'[x] = prstate[x] \/ {prstate[x], prstate'[x]} \subseteq {"CURR", "READY"}
<1> DEFINE P == IF prstate[p] \in {"RECV", "RECTIM"} THEN {p} ELSE {}
           ps == IF prstate[p] \in {"RECV", "RECTIM"} THEN <<p>> ELSE <<>>
<1>1. /\ ReadyAll(prstate, ps)
      /\ sleepq' = IF prstate[p] = "RECTIM" THEN Unsleep(sleepq, p) ELSE sleepq
      /\ left' = IF prstate[p] = "RECTIM" THEN [left EXCEPT ![p] = 0] ELSE left
  BY DEF Deliver
<1>2. late' = (late /\ sleepq' # <<>>)
  BY DEF Deliver
<1>3. SchedInv /\ SchedOK(prstate, readylist, currpid) /\ SleepInv /\ TimeInv
  BY DEF KernelInv, SchedInv
<1>4. Queues(ps, P)
  BY OneQueue, NoQueue
<1>5. SchedInv' /\ Switched(Readying(P), prstate')
  <2>1. \A x \in P \cap Pids : prstate[x] \notin {"CURR", "READY"}
    OBVIOUS
  <2> HIDE DEF P, ps
  <2> QED
    BY <1>1, <1>3, <1>4, <2>1, ReadyAllKeeps
<1>6. \A x \in Pids \ {p} : prstate'[x] = prstate[x] \/ {prstate[x], prstate'[x]} \subseteq {"CURR", "READY"}
  BY <1>5 DEF Switched, Readying
<1>7. Moves({"CURR", "READY", "RECV", "RECTIM"})
  BY <1>5 DEF Switched, Readying, Moves
<1>8. prstate[p] \in {"RECV", "RECTIM"} => prstate'[p] \in {"CURR", "READY"}
  BY <1>5 DEF Switched, Readying
<1>9. CASE prstate[p] = "RECTIM"
  <2>1. p \in Sleepers
    BY <1>9 DEF Sleepers
  <2>2. sleepq' = Unsleep(sleepq, p) /\ left' = [left EXCEPT ![p] = 0]
    BY <1>1, <1>9
  <2>3. TimeInv' /\ Lists(sleepq', Sleepers \ {p})
    BY <1>2, <1>3, <2>1, <2>2, SleepEnds
  <2>4. Sleepers' = Sleepers \ {p}
    BY <1>6, <1>8, <1>9 DEF Sleepers
  <2>5. SleepInv'
    BY <2>3, <2>4 DEF SleepInv, Lists
  <2> QED
    BY <1>5, <1>6, <1>7, <2>3, <2>5
<1>10. CASE prstate[p] # "RECTIM"
  <2>1. UNCHANGED sleepq /\ UNCHANGED left
    BY <1>1, <1>10
  <2>2. Moves(States \ {"SLEEP", "RECTIM"})
    <3>1. \A x \in Pids : prstate'[x] = prstate[x] \/ {prstate[x], prstate'[x]} \subseteq {"CURR", "READY", "RECV"}
      BY <1>5, <1>10 DEF Switched, Readying
    <3> QED
      BY <3>1 DEF Moves, States
  <2>3. SleepInv'
    BY <1>3, <2>1, <2>2, SleepFrame
  <2>4. TimeInv'
    <3>1. CASE UNCHANGED late
      BY <1>3, <2>1, <3>1, TimeFrame
    <3>2. CASE ~UNCHANGED late
      <4>1. sleepq' = <<>> /\ late' = FALSE
        BY <1>2, <1>3, <3>2 DEF TimeInv
      <4>2. WakeOnTime'
        BY <4>1 DEF WakeOnTime
      <4> QED
        BY <1>3, <2>1, <4>1, <4>2 DEF TimeInv, NonNeg
    <3> QED
      BY <3>1, <3>2
  <2> QED
    BY <1>5, <1>6, <1>7, <2>3, <2>4
<1> QED
  BY <1>9, <1>10

LEMMA SendKeeps ==
    ASSUME KernelInv, NEW p \in Pids, Send(p)
    PROVE  KernelInv'
<1>1. /\ prstate[p] # "FREE" /\ Deliver(p)
      /\ UNCHANGED <<prprio, chprios>> /\ UNCHANGED prparent /\ UNCHANGED prcount
      /\ UNCHANGED <<semtab, prsem>> /\ UNCHANGED cont
      /\ prhasmsg' = [prhasmsg EXCEPT ![p] = TRUE]
  BY DEF Send, Deliver, fixed, ends
<1>2. UNCHANGED clashed
  BY DEF Send, ends
<1>3. /\ SchedInv' /\ SleepInv' /\ TimeInv'
      /\ Moves({"CURR", "READY", "RECV", "RECTIM"})
      /\ \A x \in Pids \ {p} : prstate'[x] = prstate[x] \/ {prstate[x], prstate'[x]} \subseteq {"CURR", "READY"}
  BY <1>1, DeliverKeeps
<1>4. SemInv'
  <2>1. Moves(States \ {"WAIT"})
    BY <1>3 DEF Moves, States
  <2> QED
    BY <1>1, <2>1, SemFrame DEF KernelInv
<1>5. ContInv'
  <2>0. prhasmsg \in [Pids -> BOOLEAN] /\ RecvInv /\ cont' \in [Pids -> Conts] /\ prparent' \in [Pids -> Pids] /\ clashed' \in BOOLEAN
    BY <1>1, <1>2 DEF KernelInv, ContInv
  <2>1. prhasmsg' \in [Pids -> BOOLEAN]
    BY <1>1, <2>0
  <2>2. RecvInv'
    <3> SUFFICES ASSUME NEW x \in Pids, cont'[x].op = "receive", prstate'[x] \notin {"RECV", "FREE"}
                 PROVE  prhasmsg'[x]
      BY DEF RecvInv
    <3>1. CASE x = p
      BY <1>1, <2>0, <3>1
    <3>2. CASE x # p
      <4>1. prstate[x] \notin {"RECV", "FREE"}
        BY <1>3, <3>2
      <4> QED
        BY <1>1, <2>0, <3>2, <4>1 DEF RecvInv
    <3> QED
      BY <3>1, <3>2
  <2> QED
    BY <2>0, <2>1, <2>2 DEF ContInv
<1>6. KillsInv'
  <2>1. \A x \in Pids : prstate'[x] = "FREE" <=> prstate[x] = "FREE"
    BY <1>3 DEF Moves
  <2>2. \A q \in Pids : prstate[q] # "FREE" => \A x \in Pids : cont'[q] = Killing(x) <=> cont[q] = Killing(x)
    BY <1>1
  <2> QED
    BY <1>1, <1>2, <2>1, <2>2, KillsFrame DEF KernelInv
<1> QED
  BY <1>3, <1>4, <1>5, <1>6 DEF KernelInv

-----------------------------------------------------------------------------
(* recvtime() and sleepms() *)

\* The current process joins the delta list and blocks.
LEMMA GoToSleep ==
    ASSUME KernelInv, NEW state \in {"SLEEP", "RECTIM"}, NEW d \in Nat, currpid # NULLPROC,
           sleepq' = InsertD(sleepq, currpid, d), left' = [left EXCEPT ![currpid] = d], UNCHANGED late,
           Block(state), UNCHANGED <<prprio, chprios>>
    PROVE  /\ SchedInv' /\ SleepInv' /\ TimeInv'
           /\ Moves(States \ {"WAIT", "RECV", "FREE"})
<1>1. SchedInv /\ SchedOK(prstate, readylist, currpid) /\ SleepInv /\ TimeInv /\ currpid \in Pids
  BY DEF KernelInv, SchedInv, SchedOK
<1>2. state \in States \ {"CURR", "READY"}
  BY DEF States
<1>3. SchedInv' /\ Switched([prstate EXCEPT ![currpid] = state], prstate')
  BY <1>1, <1>2, BlockKeeps
<1>4. currpid \notin Sleepers
  BY <1>1 DEF Sleepers, SchedOK
<1>5. TimeInv' /\ Lists(sleepq', Sleepers \cup {currpid})
  BY <1>1, <1>4, SleepStarts
<1>6. prstate'[currpid] = state /\ \A x \in Pids \ {currpid} :
        prstate'[x] = prstate[x] \/ {prstate[x], prstate'[x]} \subseteq {"CURR", "READY"}
  BY <1>1, <1>2, <1>3 DEF Switched, SchedOK
<1>7. Sleepers' = Sleepers \cup {currpid}
  BY <1>1, <1>6 DEF Sleepers
<1>8. SleepInv'
  BY <1>5, <1>7 DEF SleepInv, Lists
<1>9. Moves(States \ {"WAIT", "RECV", "FREE"})
  BY <1>1, <1>6 DEF Moves, States, SchedOK
<1> QED
  BY <1>3, <1>5, <1>8, <1>9

LEMMA RecvTimeKeeps ==
    ASSUME KernelInv, NEW d \in Waits, RecvTime(d)
    PROVE  KernelInv'
<1> DEFINE c == [op |-> "recvtime"]
<1>1. /\ cont[currpid] = User /\ currpid # NULLPROC
      /\ sleepq' = InsertD(sleepq, currpid, d) /\ left' = [left EXCEPT ![currpid] = d]
      /\ Block("RECTIM") /\ cont' = [cont EXCEPT ![currpid] = c]
      /\ UNCHANGED <<prprio, chprios>> /\ UNCHANGED prparent /\ UNCHANGED prcount
      /\ UNCHANGED <<semtab, prsem>> /\ UNCHANGED prhasmsg
  BY DEF RecvTime, Calls, Running, fixed, ends
<1>2. UNCHANGED late /\ UNCHANGED clashed
  BY DEF RecvTime, ends
<1>3. /\ SchedInv' /\ SleepInv' /\ TimeInv'
      /\ Moves(States \ {"WAIT", "RECV", "FREE"})
  <2>1. d \in Nat
    BY KernelAssump
  <2> QED
    BY <1>1, <1>2, <2>1, GoToSleep
<1>4. SemInv'
  <2>1. Moves(States \ {"WAIT"})
    BY <1>3 DEF Moves
  <2> QED
    BY <1>1, <2>1, SemFrame DEF KernelInv
<1>5. currpid \in Pids /\ cont \in [Pids -> Conts] /\ RecvInv /\ clashed' \in BOOLEAN
  BY <1>2 DEF KernelInv, SchedInv, SchedOK, ContInv
<1>6. ContInv'
  <2>1. cont' \in [Pids -> Conts]
    BY <1>1, <1>5 DEF Conts
  <2>2. RecvInv'
    BY <1>1, <1>3, <1>5 DEF RecvInv, Moves
  <2> QED
    BY <1>1, <1>5, <2>1, <2>2 DEF KernelInv, ContInv
<1>7. KillsInv'
  <2>1. \A x \in Pids : prstate'[x] = "FREE" <=> prstate[x] = "FREE"
    BY <1>3 DEF Moves
  <2>2. \A q, p \in Pids : cont'[q] = Killing(p) <=> cont[q] = Killing(p)
    <3>1. c.op # "kill" /\ cont[currpid].op # "kill"
      BY <1>1 DEF User
    <3> HIDE DEF c
    <3> QED
      BY <1>1, <1>5, <3>1, ContChanges
  <2> QED
    BY <1>1, <1>2, <2>1, <2>2, KillsFrame DEF KernelInv
<1> QED
  BY <1>3, <1>4, <1>6, <1>7 DEF KernelInv

LEMMA SleepMsKeeps ==
    ASSUME KernelInv, NEW d \in Delays, SleepMs(d)
    PROVE  KernelInv'
<1>1. /\ currpid # NULLPROC
      /\ sleepq' = InsertD(sleepq, currpid, d) /\ left' = [left EXCEPT ![currpid] = d]
      /\ Block("SLEEP") /\ UNCHANGED cont
      /\ UNCHANGED <<prprio, chprios>> /\ UNCHANGED prparent /\ UNCHANGED prcount
      /\ UNCHANGED <<semtab, prsem>> /\ UNCHANGED prhasmsg
  BY DEF SleepMs, Calls, Running, fixed, ends
<1>2. UNCHANGED late /\ UNCHANGED clashed
  BY DEF SleepMs, ends
<1>3. /\ SchedInv' /\ SleepInv' /\ TimeInv'
      /\ Moves(States \ {"WAIT", "RECV", "FREE"})
  <2>1. d \in Nat
    BY KernelAssump
  <2> QED
    BY <1>1, <1>2, <2>1, GoToSleep
<1>4. SemInv'
  <2>1. Moves(States \ {"WAIT"})
    BY <1>3 DEF Moves
  <2> QED
    BY <1>1, <2>1, SemFrame DEF KernelInv
<1>5. ContInv'
  <2>1. Moves(States \ {"RECV", "FREE"})
    BY <1>3 DEF Moves
  <2> QED
    BY <1>1, <1>2, <2>1, ContFrame DEF KernelInv
<1>6. KillsInv'
  <2>1. \A x \in Pids : prstate'[x] = "FREE" <=> prstate[x] = "FREE"
    BY <1>3 DEF Moves
  <2>2. \A q \in Pids : prstate[q] # "FREE" => \A x \in Pids : cont'[q] = Killing(x) <=> cont[q] = Killing(x)
    BY <1>1
  <2> QED
    BY <1>1, <1>2, <2>1, <2>2, KillsFrame DEF KernelInv
<1> QED
  BY <1>3, <1>4, <1>5, <1>6 DEF KernelInv

-----------------------------------------------------------------------------
(* Semaphores *)

\* A step between the states current, ready and waiting, which changes no more
\* than the semaphores.
LEMMA SemRest ==
    ASSUME KernelInv, SchedInv', SemInv', Moves({"CURR", "READY", "WAIT"}),
           UNCHANGED <<sleepq, left>>, UNCHANGED late, UNCHANGED prcount, UNCHANGED clashed,
           UNCHANGED prhasmsg, UNCHANGED prparent, UNCHANGED cont
    PROVE  KernelInv'
<1>0. /\ Moves(States \ {"SLEEP", "RECTIM"}) /\ Moves(States \ {"RECV", "FREE"})
      /\ \A p \in Pids : prstate'[p] = "FREE" <=> prstate[p] = "FREE"
  BY DEF Moves, States
<1>1. SleepInv'
  BY <1>0, SleepFrame DEF KernelInv
<1>2. TimeInv'
  BY TimeFrame DEF KernelInv
<1>4. ContInv'
  BY <1>0, ContFrame DEF KernelInv
<1>5. KillsInv'
  <2>1. \A q \in Pids : prstate[q] # "FREE" => \A x \in Pids : cont'[q] = Killing(x) <=> cont[q] = Killing(x)
    OBVIOUS
  <2> QED
    BY <1>0, <2>1, KillsFrame DEF KernelInv
<1> QED
  BY <1>1, <1>2, <1>4, <1>5 DEF KernelInv

\* The first w processes that wait for s become ready.
LEMMA Release ==
    ASSUME KernelInv, NEW s \in Sems, NEW w \in 0..Len(semtab[s].squeue),
           ReadyAll(prstate, SubSeq(semtab[s].squeue, 1, w)),
           UNCHANGED <<prprio, chprios>>, UNCHANGED prsem
    PROVE  /\ SchedInv' /\ Moves({"CURR", "READY", "WAIT"})
           /\ LET q == SubSeq(semtab[s].squeue, w + 1, Len(semtab[s].squeue))
              IN  Queues(q, Waiters(s)') /\ Len(q) = Len(semtab[s].squeue) - w
           /\ \A t \in Sems \ {s} : Waiters(t)' = Waiters(t)
           /\ \A p \in Pids : prstate'[p] = "WAIT" => prstate[p] = "WAIT"
<1> DEFINE q == semtab[s].squeue
           P == {q[i] : i \in 1..w}
           r == SubSeq(q, w + 1, Len(q))
           ps == SubSeq(q, 1, w)
<1>1. /\ SchedInv /\ SchedOK(prstate, readylist, currpid)
      /\ Queues(q, Waiters(s))
  BY DEF KernelInv, SchedInv, SemInv, SemOK
<1>2. /\ Queues(r, Waiters(s) \ P)
      /\ Len(r) = Len(q) - w
      /\ Queues(ps, P)
      /\ P \subseteq Waiters(s) \cap Pids
  <2> DEFINE W == Waiters(s)
  <2> HIDE DEF q, W
  <2>1. Queues(q, W) /\ w \in 0..Len(q)
    BY <1>1 DEF q, W
  <2> QED
    BY <2>1, QueuesSuffix DEF W
<1> HIDE DEF P, r
<1>3. \A p \in P : p \in Pids /\ prstate[p] = "WAIT" /\ prsem[p] = s
  BY <1>2 DEF Waiters
<1>4. SchedInv' /\ Switched(Readying(P), prstate')
  <2>1. \A p \in P \cap Pids : prstate[p] \notin {"CURR", "READY"}
    BY <1>3
  <2> HIDE DEF ps
  <2>2. ReadyAll(prstate, ps)
    BY DEF ps
  <2> QED
    BY <1>1, <1>2, <2>1, <2>2, ReadyAllKeeps
<1>5. /\ \A p \in P : prstate'[p] \in {"CURR", "READY"}
      /\ \A p \in Pids \ P : prstate'[p] = prstate[p] \/ {prstate[p], prstate'[p]} \subseteq {"CURR", "READY"}
  BY <1>3, <1>4 DEF Switched, Readying
<1>6. Moves({"CURR", "READY", "WAIT"})
  BY <1>3, <1>5 DEF Moves
<1>7. \A p \in Pids : prstate'[p] = "WAIT" <=> prstate[p] = "WAIT" /\ p \notin P
  BY <1>3, <1>5
<1>8. Waiters(s)' = Waiters(s) \ P
  BY <1>7 DEF Waiters
<1>9. \A t \in Sems \ {s} : Waiters(t)' = Waiters(t)
  BY <1>3, <1>7 DEF Waiters
<1>10. Queues(r, Waiters(s)')
  BY <1>2, <1>8
<1> QED
  BY <1>2, <1>4, <1>6, <1>7, <1>9, <1>10 DEF r

\* One semaphore changes.
LEMMA SemUpdate ==
    ASSUME semtab \in [Sems -> SemRecord], NEW s \in Sems, NEW c \in Int, NEW q \in Seq(Pids),
           semtab' = [semtab EXCEPT ![s].scount = c, ![s].squeue = q]
    PROVE  /\ semtab' \in [Sems -> SemRecord]
           /\ \A t \in Sems \ {s} : semtab'[t] = semtab[t]
           /\ semtab'[s].scount = c /\ semtab'[s].squeue = q /\ semtab'[s].sstate = semtab[s].sstate
<1>1. semtab[s] \in SemRecord
  OBVIOUS
<1>2. semtab'[s] = [semtab[s] EXCEPT !.scount = c, !.squeue = q]
  OBVIOUS
<1>3. semtab'[s] \in SemRecord
  BY <1>1, <1>2 DEF SemRecord
<1>4. semtab'[s].scount = c /\ semtab'[s].squeue = q /\ semtab'[s].sstate = semtab[s].sstate
  BY <1>1, <1>2 DEF SemRecord
<1>5. \A t \in Sems \ {s} : semtab'[t] = semtab[t]
  OBVIOUS
<1>6. semtab' \in [Sems -> SemRecord]
  BY <1>3
<1> QED
  BY <1>4, <1>5, <1>6

LEMMA SemCreateKeeps ==
    ASSUME KernelInv, NEW s \in Sems, NEW n \in Counts, SemCreate(s, n)
    PROVE  KernelInv'
<1>1. /\ semtab[s].sstate = "FREE" /\ semtab' = [semtab EXCEPT ![s].sstate = "USED", ![s].scount = n]
      /\ UNCHANGED <<prstate, readylist, currpid, preempt>>
      /\ UNCHANGED <<prprio, chprios>> /\ UNCHANGED <<sleepq, left>> /\ UNCHANGED prparent /\ UNCHANGED prcount
      /\ UNCHANGED prsem /\ UNCHANGED prhasmsg /\ UNCHANGED cont
  BY DEF SemCreate, sched, time, fixed, ends
<1>2. UNCHANGED late /\ UNCHANGED clashed
  BY DEF SemCreate, time, ends
<1>3. SchedInv'
  BY <1>1, SchedFrame DEF KernelInv
<1>4. Moves({"CURR", "READY", "WAIT"})
  BY <1>1 DEF Moves
<1>5. SemInv /\ semtab[s] \in SemRecord /\ SemOK(semtab[s], Waiters(s)) /\ n \in Nat
  BY KernelAssump DEF KernelInv, SemInv
<1>6. semtab'[s] = [semtab[s] EXCEPT !.sstate = "USED", !.scount = n]
  BY <1>1, <1>5 DEF SemInv
<1>7. semtab'[s] \in SemRecord /\ semtab'[s].scount = n /\ semtab'[s].squeue = semtab[s].squeue
      /\ semtab'[s].sstate = "USED"
  <2>1. semtab'[s] \in SemRecord
    <3>1. semtab[s] \in SemRecord /\ n \in Int
      BY <1>5
    <3> QED
      BY <1>6, <3>1 DEF SemRecord
  <2>2. semtab'[s].scount = n /\ semtab'[s].squeue = semtab[s].squeue /\ semtab'[s].sstate = "USED"
    BY <1>5, <1>6 DEF SemRecord
  <2> QED
    BY <2>1, <2>2
<1>8. semtab' \in [Sems -> SemRecord] /\ \A t \in Sems \ {s} : semtab'[t] = semtab[t]
  BY <1>1, <1>5, <1>7 DEF SemInv
<1>9. \A t \in Sems : Waiters(t)' = Waiters(t)
  BY <1>1 DEF Waiters
<1>10. SemOK(semtab'[s], Waiters(s)')
  <2>1. semtab[s].squeue = <<>> /\ Queues(<<>>, Waiters(s))
    BY <1>1, <1>5 DEF SemOK
  <2>2. Len(<<>>) = Held(n)
    BY <1>5 DEF Held
  <2> QED
    BY <1>7, <1>9, <2>1, <2>2 DEF SemOK
<1>11. SemInv'
  <2>1. prsem' \in [Pids -> 0..NSEM] /\ \A p \in Pids : prstate'[p] = "WAIT" => prsem'[p] \in Sems
    BY <1>1, <1>5 DEF SemInv
  <2> QED
    BY <1>5, <1>8, <1>9, <1>10, <2>1, SemStep
<1> QED
  BY <1>1, <1>2, <1>3, <1>4, <1>11, SemRest

\* What signaln(), semreset() and semdelete() have in common.
LEMMA ReleaseKeeps ==
    ASSUME KernelInv, NEW s \in Sems, NEW w \in 0..Len(semtab[s].squeue),
           ReadyAll(prstate, SubSeq(semtab[s].squeue, 1, w)),
           semtab' \in [Sems -> SemRecord], \A t \in Sems \ {s} : semtab'[t] = semtab[t],
           semtab'[s].squeue = SubSeq(semtab[s].squeue, w + 1, Len(semtab[s].squeue)),
           Len(semtab[s].squeue) - w = Held(semtab'[s].scount),
           semtab'[s].sstate = "FREE" => w = Len(semtab[s].squeue),
           UNCHANGED <<prprio, chprios>>, UNCHANGED prsem,
           UNCHANGED <<sleepq, left>>, UNCHANGED late, UNCHANGED prcount, UNCHANGED clashed,
           UNCHANGED prhasmsg, UNCHANGED prparent, UNCHANGED cont
    PROVE  KernelInv'
<1> DEFINE q == SubSeq(semtab[s].squeue, w + 1, Len(semtab[s].squeue))
<1>1. /\ SchedInv' /\ Moves({"CURR", "READY", "WAIT"})
      /\ Queues(q, Waiters(s)') /\ Len(q) = Len(semtab[s].squeue) - w
      /\ \A t \in Sems \ {s} : Waiters(t)' = Waiters(t)
      /\ \A p \in Pids : prstate'[p] = "WAIT" => prstate[p] = "WAIT"
  BY Release
<1>2. semtab'[s].squeue = q
  OBVIOUS
<1> HIDE DEF q
<1>3. SemOK(semtab'[s], Waiters(s)')
  <2>1. ASSUME semtab'[s].sstate = "FREE" PROVE q = <<>>
    <3>1. Len(q) = 0 /\ q \in Seq(Pids)
      BY <1>1, <2>1 DEF Queues
    <3> QED
      BY <3>1, EmptySeq
  <2> QED
    BY <1>1, <1>2, <2>1 DEF SemOK
<1>4. SemInv'
  <2>1. prsem' \in [Pids -> 0..NSEM] /\ \A p \in Pids : prstate'[p] = "WAIT" => prsem'[p] \in Sems
    BY <1>1 DEF KernelInv, SemInv
  <2> QED
    BY <1>1, <1>3, <2>1, SemStep DEF KernelInv
<1> QED
  BY <1>1, <1>4, SemRest

LEMMA SignalNKeeps ==
    ASSUME KernelInv, NEW s \in Sems, NEW n \in Signals, SignalN(s, n)
    PROVE  KernelInv'
<1> DEFINE t == semtab[s]
           w == IF t.scount >= 0 THEN 0 ELSE IF n < -t.scount THEN n ELSE -t.scount
           c == t.scount + n
           q == SubSeq(t.squeue, w + 1, Len(t.squeue))
<1>1. /\ t.sstate = "USED"
      /\ semtab' = [semtab EXCEPT ![s].scount = c, ![s].squeue = q]
      /\ ReadyAll(prstate, SubSeq(t.squeue, 1, w))
      /\ UNCHANGED <<prprio, chprios>> /\ UNCHANGED <<sleepq, left>> /\ UNCHANGED prparent /\ UNCHANGED prcount
      /\ UNCHANGED prsem /\ UNCHANGED prhasmsg /\ UNCHANGED cont
  BY DEF SignalN, time, fixed, ends
<1>2. UNCHANGED late /\ UNCHANGED clashed
  BY DEF SignalN, time, ends
<1>3. /\ semtab \in [Sems -> SemRecord] /\ t.scount \in Int /\ Queues(t.squeue, Waiters(s))
      /\ Len(t.squeue) = Held(t.scount) /\ n \in Nat
  <2>1. t \in SemRecord /\ SemOK(t, Waiters(s)) /\ semtab \in [Sems -> SemRecord]
    BY DEF KernelInv, SemInv
  <2> QED
    BY <2>1, KernelAssump DEF SemOK, SemRecord
<1>4. w \in 0..Len(t.squeue) /\ Len(t.squeue) - w = Held(c) /\ c \in Int
  BY <1>3 DEF Held
<1>5. q \in Seq(Pids)
  BY <1>3, <1>4, QueuesSuffix DEF Queues
<1> HIDE DEF c, q, w
<1>6. /\ semtab' \in [Sems -> SemRecord]
      /\ \A x \in Sems \ {s} : semtab'[x] = semtab[x]
      /\ semtab'[s].scount = c /\ semtab'[s].squeue = q /\ semtab'[s].sstate = semtab[s].sstate
  BY <1>1, <1>3, <1>4, <1>5, SemUpdate
<1>7. /\ semtab'[s].squeue = SubSeq(semtab[s].squeue, w + 1, Len(semtab[s].squeue))
      /\ Len(semtab[s].squeue) - w = Held(semtab'[s].scount) /\ semtab'[s].sstate # "FREE"
  BY <1>1, <1>4, <1>6 DEF q
<1> QED
  BY <1>1, <1>2, <1>4, <1>6, <1>7, ReleaseKeeps

LEMMA SemResetKeeps ==
    ASSUME KernelInv, NEW s \in Sems, NEW n \in Counts, SemReset(s, n)
    PROVE  KernelInv'
<1> DEFINE t == semtab[s]
           w == Len(t.squeue)
<1>1. /\ t.sstate = "USED"
      /\ semtab' = [semtab EXCEPT ![s].scount = n, ![s].squeue = <<>>]
      /\ ReadyAll(prstate, t.squeue)
      /\ UNCHANGED <<prprio, chprios>> /\ UNCHANGED <<sleepq, left>> /\ UNCHANGED prparent /\ UNCHANGED prcount
      /\ UNCHANGED prsem /\ UNCHANGED prhasmsg /\ UNCHANGED cont
  BY DEF SemReset, time, fixed, ends
<1>2. UNCHANGED late /\ UNCHANGED clashed
  BY DEF SemReset, time, ends
<1>3. semtab \in [Sems -> SemRecord] /\ Queues(t.squeue, Waiters(s)) /\ n \in Nat
  <2>1. SemOK(t, Waiters(s)) /\ semtab \in [Sems -> SemRecord]
    BY DEF KernelInv, SemInv
  <2> QED
    BY <2>1, KernelAssump DEF SemOK
<1>4. t.squeue \in Seq(Pids) /\ w \in 0..Len(t.squeue) /\ w \in Nat
  BY <1>3 DEF Queues
<1>5. SubSeq(t.squeue, 1, w) = t.squeue /\ SubSeq(t.squeue, w + 1, w) = <<>>
  <2>1. SubSeq(t.squeue, 1, Len(t.squeue)) = t.squeue
    BY <1>4, SubSeqFull
  <2>2. Len(SubSeq(t.squeue, w + 1, Len(t.squeue))) = w - w /\ SubSeq(t.squeue, w + 1, Len(t.squeue)) \in Seq(Pids)
    BY <1>4, SuffixIs
  <2> QED
    BY <1>4, <2>1, <2>2, EmptySeq
<1>6. /\ semtab' \in [Sems -> SemRecord]
      /\ \A x \in Sems \ {s} : semtab'[x] = semtab[x]
      /\ semtab'[s].scount = n /\ semtab'[s].squeue = <<>> /\ semtab'[s].sstate = semtab[s].sstate
  <2>1. <<>> \in Seq(Pids) /\ n \in Int
    BY <1>3
  <2> QED
    BY <1>1, <1>3, <2>1, SemUpdate
<1>7. /\ semtab'[s].squeue = SubSeq(semtab[s].squeue, w + 1, Len(semtab[s].squeue))
      /\ Len(semtab[s].squeue) - w = Held(semtab'[s].scount) /\ semtab'[s].sstate # "FREE"
      /\ ReadyAll(prstate, SubSeq(t.squeue, 1, w))
  <2>1. Len(t.squeue) - w = 0 /\ Held(n) = 0
    BY <1>3, <1>4 DEF Held
  <2> QED
    BY <1>1, <1>5, <1>6, <2>1
<1> HIDE DEF w
<1> QED
  BY <1>1, <1>2, <1>4, <1>6, <1>7, ReleaseKeeps

LEMMA SemDeleteKeeps ==
    ASSUME KernelInv, NEW s \in Sems, SemDelete(s)
    PROVE  KernelInv'
<1> DEFINE t == semtab[s]
           w == IF t.scount < 0 THEN -t.scount ELSE 0
           c == t.scount + w + 1
           q == SubSeq(t.squeue, w + 1, Len(t.squeue))
           r == [sstate |-> "FREE", scount |-> c, squeue |-> q]
<1>1. /\ semtab' = [semtab EXCEPT ![s] = r]
      /\ ReadyAll(prstate, SubSeq(t.squeue, 1, w))
      /\ UNCHANGED <<prprio, chprios>> /\ UNCHANGED <<sleepq, left>> /\ UNCHANGED prparent /\ UNCHANGED prcount
      /\ UNCHANGED prsem /\ UNCHANGED prhasmsg /\ UNCHANGED cont
  BY DEF SemDelete, time, fixed, ends
<1>2. UNCHANGED late /\ UNCHANGED clashed
  BY DEF SemDelete, time, ends
<1>3. /\ semtab \in [Sems -> SemRecord] /\ t.scount \in Int /\ Queues(t.squeue, Waiters(s))
      /\ Len(t.squeue) = Held(t.scount)
  <2>1. t \in SemRecord /\ SemOK(t, Waiters(s)) /\ semtab \in [Sems -> SemRecord]
    BY DEF KernelInv, SemInv
  <2> QED
    BY <2>1 DEF SemOK, SemRecord
<1>4. w \in 0..Len(t.squeue) /\ w = Len(t.squeue) /\ Len(t.squeue) - w = Held(c) /\ c \in Int
  BY <1>3 DEF Held
<1>5. q \in Seq(Pids)
  <2>1. w \in 0..Len(t.squeue) /\ t.squeue \in Seq(Pids)
    BY <1>3, <1>4 DEF Queues
  <2> HIDE DEF w, t
  <2> QED
    BY <2>1, SuffixIs
<1> HIDE DEF c, q, w
<1>6. r \in SemRecord
  BY <1>4, <1>5 DEF SemRecord
<1>7. /\ semtab' \in [Sems -> SemRecord]
      /\ \A x \in Sems \ {s} : semtab'[x] = semtab[x]
      /\ semtab'[s] = r
  BY <1>1, <1>3, <1>6
<1>8. /\ semtab'[s].squeue = SubSeq(semtab[s].squeue, w + 1, Len(semtab[s].squeue))
      /\ Len(semtab[s].squeue) - w = Held(semtab'[s].scount) /\ w = Len(semtab[s].squeue)
  BY <1>4, <1>7 DEF q
<1> QED
  BY <1>1, <1>2, <1>4, <1>7, <1>8, ReleaseKeeps

LEMMA WaitKeeps ==
    ASSUME KernelInv, NEW s \in Sems, Wait(s)
    PROVE  KernelInv'
<1> DEFINE t == semtab[s]
           c == t.scount - 1
<1>1. /\ currpid # NULLPROC /\ t.sstate = "USED"
      /\ UNCHANGED <<prprio, chprios>> /\ UNCHANGED <<sleepq, left>> /\ UNCHANGED prparent /\ UNCHANGED prcount
      /\ UNCHANGED prhasmsg /\ UNCHANGED cont
  BY DEF Wait, Calls, time, fixed, ends
<1>2. UNCHANGED late /\ UNCHANGED clashed
  BY DEF Wait, time, ends
<1>3. /\ SemInv /\ semtab \in [Sems -> SemRecord] /\ t \in SemRecord
      /\ t.scount \in Int /\ Queues(t.squeue, Waiters(s)) /\ Len(t.squeue) = Held(t.scount)
      /\ c \in Int /\ t.squeue \in Seq(Pids)
  <2>1. SemInv /\ t \in SemRecord /\ SemOK(t, Waiters(s)) /\ semtab \in [Sems -> SemRecord]
    BY DEF KernelInv, SemInv
  <2> QED
    BY <2>1 DEF SemOK, SemRecord
<1>4. SchedInv /\ SchedOK(prstate, readylist, currpid) /\ currpid \in Pids
  BY DEF KernelInv, SchedInv, SchedOK
<1>5. CASE t.scount > 0
  <2>1. semtab' = [semtab EXCEPT ![s].scount = c] /\ UNCHANGED <<prstate, readylist, currpid, preempt>> /\ UNCHANGED prsem
    BY <1>5 DEF Wait, sched
  <2>2. SchedInv' /\ Moves({"CURR", "READY", "WAIT"})
    BY <1>1, <1>4, <2>1, SchedFrame DEF Moves
  <2>3. semtab'[s] = [t EXCEPT !.scount = c]
    BY <1>3, <2>1
  <2>4. semtab'[s] \in SemRecord /\ semtab'[s].scount = c /\ semtab'[s].squeue = t.squeue /\ semtab'[s].sstate = t.sstate
    <3> HIDE DEF c, t
    <3> QED
      BY <1>3, <2>3 DEF SemRecord
  <2>5. semtab' \in [Sems -> SemRecord] /\ \A x \in Sems \ {s} : semtab'[x] = semtab[x]
    BY <1>3, <2>1, <2>4
  <2>6. \A x \in Sems : Waiters(x)' = Waiters(x)
    BY <2>1 DEF Waiters
  <2>7. SemOK(semtab'[s], Waiters(s)')
    <3>1. Len(t.squeue) = Held(c)
      BY <1>3, <1>5 DEF Held
    <3> QED
      BY <1>1, <1>3, <2>4, <2>6, <3>1 DEF SemOK
  <2>8. SemInv'
    <3>1. prsem' \in [Pids -> 0..NSEM] /\ \A p \in Pids : prstate'[p] = "WAIT" => prsem'[p] \in Sems
      BY <1>3, <2>1 DEF SemInv
    <3> QED
      BY <1>3, <2>5, <2>6, <2>7, <3>1, SemStep
  <2> QED
    BY <1>1, <1>2, <2>2, <2>8, SemRest
<1>6. CASE ~(t.scount > 0)
  <2> DEFINE q == Append(t.squeue, currpid)
  <2>1. /\ semtab' = [semtab EXCEPT ![s].scount = c, ![s].squeue = q]
        /\ prsem' = [prsem EXCEPT ![currpid] = s]
        /\ Block("WAIT")
    BY <1>6 DEF Wait
  <2>2. "WAIT" \in States \ {"CURR", "READY"}
    BY DEF States
  <2>3. SchedInv' /\ Switched([prstate EXCEPT ![currpid] = "WAIT"], prstate')
    BY <1>1, <1>4, <2>1, <2>2, BlockKeeps
  <2>4. prstate'[currpid] = "WAIT" /\ \A x \in Pids \ {currpid} :
          prstate'[x] = prstate[x] \/ {prstate[x], prstate'[x]} \subseteq {"CURR", "READY"}
    BY <1>4, <2>3 DEF Switched, SchedOK
  <2>5. Moves({"CURR", "READY", "WAIT"})
    BY <1>4, <2>4 DEF Moves, SchedOK
  <2>6. prsem \in [Pids -> 0..NSEM] /\ prsem' \in [Pids -> 0..NSEM]
    <3>1. s \in 0..NSEM
      BY KernelAssump DEF Sems
    <3> QED
      BY <1>3, <2>1, <3>1 DEF SemInv
  <2>7. prstate[currpid] = "CURR"
    BY <1>4 DEF SchedOK
  <2>8. \A x \in Pids \ {currpid} : (prstate'[x] = "WAIT" <=> prstate[x] = "WAIT") /\ prsem'[x] = prsem[x]
    BY <2>1, <2>4, <2>6
  <2>9. prsem'[currpid] = s
    BY <1>4, <2>1, <2>6
  <2>10. Waiters(s)' = Waiters(s) \cup {currpid} /\ currpid \notin Waiters(s)
    BY <1>4, <2>4, <2>7, <2>8, <2>9 DEF Waiters
  <2>11. \A x \in Sems \ {s} : Waiters(x)' = Waiters(x)
    BY <2>7, <2>8, <2>9 DEF Waiters
  <2>12. Queues(q, Waiters(s)') /\ Len(q) = Len(t.squeue) + 1
    <3> DEFINE W == Waiters(s)
               y == t.squeue
    <3>1. Queues(y, W) /\ currpid \notin W
      BY <1>3, <2>10
    <3> HIDE DEF W, y
    <3>2. Queues(Append(y, currpid), W \cup {currpid}) /\ Len(Append(y, currpid)) = Len(y) + 1
      BY <1>4, <3>1, QueuesAppend
    <3> QED
      BY <2>10, <3>2 DEF W, y
  <2>13. q \in Seq(Pids)
    BY <2>12 DEF Queues
  <2> HIDE DEF q, c, t
  <2>14. /\ semtab' \in [Sems -> SemRecord]
         /\ \A x \in Sems \ {s} : semtab'[x] = semtab[x]
         /\ semtab'[s].scount = c /\ semtab'[s].squeue = q /\ semtab'[s].sstate = semtab[s].sstate
    BY <1>3, <2>1, <2>13, SemUpdate
  <2>15. SemOK(semtab'[s], Waiters(s)')
    <3>1. Len(q) = Held(c)
      BY <1>3, <1>6, <2>12 DEF Held, c
    <3> QED
      BY <1>1, <2>12, <2>14, <3>1 DEF SemOK, t
  <2>16. \A p \in Pids : prstate'[p] = "WAIT" => prsem'[p] \in Sems
    BY <1>3, <2>8, <2>9 DEF SemInv
  <2>17. SemInv'
    BY <1>3, <2>6, <2>11, <2>14, <2>15, <2>16, SemStep
  <2> QED
    BY <1>1, <1>2, <2>3, <2>5, <2>17, SemRest
<1> QED
  BY <1>5, <1>6

-----------------------------------------------------------------------------
(* clkhandler *)

\* The times of the list r, which is the next delta list.
LEMMA WakesNext ==
    ASSUME NEW r, sleepq' = r,
           \A j \in DOMAIN r : IF late' THEN Elapsed(r, j) >= left'[r[j].pid] ELSE Elapsed(r, j) = left'[r[j].pid]
    PROVE  WakeOnTime'
  BY DEF WakeOnTime, Elapsed

\* What the tick does to the delta list and the history of what was asked for.
LEMMA TickKeepsTimes ==
    ASSUME SleepInv, TimeInv, sleepq # <<>>,
           sleepq' = SubSeq(Ticked(sleepq), Woken(sleepq) + 1, Len(Ticked(sleepq))),
           left' = [p \in Pids |-> IF InSeq(sleepq', p) /\ left[p] > 0 THEN left[p] - 1 ELSE 0],
           late' = ((late \/ Ticked(sleepq)[1].key < 0) /\ sleepq' # <<>>)
    PROVE  TimeInv'
<1> DEFINE q == sleepq
           t == Ticked(q)
           r == SubSeq(t, Woken(q) + 1, Len(t))
           one == IF t[1].key < 0 THEN 0 ELSE 1
           W == {q[i].pid : i \in 1..Woken(q)}
<1>1. Lists(q, Sleepers) /\ NonNeg(q) /\ left \in [Pids -> Nat] /\ late \in BOOLEAN /\ WakeOnTime
  BY DEF SleepInv, TimeInv
<1>2. /\ NonNeg(r)
      /\ \A j \in DOMAIN r : \E i \in DOMAIN q :
           /\ q[i].pid = r[j].pid
           /\ Elapsed(q, i) >= 1
           /\ Elapsed(r, j) = Elapsed(q, i) - one
      /\ Lists(r, Sleepers \ W)
  <2> DEFINE S == Sleepers
  <2>1. Lists(q, S) /\ NonNeg(q) /\ q # <<>>
    BY <1>1
  <2> HIDE DEF S
  <2>2. /\ NonNeg(r)
        /\ \A j \in DOMAIN r : \E i \in DOMAIN q :
             /\ q[i].pid = r[j].pid
             /\ Elapsed(q, i) >= 1
             /\ Elapsed(r, j) = Elapsed(q, i) - one
    BY <2>1, TickTimes
  <2>3. Lists(r, S \ W)
    BY <2>1, WokenAre
  <2> QED
    BY <2>2, <2>3 DEF S
<1>3. sleepq' = r
  OBVIOUS
<1> DEFINE first == t[1].key < 0
<1>4. first \in BOOLEAN /\ one = IF first THEN 0 ELSE 1
  OBVIOUS
<1>5. late' = ((late \/ first) /\ r # <<>>)
  OBVIOUS
<1> HIDE DEF r, one, W, first, t
<1>6. \A i \in DOMAIN q : Elapsed(q, i) \in Int
  <2> DEFINE S == Sleepers
  <2> HIDE DEF S, q
  <2>1. Lists(q, S)
    BY <1>1 DEF S
  <2>2. DOMAIN q = 1..Len(q) /\ Len(q) \in Nat
    BY <2>1 DEF Lists
  <2>3. \A i \in 1..Len(q) : i \in 0..Len(q)
    BY <2>2
  <2>4. \A i \in 0..Len(q) : Elapsed(q, i) \in Int
    BY <2>1, ElapsedIs
  <2> QED
    BY <2>2, <2>3, <2>4
<1>7. \A j \in DOMAIN r : r[j].pid \in Pids
  <2> TAKE j \in DOMAIN r
  <2>1. j \in 1..Len(r)
    BY <1>2 DEF Lists
  <2> QED
    BY <1>2, <2>1, ElapsedIs
<1>8. left' \in [Pids -> Nat]
  <2> SUFFICES ASSUME NEW p \in Pids PROVE (IF InSeq(sleepq', p) /\ left[p] > 0 THEN left[p] - 1 ELSE 0) \in Nat
    OBVIOUS
  <2> QED
    BY <1>1
<1>9. late' \in BOOLEAN
  BY <1>5
<1>10. ASSUME NEW j \in DOMAIN r
       PROVE  IF late' THEN Elapsed(r, j) >= left'[r[j].pid] ELSE Elapsed(r, j) = left'[r[j].pid]
  <2> DEFINE x == r[j].pid
             n == left[x]
  <2>1. PICK i \in DOMAIN q :
          /\ q[i].pid = x
          /\ Elapsed(q, i) >= 1
          /\ Elapsed(r, j) = Elapsed(q, i) - one
    BY <1>2
  <2>2. x \in Pids /\ InSeq(sleepq', x) /\ n \in Nat
    BY <1>1, <1>3, <1>7 DEF InSeq
  <2>3. left'[x] = IF n > 0 THEN n - 1 ELSE 0
    BY <2>2
  <2>4. r # <<>>
    OBVIOUS
  <2>5. IF late THEN Elapsed(q, i) >= n ELSE Elapsed(q, i) = n
    BY <1>1, <2>1 DEF WakeOnTime
  <2> DEFINE e == Elapsed(q, i)
             f == Elapsed(r, j)
  <2>6. e \in Int /\ e >= 1 /\ f = e - one
    BY <1>6, <2>1
  <2> HIDE DEF e, f, n, x, q
  <2>7. IF late THEN e >= n ELSE e = n
    BY <2>5 DEF e
  <2>8. late' = (late \/ first)
    BY <1>5, <2>4
  <2>9. IF late' THEN f >= left'[x] ELSE f = left'[x]
    <3>1. CASE late
      <4>1. late' /\ e >= n
        BY <2>7, <2>8, <3>1
      <4>2. f >= left'[x]
        BY <1>4, <2>2, <2>3, <2>6, <4>1
      <4> QED
        BY <4>1, <4>2
    <3>2. CASE ~late /\ first
      <4>1. late' /\ e = n
        BY <2>7, <2>8, <3>2
      <4>2. f >= left'[x]
        BY <1>4, <2>2, <2>3, <2>6, <3>2, <4>1
      <4> QED
        BY <4>1, <4>2
    <3>3. CASE ~late /\ ~first
      <4>1. ~late' /\ e = n
        BY <2>7, <2>8, <3>3
      <4>2. f = left'[x]
        BY <1>4, <2>2, <2>3, <2>6, <3>3, <4>1
      <4> QED
        BY <4>1, <4>2
    <3> QED
      BY <3>1, <3>2, <3>3
  <2> QED
    BY <2>9 DEF f, x
<1>11. WakeOnTime'
  BY <1>3, <1>10, WakesNext
<1>12. NonNeg(sleepq)'
  BY <1>2, <1>3 DEF NonNeg
<1> QED
  BY <1>8, <1>9, <1>11, <1>12 DEF TimeInv

LEMMA ClockTickKeeps ==
    ASSUME KernelInv, ClockTick
    PROVE  KernelInv'
<1> DEFINE c == [op |-> "tick"]
<1>1. /\ cont[currpid] = User /\ cont' = [cont EXCEPT ![currpid] = c]
      /\ UNCHANGED <<prprio, chprios>> /\ UNCHANGED prparent /\ UNCHANGED prcount
      /\ UNCHANGED <<semtab, prsem>> /\ UNCHANGED prhasmsg
  BY DEF ClockTick, Running, fixed, ends
<1>2. UNCHANGED clashed
  BY DEF ClockTick, ends
<1>3. SchedInv /\ SchedOK(prstate, readylist, currpid) /\ SleepInv /\ TimeInv /\ currpid \in Pids
  BY DEF KernelInv, SchedInv, SchedOK
<1>4. /\ SchedInv' /\ SleepInv' /\ TimeInv'
      /\ Moves({"CURR", "READY", "SLEEP", "RECTIM"})
  <2>1. CASE sleepq = <<>>
    <3>1. UNCHANGED <<prstate, readylist, currpid, preempt>> /\ UNCHANGED sleepq /\ UNCHANGED left
      BY <2>1 DEF ClockTick, sched, time
    <3>2. UNCHANGED late
      BY <2>1 DEF ClockTick, time
    <3>3. SchedInv'
      BY <1>1, <1>3, <3>1, SchedFrame
    <3>4. Moves({"CURR", "READY", "SLEEP", "RECTIM"}) /\ Moves(States \ {"SLEEP", "RECTIM"})
      BY <3>1 DEF Moves
    <3>5. SleepInv'
      BY <1>3, <3>1, <3>4, SleepFrame
    <3>6. TimeInv'
      BY <1>3, <3>1, <3>2, TimeFrame
    <3> QED
      BY <3>3, <3>4, <3>5, <3>6
  <2>2. CASE sleepq # <<>>
    <3> DEFINE t == Ticked(sleepq)
               n == Woken(sleepq)
               ps == [i \in 1..n |-> t[i].pid]
               P == {sleepq[i].pid : i \in 1..n}
    <3>1. /\ ReadyAll(prstate, ps)
          /\ sleepq' = SubSeq(t, n + 1, Len(t))
          /\ left' = [p \in Pids |-> IF InSeq(sleepq', p) /\ left[p] > 0 THEN left[p] - 1 ELSE 0]
      BY <2>2 DEF ClockTick, Ticked, Woken
    <3>2. late' = ((late \/ t[1].key < 0) /\ sleepq' # <<>>)
      BY <2>2 DEF ClockTick, Ticked
    <3>3. TimeInv'
      BY <1>3, <2>2, <3>1, <3>2, TickKeepsTimes
    <3>4. /\ Queues(ps, P) /\ P \subseteq Sleepers \cap Pids
          /\ Lists(SubSeq(t, n + 1, Len(t)), Sleepers \ P)
      <4> DEFINE S == Sleepers
      <4>1. Lists(sleepq, S) /\ NonNeg(sleepq)
        BY <1>3 DEF SleepInv, TimeInv
      <4> HIDE DEF S
      <4> QED
        BY <2>2, <4>1, WokenAre DEF S
    <3> HIDE DEF P, ps, t, n
    <3>5. \A p \in P : p \in Pids /\ prstate[p] \in {"SLEEP", "RECTIM"}
      BY <3>4 DEF Sleepers
    <3>6. SchedInv' /\ Switched(Readying(P), prstate')
      <4>1. \A p \in P \cap Pids : prstate[p] \notin {"CURR", "READY"}
        BY <3>5
      <4> QED
        BY <1>1, <1>3, <3>1, <3>4, <4>1, ReadyAllKeeps
    <3>7. /\ \A p \in P : prstate'[p] \in {"CURR", "READY"}
          /\ \A p \in Pids \ P : prstate'[p] = prstate[p] \/ {prstate[p], prstate'[p]} \subseteq {"CURR", "READY"}
      BY <3>5, <3>6 DEF Switched, Readying
    <3>8. Moves({"CURR", "READY", "SLEEP", "RECTIM"})
      BY <3>5, <3>7 DEF Moves
    <3>9. Sleepers' = Sleepers \ P
      BY <3>5, <3>7 DEF Sleepers
    <3>10. SleepInv'
      BY <3>1, <3>4, <3>9 DEF SleepInv, Lists
    <3> QED
      BY <3>3, <3>6, <3>8, <3>10
  <2> QED
    BY <2>1, <2>2
<1>5. SemInv'
  <2>1. Moves(States \ {"WAIT"})
    BY <1>4 DEF Moves, States
  <2> QED
    BY <1>1, <2>1, SemFrame DEF KernelInv
<1>6. cont \in [Pids -> Conts] /\ RecvInv /\ clashed' \in BOOLEAN
  BY <1>2 DEF KernelInv, ContInv
<1>7. ContInv'
  <2>1. cont' \in [Pids -> Conts]
    BY <1>1, <1>6 DEF Conts
  <2>2. RecvInv'
    BY <1>1, <1>3, <1>4, <1>6 DEF RecvInv, Moves
  <2> QED
    BY <1>1, <1>6, <2>1, <2>2 DEF KernelInv, ContInv
<1>8. KillsInv'
  <2>1. \A x \in Pids : prstate'[x] = "FREE" <=> prstate[x] = "FREE"
    BY <1>4 DEF Moves
  <2>2. \A q, p \in Pids : cont'[q] = Killing(p) <=> cont[q] = Killing(p)
    <3>1. c.op # "kill" /\ cont[currpid].op # "kill"
      BY <1>1 DEF User
    <3> HIDE DEF c
    <3> QED
      BY <1>1, <1>3, <1>6, <3>1, ContChanges
  <2> QED
    BY <1>1, <1>2, <2>1, <2>2, KillsFrame DEF KernelInv
<1> QED
  BY <1>4, <1>5, <1>7, <1>8 DEF KernelInv

-----------------------------------------------------------------------------
(* kill() *)

LEMMA ContKill ==
    ASSUME NEW c \in Conts, c.op = "kill"
    PROVE  c.pid \in Pids \ {NULLPROC} /\ c = Killing(c.pid)
<1>1. CASE c \in {User, [op |-> "receive"], [op |-> "recvtime"], [op |-> "tick"]}
  <2>1. c.op # "kill"
    BY <1>1 DEF User
  <2> QED
    BY <2>1
<1>2. CASE c \in {Killing(p) : p \in Pids \ {NULLPROC}}
  <2>1. PICK p \in Pids \ {NULLPROC} : c = Killing(p)
    BY <1>2
  <2>2. c.pid = p
    BY <2>1 DEF Killing
  <2> QED
    BY <2>1, <2>2
<1> QED
  BY <1>1, <1>2 DEF Conts

\* A kill does not reach the null process, so that one process is left alive.
LEMMA NullLives ==
    ASSUME KernelInv
    PROVE  NULLPROC \in Alive
<1>1. prstate[NULLPROC] # "FREE" /\ cont \in [Pids -> Conts]
  BY DEF KernelInv, SchedInv, SchedOK, ContInv
<1>2. ~InKill(NULLPROC)
  <2> SUFFICES ASSUME NEW q \in Pids, cont[q] = Killing(NULLPROC) PROVE FALSE
    BY DEF InKill
  <2>1. cont[q] \in Conts /\ cont[q].op = "kill" /\ cont[q].pid = NULLPROC
    BY <1>1 DEF Killing
  <2> QED
    BY <2>1, ContKill
<1> QED
  BY <1>1, <1>2, PidsAre DEF Alive

LEMMA KillKeeps ==
    ASSUME KernelInv, NEW p \in Pids, Kill(p)
    PROVE  KernelInv'
<1> DEFINE parent == prparent[p]
<1>1. /\ cont[currpid] = User /\ p # NULLPROC /\ prstate[p] # "FREE" /\ ~clashed
      /\ prcount' = prcount - 1 /\ cont' = [cont EXCEPT ![currpid] = Killing(p)]
      /\ UNCHANGED <<prprio, chprios>> /\ UNCHANGED prparent /\ UNCHANGED <<semtab, prsem>>
  BY DEF Kill, Calls, Running, OneLess, fixed
<1>2. clashed' = InKill(p)
  BY DEF Kill
<1>3. /\ SchedInv /\ SchedOK(prstate, readylist, currpid) /\ SleepInv /\ TimeInv /\ currpid \in Pids
      /\ prparent \in [Pids -> Pids] /\ prhasmsg \in [Pids -> BOOLEAN] /\ cont \in [Pids -> Conts] /\ RecvInv
      /\ parent \in Pids
  BY DEF KernelInv, SchedInv, SchedOK, ContInv
<1>4. /\ SchedInv' /\ SleepInv' /\ TimeInv'
      /\ Moves({"CURR", "READY", "RECV", "RECTIM"})
      /\ \A x \in Pids : prstate[x] = "RECV" => prstate'[x] = "RECV" \/ prhasmsg'[x]
      /\ \A x \in Pids : prhasmsg[x] => prhasmsg'[x]
      /\ prhasmsg' \in [Pids -> BOOLEAN]
  <2>1. CASE UNCHANGED sched /\ UNCHANGED time /\ UNCHANGED prhasmsg
    <3>1. UNCHANGED <<prstate, readylist, currpid, preempt>> /\ UNCHANGED sleepq /\ UNCHANGED left
      BY <2>1 DEF sched, time
    <3>2. UNCHANGED late
      BY <2>1 DEF time
    <3>3. Moves({"CURR", "READY", "RECV", "RECTIM"}) /\ Moves(States \ {"SLEEP", "RECTIM"})
      BY <3>1 DEF Moves
    <3>4. SchedInv'
      BY <1>1, <1>3, <3>1, SchedFrame
    <3>5. SleepInv'
      BY <1>3, <3>1, <3>3, SleepFrame
    <3>6. TimeInv'
      BY <1>3, <3>1, <3>2, TimeFrame
    <3>7. /\ \A x \in Pids : prstate[x] = "RECV" => prstate'[x] = "RECV" \/ prhasmsg'[x]
          /\ \A x \in Pids : prhasmsg[x] => prhasmsg'[x]
          /\ prhasmsg' \in [Pids -> BOOLEAN]
      BY <1>3, <2>1, <3>1
    <3> QED
      BY <3>3, <3>4, <3>5, <3>6, <3>7
  <2>2. CASE prstate[parent] # "FREE" /\ Deliver(parent)
    <3> HIDE DEF parent
    <3>1. /\ SchedInv' /\ SleepInv' /\ TimeInv'
          /\ Moves({"CURR", "READY", "RECV", "RECTIM"})
          /\ \A x \in Pids \ {parent} :
               prstate'[x] = prstate[x] \/ {prstate[x], prstate'[x]} \subseteq {"CURR", "READY"}
      BY <1>1, <1>3, <2>2, DeliverKeeps
    <3>2. prhasmsg' = [prhasmsg EXCEPT ![parent] = TRUE]
      BY <2>2 DEF Deliver
    <3>3. prhasmsg'[parent] /\ (\A x \in Pids : prhasmsg[x] => prhasmsg'[x]) /\ prhasmsg' \in [Pids -> BOOLEAN]
      BY <1>3, <3>2
    <3>4. \A x \in Pids : prstate[x] = "RECV" => prstate'[x] = "RECV" \/ prhasmsg'[x]
      BY <3>1, <3>3
    <3> QED
      BY <3>1, <3>3, <3>4
  <2>3. \/ UNCHANGED sched /\ UNCHANGED time /\ UNCHANGED prhasmsg
        \/ prstate[parent] # "FREE" /\ Deliver(parent)
    BY DEF Kill
  <2> QED
    BY <2>1, <2>2, <2>3
<1>5. SemInv'
  <2>1. Moves(States \ {"WAIT"})
    BY <1>4 DEF Moves, States
  <2> QED
    BY <1>1, <2>1, SemFrame DEF KernelInv
<1>6. ContInv'
  <2>1. cont' \in [Pids -> Conts]
    BY <1>1, <1>3 DEF Conts
  <2>2. RecvInv'
    <3> SUFFICES ASSUME NEW x \in Pids, cont'[x].op = "receive", prstate'[x] \notin {"RECV", "FREE"}
                 PROVE  prhasmsg'[x]
      BY DEF RecvInv
    <3>1. x # currpid /\ cont[x].op = "receive"
      BY <1>1, <1>3 DEF Killing
    <3>2. prstate[x] # "FREE"
      BY <1>4 DEF Moves
    <3> QED
      BY <1>3, <1>4, <3>1, <3>2 DEF RecvInv
  <2>3. clashed' \in BOOLEAN
    BY <1>2 DEF InKill
  <2> QED
    BY <1>1, <1>3, <1>4, <2>1, <2>2, <2>3 DEF ContInv
<1>7. KillsInv'
  <2>1. /\ prcount \in Nat
        /\ prcount = Cardinality(Alive)
        /\ \A x \in Pids : InKill(x) => prstate[x] # "FREE"
        /\ \A x, q, r \in Pids : Kills(q, x) /\ Kills(r, x) => q = r
    BY <1>1 DEF KernelInv, KillsInv
  <2>2. prcount' \in Nat
    <3>1. NULLPROC \in Alive /\ IsFiniteSet(Alive)
      BY NullLives, AliveFinite
    <3>2. Cardinality(Alive) = Cardinality(Alive \ {NULLPROC}) + 1 /\ Cardinality(Alive \ {NULLPROC}) \in Nat
      <4>1. IsFiniteSet(Alive \ {NULLPROC}) /\ Cardinality(Alive \ {NULLPROC}) = Cardinality(Alive) - 1
        BY <3>1, FS_RemoveElement
      <4>2. Cardinality(Alive \ {NULLPROC}) \in Nat /\ Cardinality(Alive) \in Nat
        BY <3>1, <4>1, FS_CardinalityType
      <4> QED
        BY <4>1, <4>2
    <3> QED
      BY <1>1, <2>1, <3>2
  <2> SUFFICES ASSUME ~InKill(p)
               PROVE  /\ prcount' = Cardinality(Alive')
                      /\ \A x \in Pids : InKill(x)' => prstate'[x] # "FREE"
                      /\ \A x, q, r \in Pids : Kills(q, x)' /\ Kills(r, x)' => q = r
    BY <1>2, <2>2 DEF KillsInv
  <2>3. \A x \in Pids : prstate'[x] = "FREE" <=> prstate[x] = "FREE"
    BY <1>4 DEF Moves
  <2>4. prstate[currpid] # "FREE"
    BY <1>3 DEF SchedOK
  <2>5. \A q, x \in Pids : Kills(q, x)' <=> IF q = currpid THEN x = p ELSE Kills(q, x)
    <3> TAKE q, x \in Pids
    <3>1. CASE q = currpid
      BY <1>1, <1>3, <2>3, <2>4, <3>1 DEF Kills, Killing
    <3>2. CASE q # currpid
      BY <1>1, <1>3, <2>3, <3>2 DEF Kills, Killing
    <3> QED
      BY <3>1, <3>2
  <2>6. \A x \in Pids : ~Kills(currpid, x)
    BY <1>1 DEF Kills, Killing, User
  <2>7. \A x \in Pids : InKill(x) <=> \E q \in Pids : Kills(q, x)
    BY DEF InKill, Kills
  <2>8. \A x \in Pids : InKill(x)' <=> \E q \in Pids : Kills(q, x)'
    BY DEF InKill, Kills
  <2>9. \A x \in Pids : InKill(x)' <=> InKill(x) \/ x = p
    BY <1>3, <2>5, <2>6, <2>7, <2>8
  <2>10. Alive' = Alive \ {p} /\ p \in Alive
    BY <1>1, <2>3, <2>9 DEF Alive
  <2>11. prcount' = Cardinality(Alive')
    BY <1>1, <2>1, <2>10, AliveFinite, FS_RemoveElement
  <2>12. \A x \in Pids : InKill(x)' => prstate'[x] # "FREE"
    BY <1>1, <2>1, <2>3, <2>9
  <2>13. \A x, q, r \in Pids : Kills(q, x)' /\ Kills(r, x)' => q = r
    <3> SUFFICES ASSUME NEW x \in Pids, NEW q \in Pids, NEW r \in Pids, Kills(q, x)', Kills(r, x)'
                 PROVE  q = r
      OBVIOUS
    <3>1. \A y \in Pids : y # currpid => ~Kills(y, p)
      BY <2>7
    <3> QED
      BY <2>1, <2>5, <3>1
  <2> QED
    BY <2>11, <2>12, <2>13
<1> QED
  BY <1>4, <1>5, <1>6, <1>7 DEF KernelInv

\* A tick that finds nobody to wake leaves the times as they are.
LEMMA TimeIdle ==
    ASSUME TimeInv, UNCHANGED sleepq, UNCHANGED left, late' = (late /\ sleepq' # <<>>)
    PROVE  TimeInv'
<1>1. CASE UNCHANGED late
  BY <1>1, TimeFrame
<1>2. CASE ~UNCHANGED late
  <2>1. sleepq' = <<>> /\ late' = FALSE
    BY <1>2 DEF TimeInv
  <2>2. WakeOnTime'
    BY <2>1 DEF WakeOnTime
  <2> QED
    BY <2>1, <2>2 DEF TimeInv, NonNeg
<1> QED
  BY <1>1, <1>2

LEMMA KillEndKeeps ==
    ASSUME KernelInv, KillEnd
    PROVE  KernelInv'
<1> DEFINE p == cont[currpid].pid
           st == [prstate EXCEPT ![p] = "FREE"]
<1>1. /\ cont[currpid].op = "kill" /\ cont' = [cont EXCEPT ![currpid] = User] /\ ~clashed
      /\ UNCHANGED <<prprio, chprios>> /\ UNCHANGED prparent /\ UNCHANGED prcount /\ UNCHANGED prhasmsg
      /\ UNCHANGED prsem
  BY DEF KillEnd, fixed
<1>2. clashed' = (p # currpid /\ cont[p].op = "kill") /\ late' = (late /\ sleepq' # <<>>)
  BY DEF KillEnd
<1>3. /\ SchedInv /\ SchedOK(prstate, readylist, currpid) /\ SleepInv /\ TimeInv /\ SemInv /\ currpid \in Pids
      /\ prparent \in [Pids -> Pids] /\ prhasmsg \in [Pids -> BOOLEAN] /\ cont \in [Pids -> Conts] /\ RecvInv
      /\ prstate \in [Pids -> States]
  BY DEF KernelInv, SchedInv, SchedOK, ContInv
<1>4. p \in Pids /\ p # NULLPROC /\ cont[currpid] = Killing(p)
  BY <1>1, <1>3, ContKill
<1>5. /\ prcount \in Nat
      /\ prcount = Cardinality(Alive)
      /\ \A x \in Pids : InKill(x) => prstate[x] # "FREE"
      /\ \A x, q, r \in Pids : Kills(q, x) /\ Kills(r, x) => q = r
  BY <1>1 DEF KernelInv, KillsInv
<1>6. Kills(currpid, p) /\ InKill(p) /\ prstate[p] # "FREE"
  <2>1. prstate[currpid] # "FREE"
    BY <1>3 DEF SchedOK
  <2> QED
    BY <1>3, <1>4, <1>5, <2>1 DEF Kills, InKill
<1>7. /\ IF prstate[p] = "CURR" THEN SetSched(Resched(st, readylist))
         ELSE /\ prstate' = st
              /\ readylist' = IF prstate[p] = "READY" THEN Without(readylist, p) ELSE readylist
              /\ UNCHANGED <<currpid, preempt>>
      /\ IF prstate[p] \in {"SLEEP", "RECTIM"}
         THEN sleepq' = Unsleep(sleepq, p) /\ left' = [left EXCEPT ![p] = 0]
         ELSE UNCHANGED sleepq /\ UNCHANGED left
      /\ semtab' = IF prstate[p] = "WAIT" THEN [semtab EXCEPT ![prsem[p]] = StopWaiting(@, p)] ELSE semtab
  BY DEF KillEnd
<1> HIDE DEF p, st
<1>8. /\ SchedInv'
      /\ prstate'[p] = "FREE"
      /\ \A x \in Pids \ {p} : prstate'[x] = prstate[x] \/ {prstate[x], prstate'[x]} \subseteq {"CURR", "READY"}
  <2>0. "FREE" \in States \ {"CURR", "READY"}
    BY DEF States
  <2>1. CASE prstate[p] = "CURR"
    <3>1. p = currpid /\ st = [prstate EXCEPT ![currpid] = "FREE"]
      BY <1>3, <1>4, <2>1 DEF SchedOK, st
    <3>2. Block("FREE")
      BY <1>7, <2>1, <3>1 DEF Block
    <3>3. SchedInv' /\ Switched([prstate EXCEPT ![currpid] = "FREE"], prstate')
      BY <1>1, <1>3, <1>4, <2>0, <3>1, <3>2, BlockKeeps
    <3> QED
      BY <1>3, <3>1, <3>3 DEF Switched
  <2>2. CASE prstate[p] = "READY"
    <3>1. prstate' = [prstate EXCEPT ![p] = "FREE"] /\ readylist' = Without(readylist, p) /\ UNCHANGED <<currpid, preempt>>
      BY <1>7, <2>2 DEF st
    <3>2. SchedInv'
      BY <1>1, <1>3, <1>4, <2>0, <2>2, <3>1, ReadyLeaves
    <3> QED
      BY <1>3, <1>4, <3>1, <3>2
  <2>3. CASE prstate[p] \notin {"CURR", "READY"}
    <3>1. prstate' = [prstate EXCEPT ![p] = "FREE"] /\ UNCHANGED <<readylist, currpid, preempt>>
      BY <1>7, <2>3 DEF st
    <3>2. UNCHANGED <<readylist, currpid, preempt, chprios>> /\ prprio' \in [Pids -> Prios \cup {0}]
          /\ \A x \in Pids \ {p} : prprio'[x] = prprio[x]
      BY <1>1, <1>3, <3>1 DEF SchedInv
    <3>3. SchedInv'
      BY <1>3, <1>4, <2>0, <2>3, <3>1, <3>2, ElsewhereKeeps
    <3> QED
      BY <1>3, <1>4, <3>1, <3>3
  <2> QED
    BY <2>1, <2>2, <2>3
<1>9. \A x \in Pids : prstate'[x] = "FREE" <=> prstate[x] = "FREE" \/ x = p
  BY <1>8
<1>10. SleepInv' /\ TimeInv'
  <2>1. CASE prstate[p] \in {"SLEEP", "RECTIM"}
    <3>1. p \in Sleepers /\ sleepq' = Unsleep(sleepq, p) /\ left' = [left EXCEPT ![p] = 0]
      BY <1>4, <1>7, <2>1 DEF Sleepers
    <3>2. TimeInv' /\ Lists(sleepq', Sleepers \ {p})
      BY <1>2, <1>3, <3>1, SleepEnds
    <3>3. Sleepers' = Sleepers \ {p}
      BY <1>8 DEF Sleepers
    <3> QED
      BY <3>2, <3>3 DEF SleepInv, Lists
  <2>2. CASE prstate[p] \notin {"SLEEP", "RECTIM"}
    <3>1. UNCHANGED sleepq /\ UNCHANGED left
      BY <1>7, <2>2
    <3>2. Moves(States \ {"SLEEP", "RECTIM"})
      BY <1>3, <1>8, <2>2 DEF Moves, States
    <3> QED
      BY <1>2, <1>3, <3>1, <3>2, SleepFrame, TimeIdle
  <2> QED
    BY <2>1, <2>2
<1>11. SemInv'
  <2>1. CASE prstate[p] # "WAIT"
    <3>1. UNCHANGED <<semtab, prsem>>
      BY <1>1, <1>7, <2>1
    <3>2. Moves(States \ {"WAIT"})
      BY <1>3, <1>8, <2>1 DEF Moves, States
    <3> QED
      BY <1>3, <3>1, <3>2, SemFrame
  <2>2. CASE prstate[p] = "WAIT"
    <3>0. PICK s \in Sems : s = prsem[p]
      BY <1>3, <1>4, <2>2 DEF SemInv
    <3> DEFINE t == semtab[s]
               W == Waiters(s)
               q == t.squeue
               r == RemoveAt(q, CHOOSE i \in DOMAIN q : q[i] = p)
    <3>1. semtab' = [semtab EXCEPT ![s] = StopWaiting(@, p)]
      BY <1>7, <2>2, <3>0
    <3>2. /\ semtab \in [Sems -> SemRecord] /\ t \in SemRecord /\ SemOK(t, W)
      BY <1>3, <3>1 DEF SemInv
    <3>3. p \in W
      BY <1>4, <2>2, <3>0 DEF Waiters
    <3>4. Queues(q, W) /\ Len(q) = Held(t.scount) /\ t.scount \in Int
      BY <3>2 DEF SemOK, SemRecord
    <3>5. semtab'[s] = StopWaiting(t, p)
      BY <3>1, <3>2
    <3>6. StopWaiting(t, p) = [t EXCEPT !.scount = @ + 1, !.squeue = r]
      BY DEF StopWaiting
    <3>7. Waiters(s)' = W \ {p} /\ \A x \in Sems \ {s} : Waiters(x)' = Waiters(x)
      <4>1. \A x \in Pids : prstate'[x] = "WAIT" <=> prstate[x] = "WAIT" /\ x # p
        BY <1>8
      <4>2. UNCHANGED prsem
        BY <1>1
      <4>3. Waiters(s)' = W \ {p}
        BY <4>1, <4>2 DEF Waiters
      <4>4. \A x \in Sems \ {s} : p \notin Waiters(x)
        BY <3>0 DEF Waiters
      <4>5. \A x \in Sems \ {s} : Waiters(x)' = Waiters(x)
        BY <4>1, <4>2, <4>4 DEF Waiters
      <4> QED
        BY <4>3, <4>5
    <3> HIDE DEF W, q, r, t
    <3>8. Queues(r, W \ {p}) /\ Len(r) = Len(q) - 1 /\ Len(q) > 0
      BY <1>4, <3>3, <3>4, QueuesRemove DEF r
    <3>9. t.scount + 1 \in Int /\ Len(r) = Held(t.scount + 1) /\ r \in Seq(Pids)
      BY <3>4, <3>8 DEF Held, Queues
    <3>10. /\ semtab'[s] \in SemRecord /\ semtab'[s].scount = t.scount + 1 /\ semtab'[s].squeue = r
           /\ semtab'[s].sstate = t.sstate
      <4>1. semtab'[s] = [t EXCEPT !.scount = t.scount + 1, !.squeue = r]
        BY <3>5, <3>6
      <4>2. semtab'[s] \in SemRecord
        BY <3>2, <3>9, <4>1 DEF SemRecord
      <4>3. semtab'[s].scount = t.scount + 1 /\ semtab'[s].squeue = r /\ semtab'[s].sstate = t.sstate
        BY <3>2, <4>1 DEF SemRecord
      <4> QED
        BY <4>2, <4>3
    <3>11. t.sstate # "FREE"
      <4>1. q # <<>>
        BY <3>8
      <4> QED
        BY <3>2, <4>1 DEF SemOK, q
    <3>12. SemOK(semtab'[s], Waiters(s)')
      BY <3>7, <3>8, <3>9, <3>10, <3>11 DEF SemOK
    <3>13. semtab' \in [Sems -> SemRecord] /\ \A x \in Sems \ {s} : semtab'[x] = semtab[x]
      BY <3>1, <3>2, <3>10
    <3>14. prsem' \in [Pids -> 0..NSEM] /\ \A x \in Pids : prstate'[x] = "WAIT" => prsem'[x] \in Sems
      BY <1>1, <1>3, <1>8 DEF SemInv
    <3> QED
      BY <1>3, <3>1, <3>7, <3>12, <3>13, <3>14, SemStep
  <2> QED
    BY <2>1, <2>2
<1>12. ContInv'
  <2>1. cont' \in [Pids -> Conts]
    BY <1>1, <1>3 DEF Conts
  <2>2. RecvInv'
    <3> SUFFICES ASSUME NEW x \in Pids, cont'[x].op = "receive", prstate'[x] \notin {"RECV", "FREE"}
                 PROVE  prhasmsg'[x]
      BY DEF RecvInv
    <3>1. x # currpid /\ cont[x].op = "receive" /\ x # p
      BY <1>1, <1>3, <1>8 DEF User
    <3>2. prstate[x] \notin {"RECV", "FREE"}
      BY <1>8, <3>1
    <3> QED
      BY <1>1, <1>3, <3>1, <3>2 DEF RecvInv
  <2>3. clashed' \in BOOLEAN
    BY <1>2
  <2> QED
    BY <1>1, <1>3, <2>1, <2>2, <2>3 DEF ContInv
<1>13. KillsInv'
  <2>1. prcount' \in Nat
    BY <1>1, <1>5
  <2> SUFFICES ASSUME ~(p # currpid /\ cont[p].op = "kill")
               PROVE  /\ prcount' = Cardinality(Alive')
                      /\ \A x \in Pids : InKill(x)' => prstate'[x] # "FREE"
                      /\ \A x, q, r \in Pids : Kills(q, x)' /\ Kills(r, x)' => q = r
    BY <1>2, <2>1 DEF KillsInv
  <2>2. \A q, x \in Pids : Kills(q, x)' <=> Kills(q, x) /\ q # currpid
    <3> TAKE q, x \in Pids
    <3>1. CASE q = currpid
      BY <1>1, <1>3, <3>1 DEF Kills, Killing, User
    <3>2. CASE q # currpid
      <4>1. cont'[q] = cont[q]
        BY <1>1, <1>3, <3>2
      <4>2. Kills(q, x) => q # p
        BY <3>2 DEF Kills, Killing
      <4>3. Kills(q, x)' => prstate'[q] # "FREE" /\ cont[q] = Killing(x)
        BY <4>1 DEF Kills, Killing
      <4>4. prstate'[q] # "FREE" /\ cont[q] = Killing(x) => Kills(q, x)'
        BY <4>1 DEF Kills, Killing
      <4> QED
        BY <1>9, <3>2, <4>2, <4>3, <4>4 DEF Kills
    <3> QED
      BY <3>1, <3>2
  <2>3. \A x \in Pids : InKill(x) <=> \E q \in Pids : Kills(q, x)
    BY DEF InKill, Kills
  <2>4. \A x \in Pids : InKill(x)' <=> \E q \in Pids : Kills(q, x)'
    BY DEF InKill, Kills
  <2>5. \A x \in Pids : x # p => ~Kills(currpid, x)
    BY <1>4 DEF Kills, Killing
  <2>6. \A x \in Pids : InKill(x)' <=> InKill(x) /\ x # p
    <3> TAKE x \in Pids
    <3>1. InKill(x)' => InKill(x) /\ x # p
      BY <1>3, <1>5, <1>6, <2>2, <2>3, <2>4
    <3>2. InKill(x) /\ x # p => InKill(x)'
      BY <2>2, <2>3, <2>4, <2>5
    <3> QED
      BY <3>1, <3>2
  <2>7. Alive' = Alive
    BY <1>6, <1>9, <2>6 DEF Alive
  <2>8. \A x \in Pids : InKill(x)' => prstate'[x] # "FREE"
    BY <1>5, <1>9, <2>6
  <2>9. \A x, q, r \in Pids : Kills(q, x)' /\ Kills(r, x)' => q = r
    BY <1>5, <2>2
  <2> QED
    BY <1>1, <1>5, <2>7, <2>8, <2>9
<1> QED
  BY <1>8, <1>10, <1>11, <1>12, <1>13 DEF KernelInv

-----------------------------------------------------------------------------
(* The theorems *)

LEMMA KernelInitially == Init => KernelInv
<1> SUFFICES ASSUME Init PROVE KernelInv
  OBVIOUS
<1> DEFINE e == Entry(NULLPROC, 0)
<1>1. /\ prstate = [p \in Pids |-> IF p = NULLPROC THEN "READY" ELSE IF p = STARTUP THEN "CURR" ELSE "FREE"]
      /\ prprio = [p \in Pids |-> IF p = STARTUP THEN INITPRIO ELSE 0]
      /\ prparent = [p \in Pids |-> NULLPROC]
      /\ prhasmsg = [p \in Pids |-> FALSE]
      /\ prsem = [p \in Pids |-> NSEM]
      /\ cont = [p \in Pids |-> User]
      /\ currpid = STARTUP
      /\ readylist = <<e>>
      /\ sleepq = <<>>
      /\ semtab = [s \in Sems |-> [sstate |-> "FREE", scount |-> 0, squeue |-> <<>>]]
      /\ preempt = QUANTUM
      /\ prcount = 2
      /\ left = [p \in Pids |-> 0]
      /\ chprios = 0
  BY DEF Init
<1>2. late = FALSE /\ clashed = FALSE
  BY DEF Init
<1>3. e \in Entries /\ e.pid = NULLPROC /\ e.key = 0
  BY PidsAre DEF Entry, Entries
<1> HIDE DEF e
<1>4. NULLPROC \in Pids /\ STARTUP \in Pids /\ NULLPROC # STARTUP
  BY PidsAre
<1>5. SchedInv
  <2>1. {p \in Pids : prstate[p] = "READY"} = {NULLPROC}
    BY <1>1, <1>4
  <2>2. Lists(readylist, {NULLPROC}) /\ Ordered(readylist)
    <3>1. readylist \in Seq(Entries) /\ DOMAIN readylist = {1} /\ readylist[1] = e
      BY <1>1, <1>3
    <3> QED
      BY <1>3, <3>1 DEF Lists, Ordered
  <2>3. SchedOK(prstate, readylist, currpid)
    <3>1. prstate \in [Pids -> States] /\ prstate[NULLPROC] = "READY"
      BY <1>1, <1>4 DEF States
    <3>2. \A p \in Pids : prstate[p] = "CURR" <=> p = currpid
      BY <1>1, <1>4
    <3> QED
      BY <1>1, <1>4, <2>1, <2>2, <3>1, <3>2 DEF SchedOK
  <2>4. INITPRIO \in Prios /\ INITPRIO \in Nat /\ QUANTUM \in Nat \ {0}
    BY KernelAssump
  <2>5. prprio \in [Pids -> Prios \cup {0}] /\ prprio[NULLPROC] = 0 /\ prprio[currpid] = INITPRIO
    BY <1>1, <1>4, <2>4
  <2>6. TopRuns(prprio, readylist, currpid)
    <3>1. DOMAIN readylist = {1} /\ readylist[1] = e
      BY <1>1
    <3> QED
      BY <1>3, <2>4, <2>5, <3>1 DEF TopRuns, Keyed
  <2> QED
    BY <1>1, <2>3, <2>4, <2>5, <2>6 DEF SchedInv
<1>6. SleepInv
  <2>1. Sleepers = {}
    BY <1>1 DEF Sleepers
  <2> QED
    BY <1>1, <2>1 DEF SleepInv, Lists
<1>7. TimeInv
  <2>1. NonNeg(sleepq) /\ WakeOnTime
    BY <1>1 DEF NonNeg, WakeOnTime
  <2> QED
    BY <1>1, <1>2, <2>1 DEF TimeInv
<1>8. SemInv
  <2>1. NSEM \in 0..NSEM
    BY KernelAssump
  <2>2. \A p \in Pids : prstate[p] # "WAIT"
    BY <1>1
  <2>3. \A s \in Sems : Waiters(s) = {}
    BY <2>2 DEF Waiters
  <2>4. \A s \in Sems : SemOK(semtab[s], Waiters(s))
    <3> TAKE s \in Sems
    <3>1. semtab[s].squeue = <<>> /\ semtab[s].scount = 0
      BY <1>1
    <3>2. Len(<<>>) = Held(0)
      BY DEF Held
    <3> QED
      BY <2>3, <3>1, <3>2, NoQueue DEF SemOK
  <2>5. semtab \in [Sems -> SemRecord]
    BY <1>1 DEF SemRecord
  <2>6. prsem \in [Pids -> 0..NSEM]
    BY <1>1, <2>1
  <2> QED
    BY <2>2, <2>4, <2>5, <2>6 DEF SemInv
<1>9. ContInv
  <2>1. cont \in [Pids -> Conts]
    BY <1>1 DEF Conts
  <2>2. RecvInv
    BY <1>1 DEF RecvInv, User
  <2> QED
    BY <1>1, <1>2, <1>4, <2>1, <2>2 DEF ContInv
<1>10. KillsInv
  <2>1. \A q, p \in Pids : ~Kills(q, p)
    BY <1>1 DEF Kills, User, Killing
  <2>2. \A p \in Pids : ~InKill(p)
    BY <2>1 DEF InKill, Kills
  <2>3. Alive = {NULLPROC, STARTUP}
    BY <1>1, <1>4, <2>2 DEF Alive
  <2>4. Cardinality(Alive) = 2
    <3>1. IsFiniteSet({NULLPROC}) /\ Cardinality({NULLPROC}) = 1
      BY FS_Singleton
    <3>2. Cardinality({NULLPROC} \cup {STARTUP}) = Cardinality({NULLPROC}) + 1
      BY <1>4, <3>1, FS_AddElement
    <3>3. Alive = {NULLPROC} \cup {STARTUP}
      BY <2>3
    <3> QED
      BY <3>1, <3>2, <3>3
  <2> QED
    BY <1>1, <2>1, <2>2, <2>4 DEF KillsInv
<1> QED
  BY <1>5, <1>6, <1>7, <1>8, <1>9, <1>10 DEF KernelInv

\* One step per action.
LEMMA KernelStep == KernelInv /\ [Next]_vars => KernelInv'
<1> SUFFICES ASSUME KernelInv, [Next]_vars PROVE KernelInv'
  OBVIOUS
<1>1. ASSUME NEW p \in Pids, Resume(p) PROVE KernelInv'
  BY <1>1, ResumeKeeps
<1>2. ASSUME NEW p \in Pids, Suspend(p) PROVE KernelInv'
  BY <1>2, SuspendKeeps
<1>3. ASSUME NEW p \in Pids, Send(p) PROVE KernelInv'
  BY <1>3, SendKeeps
<1>4. ASSUME NEW p \in Pids, Kill(p) PROVE KernelInv'
  BY <1>4, KillKeeps
<1>5. ASSUME NEW p \in Pids, NEW prio \in Prios, Create(p, prio) PROVE KernelInv'
  BY <1>5, CreateKeeps
<1>6. ASSUME NEW p \in Pids, NEW prio \in Prios, Chprio(p, prio) PROVE KernelInv'
  BY <1>6, ChprioKeeps
<1>7. CASE Yield
  BY <1>7, YieldKeeps
<1>8. CASE Receive
  BY <1>8, ReceiveKeeps
<1>9. CASE RecvClr
  BY <1>9, RecvClrKeeps
<1>10. CASE Received
  BY <1>10, ReceivedKeeps
<1>11. ASSUME NEW d \in Waits, RecvTime(d) PROVE KernelInv'
  BY <1>11, RecvTimeKeeps
<1>12. ASSUME NEW d \in Delays, SleepMs(d) PROVE KernelInv'
  BY <1>12, SleepMsKeeps
<1>13. ASSUME NEW s \in Sems, NEW n \in Counts, SemCreate(s, n) PROVE KernelInv'
  BY <1>13, SemCreateKeeps
<1>14. ASSUME NEW s \in Sems, NEW n \in Counts, SemReset(s, n) PROVE KernelInv'
  BY <1>14, SemResetKeeps
<1>15. ASSUME NEW s \in Sems, NEW n \in Signals, SignalN(s, n) PROVE KernelInv'
  BY <1>15, SignalNKeeps
<1>16. ASSUME NEW s \in Sems, Wait(s) PROVE KernelInv'
  BY <1>16, WaitKeeps
<1>17. ASSUME NEW s \in Sems, SemDelete(s) PROVE KernelInv'
  BY <1>17, SemDeleteKeeps
<1>18. CASE ClockTick
  BY <1>18, ClockTickKeeps
<1>19. CASE ClockEnd
  BY <1>19, ClockEndKeeps
<1>20. CASE KillEnd
  BY <1>20, KillEndKeeps
<1>21. CASE UNCHANGED vars
  <2>1. /\ UNCHANGED <<prstate, readylist, currpid, preempt>> /\ UNCHANGED <<prprio, chprios>>
        /\ UNCHANGED <<sleepq, left>> /\ UNCHANGED prparent /\ UNCHANGED prcount
        /\ UNCHANGED <<semtab, prsem>> /\ UNCHANGED prhasmsg /\ UNCHANGED cont
    BY <1>21 DEF vars, sched, time, fixed, ends
  <2>2. UNCHANGED late /\ UNCHANGED clashed
    BY <1>21 DEF vars, time, ends
  <2>3. SchedInv'
    BY <2>1, SchedFrame DEF KernelInv
  <2>4. Moves({"CURR", "READY", "SUSP"})
    BY <2>1 DEF Moves
  <2> QED
    BY <2>1, <2>2, <2>3, <2>4, QuietSame
<1> QED
  BY <1>1, <1>2, <1>3, <1>4, <1>5, <1>6, <1>7, <1>8, <1>9, <1>10, <1>11, <1>12, <1>13, <1>14,
     <1>15, <1>16, <1>17, <1>18, <1>19, <1>20, <1>21 DEF Next

\* The invariant of the kernel holds of every state that system calls,
\* interrupts and switches in any order lead to.
THEOREM KernelInvHolds == Spec => []KernelInv
<1>1. Init => KernelInv
  BY KernelInitially
<1>2. KernelInv /\ [Next]_vars => KernelInv'
  BY KernelStep
<1> QED
  BY <1>1, <1>2, PTL DEF Spec

\* A list has one entry of each of its processes.
LEMMA OnceIn ==
    ASSUME NEW q, NEW S, Lists(q, S), NEW p \in Pids
    PROVE  LET ids == [i \in DOMAIN q |-> q[i].pid]
           IN  IF p \in S THEN \E i \in DOMAIN ids : ids[i] = p /\ \A j \in DOMAIN ids \ {i} : ids[j] # p
               ELSE ~\E i \in DOMAIN ids : ids[i] = p
  BY DEF Lists

LEMMA OnceQueued ==
    ASSUME NEW q, NEW S, Queues(q, S), NEW p \in Pids
    PROVE  IF p \in S THEN \E i \in DOMAIN q : q[i] = p /\ \A j \in DOMAIN q \ {i} : q[j] # p
           ELSE ~\E i \in DOMAIN q : q[i] = p
  BY DEF Queues

\* Ready, receiving, sleeping, waiting or suspended, a process is in the queue
\* its state names, once, and in no other; and a semaphore's count is the
\* number of those that wait for it.  ready(), getitem(), insert(), insertd(),
\* unsleep(), wakeup(), wait(), signal(), signaln(), semreset(), semdelete()
\* and kill() keep it so, in whatever order they come.
THEOREM QueuesRight == Spec => []QueuesAgree
<1>1. KernelInv => QueuesAgree
  <2> SUFFICES ASSUME KernelInv PROVE QueuesAgree
    OBVIOUS
  <2>1. /\ SchedOK(prstate, readylist, currpid) /\ SleepInv /\ SemInv
    BY DEF KernelInv, SchedInv
  <2>2. TypeOK
    <3>1. /\ prstate \in [Pids -> States] /\ prprio \in [Pids -> Prios \cup {0}] /\ prparent \in [Pids -> Pids]
          /\ prhasmsg \in [Pids -> BOOLEAN] /\ prsem \in [Pids -> 0..NSEM] /\ currpid \in Pids
          /\ preempt \in 1..QUANTUM /\ prcount \in Nat
      BY <2>1 DEF KernelInv, SchedInv, SchedOK, ContInv, SemInv, KillsInv
    <3> QED
      BY <3>1 DEF TypeOK, States
  <2>3. CountMatchesQueue
    BY <2>1 DEF SemInv, SemOK, Held, CountMatchesQueue
  <2>4. InOneQueue
    <3> DEFINE Once(q, p) == \E i \in DOMAIN q : q[i] = p /\ \A j \in DOMAIN q \ {i} : q[j] # p
               Pid(q) == [i \in DOMAIN q |-> q[i].pid]
               Holds(q, p) == \E i \in DOMAIN q : q[i] = p
    <3>1. ASSUME NEW p \in Pids PROVE prstate[p] = "CURR" <=> p = currpid
      BY <2>1 DEF SchedOK
    <3>2. ASSUME NEW p \in Pids
          PROVE  IF prstate[p] = "READY" THEN Once(Pid(readylist), p) ELSE ~Holds(Pid(readylist), p)
      <4> DEFINE S == {x \in Pids : prstate[x] = "READY"}
      <4>1. Lists(readylist, S) /\ (p \in S <=> prstate[p] = "READY")
        BY <2>1 DEF SchedOK
      <4> HIDE DEF S
      <4> QED
        BY <4>1, OnceIn
    <3>3. ASSUME NEW p \in Pids
          PROVE  IF prstate[p] \in {"SLEEP", "RECTIM"} THEN Once(Pid(sleepq), p) ELSE ~Holds(Pid(sleepq), p)
      <4> DEFINE S == Sleepers
      <4>1. Lists(sleepq, S) /\ (p \in S <=> prstate[p] \in {"SLEEP", "RECTIM"})
        BY <2>1 DEF SleepInv, Sleepers
      <4> HIDE DEF S
      <4> QED
        BY <4>1, OnceIn
    <3>4. ASSUME NEW p \in Pids, NEW s \in Sems
          PROVE  IF prstate[p] = "WAIT" /\ prsem[p] = s THEN Once(semtab[s].squeue, p) ELSE ~Holds(semtab[s].squeue, p)
      <4> DEFINE S == Waiters(s)
      <4>1. Queues(semtab[s].squeue, S) /\ (p \in S <=> prstate[p] = "WAIT" /\ prsem[p] = s)
        BY <2>1 DEF SemInv, SemOK, Waiters
      <4> HIDE DEF S
      <4> QED
        BY <4>1, OnceQueued
    <3> HIDE DEF Once, Pid, Holds
    <3>5. \A p \in Pids :
            /\ prstate[p] = "CURR" <=> p = currpid
            /\ IF prstate[p] = "READY" THEN Once(Pid(readylist), p) ELSE ~Holds(Pid(readylist), p)
            /\ IF prstate[p] \in {"SLEEP", "RECTIM"} THEN Once(Pid(sleepq), p) ELSE ~Holds(Pid(sleepq), p)
            /\ \A s \in Sems : IF prstate[p] = "WAIT" /\ prsem[p] = s THEN Once(semtab[s].squeue, p)
                               ELSE ~Holds(semtab[s].squeue, p)
      BY <3>1, <3>2, <3>3, <3>4
    <3> QED
      BY <3>5 DEF InOneQueue, Once, Pid, Holds
  <2> QED
    BY <2>2, <2>3, <2>4 DEF QueuesAgree
<1> QED
  BY <1>1, KernelInvHolds, PTL

\* As long as no priority has been changed, resched() leaves no ready process
\* of a higher priority than the one it lets run.
THEOREM HighestAlwaysRuns == Spec => []HighestRuns
<1>1. KernelInv => HighestRuns
  <2> SUFFICES ASSUME KernelInv, chprios = 0, NEW p \in Pids, prstate[p] = "READY"
               PROVE  prprio[p] <= prprio[currpid]
    BY DEF HighestRuns
  <2>1. TopRuns(prprio, readylist, currpid) /\ Lists(readylist, {x \in Pids : prstate[x] = "READY"})
    BY DEF KernelInv, SchedInv, SchedOK
  <2>2. PICK i \in DOMAIN readylist : readylist[i].pid = p
    BY <2>1 DEF Lists
  <2> QED
    BY <2>1, <2>2 DEF TopRuns, Keyed
<1> QED
  BY <1>1, KernelInvHolds, PTL

\* insertd(), unsleep() and the clock handler keep the times of all sleepers:
\* each is woken after the time it asked for, unless a wait of 0 ticks has
\* cost those that sleep with it a tick.
THEOREM AllWakeOnTime == Spec => []WakeOnTime
<1>1. KernelInv => WakeOnTime
  BY DEF KernelInv, TimeInv
<1> QED
  BY <1>1, KernelInvHolds, PTL

\* receive() finds its message when it gets the processor back, and until two
\* kills meet kill() finds the process it is killing, and prcount counts those
\* that are not being killed.
THEOREM CallsGoOn == Spec => []CallsResume
<1>1. KernelInv => CallsResume
  <2> SUFFICES ASSUME KernelInv PROVE CallsResume
    OBVIOUS
  <2>1. ReceiveHasMessage
    BY DEF KernelInv, ContInv, RecvInv, ReceiveHasMessage
  <2>2. KillsAgree
    BY DEF KernelInv, KillsInv, Alive, KillsAgree
  <2> QED
    BY <2>1, <2>2 DEF CallsResume
<1> QED
  BY <1>1, KernelInvHolds, PTL
=============================================================================
